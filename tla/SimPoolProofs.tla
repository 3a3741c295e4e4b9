--------------------------- MODULE SimPoolProofs ---------------------------
(***************************************************************************)
(* Proofs about the clone pools, for any presets, masters, calls and cap.  *)
(*                                                                         *)
(* SimPool: its type correctness, that no waiter of a mutex is left        *)
(* without somebody to wake it, and that no clone is forgotten or listed   *)
(* while it is torn down.  WarmSimPool, which runs on top of it: that its  *)
(* steps keep all of that, that a clone in a queue is alive, and that      *)
(* every managed clone has somebody who will give it back.                 *)
(***************************************************************************)
EXTENDS WarmSimPool, TLAPS, FiniteSetTheorems

-----------------------------------------------------------------------------
(* The strengthening. *)

\* A call of preset p that will run release(), or one that is about to take the
\* lock, when the calls are at "at" and made with the arguments req.
Holder(p, at, req) == \E c \in Calls : req[c].preset = p /\ at[c] \in Critical
Waker(p, at, req) ==
  \E c \in Calls : req[c].preset = p /\ at[c] \in Critical \cup {"woken"}

\* The queue q of preset p: different calls of that preset, all waiting.
QueueOK(q, p, at, req) ==
  /\ \A i \in 1..Len(q) : req[q[i]].preset = p /\ at[q[i]] = "queued"
  /\ \A i, j \in 1..Len(q) : q[i] = q[j] => i = j

QueueInv == \A p \in Presets : QueueOK(lock[p].queue, p, pc, request)

WakerInv ==
  \A p \in Presets :
    /\ lock[p].locked => Holder(p, pc, request)
    /\ lock[p].queue # <<>> => Waker(p, pc, request)

\* What the suspension point of acquire() says of the call's clone.
Stage(c) ==
  /\ pc[c] \in {"idle", "queued", "woken", "resolve", "stopMaster", "clone"} =>
       device[c] = "none" /\ c \notin clones /\ releasing[c] = "no"
  /\ pc[c] \in {"boot", "cleanup"} => c \notin clones /\ releasing[c] = "no"
  /\ pc[c] \in {"poll", "trim"} =>
       device[c] = "Booted" /\ c \notin clones /\ releasing[c] = "no"
  /\ pc[c] = "held" =>
       \/ c \in clones /\ device[c] = "Booted" /\ releasing[c] = "no"
       \/ c \notin clones /\ releasing[c] # "no"
  /\ pc[c] = "failed" =>
       /\ device[c] \notin {"Shutdown", "Booted"}
       /\ c \notin clones /\ releasing[c] = "no"
  /\ releasing[c] = "done" /\ ~ request[c].keep =>
       device[c] \notin {"Shutdown", "Booted"}

StageInv == \A c \in Calls : Stage(c)

IInv == TypeOK /\ QueueInv /\ WakerInv /\ StageInv

-----------------------------------------------------------------------------
(* Type correctness. *)

\* The pool starts with its types.
LEMMA InitType == Init => TypeOK
BY PoolConstants DEF Init, TypeOK, Free, Mutex, PCs, Closing

\* The presets' queues and locks are functions on the presets.
LEMMA PresetType ==
  ASSUME TypeOK, NEW c \in Calls
  PROVE  PresetOf(c) \in Presets
BY DEF TypeOK, Request, PresetOf

\* Who waits for a preset's mutex, and who holds it.
LEMMA MutexType ==
  ASSUME TypeOK, NEW p \in Presets
  PROVE  /\ lock[p] \in Mutex
         /\ lock[p].queue \in Seq(Calls)
         /\ lock[p].locked \in BOOLEAN
<1>1. lock[p] \in Mutex
  BY DEF TypeOK
<1> QED BY <1>1 DEF Mutex

\* Giving the mutex back keeps the types.
LEMMA UnlockType ==
  ASSUME TypeOK, NEW c \in Calls, NEW end \in {"held", "failed"}, Unlock(c, end)
  PROVE  /\ pc' \in [Calls -> PCs]
         /\ lock' \in [Presets -> Mutex]
<1>1. PresetOf(c) \in Presets
  BY PresetType
<1>2. lock[PresetOf(c)].queue \in Seq(Calls)
  BY <1>1, MutexType
<1>3. CASE lock[PresetOf(c)].queue = <<>>
  <2>1. /\ lock' = [lock EXCEPT ![PresetOf(c)].locked = FALSE]
        /\ pc' = [pc EXCEPT ![c] = end]
    BY <1>3 DEF Unlock
  <2>2. [lock[PresetOf(c)] EXCEPT !.locked = FALSE] \in Mutex
    BY <1>1, MutexType DEF Mutex
  <2> QED BY <2>1, <2>2 DEF TypeOK, PCs
<1>4. CASE lock[PresetOf(c)].queue # <<>>
  <2>1. /\ Head(lock[PresetOf(c)].queue) \in Calls
        /\ Tail(lock[PresetOf(c)].queue) \in Seq(Calls)
    BY <1>2, <1>4
  <2>2. [locked |-> FALSE, queue |-> Tail(lock[PresetOf(c)].queue)] \in Mutex
    BY <2>1 DEF Mutex
  <2>3. lock' = [lock EXCEPT ![PresetOf(c)] =
                   [locked |-> FALSE, queue |-> Tail(lock[PresetOf(c)].queue)]]
    BY <1>4 DEF Unlock
  <2>4. lock' \in [Presets -> Mutex]
    BY <2>2, <2>3 DEF TypeOK
  <2>5. pc' = [pc EXCEPT ![c] = end, ![Head(lock[PresetOf(c)].queue)] = "woken"]
    BY <1>4 DEF Unlock
  <2>6. pc' \in [Calls -> PCs]
    BY <2>1, <2>5 DEF TypeOK, PCs
  <2> QED BY <2>4, <2>6
<1> QED BY <1>3, <1>4

\* So does every start of an acquire.
LEMMA AcquireType ==
  ASSUME TypeOK, NEW c \in Calls, BeginAcquire(c)
  PROVE  /\ pc' \in [Calls -> PCs]
         /\ lock' \in [Presets -> Mutex]
<1>1. PresetOf(c) \in Presets
  BY PresetType
<1>2. /\ lock[PresetOf(c)] \in Mutex
      /\ lock[PresetOf(c)].queue \in Seq(Calls)
  BY <1>1, MutexType
<1>3. pc' \in [Calls -> PCs]
  BY DEF BeginAcquire, TypeOK, PCs, Critical
<1>4. Append(lock[PresetOf(c)].queue, c) \in Seq(Calls)
  BY <1>2
<1>5. /\ [lock[PresetOf(c)] EXCEPT !.queue = Append(@, c)] \in Mutex
      /\ [lock[PresetOf(c)] EXCEPT !.locked = TRUE] \in Mutex
  BY <1>2, <1>4 DEF Mutex
<1>6. \/ lock' = lock
      \/ lock' = [lock EXCEPT ![PresetOf(c)] =
                    [lock[PresetOf(c)] EXCEPT !.queue = Append(@, c)]]
      \/ lock' = [lock EXCEPT ![PresetOf(c)] =
                    [lock[PresetOf(c)] EXCEPT !.locked = TRUE]]
  BY DEF BeginAcquire
<1>7. lock' \in [Presets -> Mutex]
  BY <1>5, <1>6 DEF TypeOK
<1> QED BY <1>3, <1>7

\* Every step of the pool keeps its types.
LEMMA StepType == TypeOK /\ [PoolNext]_poolVars => TypeOK'
<1> SUFFICES ASSUME TypeOK, [PoolNext]_poolVars PROVE TypeOK'
  OBVIOUS
<1>1. CASE UNCHANGED poolVars
  BY <1>1 DEF TypeOK, poolVars
<1>2. ASSUME NEW c \in Calls, Acquire(c) PROVE TypeOK'
  <2>1. pc' \in [Calls -> PCs] /\ lock' \in [Presets -> Mutex]
    BY <1>2, AcquireType DEF Acquire
  <2> QED BY <1>2, <2>1 DEF Acquire, TypeOK
<1>3. ASSUME NEW c \in Calls, Enter(c) PROVE TypeOK'
  <2>1. [lock[PresetOf(c)] EXCEPT !.locked = TRUE] \in Mutex
    BY PresetType, MutexType DEF Mutex
  <2> QED BY <1>3, <2>1 DEF Enter, TypeOK, PCs, Critical
<1>4. ASSUME NEW c \in Calls, FailEarly(c) PROVE TypeOK'
  <2>1. pc' \in [Calls -> PCs] /\ lock' \in [Presets -> Mutex]
    BY <1>4, UnlockType DEF FailEarly
  <2> QED BY <1>4, <2>1 DEF FailEarly, TypeOK
<1>5. ASSUME NEW c \in Calls, Resolve(c) \/ StopMaster(c) \/ Clone(c) \/ Boot(c)
      PROVE  TypeOK'
  BY <1>5, ZenonT(40) DEF Resolve, StopMaster, Clone, Boot, TypeOK, PCs, Critical
<1>6. ASSUME NEW c \in Calls, PollBooted(c) \/ FailLate(c) \/ Garbled(c) PROVE TypeOK'
  BY <1>6, ZenonT(40) DEF PollBooted, FailLate, Garbled, TypeOK, PCs, Critical
<1>7. ASSUME NEW c \in Calls, Cleanup(c) PROVE TypeOK'
  <2>1. pc' \in [Calls -> PCs] /\ lock' \in [Presets -> Mutex]
    BY <1>7, UnlockType DEF Cleanup
  <2> QED BY <1>7, <2>1 DEF Cleanup, TypeOK
<1>8. ASSUME NEW c \in Calls, Register(c) PROVE TypeOK'
  <2>1. pc' \in [Calls -> PCs] /\ lock' \in [Presets -> Mutex]
    BY <1>8, UnlockType DEF Register
  <2> QED BY <1>8, <2>1 DEF Register, TypeOK
<1>9. ASSUME NEW c \in Calls, Release(c) \/ ReleaseStep(c) PROVE TypeOK'
  BY <1>9 DEF Release, StartRelease, ReleaseStep, ReleaseStop, ReleaseDelete, TypeOK
<1>10. ASSUME Shutdown \/ ShutdownAwaited \/ ShutdownDone PROVE TypeOK'
  BY <1>10 DEF Shutdown, ShutdownAwaited, ShutdownDone, TypeOK, Closing
<1>11. ASSUME NEW c \in Calls, ShutdownNext(c) PROVE TypeOK'
  BY <1>11, ZenonT(40) DEF ShutdownNext, StartRelease, TypeOK, Closing
<1>12. ASSUME NEW m \in Masters, MasterBoots(m) PROVE TypeOK'
  BY <1>12 DEF MasterBoots, TypeOK
<1> QED
  BY <1>1, <1>2, <1>3, <1>4, <1>5, <1>6, <1>7, <1>8, <1>9, <1>10, <1>11, <1>12
     DEF PoolNext, AcquireStep, ShutdownStep

\* The pool's state keeps its shape, for any number of presets, masters and calls.
THEOREM TypeCorrect == Spec => []TypeOK
BY InitType, StepType, PTL DEF Spec

-----------------------------------------------------------------------------
(* Facts about one queue. *)

\* A queue whose calls stay queued stays right,
LEMMA QueueFrame ==
  ASSUME NEW q \in Seq(Calls), NEW p, NEW at, NEW at2, NEW req, QueueOK(q, p, at, req),
         \A k \in Calls : at[k] = "queued" => at2[k] = "queued"
  PROVE  QueueOK(q, p, at2, req)
<1>1. \A i \in 1..Len(q) : q[i] \in Calls
  OBVIOUS
<1> QED BY <1>1 DEF QueueOK

\* and so does one that a new call joins at the end,
LEMMA QueueAppend ==
  ASSUME NEW q \in Seq(Calls), NEW p, NEW at, NEW at2, NEW req, QueueOK(q, p, at, req),
         NEW c \in Calls, at[c] # "queued", at2[c] = "queued", req[c].preset = p,
         \A k \in Calls : at[k] = "queued" => at2[k] = "queued"
  PROVE  QueueOK(Append(q, c), p, at2, req)
<1>1. \A i \in 1..Len(q) : q[i] \in Calls
  OBVIOUS
<1>2. \A i \in 1..Len(q) :
        req[q[i]].preset = p /\ at2[q[i]] = "queued" /\ q[i] # c
  BY <1>1 DEF QueueOK
<1>3. /\ Len(Append(q, c)) = Len(q) + 1
      /\ \A i \in 1..Len(q) : Append(q, c)[i] = q[i]
      /\ Append(q, c)[Len(q) + 1] = c
      /\ Len(q) \in Nat
  OBVIOUS
<1>4. \A i \in 1..(Len(q) + 1) : i \in 1..Len(q) \/ i = Len(q) + 1
  BY <1>3
<1>5. \A i \in 1..Len(Append(q, c)) :
        req[Append(q, c)[i]].preset = p /\ at2[Append(q, c)[i]] = "queued"
  BY <1>2, <1>3, <1>4
<1>6. \A i, j \in 1..Len(Append(q, c)) : Append(q, c)[i] = Append(q, c)[j] => i = j
  BY <1>2, <1>3, <1>4 DEF QueueOK
<1> QED BY <1>5, <1>6 DEF QueueOK

\* and one whose first call is let in.
LEMMA QueueTail ==
  ASSUME NEW q \in Seq(Calls), NEW p, NEW at, NEW at2, NEW req, QueueOK(q, p, at, req),
         q # <<>>,
         \A k \in Calls : k # Head(q) /\ at[k] = "queued" => at2[k] = "queued"
  PROVE  QueueOK(Tail(q), p, at2, req)
<1>1. \A i \in 1..Len(q) : q[i] \in Calls
  OBVIOUS
<1>2. /\ Len(Tail(q)) = Len(q) - 1
      /\ \A i \in 1..Len(Tail(q)) : Tail(q)[i] = q[i + 1]
      /\ Head(q) = q[1]
      /\ Len(q) \in Nat \ {0}
  OBVIOUS
<1>3. \A i \in 1..Len(Tail(q)) : i + 1 \in 1..Len(q) /\ i + 1 # 1 /\ 1 \in 1..Len(q)
  BY <1>2
<1>4. \A i \in 1..Len(Tail(q)) : Tail(q)[i] \in Calls /\ Tail(q)[i] # Head(q)
  BY <1>1, <1>2, <1>3 DEF QueueOK
<1>5. \A i \in 1..Len(Tail(q)) :
        req[Tail(q)[i]].preset = p /\ at2[Tail(q)[i]] = "queued"
  BY <1>2, <1>3, <1>4 DEF QueueOK
<1>6. \A i, j \in 1..Len(Tail(q)) : Tail(q)[i] = Tail(q)[j] => i = j
  <2> TAKE i, j \in 1..Len(Tail(q))
  <2>1. Tail(q)[i] = Tail(q)[j] => i + 1 = j + 1
    BY <1>2, <1>3 DEF QueueOK
  <2> QED BY <2>1, <1>2
<1> QED BY <1>5, <1>6 DEF QueueOK

-----------------------------------------------------------------------------
(* The mutexes: how each kind of step treats queues and wakers. *)

MutexInv == QueueInv /\ WakerInv

\* The same of the mutexes lk, with the calls at "at" and made with the arguments req.
MutexOK(lk, at, req) ==
  \A p \in Presets :
    /\ QueueOK(lk[p].queue, p, at, req)
    /\ lk[p].locked => Holder(p, at, req)
    /\ lk[p].queue # <<>> => Waker(p, at, req)

\* What is right for the arguments that were there is right for others of the same presets.
LEMMA MutexRequests ==
  ASSUME MutexOK(lock', pc', request), lock' \in [Presets -> Mutex],
         \A k \in Calls : request'[k].preset = request[k].preset
  PROVE  MutexInv'
<1> SUFFICES ASSUME NEW p \in Presets
             PROVE  /\ QueueOK(lock'[p].queue, p, pc', request')
                    /\ lock'[p].locked => Holder(p, pc', request')
                    /\ lock'[p].queue # <<>> => Waker(p, pc', request')
  BY DEF MutexInv, QueueInv, WakerInv
<1>1. lock'[p].queue \in Seq(Calls)
  BY DEF Mutex
<1>2. \A i \in 1..Len(lock'[p].queue) : lock'[p].queue[i] \in Calls
  BY <1>1
<1> QED BY <1>2 DEF MutexOK, QueueOK, Holder, Waker

\* At the start nobody waits for a mutex.
LEMMA InitMutex == Init => MutexInv
<1>1. ASSUME NEW p, NEW at, NEW req PROVE QueueOK(<<>>, p, at, req)
  BY DEF QueueOK
<1> QED BY <1>1 DEF Init, MutexInv, QueueInv, WakerInv, Free

\* A step that moves one call inside the critical section, or moves none.
LEMMA SameMutex ==
  ASSUME TypeOK, MutexInv, lock' = lock, request' = request,
         \/ pc' = pc
         \/ \E c \in Calls, x \in Critical : pc[c] \in Critical /\ pc' = [pc EXCEPT ![c] = x]
  PROVE  MutexInv'
<1>1. \A c \in Calls : /\ pc[c] \in Critical => pc'[c] \in Critical
                       /\ pc[c] \in {"queued", "woken"} => pc'[c] = pc[c]
  BY DEF TypeOK, Critical
<1>2. QueueInv'
  BY <1>1, QueueFrame, MutexType DEF QueueInv, MutexInv
<1>3. WakerInv'
  BY <1>1 DEF WakerInv, Waker, Holder, MutexInv
<1> QED BY <1>2, <1>3 DEF MutexInv

\* An acquire that comes joins the queue of its preset.
LEMMA AcquireMutex ==
  ASSUME TypeOK, MutexInv, NEW c \in Calls, BeginAcquire(c)
  PROVE  MutexOK(lock', pc', request)
<1>1. PICK p \in Presets : p = PresetOf(c)
  BY PresetType
<1>2. \A k \in Calls : k # c => pc'[k] = pc[k]
  BY DEF BeginAcquire, TypeOK
<1>3. pc[c] = "idle" /\ request[c].preset = p
  BY <1>1 DEF BeginAcquire, PresetOf
<1>4. \A k \in Calls : pc[k] = "queued" => pc'[k] = "queued"
  BY <1>2, <1>3
<1>5. \A r \in Presets : /\ Waker(r, pc, request) => Waker(r, pc', request)
                         /\ Holder(r, pc, request) => Holder(r, pc', request)
  BY <1>2, <1>3 DEF Waker, Holder, Critical
<1>6. \A r \in Presets : QueueOK(lock[r].queue, r, pc', request)
  BY <1>4, QueueFrame, MutexType DEF QueueInv, MutexInv
<1>7. CASE lock' = lock
  BY <1>5, <1>6, <1>7 DEF MutexInv, WakerInv, MutexOK
<1>8. CASE /\ lock[p].locked
           /\ pc'   = [pc EXCEPT ![c] = "queued"]
           /\ lock' = [lock EXCEPT ![p].queue = Append(@, c)]
  <2>1. /\ \A r \in Presets : r # p => lock'[r] = lock[r]
        /\ lock'[p].queue = Append(lock[p].queue, c)
        /\ lock'[p].locked = lock[p].locked
    BY <1>8, MutexType DEF TypeOK, Mutex
  <2>2. pc'[c] = "queued"
    BY <1>8 DEF TypeOK
  <2>3. QueueOK(lock[p].queue, p, pc, request) /\ lock[p].queue \in Seq(Calls)
    BY MutexType DEF MutexInv, QueueInv
  <2>4. QueueOK(Append(lock[p].queue, c), p, pc', request)
    BY <1>3, <1>4, <2>2, <2>3, QueueAppend
  <2>5. \A r \in Presets : QueueOK(lock'[r].queue, r, pc', request)
    BY <1>6, <2>1, <2>4
  <2>6. Holder(p, pc', request)
    BY <1>5, <1>8 DEF MutexInv, WakerInv
  <2>7. Waker(p, pc', request)
    BY <2>6 DEF Waker, Holder
  <2> QED BY <2>1, <2>5, <2>6, <2>7, <1>5 DEF MutexInv, WakerInv, MutexOK
<1>9. CASE /\ pc'   = [pc EXCEPT ![c] = "resolve"]
           /\ lock' = [lock EXCEPT ![p].locked = TRUE]
  <2>1. /\ \A r \in Presets : r # p => lock'[r] = lock[r]
        /\ lock'[p].queue = lock[p].queue
    BY <1>9, MutexType DEF TypeOK, Mutex
  <2>2. \A r \in Presets : QueueOK(lock'[r].queue, r, pc', request)
    BY <1>6, <2>1
  <2>3. pc'[c] = "resolve"
    BY <1>9 DEF TypeOK
  <2>4. Holder(p, pc', request) /\ Waker(p, pc', request)
    BY <2>3, <1>3 DEF Holder, Waker, Critical
  <2> QED BY <2>1, <2>2, <2>4, <1>5 DEF MutexInv, WakerInv, MutexOK
<1> QED BY <1>1, <1>7, <1>8, <1>9 DEF BeginAcquire

\* The first of a free mutex's queue goes in.
LEMMA EnterMutex ==
  ASSUME TypeOK, MutexInv, NEW c \in Calls, Enter(c)
  PROVE  MutexInv'
<1>1. PICK p \in Presets : p = PresetOf(c)
  BY PresetType
<1>2. /\ pc[c] = "woken" /\ pc'[c] = "resolve"
      /\ \A k \in Calls : k # c => pc'[k] = pc[k]
      /\ request' = request /\ request[c].preset = p
  BY <1>1 DEF Enter, TypeOK, PresetOf
<1>3. /\ \A r \in Presets : r # p => lock'[r] = lock[r]
      /\ lock'[p].queue = lock[p].queue
  BY <1>1, MutexType DEF Enter, TypeOK, Mutex
<1>4. QueueInv'
  BY <1>2, <1>3, QueueFrame, MutexType DEF MutexInv, QueueInv
<1>5. Holder(p, pc', request') /\ Waker(p, pc', request')
  BY <1>2 DEF Holder, Waker, Critical
<1>6. \A r \in Presets : r # p => /\ Waker(r, pc, request) => Waker(r, pc', request')
                                  /\ Holder(r, pc, request) => Holder(r, pc', request')
  BY <1>2 DEF Waker, Holder, Critical
<1>7. WakerInv'
  BY <1>3, <1>5, <1>6 DEF MutexInv, WakerInv
<1> QED BY <1>4, <1>7 DEF MutexInv

\* Who leaves the mutex lets the next one in.
LEMMA UnlockMutex ==
  ASSUME TypeOK, MutexInv, NEW c \in Calls, NEW end \in {"held", "failed"},
         pc[c] \in Critical, Unlock(c, end), request' = request
  PROVE  MutexInv'
<1>1. PICK p \in Presets : p = PresetOf(c)
  BY PresetType
<1>2. request[c].preset = p
  BY <1>1 DEF PresetOf
<1>3. lock[p].queue \in Seq(Calls) /\ QueueOK(lock[p].queue, p, pc, request)
  BY MutexType DEF MutexInv, QueueInv
<1>4. CASE /\ lock[p].queue = <<>>
           /\ lock' = [lock EXCEPT ![p].locked = FALSE]
           /\ pc' = [pc EXCEPT ![c] = end]
  <2>1. /\ \A r \in Presets : r # p => lock'[r] = lock[r]
        /\ lock'[p].queue = <<>>
        /\ lock'[p].locked = FALSE
        /\ \A k \in Calls : k # c => pc'[k] = pc[k]
    BY <1>4, MutexType DEF TypeOK, Mutex
  <2>2. \A r \in Presets : lock'[r].queue = lock[r].queue
    BY <2>1, <1>4
  <2>3. \A k \in Calls : pc[k] = "queued" => pc'[k] = "queued"
    BY <2>1 DEF Critical
  <2>4. QueueInv'
    BY <2>2, <2>3, QueueFrame, MutexType DEF MutexInv, QueueInv
  <2>5. \A r \in Presets : r # p => /\ Waker(r, pc, request) => Waker(r, pc', request')
                                    /\ Holder(r, pc, request) => Holder(r, pc', request')
    BY <2>1, <1>2 DEF Waker, Holder
  <2>6. WakerInv'
    BY <2>1, <2>5 DEF MutexInv, WakerInv
  <2> QED BY <2>4, <2>6 DEF MutexInv
<1>5. CASE /\ lock[p].queue # <<>>
           /\ lock' = [lock EXCEPT ![p] = [locked |-> FALSE, queue |-> Tail(lock[p].queue)]]
           /\ pc' = [pc EXCEPT ![c] = end, ![Head(lock[p].queue)] = "woken"]
  <2>1. PICK h \in Calls : h = Head(lock[p].queue)
    BY <1>3, <1>5
  <2>2. h = lock[p].queue[1] /\ 1 \in 1..Len(lock[p].queue)
    BY <1>3, <1>5, <2>1
  <2>3. request[h].preset = p /\ pc[h] = "queued"
    BY <1>3, <2>2 DEF QueueOK
  <2>4. /\ \A r \in Presets : r # p => lock'[r] = lock[r]
        /\ lock'[p].queue = Tail(lock[p].queue)
        /\ lock'[p].locked = FALSE
    BY <1>5 DEF TypeOK
  <2>5. /\ pc'[h] = "woken"
        /\ \A k \in Calls : k # c /\ k # h => pc'[k] = pc[k]
    BY <1>5, <2>1 DEF TypeOK
  <2>6. \A k \in Calls : k # h /\ pc[k] = "queued" => pc'[k] = "queued"
    BY <2>5 DEF Critical
  <2>7. QueueOK(Tail(lock[p].queue), p, pc', request)
    BY <1>3, <1>5, <2>1, <2>6, QueueTail
  <2>8. \A r \in Presets : r # p => QueueOK(lock[r].queue, r, pc', request)
    <3> SUFFICES ASSUME NEW r \in Presets, r # p
                 PROVE  QueueOK(lock[r].queue, r, pc', request)
      OBVIOUS
    <3>1. QueueOK(lock[r].queue, r, pc, request) /\ lock[r].queue \in Seq(Calls)
      BY MutexType DEF MutexInv, QueueInv
    <3>2. \A i \in 1..Len(lock[r].queue) : lock[r].queue[i] \in Calls
      BY <3>1
    <3>3. \A i \in 1..Len(lock[r].queue) : lock[r].queue[i] # h
      BY <3>1, <2>3 DEF QueueOK
    <3> QED BY <3>1, <3>2, <3>3, <2>6 DEF QueueOK
  <2>9. QueueInv'
    BY <2>4, <2>7, <2>8 DEF QueueInv
  <2>10. Waker(p, pc', request')
    BY <2>3, <2>5 DEF Waker
  <2>11. \A r \in Presets : r # p => /\ Waker(r, pc, request) => Waker(r, pc', request')
                                     /\ Holder(r, pc, request) => Holder(r, pc', request')
    BY <2>3, <2>5, <1>2 DEF Waker, Holder
  <2>12. WakerInv'
    BY <2>4, <2>10, <2>11 DEF MutexInv, WakerInv
  <2> QED BY <2>9, <2>12 DEF MutexInv
<1> QED BY <1>1, <1>4, <1>5 DEF Unlock

\* Every step of the pool keeps the mutexes' invariant.
LEMMA StepMutex == TypeOK /\ MutexInv /\ [PoolNext]_poolVars => MutexInv'
<1> SUFFICES ASSUME TypeOK, MutexInv, [PoolNext]_poolVars PROVE MutexInv'
  OBVIOUS
<1>1. CASE UNCHANGED <<pc, lock, request>>
  BY <1>1, SameMutex
<1>2. ASSUME NEW c \in Calls, Acquire(c) PROVE MutexInv'
  <2>1. MutexOK(lock', pc', request) /\ lock' \in [Presets -> Mutex] /\ request' = request
    BY <1>2, AcquireMutex, AcquireType DEF Acquire
  <2> QED BY <2>1, MutexRequests
<1>3. ASSUME NEW c \in Calls, Enter(c) PROVE MutexInv'
  BY <1>3, EnterMutex
<1>4. ASSUME NEW c \in Calls, FailEarly(c) PROVE MutexInv'
  <2>1. pc[c] \in Critical /\ Unlock(c, "failed") /\ request' = request
    BY <1>4 DEF FailEarly, Critical
  <2> QED BY <2>1, UnlockMutex
<1>5. ASSUME NEW c \in Calls,
             \/ Resolve(c) \/ StopMaster(c) \/ Clone(c) \/ Boot(c)
             \/ PollBooted(c) \/ FailLate(c) \/ Garbled(c)
      PROVE  MutexInv'
  <2>1. /\ lock' = lock /\ request' = request /\ pc[c] \in Critical
        /\ \E x \in Critical : pc' = [pc EXCEPT ![c] = x]
    BY <1>5 DEF Resolve, StopMaster, Clone, Boot, PollBooted, FailLate, Garbled, Critical
  <2> QED BY <2>1, SameMutex
<1>6. ASSUME NEW c \in Calls, Cleanup(c) PROVE MutexInv'
  <2>1. pc[c] \in Critical /\ Unlock(c, "failed") /\ request' = request
    BY <1>6 DEF Cleanup, Critical
  <2> QED BY <2>1, UnlockMutex
<1>7. ASSUME NEW c \in Calls, Register(c) PROVE MutexInv'
  <2>1. pc[c] \in Critical /\ Unlock(c, "held") /\ request' = request
    BY <1>7 DEF Register, Critical
  <2> QED BY <2>1, UnlockMutex
<1>8. ASSUME NEW c \in Calls, Release(c) \/ ReleaseStep(c) PROVE MutexInv'
  BY <1>8, <1>1 DEF Release, ReleaseStep, ReleaseStop, ReleaseDelete
<1>9. ASSUME Shutdown \/ ShutdownStep PROVE MutexInv'
  BY <1>9, <1>1 DEF Shutdown, ShutdownStep, ShutdownNext, ShutdownAwaited, ShutdownDone
<1>10. ASSUME NEW m \in Masters, MasterBoots(m) PROVE MutexInv'
  BY <1>10, <1>1 DEF MasterBoots
<1>11. CASE UNCHANGED poolVars
  BY <1>11, <1>1 DEF poolVars
<1> QED
  BY <1>2, <1>3, <1>4, <1>5, <1>6, <1>7, <1>8, <1>9, <1>10, <1>11
     DEF PoolNext, AcquireStep

-----------------------------------------------------------------------------
(* The clones. *)

\* At the start no simulator is at any stage.
LEMMA InitStage == Init => StageInv
BY DEF Init, StageInv, Stage

\* Calls whose clone and suspension point a step does not touch keep their stage.
LEMMA StageFrame ==
  ASSUME NEW k \in Calls, Stage(k), pc'[k] = pc[k], device'[k] = device[k],
         releasing'[k] = releasing[k], k \in clones' <=> k \in clones, request' = request
  PROVE  Stage(k)'
BY DEF Stage

\* The effect of release() of the mutex on the suspension points: besides the
\* call itself at most one waiting call moves, and only to "woken".
LEMMA UnlockMoves ==
  ASSUME TypeOK, QueueInv, NEW c \in Calls, NEW end \in {"held", "failed"},
         pc[c] # "queued", Unlock(c, end)
  PROVE  /\ pc'[c] = end
         /\ \A k \in Calls : k # c => \/ pc'[k] = pc[k]
                                      \/ pc[k] = "queued" /\ pc'[k] = "woken"
<1>1. PICK p \in Presets : p = PresetOf(c)
  BY PresetType
<1>2. lock[p].queue \in Seq(Calls) /\ QueueOK(lock[p].queue, p, pc, request)
  BY MutexType DEF QueueInv
<1>3. CASE pc' = [pc EXCEPT ![c] = end]
  BY <1>3 DEF TypeOK
<1>4. CASE /\ lock[p].queue # <<>>
           /\ pc' = [pc EXCEPT ![c] = end, ![Head(lock[p].queue)] = "woken"]
  <2>1. PICK h \in Calls : h = Head(lock[p].queue)
    BY <1>2, <1>4
  <2>2. h = lock[p].queue[1] /\ 1 \in 1..Len(lock[p].queue)
    BY <1>2, <1>4, <2>1
  <2>3. pc[h] = "queued"
    BY <1>2, <2>2 DEF QueueOK
  <2> QED BY <1>4, <2>1, <2>3 DEF TypeOK
<1> QED BY <1>1, <1>3, <1>4 DEF Unlock

\* A waiter that is woken keeps its stage: it has no clone yet.
LEMMA UnlockStage ==
  ASSUME StageInv, NEW c \in Calls, request' = request,
         \A k \in Calls : k # c => /\ device'[k] = device[k]
                                   /\ releasing'[k] = releasing[k]
                                   /\ k \in clones' <=> k \in clones
                                   /\ \/ pc'[k] = pc[k]
                                      \/ pc[k] = "queued" /\ pc'[k] = "woken"
  PROVE  \A k \in Calls : k # c => Stage(k)'
<1> SUFFICES ASSUME NEW k \in Calls, k # c PROVE Stage(k)'
  OBVIOUS
<1>1. Stage(k)
  BY DEF StageInv
<1>2. CASE pc'[k] = pc[k]
  BY <1>1, <1>2, StageFrame
<1>3. CASE pc[k] = "queued" /\ pc'[k] = "woken"
  BY <1>1, <1>3 DEF Stage
<1> QED BY <1>2, <1>3

\* A clone that begins to be released has left the pool.
LEMMA ReleaseStage ==
  ASSUME TypeOK, StageInv, NEW c \in Calls, StartRelease(c), UNCHANGED <<pc, request, device>>
  PROVE  StageInv'
<1>1. /\ \A k \in Calls : k # c => /\ releasing'[k] = releasing[k]
                                   /\ k \in clones' <=> k \in clones
      /\ c \in clones /\ c \notin clones' /\ releasing'[c] = "stop"
  BY DEF StartRelease, TypeOK
<1>2. Stage(c)'
  BY <1>1 DEF StageInv, Stage, TypeOK, PCs, Critical
<1> QED BY <1>1, <1>2, StageFrame DEF StageInv

\* Every step keeps what is known of each simulator by the stage of its call.
LEMMA StepStage == TypeOK /\ QueueInv /\ StageInv /\ [PoolNext]_poolVars => StageInv'
<1> SUFFICES ASSUME TypeOK, QueueInv, StageInv, [PoolNext]_poolVars
             PROVE  StageInv'
  OBVIOUS
<1>1. ASSUME NEW c \in Calls, Acquire(c) PROVE StageInv'
  <2>1. /\ \A k \in Calls : k # c => pc'[k] = pc[k]
        /\ pc[c] = "idle" /\ pc'[c] \in {"failed", "queued", "resolve"}
    BY <1>1 DEF Acquire, BeginAcquire, TypeOK
  <2>2. Stage(c)'
    BY <1>1, <2>1 DEF Acquire, StageInv, Stage
  <2> QED BY <1>1, <2>1, <2>2, StageFrame DEF Acquire, StageInv
<1>2. ASSUME NEW c \in Calls, Enter(c) PROVE StageInv'
  <2>1. /\ \A k \in Calls : k # c => pc'[k] = pc[k]
        /\ pc[c] = "woken" /\ pc'[c] = "resolve"
    BY <1>2 DEF Enter, TypeOK
  <2>2. Stage(c)'
    BY <1>2, <2>1 DEF Enter, StageInv, Stage
  <2> QED BY <1>2, <2>1, <2>2, StageFrame DEF Enter, StageInv
<1>3. ASSUME NEW c \in Calls, FailEarly(c) PROVE StageInv'
  <2>1. /\ pc'[c] = "failed"
        /\ \A k \in Calls : k # c => \/ pc'[k] = pc[k]
                                     \/ pc[k] = "queued" /\ pc'[k] = "woken"
    BY <1>3, UnlockMoves DEF FailEarly
  <2>2. /\ device'[c] \in {"none", "stray"}
        /\ c \notin clones /\ releasing[c] = "no"
        /\ \A k \in Calls : k # c => device'[k] = device[k]
        /\ UNCHANGED <<clones, releasing, request>>
    BY <1>3 DEF FailEarly, StageInv, Stage, TypeOK
  <2>3. Stage(c)'
    BY <2>1, <2>2 DEF Stage
  <2>4. \A k \in Calls : k # c => Stage(k)'
    BY <2>1, <2>2, UnlockStage
  <2> QED BY <2>3, <2>4 DEF StageInv
<1>4. ASSUME NEW c \in Calls,
             Resolve(c) \/ StopMaster(c) \/ PollBooted(c)
      PROVE  StageInv'
  <2>1. /\ \A k \in Calls : k # c => pc'[k] = pc[k]
        /\ UNCHANGED <<device, clones, releasing, request>>
    BY <1>4 DEF Resolve, StopMaster, PollBooted, TypeOK
  <2>2. Stage(c)'
    BY <1>4 DEF Resolve, StopMaster, PollBooted, StageInv, Stage, TypeOK
  <2> QED BY <2>1, <2>2, StageFrame DEF StageInv
<1>5. ASSUME NEW c \in Calls, Clone(c) \/ Boot(c) \/ Garbled(c) \/ FailLate(c)
      PROVE  StageInv'
  <2>1. /\ \A k \in Calls : k # c => pc'[k] = pc[k] /\ device'[k] = device[k]
        /\ UNCHANGED <<clones, releasing, request>>
    BY <1>5 DEF Clone, Boot, Garbled, FailLate, TypeOK
  <2>2. Stage(c)'
    BY <1>5 DEF Clone, Boot, Garbled, FailLate, StageInv, Stage, TypeOK
  <2> QED BY <2>1, <2>2, StageFrame DEF StageInv
<1>6. ASSUME NEW c \in Calls, Cleanup(c) PROVE StageInv'
  <2>1. /\ pc'[c] = "failed"
        /\ \A k \in Calls : k # c => \/ pc'[k] = pc[k]
                                     \/ pc[k] = "queued" /\ pc'[k] = "woken"
    BY <1>6, UnlockMoves DEF Cleanup
  <2>2. /\ device'[c] \in {"deleted", "stuck", "none", "stray"}
        /\ \A k \in Calls : k # c => device'[k] = device[k]
        /\ UNCHANGED <<clones, releasing, request>> /\ pc[c] = "cleanup"
    BY <1>6 DEF Cleanup, TypeOK
  <2>3. Stage(c)'
    BY <2>1, <2>2 DEF StageInv, Stage
  <2>4. \A k \in Calls : k # c => Stage(k)'
    BY <2>1, <2>2, UnlockStage
  <2> QED BY <2>3, <2>4 DEF StageInv
<1>7. ASSUME NEW c \in Calls, Register(c) PROVE StageInv'
  <2>1. /\ pc'[c] = "held"
        /\ \A k \in Calls : k # c => \/ pc'[k] = pc[k]
                                     \/ pc[k] = "queued" /\ pc'[k] = "woken"
    BY <1>7, UnlockMoves DEF Register
  <2>2. /\ UNCHANGED <<device, releasing, request>> /\ pc[c] = "trim"
        /\ clones' = clones \cup {c}
    BY <1>7 DEF Register
  <2>3. Stage(c)'
    BY <2>1, <2>2 DEF StageInv, Stage
  <2>4. \A k \in Calls : k # c => Stage(k)'
    BY <2>1, <2>2, UnlockStage
  <2> QED BY <2>3, <2>4 DEF StageInv
<1>8. ASSUME NEW c \in Calls, StartRelease(c), UNCHANGED <<pc, request, device>>
      PROVE  StageInv'
  BY <1>8, ReleaseStage
<1>9. ASSUME NEW c \in Calls, ReleaseStep(c) PROVE StageInv'
  <2>1. /\ \A k \in Calls : k # c => /\ releasing'[k] = releasing[k]
                                     /\ device'[k] = device[k]
        /\ UNCHANGED <<pc, request, clones>>
        /\ releasing[c] \in {"stop", "delete"} /\ releasing'[c] \in {"delete", "done"}
        /\ releasing'[c] = "done" /\ ~ request[c].keep => device'[c] \in {"deleted", "stuck"}
    BY <1>9 DEF ReleaseStep, ReleaseStop, ReleaseDelete, TypeOK
  <2>2. pc[c] = "held" /\ c \notin clones
    BY <2>1 DEF StageInv, Stage, TypeOK, PCs, Critical
  <2>3. Stage(c)'
    BY <2>1, <2>2 DEF StageInv, Stage
  <2> QED BY <2>1, <2>3, StageFrame DEF StageInv
<1>10. CASE UNCHANGED <<pc, request, device, clones, releasing>>
  BY <1>10, StageFrame DEF StageInv
<1>11. ASSUME NEW c \in Calls, Release(c) PROVE StageInv'
  BY <1>11, <1>8 DEF Release
<1>12. ASSUME NEW c \in Calls, ShutdownNext(c) PROVE StageInv'
  BY <1>12, <1>8, <1>10 DEF ShutdownNext
<1>13. ASSUME Shutdown \/ ShutdownAwaited \/ ShutdownDone PROVE StageInv'
  BY <1>13, <1>10 DEF Shutdown, ShutdownAwaited, ShutdownDone
<1>14. ASSUME NEW m \in Masters, MasterBoots(m) PROVE StageInv'
  BY <1>14, <1>10 DEF MasterBoots
<1>15. CASE UNCHANGED poolVars
  BY <1>15, <1>10 DEF poolVars
<1> QED
  BY <1>1, <1>2, <1>3, <1>4, <1>5, <1>6, <1>7, <1>9, <1>11, <1>12, <1>13, <1>14, <1>15
     DEF PoolNext, AcquireStep, ShutdownStep

-----------------------------------------------------------------------------
\* The strengthening is an invariant of the base pool.
THEOREM Inductive == Spec => []IInv
<1>1. Init => IInv
  BY InitType, InitMutex, InitStage DEF IInv, MutexInv
<1>2. IInv /\ [PoolNext]_poolVars => IInv'
  BY StepType, StepMutex, StepStage DEF IInv, MutexInv
<1> QED BY <1>1, <1>2, PTL DEF Spec

\* A waiter in a mutex's queue always has somebody who will wake it, although
\* release() frees the mutex before the waiter takes it.
THEOREM NoLostWakeup == Spec => []WaitersHaveAWaker
<1>1. IInv => WaitersHaveAWaker
  BY DEF IInv, WakerInv, Waker, WaitersHaveAWaker, PresetOf
<1> QED BY <1>1, Inductive, PTL

\* What the pool lists is booted and not being released.
THEOREM ManagedClonesBooted == Spec => []ManagedAreBooted
<1>1. IInv => ManagedAreBooted
  BY DEF IInv, StageInv, Stage, ManagedAreBooted, TypeOK, PCs, Critical
<1> QED BY <1>1, Inductive, PTL

\* No simulator the pool could delete is forgotten.
THEOREM NoCloneForgotten == Spec => []NoOrphan
<1>1. IInv => NoOrphan
  BY DEF IInv, StageInv, Stage, NoOrphan, TypeOK, PCs, Critical
<1> QED BY <1>1, Inductive, PTL

-----------------------------------------------------------------------------
(* Queues of the warm pool, as sets. *)

\* Taking the head off a queue takes it out of the set.
LEMMA SetOfTail ==
  ASSUME NEW S, NEW q \in Seq(S), q # <<>>, IsInjective(q)
  PROVE  /\ Head(q) \in ToSet(q) /\ Tail(q) \in Seq(S)
         /\ ToSet(Tail(q)) = ToSet(q) \ {Head(q)}
         /\ IsInjective(Tail(q))
<1>1. /\ Len(q) \in Nat \ {0} /\ DOMAIN q = 1..Len(q)
      /\ Tail(q) \in Seq(S) /\ Head(q) = q[1]
      /\ DOMAIN Tail(q) = 1..(Len(q) - 1)
      /\ \A i \in 1..(Len(q) - 1) : Tail(q)[i] = q[i + 1]
  OBVIOUS
<1>2. \A i, j \in 1..Len(q) : q[i] = q[j] => i = j
  BY <1>1 DEF IsInjective
<1>3. IsInjective(Tail(q))
  <2> SUFFICES ASSUME NEW i \in 1..(Len(q) - 1), NEW j \in 1..(Len(q) - 1),
                      Tail(q)[i] = Tail(q)[j]
               PROVE  i = j
    BY <1>1 DEF IsInjective
  <2>1. q[i + 1] = q[j + 1] /\ i + 1 \in 1..Len(q) /\ j + 1 \in 1..Len(q)
    BY <1>1
  <2>2. i + 1 = j + 1
    BY <1>2, <2>1
  <2> QED BY <2>2
<1>4. Head(q) \in ToSet(q)
  BY <1>1 DEF ToSet
<1>5. ASSUME NEW x \in ToSet(Tail(q)) PROVE x \in ToSet(q) \ {Head(q)}
  <2>1. PICK i \in 1..(Len(q) - 1) : x = q[i + 1]
    BY <1>1 DEF ToSet
  <2>2. i + 1 \in 1..Len(q) /\ 1 \in 1..Len(q) /\ i + 1 # 1
    BY <1>1
  <2>3. x # q[1]
    BY <1>2, <2>1, <2>2
  <2> QED BY <1>1, <2>1, <2>2, <2>3 DEF ToSet
<1>6. ASSUME NEW x \in ToSet(q) \ {Head(q)} PROVE x \in ToSet(Tail(q))
  <2>1. PICK i \in 1..Len(q) : x = q[i]
    BY <1>1 DEF ToSet
  <2>2. i - 1 \in 1..(Len(q) - 1) /\ (i - 1) + 1 = i
    BY <1>1, <2>1
  <2> QED BY <1>1, <2>1, <2>2 DEF ToSet
<1> QED BY <1>1, <1>3, <1>4, <1>5, <1>6

\* Joining two queues that share nothing.
LEMMA SetOfJoin ==
  ASSUME NEW S, NEW q \in Seq(S), NEW t \in Seq(S),
         IsInjective(q), IsInjective(t), ToSet(q) \cap ToSet(t) = {}
  PROVE  /\ q \o t \in Seq(S)
         /\ ToSet(q \o t) = ToSet(q) \cup ToSet(t)
         /\ IsInjective(q \o t)
<1>1. /\ Len(q) \in Nat /\ Len(t) \in Nat /\ q \o t \in Seq(S)
      /\ DOMAIN q = 1..Len(q) /\ DOMAIN t = 1..Len(t) /\ DOMAIN (q \o t) = 1..(Len(q) + Len(t))
      /\ \A i \in 1..(Len(q) + Len(t)) : (q \o t)[i] = IF i <= Len(q) THEN q[i] ELSE t[i - Len(q)]
  OBVIOUS
<1>2. \A i \in 1..(Len(q) + Len(t)) :
        \/ i \in 1..Len(q) /\ (q \o t)[i] = q[i]
        \/ i - Len(q) \in 1..Len(t) /\ (q \o t)[i] = t[i - Len(q)] /\ i \notin 1..Len(q)
  BY <1>1
<1>3. ASSUME NEW i \in 1..Len(q) PROVE i \in 1..(Len(q) + Len(t)) /\ (q \o t)[i] = q[i]
  BY <1>1
<1>4. ASSUME NEW i \in 1..Len(t)
      PROVE  /\ Len(q) + i \in 1..(Len(q) + Len(t)) /\ (q \o t)[Len(q) + i] = t[i]
  BY <1>1
<1>5. ToSet(q \o t) = ToSet(q) \cup ToSet(t)
  <2>1. ASSUME NEW x \in ToSet(q \o t) PROVE x \in ToSet(q) \cup ToSet(t)
    BY <1>1, <1>2 DEF ToSet
  <2>2. ASSUME NEW x \in ToSet(q) PROVE x \in ToSet(q \o t)
    BY <1>1, <1>3 DEF ToSet
  <2>3. ASSUME NEW x \in ToSet(t) PROVE x \in ToSet(q \o t)
    <3>1. PICK i \in 1..Len(t) : x = t[i]
      BY <1>1, <2>3 DEF ToSet
    <3>2. PICK j \in 1..(Len(q) + Len(t)) : x = (q \o t)[j]
      BY <1>4, <3>1
    <3> QED BY <1>1, <3>2 DEF ToSet
  <2> QED BY <2>1, <2>2, <2>3
<1>6. IsInjective(q \o t)
  <2> SUFFICES ASSUME NEW i \in 1..(Len(q) + Len(t)), NEW j \in 1..(Len(q) + Len(t)),
                      (q \o t)[i] = (q \o t)[j]
               PROVE  i = j
    BY <1>1 DEF IsInjective
  <2>1. CASE i \in 1..Len(q) /\ j \in 1..Len(q)
    BY <1>1, <1>3, <2>1 DEF IsInjective
  <2>2. CASE i \notin 1..Len(q) /\ j \notin 1..Len(q)
    <3>1. /\ i - Len(q) \in 1..Len(t) /\ j - Len(q) \in 1..Len(t)
          /\ t[i - Len(q)] = t[j - Len(q)]
      BY <1>2, <2>2
    <3>2. i - Len(q) = j - Len(q)
      BY <1>1, <3>1 DEF IsInjective
    <3> QED BY <3>2, <1>1
  <2>3. CASE i \in 1..Len(q) /\ j \notin 1..Len(q)
    BY <1>1, <1>2, <2>3 DEF ToSet
  <2>4. CASE i \notin 1..Len(q) /\ j \in 1..Len(q)
    BY <1>1, <1>2, <2>4, ZenonT(40) DEF ToSet
  <2> QED BY <2>1, <2>2, <2>3, <2>4
<1> QED BY <1>1, <1>5, <1>6

\* Appending what is not in the queue.
LEMMA SetOfAppend ==
  ASSUME NEW S, NEW q \in Seq(S), NEW x \in S, IsInjective(q), x \notin ToSet(q)
  PROVE  /\ Append(q, x) \in Seq(S)
         /\ ToSet(Append(q, x)) = ToSet(q) \cup {x}
         /\ IsInjective(Append(q, x))
<1> DEFINE t == <<x>>
<1>1. t \in Seq(S)
  OBVIOUS
<1>2. DOMAIN t = {1} /\ t[1] = x /\ Append(q, x) = q \o t
  OBVIOUS
<1> HIDE DEF t
<1>3. IsInjective(t)
  BY <1>2 DEF IsInjective
<1>4. \A y : y \in ToSet(t) <=> y = x
  BY <1>2, Zenon DEF ToSet
<1>5. ToSet(t) = {x}
  BY <1>4, Zenon
<1>6. ToSet(q) \cap ToSet(t) = {}
  BY <1>5
<1>7. q \o t \in Seq(S) /\ ToSet(q \o t) = ToSet(q) \cup ToSet(t) /\ IsInjective(q \o t)
  BY <1>1, <1>3, <1>6, SetOfJoin
<1> QED BY <1>2, <1>5, <1>7

\* A list of a finite set holds each of its elements once.
LEMMA SetOfList ==
  ASSUME NEW B, IsFiniteSet(B), NEW s \in SetToSeqs(B)
  PROVE  s \in Seq(B) /\ IsInjective(s) /\ ToSet(s) = B
<1>1. PICK n \in Nat : n = Cardinality(B)
  BY FS_CardinalityType
<1>2. s \in [1..n -> B] /\ IsInjective(s)
  BY <1>1 DEF SetToSeqs, IsInjective
<1>3. IsFiniteSet(1..n) /\ Cardinality(1..n) = n
  BY FS_Interval
<1>4. s \in Injection(1..n, B)
  BY <1>2 DEF Injection
<1>5. s \in Surjection(1..n, B)
  BY <1>1, <1>3, <1>4, FS_Injection
<1>6. ToSet(s) = B
  BY <1>2, <1>5 DEF Surjection, ToSet
<1>7. s \in Seq(B)
  BY <1>2
<1> QED BY <1>2, <1>6, <1>7

-----------------------------------------------------------------------------
(* The strengthening for the warm pool. *)

Roles == {"none", "user", "replenish", "warmUp", "resumed"}
Awaiting == {"user", "replenish", "warmUp"}

WarmTypes ==
  /\ ready \in [Presets -> Seq(Calls)]
  /\ role \in [Calls -> Roles]
  /\ handed \subseteq Calls
  /\ batches \subseteq SUBSET Calls
  /\ draining.at \in {"no", "on", "base"}

\* Where the acquire() is that a method awaits, or no longer does; only what was given out, or
\* what the drain has taken, is released.
RoleOK(c) ==
  /\ role[c] = "none" <=> pc[c] = "idle"
  /\ role[c] = "resumed" => pc[c] \in {"held", "failed"}
  /\ role[c] # "resumed" /\ draining.at # "base" => releasing[c] = "no"
  /\ c \in handed => pc[c] = "held" /\ role[c] = "resumed"

RoleInv == \A c \in Calls : RoleOK(c)

\* A clone that may be in the queue of preset p: nobody was given it, and it is managed until
\* the drain begins.
Fit(c, p) ==
  /\ pc[c] = "held" /\ PresetOf(c) = p /\ role[c] = "resumed" /\ c \notin handed
  /\ draining.at = "no" => c \in clones

KeptInv ==
  \A p \in Presets : IsInjective(ready[p]) /\ \A c \in ToSet(ready[p]) : Fit(c, p)

Owned(c) == c \in InReady \/ c \in handed \/ role[c] \in Awaiting

OwnedInv == draining.at # "base" => \A c \in clones : Owned(c)

\* What a warmUp() waits for: calls of one preset that no other one waits for.
BatchOK(B) ==
  /\ B # {}
  /\ \E p \in Presets : \A c \in B : PresetOf(c) = p
  /\ \A c \in B : role[c] = "warmUp"

BatchInv ==
  /\ \A B \in batches : BatchOK(B)
  /\ \A A, B \in batches : A # B => A \cap B = {}

\* The base pool's shutdown() begins after the drain.
DrainInv == closing.at # "idle" => draining.at = "base"

WarmInv == WarmTypes /\ RoleInv /\ KeptInv /\ OwnedInv /\ BatchInv /\ DrainInv

-----------------------------------------------------------------------------
\* A step of the base pool keeps its strengthening.
LEMMA PoolStep == IInv /\ [PoolNext]_poolVars => IInv'
BY StepType, StepMutex, StepStage DEF IInv, MutexInv

\* Calls begin, all of them idle before: none waited, and none has a clone.
LEMMA BeginStage ==
  ASSUME StageInv, UNCHANGED <<device, clones, releasing>>,
         \A k \in Calls : \/ pc'[k] = pc[k]
                          \/ pc[k] = "idle" /\ pc'[k] \in {"failed", "queued", "resolve"},
         \A k \in Calls : request[k].keep => request'[k].keep
  PROVE  StageInv'
<1> SUFFICES ASSUME NEW k \in Calls PROVE Stage(k)'
  BY DEF StageInv
<1>1. Stage(k)
  BY DEF StageInv
<1>2. CASE pc'[k] = pc[k]
  BY <1>1, <1>2 DEF Stage
<1>3. CASE pc[k] = "idle" /\ pc'[k] \in {"failed", "queued", "resolve"}
  BY <1>1, <1>3 DEF Stage
<1> QED BY <1>2, <1>3

\* replenish() begins at most one acquire().
LEMMA RefillStep ==
  ASSUME NEW p, NEW n, NEW roles, Refill(p, n, roles),
         UNCHANGED <<request, source, clones, device, masterUp, releasing, closing>>
  PROVE  [PoolNext]_poolVars
<1>1. CASE UNCHANGED <<pc, lock>>
  BY <1>1 DEF poolVars
<1>2. ASSUME NEW k \in Calls, BeginAcquire(k) PROVE PoolNext
  BY <1>2 DEF PoolNext, Acquire
<1> QED BY <1>1, <1>2 DEF Refill

\* A warm hit marks a clone to be kept: no preset changes.
LEMMA HitStep ==
  ASSUME IInv, NEW p \in Presets, NEW keep \in BOOLEAN, WarmHit(p, keep),
         ready[p] \in Seq(Calls)
  PROVE  IInv' /\ \A k \in Calls : request'[k].preset = request[k].preset
<1>1. PICK h \in Calls : h = Head(ready[p])
  BY DEF WarmHit
<1>2. /\ request' = [request EXCEPT ![h].keep = @ \/ keep]
      /\ UNCHANGED <<source, clones, device, masterUp, releasing, closing>>
      /\ Refill(p, Len(ready[p]) - 1, role)
  BY <1>1 DEF WarmHit
<1>3. request[h] \in Request /\ [request[h] EXCEPT !.keep = @ \/ keep] \in Request
  BY DEF IInv, TypeOK, Request
<1>4. request' \in [Calls -> Request]
  BY <1>2, <1>3 DEF IInv, TypeOK
<1>5. \A k \in Calls : /\ request'[k].preset = request[k].preset
                       /\ request[k].keep => request'[k].keep
  <2> SUFFICES ASSUME NEW k \in Calls
               PROVE  /\ request'[k].preset = request[k].preset
                      /\ request[k].keep => request'[k].keep
    OBVIOUS
  <2>1. CASE k # h
    BY <2>1, <1>2 DEF IInv, TypeOK
  <2>2. CASE k = h
    BY <2>2, <1>2, <1>3 DEF IInv, TypeOK, Request
  <2> QED BY <2>1, <2>2
<1>6. /\ pc' \in [Calls -> PCs] /\ lock' \in [Presets -> Mutex]
      /\ MutexOK(lock', pc', request)
      /\ \A k \in Calls : \/ pc'[k] = pc[k]
                          \/ pc[k] = "idle" /\ pc'[k] \in {"failed", "queued", "resolve"}
  <2>1. CASE UNCHANGED <<pc, lock>>
    BY <2>1 DEF IInv, TypeOK, QueueInv, WakerInv, MutexOK
  <2>2. ASSUME NEW k \in Calls, BeginAcquire(k)
        PROVE  /\ pc' \in [Calls -> PCs] /\ lock' \in [Presets -> Mutex]
               /\ MutexOK(lock', pc', request)
               /\ \A c \in Calls : \/ pc'[c] = pc[c]
                                   \/ pc[c] = "idle" /\ pc'[c] \in {"failed", "queued", "resolve"}
    <3>1. pc' \in [Calls -> PCs] /\ lock' \in [Presets -> Mutex]
      BY <2>2, AcquireType DEF IInv
    <3>2. MutexOK(lock', pc', request)
      BY <2>2, AcquireMutex DEF IInv, MutexInv
    <3>3. \A c \in Calls : \/ pc'[c] = pc[c]
                           \/ pc[c] = "idle" /\ pc'[c] \in {"failed", "queued", "resolve"}
      BY <2>2 DEF BeginAcquire, IInv, TypeOK
    <3> QED BY <3>1, <3>2, <3>3
  <2> QED BY <2>1, <2>2, <1>2 DEF Refill
<1>7. TypeOK'
  BY <1>2, <1>4, <1>6 DEF IInv, TypeOK
<1>8. MutexInv'
  BY <1>5, <1>6, MutexRequests
<1>9. StageInv'
  BY <1>2, <1>5, <1>6, BeginStage DEF IInv
<1> QED BY <1>5, <1>7, <1>8, <1>9 DEF IInv, MutexInv

\* A mutex's queue, as a set.
LEMMA QueueAsSet ==
  ASSUME NEW q \in Seq(Calls), NEW p, NEW at, NEW req
  PROVE  QueueOK(q, p, at, req) <=>
           /\ IsInjective(q)
           /\ \A c \in ToSet(q) : req[c].preset = p /\ at[c] = "queued"
<1>1. DOMAIN q = 1..Len(q)
  OBVIOUS
<1>2. (\A c \in ToSet(q) : req[c].preset = p /\ at[c] = "queued")
        <=> \A i \in 1..Len(q) : req[q[i]].preset = p /\ at[q[i]] = "queued"
  BY <1>1 DEF ToSet
<1> QED BY <1>1, <1>2 DEF QueueOK, IsInjective

\* warmUp() calls acquire() for the whole batch B, in the order s: the first may take the mutex,
\* the others queue behind those that wait already.
LEMMA BeginAllStep ==
  ASSUME IInv, NEW p \in Presets, NEW B \in SUBSET Calls, NEW s \in SetToSeqs(B),
         B # {}, \A c \in B : pc[c] = "idle" /\ PresetOf(c) = p,
         BeginAll(p, s),
         UNCHANGED <<request, source, clones, device, masterUp, releasing, closing>>
  PROVE  /\ IInv'
         /\ \A k \in Calls : IF k \in B THEN pc'[k] # "idle" ELSE pc'[k] = pc[k]
<1>1. s \in Seq(B) /\ IsInjective(s) /\ ToSet(s) = B
  BY SetOfList, FS_Subset, PoolConstants
<1>2. s # <<>>
  BY <1>1 DEF ToSet
<1>3. s \in Seq(Calls)
  BY <1>1
<1>4. /\ Head(s) \in B /\ Tail(s) \in Seq(Calls)
      /\ ToSet(Tail(s)) = B \ {Head(s)} /\ IsInjective(Tail(s))
  BY <1>1, <1>2, <1>3, SetOfTail
<1>5. PICK h \in B : h = Head(s)
  BY <1>4
<1>6. /\ lock[p] \in Mutex /\ lock[p].queue \in Seq(Calls) /\ lock[p].locked \in BOOLEAN
  BY MutexType DEF IInv
<1> DEFINE q == lock[p].queue
<1>7. QueueOK(q, p, pc, request)
  BY DEF IInv, QueueInv
<1>8. IsInjective(q) /\ \A c \in ToSet(q) : request[c].preset = p /\ pc[c] = "queued"
  BY <1>6, <1>7, QueueAsSet
<1>9. CASE Cardinality(clones) >= MaxClones
  <2>1. /\ pc' = [c \in Calls |-> IF c \in B THEN "failed" ELSE pc[c]]
        /\ lock' = lock
    BY <1>1, <1>9 DEF BeginAll
  <2>2. TypeOK'
    BY <2>1 DEF IInv, TypeOK, PCs
  <2>3. \A r \in Presets : QueueOK(lock[r].queue, r, pc', request)
    <3>1. \A k \in Calls : pc[k] = "queued" => pc'[k] = "queued"
      BY <2>1
    <3> QED BY <3>1, QueueFrame, MutexType DEF IInv, QueueInv
  <2>4. \A r \in Presets : /\ Waker(r, pc, request) => Waker(r, pc', request)
                           /\ Holder(r, pc, request) => Holder(r, pc', request)
    BY <2>1 DEF Waker, Holder, Critical
  <2>5. QueueInv' /\ WakerInv'
    BY <2>1, <2>3, <2>4 DEF IInv, QueueInv, WakerInv
  <2>6. \A k \in Calls : \/ pc'[k] = pc[k]
                         \/ pc[k] = "idle" /\ pc'[k] \in {"failed", "queued", "resolve"}
    BY <2>1
  <2>7. StageInv'
    BY <2>6, BeginStage DEF IInv
  <2> QED BY <2>1, <2>2, <2>5, <2>7 DEF IInv
<1>10. ASSUME ~ (Cardinality(clones) >= MaxClones),
              NEW t \in Seq(Calls), IsInjective(t), ToSet(t) \subseteq B,
              lock' = [lock EXCEPT ![p] = [locked |-> TRUE, queue |-> @.queue \o t]],
              pc' \in [Calls -> PCs],
              \A k \in Calls : k \notin B => pc'[k] = pc[k],
              \A k \in ToSet(t) : pc'[k] = "queued",
              \A k \in B : k \notin ToSet(t) => pc'[k] = "resolve",
              lock[p].locked \/ ToSet(t) # B
       PROVE  IInv'
  <2>1. ToSet(q) \cap ToSet(t) = {}
    BY <1>8, <1>10
  <2>2. q \o t \in Seq(Calls) /\ ToSet(q \o t) = ToSet(q) \cup ToSet(t) /\ IsInjective(q \o t)
    BY <1>6, <1>8, <1>10, <2>1, SetOfJoin
  <2>3. \A k \in ToSet(q \o t) : request[k].preset = p /\ pc'[k] = "queued"
    <3>1. \A k \in ToSet(q) : k \in Calls
      BY <1>6 DEF ToSet
    <3> QED BY <3>1, <2>2, <1>8, <1>10 DEF PresetOf
  <2>4. QueueOK(q \o t, p, pc', request)
    BY <2>2, <2>3, QueueAsSet
  <2>5. [locked |-> TRUE, queue |-> q \o t] \in Mutex
    BY <2>2 DEF Mutex
  <2>6. /\ lock' \in [Presets -> Mutex]
        /\ lock'[p].queue = q \o t
        /\ \A r \in Presets : r # p => lock'[r] = lock[r]
    BY <1>10, <2>5 DEF IInv, TypeOK
  <2>7. \A k \in Calls : /\ pc[k] # "idle" => pc'[k] = pc[k]
                         /\ \/ pc'[k] = pc[k]
                            \/ pc[k] = "idle" /\ pc'[k] \in {"failed", "queued", "resolve"}
    BY <1>10
  <2>8. \A r \in Presets : /\ Waker(r, pc, request) => Waker(r, pc', request)
                           /\ Holder(r, pc, request) => Holder(r, pc', request)
    BY <2>7 DEF Waker, Holder, Critical
  <2>9. \A r \in Presets : r # p => QueueOK(lock'[r].queue, r, pc', request)
    <3>1. \A k \in Calls : pc[k] = "queued" => pc'[k] = "queued"
      BY <2>7
    <3> QED BY <3>1, <2>6, QueueFrame, MutexType DEF IInv, QueueInv
  <2>10. Holder(p, pc', request)
    <3>1. CASE lock[p].locked
      BY <3>1, <2>8 DEF IInv, WakerInv
    <3>2. CASE ToSet(t) # B
      <4>1. PICK k \in B : k \notin ToSet(t)
        BY <3>2, <1>10
      <4>2. pc'[k] = "resolve" /\ request[k].preset = p
        BY <4>1, <1>10 DEF PresetOf
      <4> QED BY <4>2 DEF Holder, Critical
    <3> QED BY <3>1, <3>2, <1>10
  <2>11. Waker(p, pc', request)
    BY <2>10 DEF Holder, Waker
  <2>12. QueueInv' /\ WakerInv'
    BY <2>4, <2>6, <2>8, <2>9, <2>10, <2>11 DEF IInv, QueueInv, WakerInv
  <2>13. TypeOK'
    BY <1>10, <2>6 DEF IInv, TypeOK
  <2>14. StageInv'
    BY <2>7, BeginStage DEF IInv
  <2> QED BY <2>12, <2>13, <2>14 DEF IInv
<1>11. CASE ~ (Cardinality(clones) >= MaxClones) /\ lock[p].locked
  <2>1. /\ pc' = [c \in Calls |-> IF c \notin B THEN pc[c] ELSE "queued"]
        /\ lock' = [lock EXCEPT ![p] = [locked |-> TRUE, queue |-> @.queue \o s]]
    BY <1>1, <1>11 DEF BeginAll
  <2>2. pc' \in [Calls -> PCs]
    BY <2>1 DEF IInv, TypeOK, PCs
  <2>3. IInv'
    BY <1>1, <1>3, <1>10, <1>11, <2>1, <2>2
  <2> QED BY <2>1, <2>3
<1>12. CASE ~ (Cardinality(clones) >= MaxClones) /\ ~ lock[p].locked
  <2>1. /\ pc' = [c \in Calls |-> IF c \notin B THEN pc[c]
                                  ELSE IF c = h THEN "resolve" ELSE "queued"]
        /\ lock' = [lock EXCEPT ![p] = [locked |-> TRUE, queue |-> @.queue \o Tail(s)]]
    BY <1>1, <1>5, <1>12 DEF BeginAll
  <2>2. pc' \in [Calls -> PCs]
    BY <2>1 DEF IInv, TypeOK, PCs, Critical
  <2>3. PICK t \in Seq(Calls) : t = Tail(s)
    BY <1>4
  <2>4. /\ IsInjective(t) /\ ToSet(t) = B \ {h}
        /\ lock' = [lock EXCEPT ![p] = [locked |-> TRUE, queue |-> @.queue \o t]]
    BY <1>4, <1>5, <2>1, <2>3
  <2>5. /\ \A k \in Calls : k \notin B => pc'[k] = pc[k]
        /\ \A k \in ToSet(t) : pc'[k] = "queued"
        /\ \A k \in B : k \notin ToSet(t) => pc'[k] = "resolve"
        /\ ToSet(t) \subseteq B /\ ToSet(t) # B
    BY <2>1, <2>4
  <2>6. IInv'
    BY <1>10, <1>12, <2>2, <2>4, <2>5
  <2> QED BY <2>5, <2>6
<1> QED BY <1>9, <1>11, <1>12

\* The drain takes a clone out of its queue and begins to release it.
LEMMA DrainNextStep ==
  ASSUME IInv, NEW p \in Presets, DrainNext(p), ready[p] \in Seq(Calls)
  PROVE  IInv'
<1>1. PICK h \in Calls : h = Head(ready[p])
  BY DEF DrainNext
<1>2. UNCHANGED <<pc, request, source, lock, device, masterUp>>
  BY DEF DrainNext
<1>3. \/ StartRelease(h) /\ closing' = [closing EXCEPT !.now = h]
      \/ UNCHANGED <<clones, releasing, closing>>
  BY <1>1 DEF DrainNext
<1>4. TypeOK'
  BY <1>2, <1>3 DEF IInv, TypeOK, Closing, StartRelease
<1>5. QueueInv' /\ WakerInv'
  BY <1>2, SameMutex DEF IInv, MutexInv
<1>6. StageInv'
  <2>1. CASE StartRelease(h)
    BY <1>2, <2>1, ReleaseStage DEF IInv
  <2>2. CASE UNCHANGED <<clones, releasing, closing>>
    BY <1>2, <2>2, StageFrame DEF IInv, StageInv
  <2> QED BY <1>3, <2>1, <2>2
<1> QED BY <1>4, <1>5, <1>6 DEF IInv

\* What warmUp() does to the base pool.
LEMMA WarmUpStep ==
  ASSUME IInv, WarmTypes, NEW p \in Presets, NEW n \in Nat, WarmUp(p, n)
  PROVE  /\ IInv'
         /\ \/ UNCHANGED <<pc, lock, role, batches>>
            \/ \E B \in SUBSET Calls :
                 /\ B # {}
                 /\ \A c \in B : pc[c] = "idle" /\ PresetOf(c) = p
                 /\ \A k \in Calls : IF k \in B THEN pc'[k] # "idle" ELSE pc'[k] = pc[k]
                 /\ role' = [c \in Calls |-> IF c \in B THEN "warmUp" ELSE role[c]]
                 /\ batches' = batches \cup {B}
<1>1. UNCHANGED <<request, source, clones, device, masterUp, releasing, closing>>
  BY DEF WarmUp
<1>2. CASE UNCHANGED <<pc, lock, role, batches>>
  <2>1. UNCHANGED poolVars
    BY <1>1, <1>2 DEF poolVars
  <2> QED BY <1>2, <2>1, PoolStep
<1>3. ASSUME NEW B \in SUBSET Calls, NEW s \in SetToSeqs(B),
             \A c \in B : pc[c] = "idle" /\ PresetOf(c) = p,
             B # {}, BeginAll(p, s)
      PROVE  IInv' /\ \A k \in Calls : IF k \in B THEN pc'[k] # "idle" ELSE pc'[k] = pc[k]
  BY <1>1, <1>3, BeginAllStep
<1> DEFINE unused == {c \in Calls : pc[c] = "idle" /\ PresetOf(c) = p /\ ~ request[c].keep}
           missing == n - Len(ready[p])
<1>4. missing \in Int
  <2>1. ready[p] \in Seq(Calls)
    BY DEF WarmTypes
  <2> QED BY <2>1
<1>5. ASSUME missing > 0, NEW B \in kSubset(missing, unused)
      PROVE  /\ B \in SUBSET Calls /\ B # {}
             /\ \A c \in B : pc[c] = "idle" /\ PresetOf(c) = p
  <2>1. B \in SUBSET unused /\ Cardinality(B) = missing
    BY <1>5 DEF kSubset
  <2>2. B # {}
    BY <2>1, <1>4, <1>5, FS_EmptySet
  <2> QED BY <2>1, <2>2
<1>6. \/ UNCHANGED <<pc, lock, role, batches>>
      \/ /\ missing > 0
         /\ \E B \in kSubset(missing, unused) : \E s \in SetToSeqs(B) :
              /\ BeginAll(p, s)
              /\ role' = [c \in Calls |-> IF c \in B THEN "warmUp" ELSE role[c]]
              /\ batches' = batches \cup {B}
  BY DEF WarmUp
<1> HIDE DEF unused, missing
<1>7. CASE /\ missing > 0
           /\ \E B \in kSubset(missing, unused) : \E s \in SetToSeqs(B) :
                /\ BeginAll(p, s)
                /\ role' = [c \in Calls |-> IF c \in B THEN "warmUp" ELSE role[c]]
                /\ batches' = batches \cup {B}
  <2>1. PICK B \in kSubset(missing, unused) :
          /\ \E s \in SetToSeqs(B) : BeginAll(p, s)
          /\ role' = [c \in Calls |-> IF c \in B THEN "warmUp" ELSE role[c]]
          /\ batches' = batches \cup {B}
    BY <1>7
  <2>2. /\ B \in SUBSET Calls /\ B # {}
        /\ \A c \in B : pc[c] = "idle" /\ PresetOf(c) = p
    BY <1>5, <1>7
  <2>3. IInv' /\ \A k \in Calls : IF k \in B THEN pc'[k] # "idle" ELSE pc'[k] = pc[k]
    BY <1>3, <2>1, <2>2
  <2> QED BY <2>1, <2>2, <2>3
<1> QED BY <1>2, <1>6, <1>7

-----------------------------------------------------------------------------
(* How a step of the warm pool treats roles, queues and batches. *)

\* Calls that were idle may begin, to be awaited; the others stay as they were, with their roles.
Begun(roles) ==
  /\ role' \in [Calls -> Roles]
  /\ \A c \in Calls :
       \/ pc'[c] = pc[c] /\ role'[c] = roles[c]
       \/ pc[c] = "idle" /\ pc'[c] # "idle" /\ role'[c] \in Awaiting

SamePresets == \A c \in Calls : PresetOf(c)' = PresetOf(c)

\* One acquire() begins, to be awaited by a method.
LEMMA OneBegins ==
  ASSUME TypeOK, NEW roles \in [Calls -> Roles], NEW k \in Calls, NEW r \in Awaiting,
         BeginAcquire(k), role' = [roles EXCEPT ![k] = r]
  PROVE  Begun(roles)
<1>1. pc[k] = "idle" /\ pc'[k] # "idle" /\ \A c \in Calls : c # k => pc'[c] = pc[c]
  BY DEF BeginAcquire, TypeOK
<1>2. role' \in [Calls -> Roles]
  BY DEF Roles, Awaiting
<1> QED BY <1>1, <1>2 DEF Begun

\* ... and so does what replenish() begins.
LEMMA RefillBegins ==
  ASSUME TypeOK, NEW roles \in [Calls -> Roles], NEW p, NEW n, Refill(p, n, roles)
  PROVE  Begun(roles)
<1>1. CASE role' = roles /\ UNCHANGED pc
  BY <1>1 DEF Begun
<1>2. ASSUME NEW k \in Calls, BeginAcquire(k), role' = [roles EXCEPT ![k] = "replenish"]
      PROVE  Begun(roles)
  BY <1>2, OneBegins DEF Awaiting
<1> QED BY <1>1, <1>2 DEF Refill

\* An idle call has no clone, and nobody queues it or was given it.
LEMMA IdleIsNew ==
  ASSUME StageInv, WarmInv, NEW c \in Calls, pc[c] = "idle"
  PROVE  c \notin clones /\ releasing[c] = "no" /\ c \notin InReady /\ c \notin handed
<1>1. c \notin clones /\ releasing[c] = "no"
  BY DEF StageInv, Stage
<1>2. c \notin handed
  BY DEF WarmInv, RoleInv, RoleOK
<1>3. c \notin InReady
  BY DEF WarmInv, KeptInv, Fit, InReady
<1> QED BY <1>1, <1>2, <1>3

\* What is in a queue is a clone of a call.
LEMMA ReadyType ==
  ASSUME WarmTypes, NEW p \in Presets
  PROVE  ready[p] \in Seq(Calls) /\ ToSet(ready[p]) \subseteq Calls
<1>1. ready[p] \in Seq(Calls)
  BY DEF WarmTypes
<1> QED BY <1>1 DEF ToSet

\* The roles after the calls that settled are resumed and before new ones begin.
Settled(roles) ==
  \A c \in Calls : \/ roles[c] = role[c]
                   \/ roles[c] = "resumed" /\ pc[c] \in {"held", "failed"}

\* Roles stay right when calls settle and begin.
LEMMA BeginRoles ==
  ASSUME StageInv, WarmInv, NEW roles, Settled(roles), Begun(roles),
         UNCHANGED <<releasing, draining>>,
         \A c \in Calls : c \in handed' => c \in handed \/ (pc[c] = "held" /\ roles[c] = "resumed")
  PROVE  RoleInv'
<1> SUFFICES ASSUME NEW c \in Calls PROVE RoleOK(c)'
  BY DEF RoleInv
<1>1. RoleOK(c)
  BY DEF WarmInv, RoleInv
<1>2. CASE pc'[c] = pc[c] /\ role'[c] = roles[c]
  BY <1>1, <1>2 DEF RoleOK, Settled
<1>3. CASE pc[c] = "idle" /\ pc'[c] # "idle" /\ role'[c] \in Awaiting
  BY <1>3, IdleIsNew DEF RoleOK, Awaiting
<1> QED BY <1>2, <1>3 DEF Begun

\* A call whose method resumed keeps its role and its state when others begin.
LEMMA ResumedStays ==
  ASSUME WarmInv, NEW roles, Settled(roles), Begun(roles), NEW c \in Calls, role[c] = "resumed"
  PROVE  role'[c] = "resumed" /\ pc'[c] = pc[c]
<1>1. pc[c] # "idle"
  BY DEF WarmInv, RoleInv, RoleOK
<1> QED BY <1>1 DEF Begun, Settled

\* Batches stay right while their calls keep their roles.
LEMMA BatchFrame ==
  ASSUME WarmInv, SamePresets, batches' \subseteq batches,
         \A c \in Calls : role[c] = "warmUp" => role'[c] = "warmUp"
  PROVE  BatchInv'
<1>1. \A B \in batches : B \in SUBSET Calls
  BY DEF WarmInv, WarmTypes
<1> QED BY <1>1 DEF WarmInv, BatchInv, BatchOK, SamePresets

\* The queues stay right when none of them changes.
LEMMA KeptSame ==
  ASSUME WarmInv, SamePresets, UNCHANGED ready,
         \A c \in Calls :
           role[c] = "resumed" =>
             /\ role'[c] = "resumed" /\ (pc[c] = "held" => pc'[c] = "held")
             /\ c \in handed' => c \in handed \/ c \notin InReady,
         draining'.at = "no" =>
           draining.at = "no" /\ \A c \in clones : c \in clones' \/ c \in handed
  PROVE  KeptInv'
<1> SUFFICES ASSUME NEW p \in Presets, NEW c \in ToSet(ready[p]) PROVE Fit(c, p)'
  BY DEF KeptInv, WarmInv
<1>1. c \in Calls /\ c \in InReady
  BY ReadyType DEF WarmInv, InReady
<1>2. Fit(c, p)
  BY DEF WarmInv, KeptInv
<1> QED BY <1>1, <1>2 DEF Fit, SamePresets

\* Steps of the base pool alone.
LEMMA QuietStep ==
  ASSUME TypeOK, StageInv, WarmInv, UNCHANGED <<warmVars, request>>,
         \A c \in Calls : /\ pc[c] \in {"held", "failed"} => pc'[c] = pc[c]
                          /\ pc[c] = "idle" <=> pc'[c] = "idle",
         \A c \in clones' : c \in clones \/ pc[c] \notin {"idle", "held", "failed"},
         \A c \in clones : c \in clones' \/ c \in handed \/ draining.at = "base",
         \A c \in Calls : releasing'[c] = "no" \/ releasing[c] # "no"
                            \/ c \in handed \/ draining.at = "base",
         closing'.at = closing.at \/ draining.at = "base",
         TypeOK'
  PROVE  WarmInv'
<1>1. SamePresets
  BY DEF SamePresets, PresetOf
<1>2. WarmTypes'
  BY DEF WarmInv, WarmTypes, warmVars
<1>3. RoleInv'
  BY DEF WarmInv, RoleInv, RoleOK, warmVars
<1>4. KeptInv'
  BY <1>1, KeptSame DEF warmVars
<1>5. OwnedInv'
  <2> SUFFICES ASSUME draining.at # "base", NEW c \in clones' PROVE Owned(c)
    BY DEF OwnedInv, Owned, warmVars, InReady
  <2>1. CASE c \in clones
    BY <2>1 DEF WarmInv, OwnedInv
  <2>2. CASE c \notin clones
    <3>1. c \in Calls
      BY DEF TypeOK
    <3>2. role[c] \notin {"none", "resumed"}
      BY <2>2, <3>1 DEF WarmInv, RoleInv, RoleOK
    <3>3. role[c] \in Roles
      BY <3>1 DEF WarmInv, WarmTypes
    <3> QED BY <3>2, <3>3 DEF Owned, Roles, Awaiting
  <2> QED BY <2>1, <2>2
<1>6. BatchInv'
  BY <1>1, BatchFrame DEF warmVars
<1>7. DrainInv'
  BY DEF WarmInv, DrainInv, warmVars
<1> QED BY <1>2, <1>3, <1>4, <1>5, <1>6, <1>7 DEF WarmInv

\* Steps in which calls settle and begin: what settled is in a queue or given out.
LEMMA BeginStep ==
  ASSUME TypeOK, StageInv, WarmInv, SamePresets,
         NEW roles, Settled(roles), Begun(roles),
         UNCHANGED <<clones, releasing, closing, draining>>,
         ready' \in [Presets -> Seq(Calls)], handed' \subseteq Calls,
         batches' \subseteq SUBSET Calls,
         \A c \in Calls : c \in handed' => c \in handed \/ (pc[c] = "held" /\ roles[c] = "resumed"),
         \A c \in clones : \/ c \in InReady
                           \/ c \in handed
                           \/ role[c] \in Awaiting /\ roles[c] = "resumed"
                           => c \in InReady' \/ c \in handed',
         KeptInv', BatchInv'
  PROVE  WarmInv'
<1>1. WarmTypes'
  BY DEF WarmInv, WarmTypes, Begun
<1>2. RoleInv'
  BY BeginRoles
<1>3. OwnedInv'
  <2> SUFFICES ASSUME draining.at # "base", NEW c \in clones PROVE Owned(c)'
    BY DEF OwnedInv, Owned, InReady
  <2>1. Owned(c) /\ c \in Calls
    BY DEF WarmInv, OwnedInv, TypeOK
  <2>2. \/ c \in InReady \/ c \in handed
        \/ role[c] \in Awaiting /\ roles[c] = "resumed"
        \/ role[c] \in Awaiting /\ roles[c] = role[c]
    BY <2>1 DEF Owned, Settled
  <2>3. CASE role[c] \in Awaiting /\ roles[c] = role[c]
    <3>1. role'[c] \in Awaiting
      BY <2>1, <2>3 DEF Begun
    <3> QED BY <3>1 DEF Owned
  <2> QED BY <2>2, <2>3 DEF Owned
<1>4. DrainInv'
  BY DEF WarmInv, DrainInv
<1> QED BY <1>1, <1>2, <1>3, <1>4 DEF WarmInv

\* ... and steps that leave the queues as they are.
LEMMA BeginOnly ==
  ASSUME TypeOK, StageInv, WarmInv, SamePresets,
         NEW roles, Settled(roles), Begun(roles),
         UNCHANGED <<ready, clones, releasing, closing, draining, batches>>,
         handed \subseteq handed', handed' \subseteq Calls,
         \A c \in Calls : c \in handed' => c \in handed \/
                              (pc[c] = "held" /\ roles[c] = "resumed" /\ role[c] # "resumed"),
         \A c \in clones : role[c] \in Awaiting /\ roles[c] = "resumed" => c \in handed',
         \A c \in Calls : role[c] = "warmUp" => roles[c] = "warmUp"
  PROVE  WarmInv'
<1>1. KeptInv'
  <2>1. \A c \in Calls : role[c] = "resumed" => role'[c] = "resumed" /\ pc'[c] = pc[c]
    BY ResumedStays
  <2>2. \A c \in Calls : role[c] = "resumed" /\ c \in handed' => c \in handed
    OBVIOUS
  <2> QED BY <2>1, <2>2, KeptSame
<1>2. BatchInv'
  <2>1. \A c \in Calls : role[c] = "warmUp" => role'[c] = "warmUp"
    <3> SUFFICES ASSUME NEW c \in Calls, role[c] = "warmUp" PROVE role'[c] = "warmUp"
      OBVIOUS
    <3>1. pc[c] # "idle" /\ roles[c] = "warmUp"
      BY DEF WarmInv, RoleInv, RoleOK
    <3> QED BY <3>1 DEF Begun
  <2> QED BY <2>1, BatchFrame
<1>3. /\ ready' \in [Presets -> Seq(Calls)] /\ batches' \subseteq SUBSET Calls
      /\ InReady' = InReady
  BY DEF WarmInv, WarmTypes, InReady
<1> QED BY <1>1, <1>2, <1>3, BeginStep

-----------------------------------------------------------------------------
(* One lemma per action of the warm pool. *)

\* A step of an acquire() moves no call that is not running, and registers only running ones.
LEMMA AcquireStepKeeps ==
  ASSUME IInv, NEW c \in Calls, AcquireStep(c)
  PROVE  /\ UNCHANGED <<request, releasing, closing>>
         /\ \A k \in Calls : /\ pc[k] \in {"held", "failed"} => pc'[k] = pc[k]
                             /\ pc[k] = "idle" <=> pc'[k] = "idle"
         /\ \A k \in clones' : k \in clones \/ pc[k] \notin {"idle", "held", "failed"}
         /\ \A k \in clones : k \in clones'
<1>1. CASE Enter(c) \/ Resolve(c) \/ StopMaster(c) \/ Clone(c) \/ Boot(c) \/ PollBooted(c)
             \/ FailLate(c) \/ Garbled(c)
  <2>1. /\ pc[c] \notin {"idle", "held", "failed"} /\ pc'[c] # "idle"
        /\ \A k \in Calls : k # c => pc'[k] = pc[k]
        /\ UNCHANGED <<request, releasing, closing, clones>>
    BY <1>1 DEF Enter, Resolve, StopMaster, Clone, Boot, PollBooted, FailLate, Garbled,
                IInv, TypeOK
  <2> QED BY <2>1
<1>2. ASSUME NEW end \in {"held", "failed"}, Unlock(c, end),
             pc[c] \notin {"idle", "held", "failed", "queued"}
      PROVE  \A k \in Calls : /\ pc[k] \in {"held", "failed"} => pc'[k] = pc[k]
                              /\ pc[k] = "idle" <=> pc'[k] = "idle"
  <2>1. /\ pc'[c] = end
        /\ \A k \in Calls : k # c => \/ pc'[k] = pc[k]
                                     \/ pc[k] = "queued" /\ pc'[k] = "woken"
    BY <1>2, UnlockMoves DEF IInv
  <2> QED BY <1>2, <2>1
<1>3. CASE FailEarly(c) \/ Cleanup(c)
  <2>1. /\ Unlock(c, "failed") /\ pc[c] \notin {"idle", "held", "failed", "queued"}
        /\ UNCHANGED <<request, releasing, closing, clones>>
    BY <1>3 DEF FailEarly, Cleanup
  <2> QED BY <1>2, <2>1
<1>4. CASE Register(c)
  <2>1. /\ Unlock(c, "held") /\ pc[c] = "trim"
        /\ UNCHANGED <<request, releasing, closing>> /\ clones' = clones \cup {c}
    BY <1>4 DEF Register
  <2> QED BY <1>2, <2>1
<1> QED BY <1>1, <1>3, <1>4 DEF AcquireStep

\* What the base pool does by itself leaves the warm pool's invariant alone.
LEMMA BaseWarm ==
  ASSUME IInv, WarmInv, NEW c \in Calls, BaseStep(c)
  PROVE  IInv' /\ WarmInv'
<1>1. UNCHANGED warmVars /\ (AcquireStep(c) \/ ReleaseStep(c))
  BY DEF BaseStep
<1>2. PoolNext
  BY <1>1 DEF PoolNext
<1>3. IInv'
  BY <1>2, PoolStep
<1>4. CASE AcquireStep(c)
  <2>1. TypeOK' /\ TypeOK /\ StageInv
    BY <1>3 DEF IInv
  <2> QED BY <1>1, <1>3, <1>4, <2>1, AcquireStepKeeps, QuietStep
<1>5. CASE ReleaseStep(c)
  <2>1. TypeOK' /\ TypeOK /\ StageInv
    BY <1>3 DEF IInv
  <2>2. /\ UNCHANGED <<pc, request, clones, closing>>
        /\ \A k \in Calls : releasing'[k] = "no" \/ releasing[k] # "no"
    BY <1>5 DEF ReleaseStep, ReleaseStop, ReleaseDelete, IInv, TypeOK
  <2> QED BY <1>1, <1>3, <2>1, <2>2, QuietStep
<1> QED BY <1>1, <1>4, <1>5

\* Only what was given out is given back.
LEMMA ReleaseWarm ==
  ASSUME IInv, WarmInv, NEW c \in Calls, WarmRelease(c)
  PROVE  IInv' /\ WarmInv'
<1>1. UNCHANGED warmVars /\ Release(c) /\ c \in handed
  BY DEF WarmRelease
<1>2. PoolNext
  BY <1>1 DEF PoolNext
<1>3. IInv'
  BY <1>2, PoolStep
<1>4. TypeOK' /\ TypeOK /\ StageInv
  BY <1>3 DEF IInv
<1>5. /\ UNCHANGED <<pc, request, closing>> /\ clones' = clones \ {c}
      /\ \A k \in Calls : k # c => releasing'[k] = releasing[k]
  BY <1>1, <1>4 DEF Release, StartRelease, TypeOK
<1> QED BY <1>1, <1>3, <1>4, <1>5, QuietStep

\* The base pool's shutdown() runs after the drain.
LEMMA ShutdownWarm ==
  ASSUME IInv, WarmInv, UNCHANGED warmVars,
         ShutdownStep \/ (\E m \in Masters : MasterBoots(m)) \/ UNCHANGED poolVars
  PROVE  IInv' /\ WarmInv'
<1>1. [PoolNext]_poolVars
  BY DEF PoolNext
<1>2. IInv'
  BY <1>1, PoolStep
<1>3. TypeOK' /\ TypeOK /\ StageInv
  BY <1>2 DEF IInv
<1>4. CASE \/ \E m \in Masters : MasterBoots(m)
           \/ UNCHANGED poolVars
  <2>1. UNCHANGED <<pc, request, clones, releasing, closing>>
    BY <1>4 DEF MasterBoots, poolVars
  <2> QED BY <1>2, <1>3, <2>1, QuietStep
<1>5. CASE ShutdownAwaited
  <2>1. UNCHANGED <<pc, request, clones, releasing>> /\ closing'.at = closing.at
    BY <1>3, <1>5 DEF ShutdownAwaited, TypeOK, Closing
  <2> QED BY <1>2, <1>3, <2>1, QuietStep
<1>6. CASE ShutdownDone \/ \E k \in Calls : ShutdownNext(k)
  <2>1. closing.at = "running" /\ UNCHANGED <<pc, request>> /\ clones' \subseteq clones
    BY <1>6 DEF ShutdownDone, ShutdownNext, StartRelease
  <2>2. draining.at = "base"
    BY <2>1 DEF WarmInv, DrainInv
  <2> QED BY <1>2, <1>3, <2>1, <2>2, QuietStep
<1> QED BY <1>4, <1>5, <1>6 DEF ShutdownStep

-----------------------------------------------------------------------------
\* WarmMiss: a call begins, awaited by the caller.
LEMMA MissWarm ==
  ASSUME IInv, WarmInv, NEW c \in Calls, WarmMiss(c)
  PROVE  IInv' /\ WarmInv'
<1>1. /\ Acquire(c) /\ role' = [role EXCEPT ![c] = "user"]
      /\ UNCHANGED <<ready, handed, batches, draining>>
  BY DEF WarmMiss
<1>2. PoolNext
  BY <1>1 DEF PoolNext
<1>3. IInv' /\ TypeOK /\ StageInv
  BY <1>2, PoolStep DEF IInv
<1>4. /\ BeginAcquire(c) /\ UNCHANGED <<request, clones, releasing, closing>>
  BY <1>1 DEF Acquire
<1>5. Settled(role) /\ SamePresets
  BY <1>4 DEF Settled, SamePresets, PresetOf
<1>6. role \in [Calls -> Roles] /\ handed \subseteq Calls
  BY DEF WarmInv, WarmTypes
<1>7. Begun(role)
  BY <1>1, <1>3, <1>4, <1>6, OneBegins DEF Awaiting
<1>8. \A k \in Calls : role[k] \in Awaiting => role[k] # "resumed"
  BY DEF Awaiting
<1>9. \A k \in clones : k \in Calls
  BY <1>3 DEF TypeOK
<1>10. WarmInv'
  BY <1>1, <1>3, <1>4, <1>5, <1>6, <1>7, <1>8, <1>9, BeginOnly
<1> QED BY <1>3, <1>10

\* ReplenishCall: a call may begin, awaited by replenish().
LEMMA ReplenishCallWarm ==
  ASSUME IInv, WarmInv, NEW p \in Presets, ReplenishCall(p)
  PROVE  IInv' /\ WarmInv'
<1>1. /\ Refill(p, Len(ready[p]), role)
      /\ UNCHANGED <<request, source, clones, device, masterUp, releasing, closing>>
      /\ UNCHANGED <<ready, handed, batches, draining>>
  BY DEF ReplenishCall
<1>2. [PoolNext]_poolVars
  BY <1>1, RefillStep
<1>3. IInv' /\ TypeOK /\ StageInv
  BY <1>2, PoolStep DEF IInv
<1>4. Settled(role) /\ SamePresets
  BY <1>1 DEF Settled, SamePresets, PresetOf
<1>5. role \in [Calls -> Roles] /\ handed \subseteq Calls
  BY DEF WarmInv, WarmTypes
<1>6. Begun(role)
  BY <1>1, <1>3, <1>5, RefillBegins
<1>7. \A k \in Calls : role[k] \in Awaiting => role[k] # "resumed"
  BY DEF Awaiting
<1>8. \A k \in clones : k \in Calls
  BY <1>3 DEF TypeOK
<1>9. WarmInv'
  BY <1>1, <1>3, <1>4, <1>5, <1>6, <1>7, <1>8, BeginOnly
<1> QED BY <1>3, <1>9

\* DeliverUser: what settled is given out, or has no clone.
LEMMA DeliverUserWarm ==
  ASSUME IInv, WarmInv, NEW c \in Calls, DeliverUser(c)
  PROVE  IInv' /\ WarmInv'
<1>1. /\ role[c] = "user"
      /\ UNCHANGED <<request, source, clones, device, masterUp, releasing, closing>>
      /\ UNCHANGED <<ready, batches, draining>>
  BY DEF DeliverUser
<1>2. \/ /\ pc[c] = "held" /\ handed' = handed \cup {c}
         /\ Refill(PresetOf(c), Len(ready[PresetOf(c)]), Resume(c))
      \/ /\ pc[c] = "failed" /\ role' = Resume(c)
         /\ UNCHANGED <<pc, lock, handed>>
  BY DEF DeliverUser
<1>3. [PoolNext]_poolVars
  <2>1. CASE UNCHANGED <<pc, lock>>
    BY <1>1, <2>1 DEF poolVars
  <2> QED BY <1>1, <1>2, <2>1, RefillStep
<1>4. IInv' /\ TypeOK /\ StageInv
  BY <1>3, PoolStep DEF IInv
<1>5. role \in [Calls -> Roles] /\ handed \subseteq Calls
  BY DEF WarmInv, WarmTypes
<1>6. PICK roles \in [Calls -> Roles] : roles = Resume(c)
  BY <1>5 DEF Resume, Roles
<1>7. roles[c] = "resumed" /\ \A k \in Calls : k # c => roles[k] = role[k]
  BY <1>5, <1>6 DEF Resume
<1>8. Settled(roles) /\ SamePresets
  BY <1>1, <1>2, <1>7 DEF Settled, SamePresets, PresetOf
<1>9. Begun(roles)
  <2>1. CASE role' = roles /\ pc' = pc
    BY <2>1 DEF Begun
  <2> QED BY <1>2, <1>4, <1>6, <2>1, RefillBegins
<1>10. c \in clones => pc[c] = "held"
  BY <1>2, <1>4 DEF StageInv, Stage
<1>11. \A k \in clones : k \in Calls
  BY <1>4 DEF TypeOK
<1>12. /\ handed \subseteq handed' /\ handed' \subseteq Calls
       /\ \A k \in Calls : k \in handed' => k \in handed \/
                              (pc[k] = "held" /\ roles[k] = "resumed" /\ role[k] # "resumed")
       /\ \A k \in clones : role[k] \in Awaiting /\ roles[k] = "resumed" => k \in handed'
       /\ \A k \in Calls : role[k] = "warmUp" => roles[k] = "warmUp"
  <2>1. handed' = handed \/ (handed' = handed \cup {c} /\ pc[c] = "held")
    BY <1>2
  <2>2. pc[c] = "held" => handed' = handed \cup {c}
    BY <1>2
  <2>3. \A k \in clones : role[k] \in Awaiting /\ roles[k] = "resumed" => k = c
    BY <1>7, <1>11 DEF Awaiting
  <2> QED BY <1>1, <1>5, <1>7, <1>10, <1>11, <2>1, <2>2, <2>3
<1>13. WarmInv'
  BY <1>1, <1>4, <1>8, <1>9, <1>12, BeginOnly
<1> QED BY <1>4, <1>13

\* One queue changes, the others stay.
LEMMA KeptChange ==
  ASSUME WarmInv, SamePresets, NEW p \in Presets, NEW q \in Seq(Calls), IsInjective(q),
         ready' = [ready EXCEPT ![p] = q],
         \A c \in ToSet(q) : Fit(c, p)',
         \A c \in Calls :
           role[c] = "resumed" =>
             /\ role'[c] = "resumed" /\ (pc[c] = "held" => pc'[c] = "held")
             /\ c \in handed' => c \in handed \/ PresetOf(c) = p,
         draining'.at = "no" =>
           draining.at = "no" /\ \A c \in clones : c \in clones' \/ c \in handed \/ PresetOf(c) = p
  PROVE  KeptInv'
<1>1. ready'[p] = q /\ \A r \in Presets : r # p => ready'[r] = ready[r]
  BY DEF WarmInv, WarmTypes
<1>2. ASSUME NEW r \in Presets, r # p, NEW c \in ToSet(ready[r]) PROVE Fit(c, r)'
  <2>1. c \in Calls
    BY ReadyType DEF WarmInv
  <2>2. Fit(c, r)
    BY DEF WarmInv, KeptInv
  <2>3. PresetOf(c) # p
    BY <1>2, <2>2 DEF Fit
  <2> QED BY <2>1, <2>2, <2>3 DEF Fit, SamePresets
<1>3. \A r \in Presets : IsInjective(ready'[r])
  BY <1>1 DEF WarmInv, KeptInv
<1> QED BY <1>1, <1>2, <1>3 DEF KeptInv

\* What is in the queues when one of them changes.
LEMMA ReadyChange ==
  ASSUME WarmTypes, NEW p \in Presets, NEW q \in Seq(Calls), ready' = [ready EXCEPT ![p] = q]
  PROVE  /\ ready' \in [Presets -> Seq(Calls)]
         /\ ToSet(q) \subseteq InReady'
         /\ \A c \in InReady : c \in InReady' \/ c \in ToSet(ready[p])
<1>1. ready' \in [Presets -> Seq(Calls)]
  BY DEF WarmTypes
<1>2. ready'[p] = q /\ \A r \in Presets : r # p => ready'[r] = ready[r]
  BY DEF WarmTypes
<1>3. ToSet(q) \subseteq InReady'
  BY <1>2 DEF InReady
<1>4. \A c \in InReady : c \in InReady' \/ c \in ToSet(ready[p])
  BY <1>2 DEF InReady
<1> QED BY <1>1, <1>3, <1>4

\* WarmHit: the head of a queue is given out.
LEMMA HitWarm ==
  ASSUME IInv, WarmInv, NEW p \in Presets, NEW keep \in BOOLEAN, WarmHit(p, keep)
  PROVE  IInv' /\ WarmInv'
<1>1. ready[p] \in Seq(Calls) /\ IsInjective(ready[p])
  BY DEF WarmInv, WarmTypes, KeptInv
<1>2. IInv' /\ \A k \in Calls : request'[k].preset = request[k].preset
  BY <1>1, HitStep
<1>3. TypeOK /\ StageInv /\ SamePresets
  BY <1>2 DEF IInv, SamePresets, PresetOf
<1>4. /\ ready[p] # <<>>
      /\ Refill(p, Len(ready[p]) - 1, role)
      /\ UNCHANGED <<clones, releasing, closing, batches, draining>>
      /\ ready' = [ready EXCEPT ![p] = Tail(ready[p])]
      /\ handed' = handed \cup {Head(ready[p])}
  BY DEF WarmHit
<1>5. /\ Head(ready[p]) \in ToSet(ready[p]) /\ Tail(ready[p]) \in Seq(Calls)
      /\ ToSet(Tail(ready[p])) = ToSet(ready[p]) \ {Head(ready[p])}
      /\ IsInjective(Tail(ready[p]))
  BY <1>1, <1>4, SetOfTail
<1>6. PICK h \in Calls : h = Head(ready[p])
  BY <1>5, ReadyType DEF WarmInv
<1>7. PICK q \in Seq(Calls) : q = Tail(ready[p])
  BY <1>5
<1>8. /\ IsInjective(q) /\ ready' = [ready EXCEPT ![p] = q] /\ handed' = handed \cup {h}
      /\ ToSet(q) = ToSet(ready[p]) \ {h} /\ h \in ToSet(ready[p])
  BY <1>4, <1>5, <1>6, <1>7
<1>9. \A c \in ToSet(ready[p]) : c \in Calls /\ Fit(c, p)
  BY ReadyType DEF WarmInv, KeptInv
<1>10. pc[h] = "held" /\ role[h] = "resumed" /\ PresetOf(h) = p
  BY <1>8, <1>9 DEF Fit
<1>11. Settled(role)
  BY DEF Settled
<1>12. role \in [Calls -> Roles] /\ handed \subseteq Calls
  BY DEF WarmInv, WarmTypes
<1>13. Begun(role)
  BY <1>3, <1>4, <1>12, RefillBegins
<1>14. \A c \in Calls : role[c] = "resumed" => role'[c] = "resumed" /\ pc'[c] = pc[c]
  BY <1>11, <1>13, ResumedStays
<1>15. \A c \in ToSet(q) : Fit(c, p)'
  BY <1>3, <1>4, <1>8, <1>9, <1>14 DEF Fit, SamePresets
<1>16. KeptInv'
  BY <1>3, <1>4, <1>8, <1>10, <1>14, <1>15, KeptChange
<1>17. /\ ready' \in [Presets -> Seq(Calls)]
       /\ \A c \in InReady : c \in InReady' \/ c = h
  BY <1>8, ReadyChange DEF WarmInv
<1>18. \A c \in Calls : role[c] = "warmUp" => role'[c] = "warmUp"
  <2> SUFFICES ASSUME NEW c \in Calls, role[c] = "warmUp" PROVE role'[c] = "warmUp"
    OBVIOUS
  <2>1. pc[c] # "idle"
    BY DEF WarmInv, RoleInv, RoleOK
  <2> QED BY <2>1, <1>13 DEF Begun
<1>19. BatchInv'
  BY <1>3, <1>4, <1>18, BatchFrame
<1>20. batches' \subseteq SUBSET Calls /\ handed' \subseteq Calls
  BY <1>4, <1>8, <1>12 DEF WarmInv, WarmTypes
<1>21. \A c \in clones : \/ c \in InReady
                         \/ c \in handed
                         \/ role[c] \in Awaiting /\ role[c] = "resumed"
                         => c \in InReady' \/ c \in handed'
  BY <1>8, <1>17 DEF Awaiting
<1>22. \A c \in Calls : c \in handed' => c \in handed \/ (pc[c] = "held" /\ role[c] = "resumed")
  BY <1>8, <1>10
<1>23. WarmInv'
  BY <1>3, <1>4, <1>11, <1>13, <1>16, <1>17, <1>19, <1>20, <1>21, <1>22, BeginStep
<1> QED BY <1>2, <1>23

\* DeliverReplenish: what settled goes into its preset's queue.
LEMMA DeliverReplenishWarm ==
  ASSUME IInv, WarmInv, NEW c \in Calls, DeliverReplenish(c)
  PROVE  IInv' /\ WarmInv'
<1>1. PICK p \in Presets : p = PresetOf(c)
  BY PresetType DEF IInv
<1>2. /\ role[c] = "replenish"
      /\ UNCHANGED <<request, source, clones, device, masterUp, releasing, closing>>
      /\ UNCHANGED <<handed, batches, draining>>
  BY DEF DeliverReplenish
<1>3. \/ pc[c] = "failed" /\ UNCHANGED ready
      \/ pc[c] = "held" /\ ready' = [ready EXCEPT ![p] = Append(@, c)]
  BY <1>1 DEF DeliverReplenish
<1>4. \/ role' = Resume(c) /\ UNCHANGED <<pc, lock>>
      \/ \E k \in Calls : BeginAcquire(k) /\ role' = [Resume(c) EXCEPT ![k] = "replenish"]
  BY DEF DeliverReplenish
<1>5. [PoolNext]_poolVars
  <2>1. CASE UNCHANGED <<pc, lock>>
    BY <1>2, <2>1 DEF poolVars
  <2>2. ASSUME NEW k \in Calls, BeginAcquire(k) PROVE PoolNext
    BY <1>2, <2>2 DEF PoolNext, Acquire
  <2> QED BY <1>4, <2>1, <2>2
<1>6. IInv' /\ TypeOK /\ StageInv
  BY <1>5, PoolStep DEF IInv
<1>7. role \in [Calls -> Roles] /\ handed \subseteq Calls
  BY DEF WarmInv, WarmTypes
<1>8. PICK roles \in [Calls -> Roles] : roles = Resume(c)
  BY <1>7 DEF Resume, Roles
<1>9. roles[c] = "resumed" /\ \A k \in Calls : k # c => roles[k] = role[k]
  BY <1>7, <1>8 DEF Resume
<1>10. Settled(roles) /\ SamePresets
  BY <1>2, <1>3, <1>9 DEF Settled, SamePresets, PresetOf
<1>11. Begun(roles)
  <2>1. CASE role' = roles /\ pc' = pc
    BY <2>1 DEF Begun
  <2>2. ASSUME NEW k \in Calls, BeginAcquire(k), role' = [roles EXCEPT ![k] = "replenish"]
        PROVE  Begun(roles)
    BY <1>6, <2>2, OneBegins DEF Awaiting
  <2> QED BY <1>4, <1>8, <2>1, <2>2
<1>12. c \in clones => pc[c] = "held"
  BY <1>3, <1>6 DEF StageInv, Stage
<1>13. \A k \in clones : k \in Calls
  BY <1>6 DEF TypeOK
<1>14. \A k \in Calls : role[k] = "resumed" => role'[k] = "resumed" /\ pc'[k] = pc[k]
  BY <1>10, <1>11, ResumedStays
<1>15. \A k \in Calls : role[k] = "warmUp" => role'[k] = "warmUp"
  <2> SUFFICES ASSUME NEW k \in Calls, role[k] = "warmUp" PROVE role'[k] = "warmUp"
    OBVIOUS
  <2>1. pc[k] # "idle" /\ roles[k] = "warmUp"
    BY <1>2, <1>9 DEF WarmInv, RoleInv, RoleOK
  <2> QED BY <2>1, <1>11 DEF Begun
<1>16. BatchInv'
  BY <1>2, <1>10, <1>15, BatchFrame
<1>17. \A k \in clones : role[k] \in Awaiting /\ roles[k] = "resumed" => k = c
  BY <1>9, <1>13 DEF Awaiting
<1>18. CASE pc[c] = "failed" /\ UNCHANGED ready
  <2>1. \A k \in clones : role[k] \in Awaiting /\ roles[k] = "resumed" => k \in handed'
    BY <1>12, <1>17, <1>18
  <2>2. \A k \in Calls : role[k] = "warmUp" => roles[k] = "warmUp"
    BY <1>2, <1>9
  <2>3. /\ handed \subseteq handed' /\ handed' \subseteq Calls
        /\ \A k \in Calls : k \in handed' => k \in handed
    BY <1>2, <1>7
  <2>4. WarmInv'
    BY <1>2, <1>6, <1>10, <1>11, <1>18, <2>1, <2>2, <2>3, BeginOnly
  <2> QED BY <1>6, <2>4
<1>19. CASE pc[c] = "held" /\ ready' = [ready EXCEPT ![p] = Append(@, c)]
  <2>1. /\ ready[p] \in Seq(Calls) /\ IsInjective(ready[p])
        /\ \A k \in ToSet(ready[p]) : k \in Calls /\ Fit(k, p)
    BY ReadyType DEF WarmInv, KeptInv
  <2>2. c \notin ToSet(ready[p]) /\ c \notin handed
    BY <1>2, <2>1 DEF Fit, WarmInv, RoleInv, RoleOK
  <2>3. /\ Append(ready[p], c) \in Seq(Calls)
        /\ ToSet(Append(ready[p], c)) = ToSet(ready[p]) \cup {c}
        /\ IsInjective(Append(ready[p], c))
    BY <2>1, <2>2, SetOfAppend
  <2>4. PICK q \in Seq(Calls) : q = Append(ready[p], c)
    BY <2>3
  <2>5. /\ IsInjective(q) /\ ready' = [ready EXCEPT ![p] = q]
        /\ ToSet(q) = ToSet(ready[p]) \cup {c}
    BY <1>19, <2>3, <2>4
  <2>6. role'[c] = "resumed" /\ pc'[c] = "held"
    BY <1>9, <1>11, <1>19 DEF Begun
  <2>7. draining.at = "no" => c \in clones
    <3>1. draining.at = "no" => releasing[c] = "no"
      BY <1>2 DEF WarmInv, RoleInv, RoleOK
    <3> QED BY <3>1, <1>19, <1>6 DEF StageInv, Stage
  <2>8. Fit(c, p)'
    BY <1>1, <1>2, <1>10, <2>2, <2>6, <2>7 DEF Fit, SamePresets
  <2>9. \A k \in ToSet(q) : Fit(k, p)'
    <3> SUFFICES ASSUME NEW k \in ToSet(ready[p]) PROVE Fit(k, p)'
      BY <2>5, <2>8
    <3> QED BY <1>2, <1>10, <1>14, <2>1 DEF Fit, SamePresets
  <2>10. KeptInv'
    BY <1>2, <1>10, <1>14, <2>5, <2>9, KeptChange
  <2>11. /\ ready' \in [Presets -> Seq(Calls)]
         /\ \A k \in InReady : k \in InReady'
         /\ c \in InReady'
    BY <2>5, ReadyChange DEF WarmInv
  <2>12. \A k \in clones : \/ k \in InReady
                           \/ k \in handed
                           \/ role[k] \in Awaiting /\ roles[k] = "resumed"
                           => k \in InReady' \/ k \in handed'
    BY <1>2, <1>17, <2>11
  <2>13. batches' \subseteq SUBSET Calls /\ handed' \subseteq Calls
    BY <1>2, <1>7 DEF WarmInv, WarmTypes
  <2>14. \A k \in Calls : k \in handed' => k \in handed \/ (pc[k] = "held" /\ roles[k] = "resumed")
    BY <1>2
  <2>15. WarmInv'
    BY <1>2, <1>6, <1>10, <1>11, <1>16, <2>10, <2>11, <2>12, <2>13, <2>14, BeginStep
  <2> QED BY <1>6, <2>15
<1> QED BY <1>3, <1>18, <1>19

\* WarmUp: a new batch of calls that nobody else waits for.
LEMMA WarmUpWarm ==
  ASSUME IInv, WarmInv, NEW p \in Presets, NEW n \in Nat, WarmUp(p, n)
  PROVE  IInv' /\ WarmInv'
<1>1. /\ IInv'
      /\ UNCHANGED <<request, clones, releasing, closing, ready, handed, draining>>
  BY WarmUpStep DEF WarmInv, WarmUp
<1>2. TypeOK /\ StageInv /\ SamePresets /\ WarmTypes
  BY <1>1 DEF IInv, SamePresets, PresetOf, WarmInv
<1>3. CASE UNCHANGED <<pc, role, batches>>
  <2>1. Settled(role) /\ Begun(role)
    BY <1>2, <1>3 DEF Settled, Begun, WarmTypes
  <2>2. \A k \in clones : role[k] \in Awaiting /\ role[k] = "resumed" => k \in handed'
    BY DEF Awaiting
  <2>3. handed \subseteq handed' /\ handed' \subseteq Calls
    BY <1>1, <1>2 DEF WarmTypes
  <2>4. WarmInv'
    BY <1>1, <1>2, <1>3, <2>1, <2>2, <2>3, BeginOnly
  <2> QED BY <1>1, <2>4
<1>4. ASSUME NEW B \in SUBSET Calls, B # {},
             \A c \in B : pc[c] = "idle" /\ PresetOf(c) = p,
             \A k \in Calls : IF k \in B THEN pc'[k] # "idle" ELSE pc'[k] = pc[k],
             role' = [c \in Calls |-> IF c \in B THEN "warmUp" ELSE role[c]],
             batches' = batches \cup {B}
      PROVE  WarmInv'
  <2>1. role' \in [Calls -> Roles]
    BY <1>2, <1>4 DEF WarmTypes, Roles
  <2>2. Settled(role) /\ Begun(role)
    BY <1>4, <2>1 DEF Settled, Begun, Awaiting
  <2>3. \A k \in Calls : role[k] = "resumed" => role'[k] = "resumed" /\ pc'[k] = pc[k]
    BY <2>2, ResumedStays
  <2>4. KeptInv'
    BY <1>1, <1>2, <2>3, KeptSame
  <2>5. \A A \in batches : A \in SUBSET Calls /\ BatchOK(A) /\ A \cap B = {}
    <3> SUFFICES ASSUME NEW A \in batches
                 PROVE  A \in SUBSET Calls /\ BatchOK(A) /\ A \cap B = {}
      OBVIOUS
    <3>1. A \in SUBSET Calls /\ BatchOK(A)
      BY DEF WarmInv, WarmTypes, BatchInv
    <3>2. \A c \in A : role[c] = "warmUp" /\ pc[c] # "idle"
      BY <3>1 DEF BatchOK, WarmInv, RoleInv, RoleOK
    <3> QED BY <3>1, <3>2, <1>4
  <2>6. BatchOK(B)'
    BY <1>2, <1>4 DEF BatchOK, SamePresets
  <2>7. \A A \in batches : BatchOK(A)'
    <3> SUFFICES ASSUME NEW A \in batches PROVE BatchOK(A)'
      OBVIOUS
    <3>1. A \in SUBSET Calls /\ BatchOK(A)
      BY <2>5
    <3>2. \A c \in A : role'[c] = "warmUp"
      BY <3>1, <1>4 DEF BatchOK
    <3> QED BY <3>1, <3>2, <1>2 DEF BatchOK, SamePresets
  <2>8. BatchInv'
    <3>1. \A A \in batches' : BatchOK(A)'
      BY <1>4, <2>6, <2>7
    <3>2. \A A, D \in batches' : A # D => A \cap D = {}
      BY <1>4, <2>5 DEF WarmInv, BatchInv
    <3> QED BY <3>1, <3>2 DEF BatchInv
  <2>9. /\ ready' \in [Presets -> Seq(Calls)] /\ handed' \subseteq Calls
        /\ batches' \subseteq SUBSET Calls /\ InReady' = InReady
    BY <1>1, <1>2, <1>4 DEF WarmTypes, InReady
  <2>10. \A k \in clones : \/ k \in InReady
                           \/ k \in handed
                           \/ role[k] \in Awaiting /\ role[k] = "resumed"
                           => k \in InReady' \/ k \in handed'
    BY <1>1, <2>9 DEF Awaiting
  <2>11. \A k \in Calls : k \in handed' => k \in handed \/ (pc[k] = "held" /\ role[k] = "resumed")
    BY <1>1
  <2> QED BY <1>1, <1>2, <2>2, <2>4, <2>8, <2>9, <2>10, <2>11, BeginStep
<1>5. \/ UNCHANGED <<pc, role, batches>>
      \/ \E B \in SUBSET Calls :
                 /\ B # {}
                 /\ \A c \in B : pc[c] = "idle" /\ PresetOf(c) = p
                 /\ \A k \in Calls : IF k \in B THEN pc'[k] # "idle" ELSE pc'[k] = pc[k]
                 /\ role' = [c \in Calls |-> IF c \in B THEN "warmUp" ELSE role[c]]
                 /\ batches' = batches \cup {B}
  BY <1>2, WarmUpStep
<1> QED BY <1>1, <1>3, <1>4, <1>5

\* DeliverBatch: what settled well goes into the queue, the rest has no clone.
LEMMA DeliverBatchWarm ==
  ASSUME IInv, WarmInv, NEW B \in batches, DeliverBatch(B)
  PROVE  IInv' /\ WarmInv'
<1>1. /\ UNCHANGED poolVars /\ UNCHANGED <<handed, draining>>
      /\ \A c \in B : pc[c] \in {"held", "failed"}
      /\ batches' = batches \ {B}
      /\ role' = [c \in Calls |-> IF c \in B THEN "resumed" ELSE role[c]]
  BY DEF DeliverBatch
<1>2. IInv' /\ TypeOK /\ StageInv /\ WarmTypes
  BY <1>1, PoolStep DEF IInv, WarmInv
<1>3. BatchOK(B) /\ B \in SUBSET Calls
  BY DEF WarmInv, BatchInv, WarmTypes
<1>4. PICK p \in Presets : \A c \in B : PresetOf(c) = p
  BY <1>3 DEF BatchOK
<1>5. PresetOf(CHOOSE c \in B : TRUE) = p
  <2>1. (CHOOSE c \in B : TRUE) \in B
    BY <1>3 DEF BatchOK
  <2> QED BY <1>4, <2>1
<1> DEFINE H == {c \in B : pc[c] = "held"}
<1>6. \E s \in SetToSeqs(H) : ready' = [ready EXCEPT ![p] = @ \o s]
  BY <1>5 DEF DeliverBatch
<1>7. H \in SUBSET Calls /\ \A c \in Calls : c \in H <=> c \in B /\ pc[c] = "held"
  BY <1>3
<1> HIDE DEF H
<1>8. PICK s \in SetToSeqs(H) : ready' = [ready EXCEPT ![p] = @ \o s]
  BY <1>6
<1>9. s \in Seq(H) /\ IsInjective(s) /\ ToSet(s) = H
  BY <1>7, SetOfList, FS_Subset, PoolConstants
<1>10. s \in Seq(Calls)
  BY <1>7, <1>9
<1>11. /\ ready[p] \in Seq(Calls) /\ IsInjective(ready[p])
       /\ \A k \in ToSet(ready[p]) : k \in Calls /\ Fit(k, p)
  BY ReadyType DEF WarmInv, KeptInv
<1>12. \A c \in B : role[c] = "warmUp" /\ c \in Calls
  BY <1>3 DEF BatchOK
<1>13. ToSet(ready[p]) \cap ToSet(s) = {}
  BY <1>7, <1>9, <1>11, <1>12 DEF Fit
<1>14. /\ ready[p] \o s \in Seq(Calls)
       /\ ToSet(ready[p] \o s) = ToSet(ready[p]) \cup H
       /\ IsInjective(ready[p] \o s)
  BY <1>9, <1>10, <1>11, <1>13, SetOfJoin
<1>15. PICK q \in Seq(Calls) : q = ready[p] \o s
  BY <1>14
<1>16. /\ IsInjective(q) /\ ready' = [ready EXCEPT ![p] = q]
       /\ ToSet(q) = ToSet(ready[p]) \cup H
  BY <1>8, <1>14, <1>15
<1>17. UNCHANGED <<pc, request, clones, releasing, closing>>
  BY <1>1 DEF poolVars
<1>18. SamePresets
  BY <1>17 DEF SamePresets, PresetOf
<1>19. role' \in [Calls -> Roles]
  BY <1>1, <1>2 DEF WarmTypes, Roles
<1>20. PICK roles \in [Calls -> Roles] : roles = role'
  BY <1>19
<1>21. \A c \in Calls : IF c \in B THEN roles[c] = "resumed" ELSE roles[c] = role[c]
  BY <1>1, <1>20
<1>22. Settled(roles) /\ Begun(roles)
  BY <1>1, <1>17, <1>19, <1>20, <1>21 DEF Settled, Begun
<1>23. \A c \in H : Fit(c, p)'
  <2> SUFFICES ASSUME NEW c \in H PROVE Fit(c, p)'
    OBVIOUS
  <2>1. c \in Calls /\ c \in B /\ pc[c] = "held" /\ role[c] = "warmUp" /\ PresetOf(c) = p
    BY <1>4, <1>7, <1>12
  <2>2. c \notin handed
    BY <2>1 DEF WarmInv, RoleInv, RoleOK
  <2>3. draining.at = "no" => releasing[c] = "no"
    BY <2>1 DEF WarmInv, RoleInv, RoleOK
  <2>4. draining.at = "no" => c \in clones
    BY <2>1, <2>3, <1>2 DEF StageInv, Stage
  <2>5. role'[c] = "resumed"
    BY <1>20, <1>21, <2>1
  <2> QED BY <1>1, <1>17, <1>18, <2>1, <2>2, <2>4, <2>5 DEF Fit, SamePresets
<1>24. \A c \in Calls : role[c] = "resumed" => role'[c] = "resumed" /\ pc'[c] = pc[c]
  BY <1>17, <1>20, <1>21
<1>25. \A c \in ToSet(q) : Fit(c, p)'
  <2> SUFFICES ASSUME NEW c \in ToSet(ready[p]) PROVE Fit(c, p)'
    BY <1>16, <1>23
  <2> QED BY <1>1, <1>11, <1>17, <1>18, <1>24 DEF Fit, SamePresets
<1>26. KeptInv'
  BY <1>1, <1>16, <1>17, <1>18, <1>24, <1>25, KeptChange
<1>27. /\ ready' \in [Presets -> Seq(Calls)]
       /\ \A k \in InReady : k \in InReady'
       /\ \A k \in H : k \in InReady'
  BY <1>2, <1>16, ReadyChange
<1>28. \A k \in clones : k \in Calls /\ pc[k] = "held"
  BY <1>2 DEF TypeOK, StageInv, Stage, PCs, Critical
<1>29. \A k \in clones : \/ k \in InReady
                         \/ k \in handed
                         \/ role[k] \in Awaiting /\ roles[k] = "resumed"
                         => k \in InReady' \/ k \in handed'
  <2> SUFFICES ASSUME NEW k \in clones, role[k] \in Awaiting, roles[k] = "resumed"
               PROVE  k \in InReady'
    BY <1>1, <1>27
  <2>1. k \in Calls /\ pc[k] = "held" /\ k \in B
    BY <1>21, <1>28 DEF Awaiting
  <2> QED BY <2>1, <1>7, <1>27
<1>30. BatchInv'
  <2>1. \A A \in batches' : BatchOK(A)'
    <3> SUFFICES ASSUME NEW A \in batches, A # B PROVE BatchOK(A)'
      BY <1>1
    <3>1. A \in SUBSET Calls /\ BatchOK(A) /\ A \cap B = {}
      BY <1>2 DEF WarmTypes, WarmInv, BatchInv
    <3>2. \A c \in A : role'[c] = "warmUp"
      BY <3>1, <1>20, <1>21 DEF BatchOK
    <3> QED BY <3>1, <3>2, <1>18 DEF BatchOK, SamePresets
  <2> QED BY <1>1, <2>1 DEF WarmInv, BatchInv
<1>31. /\ batches' \subseteq SUBSET Calls /\ handed' \subseteq Calls
       /\ \A k \in Calls : k \in handed' => k \in handed \/ (pc[k] = "held" /\ roles[k] = "resumed")
  BY <1>1, <1>2 DEF WarmTypes
<1>32. WarmInv'
  BY <1>1, <1>2, <1>17, <1>18, <1>22, <1>26, <1>27, <1>29, <1>30, <1>31, BeginStep
<1> QED BY <1>2, <1>32

\* DrainNext: a clone leaves its queue and begins to be released.
LEMMA DrainWarm ==
  ASSUME IInv, WarmInv, NEW p \in Presets, DrainNext(p)
  PROVE  IInv' /\ WarmInv'
<1>1. ready[p] \in Seq(Calls) /\ IsInjective(ready[p]) /\ ready[p] # <<>>
  BY DEF WarmInv, WarmTypes, KeptInv, DrainNext
<1>2. IInv' /\ TypeOK /\ StageInv
  BY <1>1, DrainNextStep DEF IInv
<1>3. /\ Head(ready[p]) \in ToSet(ready[p]) /\ Tail(ready[p]) \in Seq(Calls)
      /\ ToSet(Tail(ready[p])) = ToSet(ready[p]) \ {Head(ready[p])}
      /\ IsInjective(Tail(ready[p]))
  BY <1>1, SetOfTail
<1>4. PICK h \in Calls : h = Head(ready[p])
  BY <1>3, ReadyType DEF WarmInv
<1>5. PICK q \in Seq(Calls) : q = Tail(ready[p])
  BY <1>3
<1>6. /\ UNCHANGED <<pc, request, role, handed, batches, draining>>
      /\ draining.at = "on"
      /\ ready' = [ready EXCEPT ![p] = q]
      /\ \/ StartRelease(h) /\ closing' = [closing EXCEPT !.now = h]
         \/ h \notin clones /\ UNCHANGED <<clones, releasing, closing>>
  BY <1>4, <1>5 DEF DrainNext
<1>7. /\ IsInjective(q) /\ ToSet(q) = ToSet(ready[p]) \ {h} /\ h \in ToSet(ready[p])
      /\ \A k \in ToSet(ready[p]) : k \in Calls /\ Fit(k, p)
  BY <1>3, <1>4, <1>5, ReadyType DEF WarmInv, KeptInv
<1>8. /\ clones' = clones \ {h} /\ closing'.at = closing.at
      /\ \A k \in Calls : k # h => releasing'[k] = releasing[k]
  BY <1>2, <1>6 DEF StartRelease, TypeOK, Closing
<1>9. SamePresets
  BY <1>6 DEF SamePresets, PresetOf
<1>10. \A c \in ToSet(q) : Fit(c, p)'
  BY <1>6, <1>7, <1>9 DEF Fit, SamePresets
<1>11. KeptInv'
  BY <1>6, <1>7, <1>9, <1>10, KeptChange
<1>12. /\ ready' \in [Presets -> Seq(Calls)]
       /\ \A k \in InReady : k \in InReady' \/ k = h
  BY <1>6, <1>7, ReadyChange DEF WarmInv
<1>13. WarmTypes'
  BY <1>6, <1>12 DEF WarmInv, WarmTypes
<1>14. role[h] = "resumed"
  BY <1>7 DEF Fit
<1>15. RoleInv'
  <2> SUFFICES ASSUME NEW c \in Calls PROVE RoleOK(c)'
    BY DEF RoleInv
  <2> QED BY <1>6, <1>8, <1>14 DEF WarmInv, RoleInv, RoleOK
<1>16. OwnedInv'
  <2> SUFFICES ASSUME NEW c \in clones, c # h PROVE Owned(c)'
    BY <1>8 DEF OwnedInv, Owned, InReady
  <2>1. Owned(c)
    BY <1>6 DEF WarmInv, OwnedInv
  <2> QED BY <1>6, <1>12, <2>1 DEF Owned
<1>17. BatchInv'
  BY <1>6, <1>9, BatchFrame
<1>18. DrainInv'
  BY <1>6, <1>8 DEF WarmInv, DrainInv
<1> QED BY <1>2, <1>11, <1>13, <1>15, <1>16, <1>17, <1>18 DEF WarmInv

\* Only the targets, the in-flight flags or the drain's own state change.
LEMMA AsideWarm ==
  ASSUME IInv, WarmInv,
         UNCHANGED <<poolVars, ready, role, handed, batches>>,
         \/ UNCHANGED draining
         \/ draining.at = "no" /\ draining'.at = "on"
         \/ draining'.at = draining.at
  PROVE  IInv' /\ WarmInv'
<1>1. IInv' /\ TypeOK /\ StageInv
  BY PoolStep DEF IInv
<1>2. UNCHANGED <<pc, request, clones, releasing, closing>>
  BY DEF poolVars
<1>3. SamePresets
  BY <1>2 DEF SamePresets, PresetOf
<1>4. WarmTypes'
  BY DEF WarmInv, WarmTypes
<1>5. RoleInv'
  BY <1>2, <1>4 DEF WarmInv, WarmTypes, RoleInv, RoleOK
<1>6. KeptInv'
  BY <1>2, <1>3, KeptSame
<1>7. OwnedInv'
  BY <1>2 DEF WarmInv, OwnedInv, Owned, InReady
<1>8. BatchInv'
  BY <1>3, BatchFrame
<1>9. DrainInv'
  BY <1>2 DEF WarmInv, DrainInv
<1> QED BY <1>1, <1>4, <1>5, <1>6, <1>7, <1>8, <1>9 DEF WarmInv

\* DrainEnd: the queues are dropped, and the base pool releases what it has.
LEMMA DrainEndWarm ==
  ASSUME IInv, WarmInv, DrainEnd
  PROVE  IInv' /\ WarmInv'
<1>1. /\ Shutdown /\ draining.at = "on"
      /\ ready' = [p \in Presets |-> <<>>] /\ draining' = [draining EXCEPT !.at = "base"]
      /\ UNCHANGED <<role, handed, batches>>
  BY DEF DrainEnd
<1>2. PoolNext /\ UNCHANGED <<pc, request, clones, releasing>>
  BY <1>1 DEF PoolNext, Shutdown
<1>3. IInv' /\ SamePresets
  BY <1>2, PoolStep DEF SamePresets, PresetOf
<1>4. draining'.at = "base"
  <2>1. draining = [at |-> "on", left |-> {}]
    BY DEF DrainEnd
  <2> QED BY <1>1, <2>1
<1>5. \A p \in Presets : ready'[p] = <<>>
  BY <1>1
<1>6. /\ <<>> \in Seq(Calls) /\ IsInjective(<<>>) /\ ToSet(<<>>) = {}
  BY DEF IsInjective, ToSet
<1>7. WarmTypes'
  BY <1>1, <1>4, <1>6 DEF WarmInv, WarmTypes
<1>8. RoleInv'
  BY <1>1, <1>2, <1>4 DEF WarmInv, RoleInv, RoleOK
<1>9. KeptInv'
  BY <1>5, <1>6 DEF KeptInv
<1>10. OwnedInv' /\ DrainInv'
  BY <1>4 DEF OwnedInv, DrainInv
<1>11. BatchInv'
  BY <1>1, <1>3, BatchFrame
<1> QED BY <1>3, <1>7, <1>8, <1>9, <1>10, <1>11 DEF WarmInv

-----------------------------------------------------------------------------
\* The strengthening holds initially ...
LEMMA WarmInitInv == WarmInit => IInv /\ WarmInv
<1> SUFFICES ASSUME WarmInit PROVE IInv /\ WarmInv
  OBVIOUS
<1>1. IInv
  BY InitType, InitMutex, InitStage DEF IInv, MutexInv, WarmInit
<1>2. <<>> \in Seq(Calls) /\ IsInjective(<<>>) /\ ToSet(<<>>) = {}
  BY DEF IsInjective, ToSet
<1>3. \A p \in Presets : ready[p] = <<>>
  BY DEF WarmInit
<1>4. WarmTypes
  BY <1>2 DEF WarmInit, WarmTypes, Roles
<1>5. RoleInv
  BY DEF WarmInit, Init, RoleInv, RoleOK
<1>6. KeptInv
  BY <1>2, <1>3 DEF KeptInv
<1>7. OwnedInv /\ BatchInv /\ DrainInv
  BY DEF WarmInit, Init, OwnedInv, BatchInv, DrainInv
<1> QED BY <1>1, <1>4, <1>5, <1>6, <1>7 DEF WarmInv

\* ... and every step keeps it, with that of the base pool.
LEMMA WarmStepInv == IInv /\ WarmInv /\ [Next]_vars => IInv' /\ WarmInv'
<1> SUFFICES ASSUME IInv, WarmInv, [Next]_vars PROVE IInv' /\ WarmInv'
  OBVIOUS
<1>1. ASSUME NEW p \in Presets, NEW keep \in BOOLEAN, WarmHit(p, keep) PROVE IInv' /\ WarmInv'
  BY <1>1, HitWarm
<1>2. ASSUME NEW p \in Presets, ReplenishCall(p) PROVE IInv' /\ WarmInv'
  BY <1>2, ReplenishCallWarm
<1>3. ASSUME NEW p \in Presets, NEW n \in 0..MaxTarget, WarmUp(p, n) PROVE IInv' /\ WarmInv'
  BY <1>3, WarmUpWarm, WarmConstants
<1>4. ASSUME NEW p \in Presets, NEW n \in 0..MaxTarget, SetWarmTarget(p, n)
      PROVE  IInv' /\ WarmInv'
  BY <1>4, AsideWarm DEF SetWarmTarget
<1>5. ASSUME NEW c \in Calls, WarmMiss(c) PROVE IInv' /\ WarmInv'
  BY <1>5, MissWarm
<1>6. ASSUME NEW c \in Calls, WarmRelease(c) PROVE IInv' /\ WarmInv'
  BY <1>6, ReleaseWarm
<1>7. ASSUME NEW c \in Calls, BaseStep(c) PROVE IInv' /\ WarmInv'
  BY <1>7, BaseWarm
<1>8. ASSUME Deliver PROVE IInv' /\ WarmInv'
  BY <1>8, DeliverUserWarm, DeliverReplenishWarm, DeliverBatchWarm DEF Deliver
<1>9. ASSUME WarmShutdown PROVE IInv' /\ WarmInv'
  <2>1. draining.at = "no" /\ draining'.at = "on"
    BY <1>9 DEF WarmShutdown
  <2> QED BY <1>9, <2>1, AsideWarm DEF WarmShutdown
<1>10. ASSUME NEW p \in Presets, DrainedBucket(p) PROVE IInv' /\ WarmInv'
  <2>1. draining' = [draining EXCEPT !.left = @ \ {p}]
    BY <1>10 DEF DrainedBucket
  <2>2. draining'.at = draining.at
    BY <2>1
  <2> QED BY <1>10, <2>2, AsideWarm DEF DrainedBucket
<1>11. ASSUME DrainStep PROVE IInv' /\ WarmInv'
  BY <1>10, <1>11, DrainWarm, DrainEndWarm DEF DrainStep
<1>12. CASE ShutdownStep /\ UNCHANGED warmVars
  BY <1>12, ShutdownWarm
<1>13. ASSUME NEW m \in Masters, MasterBoots(m) /\ UNCHANGED warmVars PROVE IInv' /\ WarmInv'
  BY <1>13, ShutdownWarm
<1>14. CASE UNCHANGED vars
  BY <1>14, ShutdownWarm DEF vars
<1> QED
  BY <1>1, <1>2, <1>3, <1>4, <1>5, <1>6, <1>7, <1>8, <1>9, <1>11, <1>12, <1>13, <1>14 DEF Next

\* The two strengthenings together are an invariant of the warm pool.
THEOREM WarmInductive == WarmSpec => [](IInv /\ WarmInv)
<1>1. WarmInit => IInv /\ WarmInv
  BY WarmInitInv
<1>2. (IInv /\ WarmInv) /\ [Next]_vars => (IInv /\ WarmInv)'
  BY WarmStepInv
<1> QED BY <1>1, <1>2, PTL DEF WarmSpec

\* Until shutdown() a warm hit returns a booted simulator of the preset that was asked for.
THEOREM WarmClonesAlive == WarmSpec => []ReadyIsAlive
<1>1. IInv /\ WarmInv => ReadyIsAlive
  <2> SUFFICES ASSUME IInv, WarmInv, draining.at = "no",
                      NEW p \in Presets, NEW c \in ToSet(ready[p])
               PROVE  c \in clones /\ device[c] = "Booted" /\ PresetOf(c) = p
    BY DEF ReadyIsAlive
  <2>1. Fit(c, p) /\ c \in Calls
    BY ReadyType DEF WarmInv, KeptInv
  <2> QED BY <2>1 DEF Fit, IInv, StageInv, Stage
<1> QED BY <1>1, WarmInductive, PTL

\* Every managed clone is in a queue, was given out, or is about to be delivered.
THEOREM WarmClonesOwned == WarmSpec => []ManagedHasOwner
<1>1. IInv /\ WarmInv => ManagedHasOwner
  BY DEF WarmInv, OwnedInv, Owned, Awaiting, ManagedHasOwner
<1> QED BY <1>1, WarmInductive, PTL

\* The base pool's promises hold for the calls the warm pool makes.
THEOREM WarmKeepsPool == WarmSpec => [](WaitersHaveAWaker /\ ManagedAreBooted /\ NoOrphan)
<1>1. IInv => WaitersHaveAWaker
  BY DEF IInv, WakerInv, Waker, WaitersHaveAWaker, PresetOf
<1>2. IInv => ManagedAreBooted /\ NoOrphan
  BY DEF IInv, StageInv, Stage, ManagedAreBooted, NoOrphan, TypeOK, PCs, Critical
<1> QED BY <1>1, <1>2, WarmInductive, PTL

\* A clone in a queue is there once, and nobody was given it.
THEOREM WarmOnce == WarmSpec => []HandedOutOnce
<1>1. WarmInv => HandedOutOnce
  BY DEF WarmInv, KeptInv, Fit, HandedOutOnce, InReady
<1> QED BY <1>1, WarmInductive, PTL

=============================================================================
