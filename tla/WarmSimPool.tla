----------------------------- MODULE WarmSimPool -----------------------------
(***************************************************************************)
(* WarmSimPool (src/src/simulator/warm-sim-pool.ts) on top of SimPool: a   *)
(* queue of pre-acquired clones per preset, refilled in the background.    *)
(* Every SimPool.acquire() it awaits is a call of SimPool; role[c] says    *)
(* which of its methods resumes when that call settles.                    *)
(***************************************************************************)
EXTENDS SimPool, SequencesExt

CONSTANTS
  DefaultTarget,  \* the warm target of a preset nobody configured
  MaxTarget       \* bound on the targets callers ask for

ASSUME WarmConstants == DefaultTarget \in 0..MaxTarget

VARIABLES
  ready,     \* preset -> queue of clones ready to hand out
  target,    \* preset -> entry of warmTargets (the default where it has none)
  inflight,  \* replenishInFlight
  role,      \* call -> the method that awaits it
  goal,      \* call -> the target its replenish() read when it began
  handed,    \* clones given to callers of acquire()
  batches,   \* the calls each running warmUp() waits for
  draining   \* shutdown() of the warm pool and the queues it has not drained

warmVars == <<ready, target, inflight, role, goal, handed, batches, draining>>
vars == <<poolVars, warmVars>>

-----------------------------------------------------------------------------
WarmInit ==
  /\ Init
  /\ ready    = [p \in Presets |-> <<>>]
  /\ target   = [p \in Presets |-> DefaultTarget]
  /\ inflight = {}
  /\ role     = [c \in Calls |-> "none"]
  /\ goal     = [c \in Calls |-> 0]
  /\ handed   = {}
  /\ batches  = {}
  /\ draining = [at |-> "no", left |-> {}]

InReady == UNION {ToSet(ready[p]) : p \in Presets}

\* The synchronous part of replenish(), with count clones in the queue: nothing
\* while another one is in flight for the preset or when the queue is full,
\* otherwise up to its first await.  Disabled when no call of Calls is left.
Refill(p, count, roles) ==
  \/ /\ p \in inflight \/ count >= target[p]
     /\ role' = roles
     /\ UNCHANGED <<pc, lock, goal, inflight>>
  \/ /\ p \notin inflight /\ count < target[p]
     /\ \E k \in Calls :
          /\ PresetOf(k) = p /\ ~ request[k].keep
          /\ BeginAcquire(k)
          /\ role' = [roles EXCEPT ![k] = "replenish"]
          /\ goal' = [goal EXCEPT ![k] = target[p]]
     /\ inflight' = inflight \cup {p}

\* replenish() called directly.
ReplenishCall(p) ==
  /\ Refill(p, Len(ready[p]), role)
  /\ UNCHANGED <<request, source, clones, device, masterUp, releasing, closing,
                 ready, target, handed, batches, draining>>

\* The method that awaited c runs again.
Resume(c) == [role EXCEPT ![c] = "resumed"]

-----------------------------------------------------------------------------
\* acquire() with a clone in the queue: it is handed out on the spot, marked to
\* be kept if the caller asks so, and the queue is refilled.
WarmHit(p, keep) ==
  /\ ready[p] # <<>>
  /\ LET c == Head(ready[p]) IN
       /\ ready'   = [ready EXCEPT ![p] = Tail(@)]
       /\ handed'  = handed \cup {c}
       /\ request' = [request EXCEPT ![c].keep = @ \/ keep]
  /\ Refill(p, Len(ready[p]) - 1, role)
  /\ UNCHANGED <<source, clones, device, masterUp, releasing, closing,
                 target, batches, draining>>

\* acquire() with an empty queue falls back to the base pool.
WarmMiss(c) ==
  /\ ready[PresetOf(c)] = <<>>
  /\ Acquire(c)
  /\ role' = [role EXCEPT ![c] = "user"]
  /\ UNCHANGED <<ready, target, inflight, goal, handed, batches, draining>>

\* ... and, when that call settles, hands the clone out and refills, or throws.
DeliverUser(c) ==
  /\ role[c] = "user"
  /\ \/ /\ pc[c] = "held"
        /\ handed' = handed \cup {c}
        /\ Refill(PresetOf(c), Len(ready[PresetOf(c)]), Resume(c))
     \/ /\ pc[c] = "failed"
        /\ role' = Resume(c)
        /\ UNCHANGED <<pc, lock, handed, inflight, goal>>
  /\ UNCHANGED <<request, source, clones, device, masterUp, releasing, closing,
                 ready, target, batches, draining>>

\* Mutant of DeliverReplenish: a failed acquire returns past the finally block.
DeliverReplenishNoFinally(c) ==
  LET p == PresetOf(c)
      count == Len(ready[p]) + 1
  IN
  /\ role[c] = "replenish"
  /\ \/ /\ pc[c] = "failed"
        /\ role' = Resume(c)
        /\ UNCHANGED <<pc, lock, ready, goal, inflight>>
     \/ /\ pc[c] = "held"
        /\ ready' = [ready EXCEPT ![p] = Append(@, c)]
        /\ \/ /\ count >= goal[c]
              /\ role' = Resume(c)
              /\ inflight' = inflight \ {p}
              /\ UNCHANGED <<pc, lock, goal>>
           \/ /\ count < goal[c]
              /\ \E k \in Calls :
                   /\ PresetOf(k) = p /\ ~ request[k].keep
                   /\ BeginAcquire(k)
                   /\ role' = [Resume(c) EXCEPT ![k] = "replenish"]
                   /\ goal' = [goal EXCEPT ![k] = goal[c]]
              /\ UNCHANGED inflight
  /\ UNCHANGED <<request, source, clones, device, masterUp, releasing, closing,
                 target, handed, batches, draining>>

\* One turn of replenish()'s loop: the clone goes into the queue and the loop
\* goes on to the goal it read at the start; a failure ends it.
DeliverReplenish(c) ==
  LET p == PresetOf(c)
      count == Len(ready[p]) + 1
  IN
  /\ role[c] = "replenish"
  /\ \/ /\ pc[c] = "failed"
        /\ role' = Resume(c)
        /\ inflight' = inflight \ {p}
        /\ UNCHANGED <<pc, lock, ready, goal>>
     \/ /\ pc[c] = "held"
        /\ ready' = [ready EXCEPT ![p] = Append(@, c)]
        /\ \/ /\ count >= goal[c]
              /\ role' = Resume(c)
              /\ inflight' = inflight \ {p}
              /\ UNCHANGED <<pc, lock, goal>>
           \/ /\ count < goal[c]
              /\ \E k \in Calls :
                   /\ PresetOf(k) = p /\ ~ request[k].keep
                   /\ BeginAcquire(k)
                   /\ role' = [Resume(c) EXCEPT ![k] = "replenish"]
                   /\ goal' = [goal EXCEPT ![k] = goal[c]]
              /\ UNCHANGED inflight
  /\ UNCHANGED <<request, source, clones, device, masterUp, releasing, closing,
                 target, handed, batches, draining>>

-----------------------------------------------------------------------------
\* What base.acquire() does for all calls of the sequence s, one after the other
\* and without an await in between.
BeginAll(p, s) ==
  IF Cardinality(clones) >= MaxClones
  THEN /\ pc' = [c \in Calls |-> IF c \in ToSet(s) THEN "failed" ELSE pc[c]]
       /\ UNCHANGED lock
  ELSE LET enters == ~ lock[p].locked IN
       /\ pc' = [c \in Calls |->
                   IF c \notin ToSet(s) THEN pc[c]
                   ELSE IF enters /\ c = Head(s) THEN "resolve" ELSE "queued"]
       /\ lock' = [lock EXCEPT ![p] =
                     [locked |-> TRUE,
                      queue |-> @.queue \o (IF enters THEN Tail(s) ELSE s)]]

\* warmUp(p, n) sets the target and acquires what is missing all at once.
WarmUp(p, n) ==
  LET missing == n - Len(ready[p])
      unused  == {c \in Calls : /\ pc[c] = "idle"
                                /\ PresetOf(c) = p /\ ~ request[c].keep}
  IN
  /\ target' = [target EXCEPT ![p] = n]
  /\ \/ /\ missing <= 0
        /\ UNCHANGED <<pc, lock, role, batches>>
     \/ /\ missing > 0
        /\ \E B \in kSubset(missing, unused) : \E s \in SetToSeqs(B) :
             /\ BeginAll(p, s)
             /\ role' = [c \in Calls |-> IF c \in B THEN "warmUp" ELSE role[c]]
             /\ batches' = batches \cup {B}
  /\ UNCHANGED <<request, source, clones, device, masterUp, releasing, closing,
                 ready, inflight, goal, handed, draining>>

\* Mutant of DeliverBatch: what settled is queued whether it succeeded or not.
DeliverBatchUnchecked(B) ==
  LET p == PresetOf(CHOOSE c \in B : TRUE) IN
  /\ B \in batches
  /\ \A c \in B : pc[c] \in {"held", "failed"}
  /\ batches' = batches \ {B}
  /\ role' = [c \in Calls |-> IF c \in B THEN "resumed" ELSE role[c]]
  /\ \E s \in SetToSeqs(B) : ready' = [ready EXCEPT ![p] = @ \o s]
  /\ UNCHANGED <<poolVars, target, inflight, goal, handed, draining>>

\* All acquires of a warmUp() settled: those that succeeded enter the queue.
DeliverBatch(B) ==
  LET p == PresetOf(CHOOSE c \in B : TRUE) IN
  /\ B \in batches
  /\ \A c \in B : pc[c] \in {"held", "failed"}
  /\ batches' = batches \ {B}
  /\ role' = [c \in Calls |-> IF c \in B THEN "resumed" ELSE role[c]]
  /\ \E s \in SetToSeqs({c \in B : pc[c] = "held"}) :
       ready' = [ready EXCEPT ![p] = @ \o s]
  /\ UNCHANGED <<poolVars, target, inflight, goal, handed, draining>>

SetWarmTarget(p, n) ==
  /\ target' = [target EXCEPT ![p] = n]
  /\ UNCHANGED <<poolVars, ready, inflight, role, goal, handed, batches, draining>>

\* A caller gives its clone back.
WarmRelease(c) ==
  /\ c \in handed
  /\ Release(c)
  /\ UNCHANGED warmVars

-----------------------------------------------------------------------------
(* shutdown(): drain the queues, forget everything, shut the base pool down. *)

WarmShutdown ==
  /\ draining.at = "no"
  /\ draining' = [at |-> "on", left |-> Presets]
  /\ UNCHANGED <<poolVars, ready, target, inflight, role, goal, handed, batches>>

\* bucket.shift() and the release of the clone; the order of buckets is data.
DrainNext(p) ==
  /\ draining.at = "on" /\ p \in draining.left
  /\ closing.now = None
  /\ ready[p] # <<>>
  /\ ready' = [ready EXCEPT ![p] = Tail(@)]
  /\ LET c == Head(ready[p]) IN
       \/ /\ StartRelease(c)
          /\ closing' = [closing EXCEPT !.now = c]
       \/ /\ c \notin clones
          /\ UNCHANGED <<clones, releasing, closing>>
  /\ UNCHANGED <<pc, request, source, lock, device, masterUp, target, inflight,
                 role, goal, handed, batches, draining>>

DrainedBucket(p) ==
  /\ draining.at = "on" /\ p \in draining.left
  /\ closing.now = None
  /\ ready[p] = <<>>
  /\ draining' = [draining EXCEPT !.left = @ \ {p}]
  /\ UNCHANGED <<poolVars, ready, target, inflight, role, goal, handed, batches>>

DrainEnd ==
  /\ draining = [at |-> "on", left |-> {}]
  /\ closing.now = None
  /\ Shutdown
  /\ ready' = [p \in Presets |-> <<>>]
  /\ target' = [p \in Presets |-> DefaultTarget]
  /\ inflight' = {}
  /\ draining' = [draining EXCEPT !.at = "base"]
  /\ UNCHANGED <<role, goal, handed, batches>>

-----------------------------------------------------------------------------
\* A method that awaited an acquire resumes.
Deliver ==
  \/ \E c \in Calls : DeliverUser(c) \/ DeliverReplenish(c)
  \/ \E B \in batches : DeliverBatch(B)

DrainStep ==
  \/ \E p \in Presets : DrainNext(p) \/ DrainedBucket(p)
  \/ DrainEnd

BaseStep(c) == (AcquireStep(c) \/ ReleaseStep(c)) /\ UNCHANGED warmVars

Next ==
  \/ \E p \in Presets :
       \/ \E keep \in BOOLEAN : WarmHit(p, keep)
       \/ ReplenishCall(p)
       \/ \E n \in 0..MaxTarget : WarmUp(p, n) \/ SetWarmTarget(p, n)
  \/ \E c \in Calls : WarmMiss(c) \/ WarmRelease(c) \/ BaseStep(c)
  \/ Deliver
  \/ WarmShutdown
  \/ DrainStep
  \/ ShutdownStep /\ UNCHANGED warmVars
  \/ \E m \in Masters : MasterBoots(m) /\ UNCHANGED warmVars

WarmSpec == WarmInit /\ [][Next]_vars

\* As in SimPool, plus the microtasks that resume the awaiting methods.
WarmFairness ==
  /\ \A c \in Calls : /\ WF_vars(BaseStep(c))
                      /\ WF_vars(DeliverUser(c))
                      /\ WF_vars(DeliverReplenish(c))
  /\ \A B \in SUBSET Calls : WF_vars(DeliverBatch(B))

WarmFairSpec == WarmSpec /\ WarmFairness

-----------------------------------------------------------------------------
(* Properties *)

\* The warm pool's state keeps its shape.
WarmTypeOK ==
  /\ TypeOK
  /\ ready \in [Presets -> Seq(Calls)]
  /\ target \in [Presets -> 0..MaxTarget]
  /\ inflight \subseteq Presets
  /\ role \in [Calls -> {"none", "user", "replenish", "warmUp", "resumed"}]
  /\ goal \in [Calls -> 0..MaxTarget]
  /\ handed \subseteq Calls
  /\ batches \subseteq SUBSET Calls
  /\ draining \in [at : {"no", "on", "base"}, left : SUBSET Presets]

\* A clone is handed to one caller at most: what is in a queue is there once and
\* nobody has it (warm-sim-pool.ts:157, bucket.shift()).
HandedOutOnce ==
  /\ InReady \cap handed = {}
  /\ \A p \in Presets : IsInjective(ready[p])

\* Until shutdown() starts, a clone in a queue is alive: a warm hit returns a
\* booted simulator of the preset that was asked for.
ReadyIsAlive ==
  draining.at = "no" =>
    \A p \in Presets : \A c \in ToSet(ready[p]) :
      c \in clones /\ device[c] = "Booted" /\ PresetOf(c) = p

\* Every managed clone has somebody who will give it back: it is in a queue, was
\* handed out, or is about to be delivered.  (Before shutdown() drops queues.)
ManagedHasOwner ==
  draining.at # "base" =>
    \A c \in clones :
      \/ c \in InReady \cup handed
      \/ role[c] \in {"user", "replenish", "warmUp"}

\* A replenish ends: its in-flight flag does not stay set and block the refills
\* that later acquires ask for.  (The model's loop stops when Calls are used up.)
ReplenishEnds ==
  \A p \in Presets :
    p \in inflight ~> \/ p \notin inflight
                      \/ \A c \in Calls : pc[c] = "idle" => request[c].keep

=============================================================================
