------------------------------- MODULE SimPool -------------------------------
(***************************************************************************)
(* The pool of disposable simulator clones (src/src/simulator/sim-pool.ts) *)
(* and the AsyncMutex it keeps per preset.                                 *)
(*                                                                         *)
(* acquire() clones a master device, boots the clone and registers it;     *)
(* release() stops and deletes it; shutdown() releases all.  Every simctl  *)
(* or manager call is an await, so a call is a small process: pc[c] names  *)
(* the await it is suspended at, and one action runs from one await to the *)
(* next.  The clone a call makes is named after the call.                  *)
(***************************************************************************)
EXTENDS Naturals, Sequences, FiniteSets

CONSTANTS
  Presets,    \* device presets
  Masters,    \* simulators a clone may be taken from
  Calls,      \* acquire() calls, and the clones they make
  MaxClones,  \* the cap
  None        \* "no master resolved", "no release awaited"

ASSUME PoolConstants ==
  /\ None \notin Masters \cup Calls
  /\ MaxClones \in Nat \ {0}
  /\ IsFiniteSet(Calls)

VARIABLES
  pc,        \* call -> where its acquire() is suspended
  request,   \* call -> the arguments of acquire()
  source,    \* call -> the master device it resolved
  lock,      \* preset -> its AsyncMutex
  clones,    \* keys of the clones Map: what the pool manages
  device,    \* clone -> state of the simulator in CoreSimulator
  masterUp,  \* master -> is it booted
  releasing, \* clone -> where its release() is suspended
  closing    \* shutdown(): where it is, what it has still to release, and
             \*   the release it awaits

poolVars == <<pc, request, source, lock, clones, device, masterUp,
              releasing, closing>>

-----------------------------------------------------------------------------
Request == [preset : Presets, keep : BOOLEAN]
Mutex   == [locked : BOOLEAN, queue : Seq(Calls)]
Closing == [at : {"idle", "running", "done"}, left : SUBSET Calls,
            now : Calls \cup {None}]

\* Suspended inside the try block, or in its catch: the mutex is theirs.
Critical == {"resolve", "stopMaster", "clone", "boot", "poll", "trim", "cleanup"}
PCs == {"idle", "queued", "woken", "held", "failed"} \cup Critical

\* What a fresh AsyncMutex holds.
Free == [locked |-> FALSE, queue |-> <<>>]

Init ==
  /\ pc        = [c \in Calls |-> "idle"]
  /\ request   \in [Calls -> Request]
  /\ source    = [c \in Calls |-> None]
  /\ lock      = [p \in Presets |-> Free]
  /\ clones    = {}
  /\ device    = [c \in Calls |-> "none"]
  /\ masterUp  \in [Masters -> BOOLEAN]
  /\ releasing = [c \in Calls |-> "no"]
  /\ closing   = [at |-> "idle", left |-> {}, now |-> None]

PresetOf(c) == request[c].preset

\* Mutant of Unlock: the waiter is taken off the queue but never resolved.
UnlockLosesWaiter(c, end) ==
  LET p == PresetOf(c)
      q == lock[p].queue
  IN /\ lock' = [lock EXCEPT ![p] =
                   [locked |-> FALSE, queue |-> IF q = <<>> THEN q ELSE Tail(q)]]
     /\ pc' = [pc EXCEPT ![c] = end]

\* The finally block: locked is cleared and the oldest waiter is resolved.  The
\* waiter only takes the lock in its own microtask (Enter).
Unlock(c, end) ==
  LET p == PresetOf(c)
      q == lock[p].queue
  IN \/ /\ q = <<>>
        /\ lock' = [lock EXCEPT ![p].locked = FALSE]
        /\ pc' = [pc EXCEPT ![c] = end]
     \/ /\ q # <<>>
        /\ lock' = [lock EXCEPT ![p] = [locked |-> FALSE, queue |-> Tail(q)]]
        /\ pc' = [pc EXCEPT ![c] = end, ![Head(q)] = "woken"]

-----------------------------------------------------------------------------
(* acquire() *)

\* The synchronous part of acquire(): the cap refuses the call before it reaches
\* the mutex; below it the call takes the preset's mutex or queues for it.
BeginAcquire(c) ==
  LET p == PresetOf(c) IN
  /\ pc[c] = "idle"
  /\ \/ /\ Cardinality(clones) >= MaxClones
        /\ pc' = [pc EXCEPT ![c] = "failed"]
        /\ UNCHANGED lock
     \/ /\ Cardinality(clones) < MaxClones
        /\ lock[p].locked
        /\ pc'   = [pc EXCEPT ![c] = "queued"]
        /\ lock' = [lock EXCEPT ![p].queue = Append(@, c)]
     \/ /\ Cardinality(clones) < MaxClones
        /\ ~ lock[p].locked
        /\ pc'   = [pc EXCEPT ![c] = "resolve"]
        /\ lock' = [lock EXCEPT ![p].locked = TRUE]

Acquire(c) ==
  /\ BeginAcquire(c)
  /\ UNCHANGED <<request, source, clones, device, masterUp, releasing, closing>>

\* The microtask of a resolved waiter.
Enter(c) ==
  /\ pc[c] = "woken"
  /\ lock' = [lock EXCEPT ![PresetOf(c)].locked = TRUE]
  /\ pc'   = [pc EXCEPT ![c] = "resolve"]
  /\ UNCHANGED <<request, source, clones, device, masterUp, releasing, closing>>

\* The await in front of the clone's UDID rejects (no such master, simctl error or
\* timeout, no output).  A command that was killed or reports a failure may have
\* taken effect: the master is down, or there is a clone whose UDID the pool was
\* never told (device "stray"), which the catch block has no name to delete by.
FailEarly(c) ==
  /\ pc[c] \in {"resolve", "stopMaster", "clone"}
  /\ \/ UNCHANGED <<device, masterUp>>
     \/ /\ pc[c] = "stopMaster"
        /\ masterUp' = [masterUp EXCEPT ![source[c]] = FALSE]
        /\ UNCHANGED device
     \/ /\ pc[c] = "clone"
        /\ ~ masterUp[source[c]]
        /\ device' = [device EXCEPT ![c] = "stray"]
        /\ UNCHANGED masterUp
  /\ Unlock(c, "failed")
  /\ UNCHANGED <<request, source, clones, releasing, closing>>

\* simctl clone succeeds with an output that is not a UDID: cloneUdid holds that
\* text when the catch block runs, and the clone, if there is one, is a stray.
Garbled(c) ==
  /\ pc[c] = "clone"
  /\ ~ masterUp[source[c]]
  /\ \E d \in {"none", "stray"} : device' = [device EXCEPT ![c] = d]
  /\ pc' = [pc EXCEPT ![c] = "cleanup"]
  /\ UNCHANGED <<request, source, lock, clones, masterUp, releasing, closing>>

\* The master: the call's own, the preset's override or the first match; which
\* of them is data.  A booted master is shut down first.
Resolve(c) ==
  /\ pc[c] = "resolve"
  /\ \E m \in Masters :
       /\ source' = [source EXCEPT ![c] = m]
       /\ pc' = [pc EXCEPT ![c] = IF masterUp[m] THEN "stopMaster" ELSE "clone"]
  /\ UNCHANGED <<request, lock, clones, device, masterUp, releasing, closing>>

StopMaster(c) ==
  /\ pc[c] = "stopMaster"
  /\ masterUp' = [masterUp EXCEPT ![source[c]] = FALSE]
  /\ pc' = [pc EXCEPT ![c] = "clone"]
  /\ UNCHANGED <<request, source, lock, clones, device, releasing, closing>>

\* simctl clone refuses a booted source.
Clone(c) ==
  /\ pc[c] = "clone"
  /\ ~ masterUp[source[c]]
  /\ device' = [device EXCEPT ![c] = "Shutdown"]
  /\ pc' = [pc EXCEPT ![c] = "boot"]
  /\ UNCHANGED <<request, source, lock, clones, masterUp, releasing, closing>>

Boot(c) ==
  /\ pc[c] = "boot"
  /\ device' = [device EXCEPT ![c] = "Booted"]
  /\ pc' = [pc EXCEPT ![c] = "poll"]
  /\ UNCHANGED <<request, source, lock, clones, masterUp, releasing, closing>>

\* waitForBootedState() sees Booted before its deadline.
PollBooted(c) ==
  /\ pc[c] = "poll"
  /\ device[c] = "Booted"
  /\ pc' = [pc EXCEPT ![c] = "trim"]
  /\ UNCHANGED <<request, source, lock, clones, device, masterUp, releasing, closing>>

\* Mutant of FailLate: the catch block forgets the clone it made.
FailLateForgets(c) ==
  /\ pc[c] \in {"boot", "poll"}
  /\ Unlock(c, "failed")
  /\ UNCHANGED <<request, source, clones, device, masterUp, releasing, closing>>

\* boot rejects, whether or not the clone came up, a poll rejects, or the 15 s
\* deadline passes: the catch block deletes the clone.
FailLate(c) ==
  /\ pc[c] \in {"boot", "poll"}
  /\ \E d \in {device[c], "Booted"} : device' = [device EXCEPT ![c] = d]
  /\ pc' = [pc EXCEPT ![c] = "cleanup"]
  /\ UNCHANGED <<request, source, lock, clones, masterUp, releasing, closing>>

\* Best effort: whether or not the delete works, acquire() throws.  A delete by a
\* text that is no UDID touches no simulator.
Cleanup(c) ==
  /\ pc[c] = "cleanup"
  /\ \/ /\ device[c] \in {"none", "stray"}
        /\ UNCHANGED device
     \/ /\ device[c] \notin {"none", "stray"}
        /\ \E d \in {"deleted", "stuck"} : device' = [device EXCEPT ![c] = d]
  /\ Unlock(c, "failed")
  /\ UNCHANGED <<request, source, clones, masterUp, releasing, closing>>

\* disableBackgroundServices() settled, either way: the clone is registered.
Register(c) ==
  /\ pc[c] = "trim"
  /\ clones' = clones \cup {c}
  /\ Unlock(c, "held")
  /\ UNCHANGED <<request, source, device, masterUp, releasing, closing>>

-----------------------------------------------------------------------------
(* release() and shutdown() *)

\* The Map entry goes before the first await: a second release() of the UDID
\* finds nothing and returns false.
StartRelease(c) ==
  /\ c \in clones
  /\ clones' = clones \ {c}
  /\ releasing' = [releasing EXCEPT ![c] = "stop"]

Release(c) ==
  /\ StartRelease(c)
  /\ UNCHANGED <<pc, request, source, lock, device, masterUp, closing>>

\* manager.shutdown() settles; a rejection is logged and ignored.
ReleaseStop(c) ==
  /\ releasing[c] = "stop"
  /\ \E d \in {device[c], "Shutdown"} : device' = [device EXCEPT ![c] = d]
  /\ releasing' = [releasing EXCEPT ![c] = IF request[c].keep THEN "done" ELSE "delete"]
  /\ UNCHANGED <<pc, request, source, lock, clones, masterUp, closing>>

\* simctl delete settles; a rejection leaves the simulator on disk.
ReleaseDelete(c) ==
  /\ releasing[c] = "delete"
  /\ \E d \in {"deleted", "stuck"} : device' = [device EXCEPT ![c] = d]
  /\ releasing' = [releasing EXCEPT ![c] = "done"]
  /\ UNCHANGED <<pc, request, source, lock, clones, masterUp, closing>>

\* shutdown() snapshots the keys and releases them one after the other.
Shutdown ==
  /\ closing.at = "idle"
  /\ closing' = [at |-> "running", left |-> clones, now |-> None]
  /\ UNCHANGED <<pc, request, source, lock, clones, device, masterUp, releasing>>

\* One turn of the loop; a clone another caller released meanwhile is skipped.
ShutdownNext(c) ==
  /\ closing.at = "running"
  /\ closing.now = None
  /\ c \in closing.left
  /\ \/ /\ StartRelease(c)
        /\ closing' = [closing EXCEPT !.left = @ \ {c}, !.now = c]
     \/ /\ c \notin clones
        /\ closing' = [closing EXCEPT !.left = @ \ {c}]
        /\ UNCHANGED <<clones, releasing>>
  /\ UNCHANGED <<pc, request, source, lock, device, masterUp>>

ShutdownAwaited ==
  /\ closing.now # None
  /\ releasing[closing.now] = "done"
  /\ closing' = [closing EXCEPT !.now = None]
  /\ UNCHANGED <<pc, request, source, lock, clones, device, masterUp, releasing>>

ShutdownDone ==
  /\ closing.at = "running"
  /\ closing.left = {}
  /\ closing.now = None
  /\ closing' = [closing EXCEPT !.at = "done"]
  /\ UNCHANGED <<pc, request, source, lock, clones, device, masterUp, releasing>>

\* External: somebody boots a master simulator between two calls.
MasterBoots(m) ==
  /\ ~ masterUp[m]
  /\ masterUp' = [masterUp EXCEPT ![m] = TRUE]
  /\ UNCHANGED <<pc, request, source, lock, clones, device, releasing, closing>>

-----------------------------------------------------------------------------
\* One step of an acquire() that was called.
AcquireStep(c) ==
  \/ Enter(c)
  \/ FailEarly(c)
  \/ Garbled(c)
  \/ Resolve(c)
  \/ StopMaster(c)
  \/ Clone(c)
  \/ Boot(c)
  \/ PollBooted(c)
  \/ FailLate(c)
  \/ Cleanup(c)
  \/ Register(c)

ReleaseStep(c) == ReleaseStop(c) \/ ReleaseDelete(c)

ShutdownStep ==
  \/ \E c \in Calls : ShutdownNext(c)
  \/ ShutdownAwaited
  \/ ShutdownDone

PoolNext ==
  \/ \E c \in Calls : \/ Acquire(c)
                      \/ AcquireStep(c)
                      \/ Release(c)
                      \/ ReleaseStep(c)
  \/ Shutdown
  \/ ShutdownStep
  \/ \E m \in Masters : MasterBoots(m)

Spec == Init /\ [][PoolNext]_poolVars

\* Every simctl call settles: SimctlExecutor.exec kills it after its timeout,
\* and the poll loop has a deadline.  Callers owe nothing.
Fairness ==
  /\ \A c \in Calls : WF_poolVars(AcquireStep(c)) /\ WF_poolVars(ReleaseStep(c))
  /\ WF_poolVars(ShutdownStep)

FairSpec == Spec /\ Fairness

-----------------------------------------------------------------------------
(* Properties *)

\* The pool's state keeps its shape.
TypeOK ==
  /\ pc \in [Calls -> PCs]
  /\ request \in [Calls -> Request]
  /\ source \in [Calls -> Masters \cup {None}]
  /\ lock \in [Presets -> Mutex]
  /\ clones \subseteq Calls
  /\ device \in [Calls -> 
                     {"none", "Shutdown", "Booted", "deleted", "stuck", "stray"}]
  /\ masterUp \in [Masters -> BOOLEAN]
  /\ releasing \in [Calls -> {"no", "stop", "delete", "done"}]
  /\ closing \in Closing

\* A waiter in a mutex's queue always has somebody who will wake it: a call of
\* its preset that holds the mutex, or one that was woken and is about to
\* (sim-pool.ts:69-83: release() clears "locked" before the woken waiter sets
\* it again, so the queue can be non-empty while the mutex is free).
WaitersHaveAWaker ==
  \A p \in Presets :
    lock[p].queue # <<>> =>
      \E c \in Calls : PresetOf(c) = p /\ pc[c] \in Critical \cup {"woken"}

\* The pool only manages clones that are booted and that nobody releases, so
\* list() never names a simulator that is being torn down (sim-pool.ts:249).
ManagedAreBooted ==
  \A c \in clones : device[c] = "Booted" /\ releasing[c] = "no" /\ pc[c] = "held"

\* No simulator the pool could delete is forgotten: one that exists is being made,
\* is managed, is being released, was kept on request, has been asked to go and
\* simctl did not delete it ("stuck"), or is a stray: simctl made it in a clone
\* command that failed or answered with no UDID, so that the pool knows no name to
\* delete it by (sim-pool.ts:195-199, 225-233).  Strays and stuck clones stay.
NoOrphan ==
  \A c \in Calls :
    device[c] \notin {"none", "deleted"} =>
      \/ device[c] \in {"stuck", "stray"}
      \/ pc[c] \in {"boot", "poll", "trim", "cleanup"}
      \/ c \in clones
      \/ releasing[c] \in {"stop", "delete"}
      \/ request[c].keep /\ releasing[c] = "done"

\* Every acquire() that was called returns or throws.
AcquireSettles ==
  \A c \in Calls : pc[c] \in Critical \cup {"queued", "woken"}
                       ~> pc[c] \in {"held", "failed"}

=============================================================================
