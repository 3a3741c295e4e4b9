---------------------------- MODULE DeviceRegistry ----------------------------
(***************************************************************************)
(* The registry of managed simulators that the OpenSafari processes of one *)
(* machine share (src/src/reliability/zombie-cleanup.ts): a JSON file,     *)
(* pid -> devices, guarded by a lock directory, and the periodic cleanup   *)
(* that shuts down what dead processes left behind.                        *)
(*                                                                         *)
(* A registry call is synchronous in its process, so a step of a process   *)
(* in the middle of one is its next file operation.  Processes interleave  *)
(* at every file operation, die at any moment, and may be suspended for as *)
(* long as it takes their lock to look stale.                              *)
(***************************************************************************)
EXTENDS Naturals, FiniteSets

CONSTANTS
  Procs,    \* processes; a pid is not used again
  Devices   \* simulators

VARIABLES
  alive,     \* live processes
  pc,        \* process -> the file operation its registry call does next
  op,        \* process -> the call: what it does to which devices
  late,      \* processes in acquireLock() whose deadline has passed
  locked,    \* processes whose acquireLock() returned true
  lock,      \* the lock directory and its info file
  file,      \* the registry: process -> devices, {} where it has no entry
  torn,      \* the file is truncated and not yet rewritten
  mem,       \* process -> the registry it is about to write
  running,   \* booted simulators
  sweep,     \* process -> its cleanup: booted devices it saw, and the orphans
  claim,     \* process -> what it wrote as its own entry last
  disturbed  \* the lock was taken from somebody, or somebody went without

vars == <<alive, pc, op, late, locked, lock, file, torn, mem, running, sweep,
          claim, disturbed>>

-----------------------------------------------------------------------------
Registry == [Procs -> SUBSET Devices]
Ops      == [kind : {"set", "add", "partition"}, devs : SUBSET Devices]
Sweeps   == [at : {"no", "listed", "acting"}, seen : SUBSET Devices,
             doomed : SUBSET Devices]
Empty    == [p \in Procs |-> {}]

\* From the moment a process has made the lock directory to its removal.
Holding == {"info", "read", "truncate", "fill", "unlink", "rmdir"}
PCs     == Holding \cup {"idle", "mkdir", "look", "steal", "stealDir", "dead"}

\* Variables of a call or a cleanup have these values outside it.
NoOp    == [kind |-> "set", devs |-> {}]
NoSweep == [at |-> "no", seen |-> {}, doomed |-> {}]

Init ==
  /\ alive = Procs
  /\ pc = [p \in Procs |-> "idle"]
  /\ op = [p \in Procs |-> NoOp]
  /\ late = {} /\ locked = {}
  /\ lock = [dir |-> FALSE, info |-> "none"]
  /\ file = Empty /\ torn = FALSE
  /\ mem = [p \in Procs |-> Empty]
  /\ running = {}
  /\ sweep = [p \in Procs |-> NoSweep]
  /\ claim = Empty
  /\ disturbed = FALSE

-----------------------------------------------------------------------------
(* Who calls the registry. *)

Idle(p) == p \in alive /\ pc[p] = "idle"

\* A registry call begins, with acquireLock() and a new deadline.
Call(p, kind, D) ==
  /\ pc' = [pc EXCEPT ![p] = "mkdir"]
  /\ op' = [op EXCEPT ![p] = [kind |-> kind, devs |-> D]]

\* device_boot adds its device; the pool registers a batch, replacing the entry.
BootOne(p, d) ==
  /\ Idle(p)
  /\ running' = running \cup {d}
  /\ Call(p, "add", {d})
  /\ UNCHANGED <<alive, late, locked, lock, file, torn, mem, sweep, claim, disturbed>>

BootBatch(p, D) ==
  /\ Idle(p) /\ D # {}
  /\ running' = running \cup D
  /\ Call(p, "set", D)
  /\ UNCHANGED <<alive, late, locked, lock, file, torn, mem, sweep, claim, disturbed>>

\* The pool shuts a device down and registers what remains, or unregisters.
ShutdownOwn(p, d) ==
  /\ Idle(p) /\ d \in claim[p]
  /\ running' = running \ {d}
  /\ Call(p, "set", claim[p] \ {d})
  /\ UNCHANGED <<alive, late, locked, lock, file, torn, mem, sweep, claim, disturbed>>

\* The periodic cleanup: simctl lists the booted devices, the registry is then
\* partitioned, and the orphans are shut down one after the other.  The devices of
\* the process's own pool (known, some of those it registered) are not looked at.
ListBooted(p, known) ==
  /\ Idle(p) /\ sweep[p].at = "no" /\ known \subseteq claim[p]
  /\ sweep' = [sweep EXCEPT ![p] = [at |-> "listed", seen |-> running \ known,
                                    doomed |-> {}]]
  /\ UNCHANGED <<alive, pc, op, late, locked, lock, file, torn, mem, running,
                 claim, disturbed>>

Partition(p) ==
  /\ Idle(p) /\ sweep[p].at = "listed"
  /\ Call(p, "partition", {})
  /\ UNCHANGED <<alive, late, locked, lock, file, torn, mem, running, sweep, claim,
                 disturbed>>

ShutdownOrphan(p, d) ==
  /\ Idle(p) /\ sweep[p].at = "acting" /\ d \in sweep[p].doomed
  /\ running' = running \ {d}
  /\ sweep' = [sweep EXCEPT ![p].doomed = @ \ {d}]
  /\ UNCHANGED <<alive, pc, op, late, locked, lock, file, torn, mem, claim, disturbed>>

SweepDone(p) ==
  /\ Idle(p) /\ sweep[p].at = "acting" /\ sweep[p].doomed = {}
  /\ sweep' = [sweep EXCEPT ![p] = NoSweep]
  /\ UNCHANGED <<alive, pc, op, late, locked, lock, file, torn, mem, running,
                 claim, disturbed>>

-----------------------------------------------------------------------------
(* acquireLock() *)

\* Five seconds are over.
Deadline(p) ==
  /\ pc[p] \in {"mkdir", "look", "steal", "stealDir"} /\ p \notin late
  /\ late' = late \cup {p}
  /\ UNCHANGED <<alive, pc, op, locked, lock, file, torn, mem, running, sweep,
                 claim, disturbed>>

\* Mutant of Mkdir: the deadline is not looked at.
MkdirPatient(p) ==
  /\ pc[p] = "mkdir"
  /\ \/ /\ ~ lock.dir
        /\ lock' = [lock EXCEPT !.dir = TRUE]
        /\ pc' = [pc EXCEPT ![p] = "info"]
     \/ /\ lock.dir
        /\ pc' = [pc EXCEPT ![p] = "look"]
        /\ UNCHANGED lock
  /\ UNCHANGED <<alive, op, late, locked, file, torn, mem, running, sweep, claim,
                 disturbed>>

\* The loop's head: past the deadline the call goes on without the lock.
Mkdir(p) ==
  /\ pc[p] = "mkdir"
  /\ \/ /\ p \in late
        /\ pc' = [pc EXCEPT ![p] = "read"]
        /\ disturbed' = TRUE
        /\ UNCHANGED lock
     \/ /\ p \notin late /\ ~ lock.dir
        /\ lock' = [lock EXCEPT !.dir = TRUE]
        /\ pc' = [pc EXCEPT ![p] = "info"]
        /\ UNCHANGED disturbed
     \/ /\ p \notin late /\ lock.dir
        /\ pc' = [pc EXCEPT ![p] = "look"]
        /\ UNCHANGED <<lock, disturbed>>
  /\ late' = IF pc'[p] = "look" THEN late ELSE late \ {p}
  /\ UNCHANGED <<alive, op, locked, file, torn, mem, running, sweep, claim>>

\* The info file; without the directory the write throws, acquireLock() returns
\* false and the call goes on without the lock.
WriteInfo(p) ==
  /\ pc[p] = "info"
  /\ pc' = [pc EXCEPT ![p] = "read"]
  /\ \/ /\ lock.dir
        /\ lock' = [lock EXCEPT !.info = "fresh"]
        /\ locked' = locked \cup {p}
        /\ UNCHANGED disturbed
     \/ /\ ~ lock.dir
        /\ disturbed' = TRUE
        /\ UNCHANGED <<lock, locked>>
  /\ UNCHANGED <<alive, op, late, file, torn, mem, running, sweep, claim>>

\* Somebody has the lock: sleep and try again if its info is readable and young,
\* else take the lock away.
Look(p) ==
  /\ pc[p] = "look"
  /\ pc' = [pc EXCEPT ![p] = IF lock.info = "fresh" THEN "mkdir" ELSE "steal"]
  /\ UNCHANGED <<alive, op, late, locked, lock, file, torn, mem, running, sweep,
                 claim, disturbed>>

StealInfo(p) ==
  /\ pc[p] = "steal"
  /\ pc' = [pc EXCEPT ![p] = "stealDir"]
  /\ disturbed' = (disturbed \/ lock.info # "none")
  /\ lock' = [lock EXCEPT !.info = "none"]
  /\ UNCHANGED <<alive, op, late, locked, file, torn, mem, running, sweep, claim>>

\* rmdir removes the directory only while it is empty.
StealDir(p) ==
  /\ pc[p] = "stealDir"
  /\ pc' = [pc EXCEPT ![p] = "mkdir"]
  /\ disturbed' = (disturbed \/ (lock.dir /\ lock.info = "none"))
  /\ lock' = [lock EXCEPT !.dir = @ /\ lock.info # "none"]
  /\ UNCHANGED <<alive, op, late, locked, file, torn, mem, running, sweep, claim>>

\* More than ten seconds after the info file was written.
LockAges ==
  /\ lock.info = "fresh"
  /\ lock' = [lock EXCEPT !.info = "old"]
  /\ UNCHANGED <<alive, pc, op, late, locked, file, torn, mem, running, sweep,
                 claim, disturbed>>

-----------------------------------------------------------------------------
(* What the call does with the registry. *)

Stale(r) == {q \in Procs : q \notin alive /\ r[q] # {}}

\* Mutant of After: adding a device replaces the entries of the others.
AfterOwnOnly(p, r) ==
  CASE op[p].kind = "set"       -> [Empty EXCEPT ![p] = op[p].devs]
    [] op[p].kind = "add"       -> [r EXCEPT ![p] = @ \cup op[p].devs]
    [] op[p].kind = "partition" -> [q \in Procs |-> IF q \in alive THEN r[q] ELSE {}]

\* The registry that the call of p makes of r, which it has just read: a partition
\* looks once at who is alive, before it writes.
After(p, r) ==
  CASE op[p].kind = "set"       -> [r EXCEPT ![p] = op[p].devs]
    [] op[p].kind = "add"       -> [r EXCEPT ![p] = @ \cup op[p].devs]
    [] op[p].kind = "partition" -> [q \in Procs |-> IF q \in alive THEN r[q] ELSE {}]

\* The booted devices of dead processes that no live one has.
Orphans(p, r) ==
  (sweep[p].seen \cap UNION {r[q] : q \in Stale(r)}) \ UNION {r[q] : q \in alive}

\* Where a call that has done its work goes on.
Leave(p) == IF p \in locked THEN "unlink" ELSE "idle"

\* A file that cannot be parsed is an empty registry.  A partition in which
\* nothing is stale writes nothing and is over.
Read(p) ==
  /\ pc[p] = "read"
  /\ LET r == IF torn THEN Empty ELSE file
         writes == op[p].kind # "partition" \/ Stale(r) # {}
     IN
       /\ sweep' = IF op[p].kind # "partition" THEN sweep
                   ELSE [sweep EXCEPT ![p] = [at |-> "acting", seen |-> {},
                                              doomed |-> Orphans(p, r)]]
       /\ \/ /\ writes
             /\ mem' = [mem EXCEPT ![p] = After(p, r)]
             /\ pc' = [pc EXCEPT ![p] = "truncate"]
             /\ UNCHANGED op
          \/ /\ ~ writes
             /\ op' = [op EXCEPT ![p] = NoOp]
             /\ pc' = [pc EXCEPT ![p] = Leave(p)]
             /\ UNCHANGED mem
  /\ UNCHANGED <<alive, late, locked, lock, file, torn, running, claim, disturbed>>

Truncate(p) ==
  /\ pc[p] = "truncate"
  /\ torn' = TRUE
  /\ pc' = [pc EXCEPT ![p] = "fill"]
  /\ UNCHANGED <<alive, op, late, locked, lock, file, mem, running, sweep, claim,
                 disturbed>>

Fill(p) ==
  /\ pc[p] = "fill"
  /\ file' = mem[p] /\ torn' = FALSE
  /\ claim' = [claim EXCEPT ![p] = mem[p][p]]
  /\ pc' = [pc EXCEPT ![p] = Leave(p)]
  /\ mem' = [mem EXCEPT ![p] = Empty] /\ op' = [op EXCEPT ![p] = NoOp]
  /\ UNCHANGED <<alive, late, locked, lock, running, sweep, disturbed>>

\* releaseLock()
Unlink(p) ==
  /\ pc[p] = "unlink"
  /\ lock' = [lock EXCEPT !.info = "none"]
  /\ pc' = [pc EXCEPT ![p] = "rmdir"]
  /\ UNCHANGED <<alive, op, late, locked, file, torn, mem, running, sweep, claim,
                 disturbed>>

Rmdir(p) ==
  /\ pc[p] = "rmdir"
  /\ lock' = [lock EXCEPT !.dir = @ /\ lock.info # "none"]
  /\ pc' = [pc EXCEPT ![p] = "idle"]
  /\ locked' = locked \ {p}
  /\ UNCHANGED <<alive, op, late, file, torn, mem, running, sweep, claim,
                 disturbed>>

\* A process dies; its lock, its entry and a half-written file stay behind.
Die(p) ==
  /\ p \in alive
  /\ alive' = alive \ {p}
  /\ pc' = [pc EXCEPT ![p] = "dead"]
  /\ disturbed' = (disturbed \/ pc[p] \in Holding)
  /\ op' = [op EXCEPT ![p] = NoOp] /\ mem' = [mem EXCEPT ![p] = Empty]
  /\ late' = late \ {p} /\ locked' = locked \ {p}
  /\ sweep' = [sweep EXCEPT ![p] = NoSweep] /\ claim' = [claim EXCEPT ![p] = {}]
  /\ UNCHANGED <<lock, file, torn, running>>

-----------------------------------------------------------------------------
CallStep(p) ==
  \/ Mkdir(p) \/ WriteInfo(p) \/ Look(p) \/ StealInfo(p) \/ StealDir(p)
  \/ Read(p) \/ Truncate(p) \/ Fill(p) \/ Unlink(p) \/ Rmdir(p)

Next ==
  \/ \E p \in Procs :
       \/ \E d \in Devices : BootOne(p, d) \/ ShutdownOwn(p, d) \/ ShutdownOrphan(p, d)
       \/ \E D \in SUBSET Devices : BootBatch(p, D) \/ ListBooted(p, D)
       \/ Partition(p) \/ SweepDone(p)
       \/ Deadline(p) \/ CallStep(p) \/ Die(p)
  \/ LockAges

Spec == Init /\ [][Next]_vars

\* A process that is in a registry call goes on with it, and its clock runs.
FairSpec ==
  /\ Spec
  /\ \A p \in Procs : WF_vars(CallStep(p)) /\ WF_vars(Deadline(p))

-----------------------------------------------------------------------------
(* Properties *)

\* The state of the processes, the lock and the registry keeps its shape.
TypeOK ==
  /\ alive \subseteq Procs /\ late \subseteq Procs /\ locked \subseteq Procs
  /\ pc \in [Procs -> PCs]
  /\ op \in [Procs -> Ops]
  /\ lock \in [dir : BOOLEAN, info : {"none", "fresh", "old"}]
  /\ file \in Registry /\ claim \in Registry
  /\ torn \in BOOLEAN /\ disturbed \in BOOLEAN
  /\ mem \in [Procs -> Registry]
  /\ running \subseteq Devices
  /\ sweep \in [Procs -> Sweeps]

\* At most one process is between making and removing the lock directory, as long
\* as nobody took a lock away, went without one, or died with one: what looks for
\* the lock of a call that just ended does no harm by itself.
OneHolder ==
  ~ disturbed =>
    \A p, q \in Procs : pc[p] \in Holding /\ pc[q] \in Holding => p = q

\* ... and then no call loses what another live process registered, whole entries
\* and half-written files included (zombie-cleanup.ts:96-102).
EntriesKept ==
  ~ disturbed /\ ~ torn => \A p \in alive : file[p] = claim[p]

\* ... and a partition never finds orphaned what a live process has registered by
\* then (zombie-cleanup.ts:222-224).
PartitionIsExact ==
  [][\A p \in Procs, q \in alive :
       ~ disturbed' => (sweep'[p].doomed \ sweep[p].doomed) \cap claim[q] = {}]_vars

\* No registry call holds its process up for ever, whatever the others and the
\* dead have left in the lock directory (zombie-cleanup.ts:24-25).
CallsEnd ==
  \A p \in Procs : pc[p] \notin {"idle", "dead"} ~> pc[p] \in {"idle", "dead"}

\* device-boot.ts:78-79: a device is registered "so other MCP sessions' periodic
\* cleanup won't shut it down as an orphan".
RegisteredIsSafe ==
  \A p, q \in alive : sweep[p].doomed \cap claim[q] \cap running = {}
=============================================================================
