----------------------------- MODULE SimulatorPool -----------------------------
(***************************************************************************)
(* The pool of the devices a multi-device run works with                   *)
(* (src/src/simulator/pool.ts): bootAll() in batches, bootSequential(),    *)
(* shutdownOne() by tools and by the idle and memory monitors, and         *)
(* shutdownAll(); with what it mirrors into the session manager and into   *)
(* this process's entry of the shared device registry.                     *)
(*                                                                         *)
(* A preset stands for the device it boots.  Each await of a boot or a     *)
(* shutdown is a point where the others run.                               *)
(***************************************************************************)
EXTENDS Naturals, FiniteSets

CONSTANTS
  Devices,      \* the devices behind the presets
  Boots,        \* bootAll() calls
  Shuts,        \* shutdownOne() calls
  MaxSimulators,          \* maxSimulators
  Concurrency,  \* concurrencyLimit
  Sequential,          \* the one bootSequential() run
  None

ASSUME PoolConstants ==
  /\ MaxSimulators \in Nat \ {0} /\ Concurrency \in Nat \ {0}
  /\ None \notin Boots \cup Devices \cup {Sequential}
  /\ Sequential \notin Boots

VARIABLES
  pool,      \* device -> the call whose entry the Map holds, or None
  running,   \* devices that are booted
  ports,     \* devicePorts: device -> port, 0 where there is none
  nextPort,  \* the next port, counted from webkitBasePort
  boot,      \* bootAll(): where it is, presets still to boot, its results
  step,      \* call -> device -> where the boot of one device is
  sequence,  \* bootSequential(): where it is, its device, the rest
  shut,      \* shutdownOne(): where it is and for which device
  closing,   \* shutdownAll(): is it running, and what it has still to stop
  sessions,  \* devices the session manager knows
  registry,  \* this process's devices in the shared registry
  left       \* devices a rejected boot or shutdown left running

vars == <<pool, running, ports, nextPort, boot, step, sequence, shut,
          closing, sessions, registry, left>>

-----------------------------------------------------------------------------
Makers == Boots \cup {Sequential}
Stages == {"no", "boot", "open", "connect", "done", "failed"}

Init ==
  /\ pool = [d \in Devices |-> None]
  /\ running = {} /\ sessions = {} /\ registry = {} /\ left = {}
  /\ ports = [d \in Devices |-> 0] /\ nextPort = 1
  /\ boot = [k \in Boots |-> [at |-> "idle", todo |-> {}, made |-> {}]]
  /\ step = [k \in Makers |-> [d \in Devices |-> "no"]]
  /\ sequence = [at |-> "idle", todo |-> {}, now |-> None]
  /\ shut = [s \in Shuts |-> [at |-> "idle", dev |-> None]]
  /\ closing = [on |-> FALSE, todo |-> {}]

Pooled == {d \in Devices : pool[d] # None}
InFlight(d) == \E k \in Makers : step[k][d] \in {"open", "connect"}

\* getPortForDevice(): one port per device, never given twice.
GetPort(d) ==
  /\ ports' = [ports EXCEPT ![d] = IF @ = 0 THEN nextPort ELSE @]
  /\ nextPort' = IF ports[d] = 0 THEN nextPort + 1 ELSE nextPort

-----------------------------------------------------------------------------
(* bootAll() *)

\* Too many presets throw; then the free memory is read.
BootAll(k, D) ==
  /\ boot[k].at = "idle"
  /\ D # {}
  /\ boot' = [boot EXCEPT ![k] = [at |-> IF Cardinality(D) > MaxSimulators THEN "failed" ELSE "check",
                                  todo |-> D, made |-> {}]]
  /\ UNCHANGED <<pool, running, ports, nextPort, step, sequence, shut,
                 closing, sessions, registry, left>>

NotEnoughMemory(k) ==
  /\ boot[k].at = "check"
  /\ boot' = [boot EXCEPT ![k].at = "failed"]
  /\ UNCHANGED <<pool, running, ports, nextPort, step, sequence, shut,
                 closing, sessions, registry, left>>

\* The next slice of concurrencyLimit presets starts to boot.
Batch(k, B) ==
  /\ boot[k].at \in {"check", "batch"}
  /\ \A d \in Devices : step[k][d] \in {"no", "done"}
  /\ B # {} /\ B \subseteq boot[k].todo
  /\ Cardinality(B) = Concurrency \/ (B = boot[k].todo /\ Cardinality(B) < Concurrency)
  /\ boot' = [boot EXCEPT ![k].at = "batch", ![k].todo = @ \ B]
  /\ step' = [step EXCEPT ![k] = [d \in Devices |-> IF d \in B THEN "boot" ELSE @[d]]]
  /\ UNCHANGED <<pool, running, ports, nextPort, sequence, shut,
                 closing, sessions, registry, left>>

\* manager.boot() and openUrl() of one device.
Booted(k, d) ==
  /\ step[k][d] = "boot"
  /\ running' = running \cup {d}
  /\ left' = left \ {d}
  /\ step' = [step EXCEPT ![k][d] = "open"]
  /\ UNCHANGED <<pool, ports, nextPort, boot, sequence, shut,
                 closing, sessions, registry>>

Opened(k, d) ==
  /\ step[k][d] = "open"
  /\ GetPort(d)
  /\ step' = [step EXCEPT ![k][d] = "connect"]
  /\ UNCHANGED <<pool, running, boot, sequence, shut,
                 closing, sessions, registry, left>>

\* One rejection rejects Promise.all, and with it bootAll(), at once.  Nobody
\* shuts the device down; the others of the batch go on.
BootRejected(k, d) ==
  /\ step[k][d] \in {"boot", "open"}
  /\ step' = [step EXCEPT ![k][d] = "failed"]
  /\ boot' = [boot EXCEPT ![k].at = "failed"]
  /\ left' = IF step[k][d] = "open" THEN left \cup {d} ELSE left
  /\ UNCHANGED <<pool, running, ports, nextPort, sequence, shut,
                 closing, sessions, registry>>

\* Mutant of Connected: a device whose connect() failed is not pooled.
ConnectedOnly(k, d) ==
  /\ step[k][d] = "connect"
  /\ \E ok \in BOOLEAN : pool' = [pool EXCEPT ![d] = IF ok THEN k ELSE @]
  /\ step' = [step EXCEPT ![k][d] = "done"]
  /\ boot' = [boot EXCEPT ![k].made = @ \cup {d}]
  /\ UNCHANGED <<running, ports, nextPort, sequence, shut,
                 closing, sessions, registry, left>>

\* connect() settles, either way, and the device is pooled.
Connected(k, d) ==
  /\ step[k][d] = "connect"
  /\ pool' = [pool EXCEPT ![d] = k]
  /\ step' = [step EXCEPT ![k][d] = "done"]
  /\ boot' = [boot EXCEPT ![k].made = @ \cup {d}]
  /\ UNCHANGED <<running, ports, nextPort, sequence, shut,
                 closing, sessions, registry, left>>

\* After the last batch this call's devices, and only these, become the
\* process's entry in the registry; the session manager learns of them.
BootAllDone(k) ==
  /\ boot[k].at = "batch" /\ boot[k].todo = {}
  /\ \A d \in Devices : step[k][d] \in {"no", "done"}
  /\ boot' = [boot EXCEPT ![k].at = "done"]
  /\ registry' = boot[k].made
  /\ sessions' = sessions \cup boot[k].made
  /\ UNCHANGED <<pool, running, ports, nextPort, step, sequence, shut,
                 closing, left>>

-----------------------------------------------------------------------------
(* shutdownOne() *)

\* What follows manager.shutdown(), which may have failed: the entry goes, and
\* the registry is set to what remains.
Removed(d) ==
  /\ running' \in {running, running \ {d}}
  /\ left' = IF d \in running' THEN left \cup {d} ELSE left \ {d}
  /\ sessions' = sessions \ {d}
  /\ pool' = [pool EXCEPT ![d] = None]
  /\ ports' = [ports EXCEPT ![d] = 0]
  /\ registry' = Pooled \ {d}

ShutdownOne(s, d) ==
  /\ shut[s].at = "idle"
  /\ d \in Pooled
  /\ shut' = [shut EXCEPT ![s] = [at |-> "disconnect", dev |-> d]]
  /\ UNCHANGED <<pool, running, ports, nextPort, boot, step, sequence,
                 closing, sessions, registry, left>>

Disconnected(s) ==
  /\ shut[s].at = "disconnect"
  /\ shut' = [shut EXCEPT ![s].at = "stop"]
  /\ UNCHANGED <<pool, running, ports, nextPort, boot, step, sequence,
                 closing, sessions, registry, left>>

Stopped(s) ==
  /\ shut[s].at = "stop"
  /\ Removed(shut[s].dev)
  /\ shut' = [shut EXCEPT ![s] = [at |-> "idle", dev |-> None]]
  /\ UNCHANGED <<nextPort, boot, step, sequence, closing>>

-----------------------------------------------------------------------------
(* shutdownAll() *)

ShutdownAll ==
  /\ ~ closing.on
  /\ closing' = [on |-> TRUE, todo |-> Pooled]
  /\ UNCHANGED <<pool, running, ports, nextPort, boot, step, sequence, shut,
                 sessions, registry, left>>

\* One device of the snapshot, in parallel with the others.
AllStopped(d) ==
  /\ d \in closing.todo
  /\ closing' = [closing EXCEPT !.todo = @ \ {d}]
  /\ running' \in {running, running \ {d}}
  /\ left' = IF d \in running' THEN left \cup {d} ELSE left \ {d}
  /\ sessions' = sessions \ {d}
  /\ pool' = [pool EXCEPT ![d] = None]
  /\ UNCHANGED <<ports, nextPort, boot, step, sequence, shut, registry>>

AllDone ==
  /\ closing.on /\ closing.todo = {}
  /\ closing' = [closing EXCEPT !.on = FALSE]
  /\ ports' = [d \in Devices |-> 0] /\ nextPort' = 1
  /\ registry' = {}
  /\ UNCHANGED <<pool, running, boot, step, sequence, shut, sessions, left>>

-----------------------------------------------------------------------------
(* bootSequential(): one device after the other, each shut down after its run. *)

BootSequential(D) ==
  /\ sequence.at = "idle" /\ D # {}
  /\ sequence' = [at |-> "next", todo |-> D, now |-> None]
  /\ UNCHANGED <<pool, running, ports, nextPort, boot, step, shut,
                 closing, sessions, registry, left>>

\* The memory check of the next preset; a failure goes on to the one after it.
SeqNext(d) ==
  /\ sequence.at = "next" /\ d \in sequence.todo
  /\ \/ /\ sequence' = [at |-> "boot", todo |-> sequence.todo \ {d}, now |-> d]
        /\ step' = [step EXCEPT ![Sequential][d] = "boot"]
     \/ /\ sequence' = [sequence EXCEPT !.todo = @ \ {d}]
        /\ UNCHANGED step
  /\ UNCHANGED <<pool, running, ports, nextPort, boot, shut,
                 closing, sessions, registry, left>>

\* manager.boot() or openUrl() rejects: "sim" is still null, so the finally
\* block shuts nothing down.
SeqRejected ==
  /\ sequence.at = "boot"
  /\ LET d == sequence.now IN
       /\ step[Sequential][d] \in {"boot", "open"}
       /\ left' = IF step[Sequential][d] = "open" THEN left \cup {d} ELSE left
       /\ step' = [step EXCEPT ![Sequential][d] = "failed"]
  /\ sequence' = [sequence EXCEPT !.at = "next", !.now = None]
  /\ UNCHANGED <<pool, running, ports, nextPort, boot, shut,
                 closing, sessions, registry>>

\* Pooled and known to the session manager, but not registered.
SeqConnected ==
  /\ sequence.at = "boot"
  /\ LET d == sequence.now IN
       /\ step[Sequential][d] = "connect"
       /\ pool' = [pool EXCEPT ![d] = Sequential]
       /\ sessions' = sessions \cup {d}
       /\ step' = [step EXCEPT ![Sequential][d] = "done"]
  /\ sequence' = [sequence EXCEPT !.at = "run"]
  /\ UNCHANGED <<running, ports, nextPort, boot, shut, closing, registry, left>>

\* The runner settled; shutdownOne() returns at once if the entry is gone.
SeqShutdown ==
  /\ sequence.at = "run"
  /\ \/ /\ pool[sequence.now] # None
        /\ sequence' = [sequence EXCEPT !.at = "disconnect"]
     \/ /\ pool[sequence.now] = None
        /\ sequence' = [sequence EXCEPT !.at = "next", !.now = None]
  /\ UNCHANGED <<pool, running, ports, nextPort, boot, step, shut,
                 closing, sessions, registry, left>>

\* Mutant of SeqStopped: a shutdown that failed aborts the remaining devices.
SeqStoppedOnce ==
  /\ sequence.at = "disconnect"
  /\ Removed(sequence.now)
  /\ sequence' = IF sequence.now \in running'
                  THEN [sequence EXCEPT !.at = "aborted"]
                  ELSE [sequence EXCEPT !.at = "next", !.now = None]
  /\ UNCHANGED <<nextPort, boot, step, shut, closing>>

SeqStopped ==
  /\ sequence.at = "disconnect"
  /\ Removed(sequence.now)
  /\ sequence' = [sequence EXCEPT !.at = "next", !.now = None]
  /\ UNCHANGED <<nextPort, boot, step, shut, closing>>

SeqDone ==
  /\ sequence.at = "next" /\ sequence.todo = {}
  /\ sequence' = [sequence EXCEPT !.at = "done"]
  /\ UNCHANGED <<pool, running, ports, nextPort, boot, step, shut,
                 closing, sessions, registry, left>>

-----------------------------------------------------------------------------
BootStep(k) ==
  \/ NotEnoughMemory(k)
  \/ \E B \in SUBSET Devices : Batch(k, B)
  \/ \E d \in Devices : BootRejected(k, d) \/ Connected(k, d)
  \/ BootAllDone(k)

DeviceStep(k) == \E d \in Devices : Booted(k, d) \/ Opened(k, d)

ShutStep(s) == Disconnected(s) \/ Stopped(s)

AllStep == AllDone \/ \E d \in Devices : AllStopped(d)

SeqStep ==
  \/ \E d \in Devices : SeqNext(d)
  \/ SeqRejected \/ SeqConnected \/ SeqShutdown \/ SeqStopped \/ SeqDone

Next ==
  \/ \E k \in Boots : BootStep(k) \/ \E D \in SUBSET Devices : BootAll(k, D)
  \/ \E k \in Makers : DeviceStep(k)
  \/ \E s \in Shuts : ShutStep(s) \/ \E d \in Devices : ShutdownOne(s, d)
  \/ ShutdownAll
  \/ AllStep
  \/ \E D \in SUBSET Devices : BootSequential(D)
  \/ SeqStep

Spec == Init /\ [][Next]_vars

\* What simctl and the WebKit client are asked settles: each has its timeout.
Fairness ==
  /\ \A k \in Boots : WF_vars(BootStep(k))
  /\ \A k \in Makers : WF_vars(DeviceStep(k))
  /\ WF_vars(AllStep) /\ WF_vars(SeqStep)

FairSpec == Spec /\ Fairness

-----------------------------------------------------------------------------
(* Properties *)

\* The pool's state keeps its shape.
TypeOK ==
  /\ pool \in [Devices -> Makers \cup {None}]
  /\ running \subseteq Devices /\ sessions \subseteq Devices
  /\ registry \subseteq Devices /\ left \subseteq Devices
  /\ ports \in [Devices -> Nat] /\ nextPort \in Nat \ {0}
  /\ boot \in [Boots -> [at : {"idle", "check", "batch", "done", "failed"},
                        todo : SUBSET Devices, made : SUBSET Devices]]
  /\ step \in [Makers -> [Devices -> Stages]]
  /\ sequence \in [at : {"idle", "next", "boot", "run", "disconnect", "done"},
                   todo : SUBSET Devices, now : Devices \cup {None}]
  /\ shut \in [Shuts -> [at : {"idle", "disconnect", "stop"}, dev : Devices \cup {None}]]
  /\ closing \in [on : BOOLEAN, todo : SUBSET Devices]

\* Two devices never share a port of devicePorts, however boots, shutdowns and
\* the reset of the counter overlap (pool.ts:297-298 and :457-462).
PortsDiffer ==
  \A d, e \in Devices : ports[d] # 0 /\ ports[d] = ports[e] => d = e

\* No simulator runs that the pool does not know of, is not working on, or was
\* not left running by a boot or a shutdown that failed.
NoForgottenDevice ==
  \A d \in running : d \in Pooled \cup left \/ InFlight(d)

\* A device that its bootAll() or the sequential run has pooled is one the session
\* manager tracks, whoever shuts devices down meanwhile (pool.ts:167-181, :225).
PooledIsTracked ==
  \A d \in Pooled :
    pool[d] = Sequential \/ boot[pool[d]].at = "done" => d \in sessions

\* bootAll() ends, shutdownAll() ends, and bootSequential() comes to the end of
\* its presets whichever of them fail (pool.ts:245-246).
CallsSettle ==
  /\ \A k \in Boots : boot[k].at \in {"check", "batch"} ~> boot[k].at \in {"done", "failed"}
  /\ sequence.at = "next" ~> sequence.at = "done"
  /\ closing.on ~> ~ closing.on
=============================================================================
