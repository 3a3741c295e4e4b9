------------------------------ MODULE ToolProofs ------------------------------
(***************************************************************************)
(* Machine-checked safety of the simulator pool and of the tools that act  *)
(* on one device, for any devices, calls and bounds: the pool forgets no   *)
(* device, its ports are unique and the pooled are tracked; and of taps,   *)
(* alerts, navigation, reading the screen, settings, apps and their login  *)
(* state, the inductive invariant of each, which says that its claims are  *)
(* true.  ToolCallProofs composes them with those of the other tools.      *)
(***************************************************************************)
EXTENDS SimulatorPool, MCToolCalls, TLAPS

----------------------------------------------------------------------------
(* SimulatorPool: no device is forgotten, and the pool's are tracked. *)

\* What a device is doing while a call is making it ready.
Busy == {"boot", "open", "connect"}

\* A call boots devices only between its first batch and its end; before, it has pooled none.
BootsWork ==
  \A k \in Boots :
    /\ boot[k].at = "idle" => boot[k].made = {}
    /\ \A d \in Devices : step[k][d] \in Busy => boot[k].at \in {"batch", "failed"}

\* The sequential run boots the one device it is at.
SequenceWorks ==
  /\ sequence.at \in {"boot", "run", "disconnect"} => sequence.now \in Devices
  /\ \A d \in Devices : step[Sequential][d] \in Busy => sequence.at = "boot" /\ sequence.now = d

\* A shutdown knows its device.
ShutsKnow == \A s \in Shuts : shut[s].at # "idle" => shut[s].dev \in Devices

\* What a bootAll() has pooled is among its results.
PooledIsMade == \A d \in Devices : pool[d] \in Boots => d \in boot[pool[d]].made

\* Ports are given out in order.
PortsBelow == \A d \in Devices : ports[d] < nextPort

\* The parts of the state's shape.
MapsTyped ==
  /\ pool \in [Devices -> Makers \cup {None}]
  /\ running \subseteq Devices /\ sessions \subseteq Devices
  /\ registry \subseteq Devices /\ left \subseteq Devices

\* The types of the pool's state, part by part.
PortsTyped == ports \in [Devices -> Nat] /\ nextPort \in Nat \ {0}
BootTyped ==
  boot \in [Boots -> [at : {"idle", "check", "batch", "done", "failed"},
                     todo : SUBSET Devices, made : SUBSET Devices]]
StepTyped == step \in [Makers -> [Devices -> Stages]]
SequenceTyped ==
  sequence \in [at : {"idle", "next", "boot", "run", "disconnect", "done"},
               todo : SUBSET Devices, now : Devices \cup {None}]
ShutTyped ==
  /\ shut \in [Shuts -> [at : {"idle", "disconnect", "stop"}, dev : Devices \cup {None}]]
  /\ closing \in [on : BOOLEAN, todo : SUBSET Devices]

\* The inductive invariant of the pool: types, ports, calls at work and what is tracked.
PoolInv ==
  /\ MapsTyped /\ PortsTyped /\ BootTyped /\ StepTyped /\ SequenceTyped /\ ShutTyped
  /\ PortsBelow /\ ShutsKnow /\ BootsWork /\ SequenceWorks /\ PooledIsMade
  /\ PortsDiffer /\ NoForgottenDevice /\ PooledIsTracked

\* Nothing has been booted yet.
LEMMA PoolInitInv == Init => PoolInv
BY PoolConstants DEF Init, PoolInv, MapsTyped, PortsTyped, BootTyped, StepTyped, SequenceTyped,
    ShutTyped,
  PortsBelow, PortsDiffer, ShutsKnow, BootsWork, SequenceWorks, PooledIsMade, NoForgottenDevice,
  PooledIsTracked, Pooled,
  Makers, Stages, Busy, InFlight

\* bootAll() is called.
LEMMA BootAllInv ==
  ASSUME PoolInv, NEW k \in Boots, NEW D \in SUBSET Devices, BootAll(k, D)
  PROVE  PoolInv'
<1> USE PoolConstants DEF PoolInv, Makers
<1>1. UNCHANGED <<pool, running, sessions, registry, left, ports, nextPort, step, sequence, shut,
        closing>>
  BY DEF BootAll
<1>2. /\ MapsTyped' /\ PortsTyped' /\ PortsBelow' /\ PortsDiffer' /\ StepTyped'
      /\ SequenceTyped' /\ ShutTyped' /\ ShutsKnow' /\ SequenceWorks' /\ NoForgottenDevice'
  BY <1>1 DEF MapsTyped, PortsTyped, PortsBelow, PortsDiffer, StepTyped, SequenceTyped, ShutTyped,
    ShutsKnow, SequenceWorks, NoForgottenDevice, Pooled, InFlight
<1>3. BootTyped'
  BY DEF BootTyped, BootAll
<1>4. BootsWork'
  BY DEF BootsWork, BootTyped, StepTyped, Busy, BootAll
<1>5. PooledIsMade'
  BY DEF PooledIsMade, MapsTyped, BootTyped, BootsWork, BootAll
<1>6. PooledIsTracked'
  BY DEF PooledIsTracked, MapsTyped, BootTyped, StepTyped, Pooled, BootsWork, PooledIsMade, Busy,
    BootAll
<1> QED
  BY <1>2, <1>3, <1>4, <1>5, <1>6

\* bootAll() is refused.
LEMMA NotEnoughMemoryInv ==
  ASSUME PoolInv, NEW k \in Boots, NotEnoughMemory(k)
  PROVE  PoolInv'
<1> USE PoolConstants DEF PoolInv, Makers
<1>1. UNCHANGED <<pool, running, sessions, registry, left, ports, nextPort, step, sequence, shut,
        closing>>
  BY DEF NotEnoughMemory
<1>2. /\ MapsTyped' /\ PortsTyped' /\ PortsBelow' /\ PortsDiffer' /\ StepTyped'
      /\ SequenceTyped' /\ ShutTyped' /\ ShutsKnow' /\ SequenceWorks' /\ NoForgottenDevice'
  BY <1>1 DEF MapsTyped, PortsTyped, PortsBelow, PortsDiffer, StepTyped, SequenceTyped, ShutTyped,
    ShutsKnow, SequenceWorks, NoForgottenDevice, Pooled, InFlight
<1>3. BootTyped'
  BY DEF BootTyped, NotEnoughMemory
<1>4. BootsWork'
  BY DEF BootsWork, BootTyped, StepTyped, Busy, NotEnoughMemory
<1>5. PooledIsMade'
  BY DEF PooledIsMade, MapsTyped, BootTyped, BootsWork, NotEnoughMemory
<1>6. PooledIsTracked'
  BY DEF PooledIsTracked, MapsTyped, BootTyped, StepTyped, Pooled, BootsWork, PooledIsMade, Busy,
    NotEnoughMemory
<1> QED
  BY <1>2, <1>3, <1>4, <1>5, <1>6

\* A batch starts.
LEMMA BatchInv ==
  ASSUME PoolInv, NEW k \in Boots, NEW B \in SUBSET Devices, Batch(k, B)
  PROVE  PoolInv'
<1> USE PoolConstants DEF PoolInv, Makers
<1>1. UNCHANGED <<pool, running, sessions, registry, left, ports, nextPort, sequence, shut,
                  closing>>
  BY DEF Batch
<1>2. /\ MapsTyped' /\ PortsTyped' /\ PortsBelow' /\ PortsDiffer' /\ SequenceTyped'
      /\ ShutTyped' /\ ShutsKnow'
  BY <1>1 DEF MapsTyped, PortsTyped, PortsBelow, PortsDiffer, SequenceTyped, ShutTyped, ShutsKnow
<1>3. BootTyped'
  BY DEF BootTyped, Batch
<1>4. StepTyped'
  BY DEF StepTyped, Stages, Batch
<1>5. BootsWork'
  BY DEF BootsWork, BootTyped, StepTyped, Busy, Batch
<1>6. SequenceWorks'
  BY DEF SequenceWorks, SequenceTyped, StepTyped, Busy, Batch
<1>7. PooledIsMade'
  BY DEF PooledIsMade, MapsTyped, BootTyped, BootsWork, Batch
<1>8. NoForgottenDevice'
  BY DEF NoForgottenDevice, MapsTyped, StepTyped, SequenceTyped, Pooled, InFlight, Busy,
    SequenceWorks, Batch
<1>9. PooledIsTracked'
  BY DEF PooledIsTracked, MapsTyped, BootTyped, StepTyped, Pooled, BootsWork, PooledIsMade, Busy,
    Batch
<1> QED
  BY <1>2, <1>3, <1>4, <1>5, <1>6, <1>7, <1>8, <1>9

\* A device is booted.
LEMMA BootedInv ==
  ASSUME PoolInv, NEW k \in Makers, NEW d \in Devices, Booted(k, d)
  PROVE  PoolInv'
<1> USE PoolConstants DEF PoolInv, Makers
<1>1. UNCHANGED <<ports, nextPort, boot, sequence, shut, closing, pool, sessions>>
  BY DEF Booted
<1>2. /\ PortsTyped' /\ PortsBelow' /\ PortsDiffer' /\ BootTyped' /\ SequenceTyped'
      /\ ShutTyped' /\ ShutsKnow' /\ PooledIsMade' /\ PooledIsTracked'
  BY <1>1 DEF PortsTyped, PortsBelow, PortsDiffer, BootTyped, SequenceTyped, ShutTyped, ShutsKnow,
    PooledIsMade, PooledIsTracked, Pooled
<1>3. MapsTyped'
  BY DEF MapsTyped, Pooled, BootTyped, SequenceTyped, SequenceWorks, Booted
<1>4. StepTyped'
  BY DEF StepTyped, Stages, Booted
<1>5. BootsWork'
  BY DEF BootsWork, BootTyped, StepTyped, Busy, Booted
<1>6. SequenceWorks'
  BY DEF SequenceWorks, SequenceTyped, StepTyped, Busy, Booted
<1>7. NoForgottenDevice'
  BY DEF NoForgottenDevice, MapsTyped, StepTyped, SequenceTyped, Pooled, InFlight, Busy,
    SequenceWorks, Booted
<1> QED
  BY <1>2, <1>3, <1>4, <1>5, <1>6, <1>7

\* Its page is opened.
LEMMA OpenedInv ==
  ASSUME PoolInv, NEW k \in Makers, NEW d \in Devices, Opened(k, d)
  PROVE  PoolInv'
<1> USE PoolConstants DEF PoolInv, Makers
<1>1. UNCHANGED <<pool, running, sessions, registry, left, boot, sequence, shut, closing>>
  BY DEF Opened, GetPort
<1>2. /\ MapsTyped' /\ BootTyped' /\ SequenceTyped' /\ ShutTyped' /\ ShutsKnow'
      /\ PooledIsMade' /\ PooledIsTracked'
  BY <1>1 DEF MapsTyped, BootTyped, SequenceTyped, ShutTyped, ShutsKnow, PooledIsMade,
    PooledIsTracked, Pooled
<1>3. PortsTyped'
  BY DEF PortsTyped, Opened, GetPort
<1>4. PortsBelow'
  BY DEF PortsBelow, PortsTyped, Opened, GetPort
<1>5. PortsDiffer'
  BY DEF PortsDiffer, PortsTyped, PortsBelow, Opened, GetPort
<1>6. StepTyped'
  BY DEF StepTyped, Stages, Opened, GetPort
<1>7. BootsWork'
  BY DEF BootsWork, BootTyped, StepTyped, Busy, Opened, GetPort
<1>8. SequenceWorks'
  BY DEF SequenceWorks, SequenceTyped, StepTyped, Busy, Opened, GetPort
<1>9. NoForgottenDevice'
  BY DEF NoForgottenDevice, MapsTyped, StepTyped, SequenceTyped, Pooled, InFlight, Busy,
    SequenceWorks, Opened, GetPort
<1> QED
  BY <1>2, <1>3, <1>4, <1>5, <1>6, <1>7, <1>8, <1>9

\* A device that does not boot is left as it is.
LEMMA BootRejectedInv ==
  ASSUME PoolInv, NEW k \in Boots, NEW d \in Devices, BootRejected(k, d)
  PROVE  PoolInv'
<1> USE PoolConstants DEF PoolInv, Makers
<1>1. UNCHANGED <<ports, nextPort, sequence, shut, closing>>
  BY DEF BootRejected
<1>2. /\ PortsTyped' /\ PortsBelow' /\ PortsDiffer' /\ SequenceTyped' /\ ShutTyped'
      /\ ShutsKnow'
  BY <1>1 DEF PortsTyped, PortsBelow, PortsDiffer, SequenceTyped, ShutTyped, ShutsKnow
<1>3. MapsTyped'
  BY DEF MapsTyped, Pooled, BootTyped, SequenceTyped, SequenceWorks, BootRejected
<1>4. BootTyped'
  BY DEF BootTyped, BootRejected
<1>5. StepTyped'
  BY DEF StepTyped, Stages, BootRejected
<1>6. BootsWork'
  BY DEF BootsWork, BootTyped, StepTyped, Busy, BootRejected
<1>7. SequenceWorks'
  BY DEF SequenceWorks, SequenceTyped, StepTyped, Busy, BootRejected
<1>8. PooledIsMade'
  BY DEF PooledIsMade, MapsTyped, BootTyped, BootsWork, BootRejected
<1>9. NoForgottenDevice'
  BY DEF NoForgottenDevice, MapsTyped, StepTyped, SequenceTyped, Pooled, InFlight, Busy,
    SequenceWorks, BootRejected
<1>10. PooledIsTracked'
  BY DEF PooledIsTracked, MapsTyped, BootTyped, StepTyped, Pooled, BootsWork, PooledIsMade, Busy,
    BootRejected
<1> QED
  BY <1>2, <1>3, <1>4, <1>5, <1>6, <1>7, <1>8, <1>9, <1>10

\* A device is pooled.
LEMMA ConnectedInv ==
  ASSUME PoolInv, NEW k \in Boots, NEW d \in Devices, Connected(k, d)
  PROVE  PoolInv'
<1> USE PoolConstants DEF PoolInv, Makers
<1>1. UNCHANGED <<ports, nextPort, sequence, shut, closing>>
  BY DEF Connected
<1>2. /\ PortsTyped' /\ PortsBelow' /\ PortsDiffer' /\ SequenceTyped' /\ ShutTyped'
      /\ ShutsKnow'
  BY <1>1 DEF PortsTyped, PortsBelow, PortsDiffer, SequenceTyped, ShutTyped, ShutsKnow
<1>3. MapsTyped'
  BY DEF MapsTyped, Pooled, BootTyped, SequenceTyped, SequenceWorks, Connected
<1>4. BootTyped'
  <2>1. boot[k].made \cup {d} \in SUBSET Devices
    BY DEF BootTyped
  <2> QED
    BY <2>1 DEF BootTyped, Connected
<1>5. StepTyped'
  BY DEF StepTyped, Stages, Connected
<1>6. BootsWork'
  BY DEF BootsWork, BootTyped, StepTyped, Busy, Connected
<1>7. SequenceWorks'
  BY DEF SequenceWorks, SequenceTyped, StepTyped, Busy, Connected
<1>8. PooledIsMade'
  BY DEF PooledIsMade, MapsTyped, BootTyped, BootsWork, Connected
<1>9. NoForgottenDevice'
  BY DEF NoForgottenDevice, MapsTyped, StepTyped, SequenceTyped, Pooled, InFlight, Busy,
    SequenceWorks, Connected
<1>10. PooledIsTracked'
  BY DEF PooledIsTracked, MapsTyped, BootTyped, StepTyped, Pooled, BootsWork, PooledIsMade, Busy,
    Connected
<1> QED
  BY <1>2, <1>3, <1>4, <1>5, <1>6, <1>7, <1>8, <1>9, <1>10

\* bootAll() ends: the session manager learns of all it has pooled.
LEMMA BootAllDoneInv ==
  ASSUME PoolInv, NEW k \in Boots, BootAllDone(k)
  PROVE  PoolInv'
<1> USE PoolConstants DEF PoolInv, Makers
<1>1. UNCHANGED <<ports, nextPort, step, sequence, shut, closing, running, pool, left>>
  BY DEF BootAllDone
<1>2. /\ PortsTyped' /\ PortsBelow' /\ PortsDiffer' /\ StepTyped' /\ SequenceTyped'
      /\ ShutTyped' /\ ShutsKnow' /\ SequenceWorks' /\ NoForgottenDevice'
  BY <1>1 DEF PortsTyped, PortsBelow, PortsDiffer, StepTyped, SequenceTyped, ShutTyped, ShutsKnow,
    SequenceWorks, NoForgottenDevice, Pooled, InFlight
<1>3. MapsTyped'
  BY DEF MapsTyped, Pooled, BootTyped, SequenceTyped, SequenceWorks, BootAllDone
<1>4. BootTyped'
  BY DEF BootTyped, BootAllDone
<1>5. BootsWork'
  BY DEF BootsWork, BootTyped, StepTyped, Busy, BootAllDone
<1>6. PooledIsMade'
  BY DEF PooledIsMade, MapsTyped, BootTyped, BootsWork, BootAllDone
<1>7. PooledIsTracked'
  BY DEF PooledIsTracked, MapsTyped, BootTyped, StepTyped, Pooled, BootsWork, PooledIsMade, Busy,
    BootAllDone
<1> QED
  BY <1>2, <1>3, <1>4, <1>5, <1>6, <1>7

\* shutdownOne() up to the stop.
LEMMA ShutsInv ==
  ASSUME PoolInv, NEW s \in Shuts, Disconnected(s) \/ \E d \in Devices : ShutdownOne(s, d)
  PROVE  PoolInv'
<1> USE PoolConstants DEF PoolInv, Makers
<1>1. UNCHANGED <<pool, running, sessions, registry, left, ports, nextPort, boot, step, sequence>>
  BY DEF Disconnected, ShutdownOne
<1>2. /\ MapsTyped' /\ PortsTyped' /\ PortsBelow' /\ PortsDiffer' /\ BootTyped'
      /\ StepTyped' /\ SequenceTyped' /\ BootsWork' /\ SequenceWorks' /\ PooledIsMade'
      /\ NoForgottenDevice' /\ PooledIsTracked'
  BY <1>1 DEF MapsTyped, PortsTyped, PortsBelow, PortsDiffer, BootTyped, StepTyped, SequenceTyped,
    BootsWork, SequenceWorks, PooledIsMade, NoForgottenDevice, PooledIsTracked, Pooled, InFlight
<1>3. ShutTyped'
  BY DEF ShutTyped, Pooled, Disconnected, ShutdownOne
<1>4. ShutsKnow'
  BY DEF ShutsKnow, ShutTyped, Pooled, Disconnected, ShutdownOne
<1> QED
  BY <1>2, <1>3, <1>4

\* The device of a shutdownOne() is removed.
LEMMA StoppedInv ==
  ASSUME PoolInv, NEW s \in Shuts, Stopped(s)
  PROVE  PoolInv'
<1> USE PoolConstants DEF PoolInv, Makers
<1>1. UNCHANGED <<boot, step, sequence>>
  BY DEF Stopped, Removed
<1>2. /\ BootTyped' /\ StepTyped' /\ SequenceTyped' /\ BootsWork' /\ SequenceWorks'
  BY <1>1 DEF BootTyped, StepTyped, SequenceTyped, BootsWork, SequenceWorks
<1>3. MapsTyped'
  BY DEF MapsTyped, Pooled, BootTyped, SequenceTyped, SequenceWorks, Stopped, Removed
<1>4. PortsTyped'
  BY DEF PortsTyped, Stopped, Removed
<1>5. PortsBelow'
  BY DEF PortsBelow, PortsTyped, Stopped, Removed
<1>6. PortsDiffer'
  BY DEF PortsDiffer, PortsTyped, PortsBelow, Stopped, Removed
<1>7. ShutTyped'
  BY DEF ShutTyped, Pooled, Stopped, Removed
<1>8. ShutsKnow'
  BY DEF ShutsKnow, ShutTyped, Pooled, Stopped, Removed
<1>9. PooledIsMade'
  BY DEF PooledIsMade, MapsTyped, BootTyped, BootsWork, Stopped, Removed
<1>10. NoForgottenDevice'
  BY DEF NoForgottenDevice, MapsTyped, StepTyped, SequenceTyped, Pooled, InFlight, Busy,
    SequenceWorks, Stopped, Removed
<1>11. PooledIsTracked'
  BY DEF PooledIsTracked, MapsTyped, BootTyped, StepTyped, Pooled, BootsWork, PooledIsMade, Busy,
    Stopped, Removed
<1> QED
  BY <1>2, <1>3, <1>4, <1>5, <1>6, <1>7, <1>8, <1>9, <1>10, <1>11

\* shutdownAll() starts.
LEMMA ShutdownAllInv ==
  ASSUME PoolInv, ShutdownAll
  PROVE  PoolInv'
<1> USE PoolConstants DEF PoolInv, Makers
<1>1. UNCHANGED <<pool, running, sessions, registry, left, ports, nextPort, boot, step, sequence,
                  shut>>
  BY DEF ShutdownAll
<1>2. /\ MapsTyped' /\ PortsTyped' /\ PortsBelow' /\ PortsDiffer' /\ BootTyped'
      /\ StepTyped' /\ SequenceTyped' /\ ShutsKnow' /\ BootsWork' /\ SequenceWorks'
      /\ PooledIsMade' /\ NoForgottenDevice' /\ PooledIsTracked'
  BY <1>1 DEF MapsTyped, PortsTyped, PortsBelow, PortsDiffer, BootTyped, StepTyped, SequenceTyped,
    ShutsKnow, BootsWork, SequenceWorks, PooledIsMade, NoForgottenDevice, PooledIsTracked, Pooled,
    InFlight
<1>3. ShutTyped'
  BY DEF ShutTyped, Pooled, ShutdownAll
<1> QED
  BY <1>2, <1>3

\* shutdownAll() stops one device.
LEMMA AllStoppedInv ==
  ASSUME PoolInv, NEW d \in Devices, AllStopped(d)
  PROVE  PoolInv'
<1> USE PoolConstants DEF PoolInv, Makers
<1>1. UNCHANGED <<ports, nextPort, boot, step, sequence, shut>>
  BY DEF AllStopped
<1>2. /\ PortsTyped' /\ PortsBelow' /\ PortsDiffer' /\ BootTyped' /\ StepTyped'
      /\ SequenceTyped' /\ ShutsKnow' /\ BootsWork' /\ SequenceWorks'
  BY <1>1 DEF PortsTyped, PortsBelow, PortsDiffer, BootTyped, StepTyped, SequenceTyped, ShutsKnow,
    BootsWork, SequenceWorks
<1>3. MapsTyped'
  BY DEF MapsTyped, Pooled, BootTyped, SequenceTyped, SequenceWorks, AllStopped
<1>4. ShutTyped'
  BY DEF ShutTyped, Pooled, AllStopped
<1>5. PooledIsMade'
  BY DEF PooledIsMade, MapsTyped, BootTyped, BootsWork, AllStopped
<1>6. NoForgottenDevice'
  BY DEF NoForgottenDevice, MapsTyped, StepTyped, SequenceTyped, Pooled, InFlight, Busy,
    SequenceWorks, AllStopped
<1>7. PooledIsTracked'
  BY DEF PooledIsTracked, MapsTyped, BootTyped, StepTyped, Pooled, BootsWork, PooledIsMade, Busy,
    AllStopped
<1> QED
  BY <1>2, <1>3, <1>4, <1>5, <1>6, <1>7

\* shutdownAll() ends.
LEMMA AllDoneInv ==
  ASSUME PoolInv, AllDone
  PROVE  PoolInv'
<1> USE PoolConstants DEF PoolInv, Makers
<1>1. UNCHANGED <<boot, step, sequence, shut, pool, running, left, sessions>>
  BY DEF AllDone
<1>2. /\ BootTyped' /\ StepTyped' /\ SequenceTyped' /\ ShutsKnow' /\ BootsWork'
      /\ SequenceWorks' /\ PooledIsMade' /\ NoForgottenDevice' /\ PooledIsTracked'
  BY <1>1 DEF BootTyped, StepTyped, SequenceTyped, ShutsKnow, BootsWork, SequenceWorks,
    PooledIsMade, NoForgottenDevice, PooledIsTracked, Pooled, InFlight
<1>3. MapsTyped'
  BY DEF MapsTyped, Pooled, BootTyped, SequenceTyped, SequenceWorks, AllDone
<1>4. PortsTyped'
  BY DEF PortsTyped, AllDone
<1>5. PortsBelow'
  BY DEF PortsBelow, PortsTyped, AllDone
<1>6. PortsDiffer'
  BY DEF PortsDiffer, PortsTyped, PortsBelow, AllDone
<1>7. ShutTyped'
  BY DEF ShutTyped, Pooled, AllDone
<1> QED
  BY <1>2, <1>3, <1>4, <1>5, <1>6, <1>7

\* The sequential run starts.
LEMMA BootSequentialInv ==
  ASSUME PoolInv, NEW D \in SUBSET Devices, BootSequential(D)
  PROVE  PoolInv'
<1> USE PoolConstants DEF PoolInv, Makers
<1>1. UNCHANGED <<pool, running, sessions, registry, left, ports, nextPort, boot, step, shut,
                  closing>>
  BY DEF BootSequential
<1>2. /\ MapsTyped' /\ PortsTyped' /\ PortsBelow' /\ PortsDiffer' /\ BootTyped'
      /\ StepTyped' /\ ShutTyped' /\ ShutsKnow' /\ BootsWork' /\ PooledIsMade'
      /\ NoForgottenDevice' /\ PooledIsTracked'
  BY <1>1 DEF MapsTyped, PortsTyped, PortsBelow, PortsDiffer, BootTyped, StepTyped, ShutTyped,
    ShutsKnow, BootsWork, PooledIsMade, NoForgottenDevice, PooledIsTracked, Pooled, InFlight
<1>3. SequenceTyped'
  BY DEF SequenceTyped, BootSequential
<1>4. SequenceWorks'
  BY DEF SequenceWorks, SequenceTyped, StepTyped, Busy, BootSequential
<1> QED
  BY <1>2, <1>3, <1>4

\* The sequential run goes to its next device.
LEMMA SeqNextInv ==
  ASSUME PoolInv, NEW d \in Devices, SeqNext(d)
  PROVE  PoolInv'
<1> USE PoolConstants DEF PoolInv, Makers
<1>1. UNCHANGED <<pool, running, sessions, registry, left, ports, nextPort, boot, shut, closing>>
  BY DEF SeqNext
<1>2. /\ MapsTyped' /\ PortsTyped' /\ PortsBelow' /\ PortsDiffer' /\ BootTyped'
      /\ ShutTyped' /\ ShutsKnow' /\ PooledIsMade' /\ PooledIsTracked'
  BY <1>1 DEF MapsTyped, PortsTyped, PortsBelow, PortsDiffer, BootTyped, ShutTyped, ShutsKnow,
    PooledIsMade, PooledIsTracked, Pooled
<1>3. StepTyped'
  BY DEF StepTyped, Stages, SeqNext
<1>4. SequenceTyped'
  BY DEF SequenceTyped, SeqNext
<1>5. BootsWork'
  BY DEF BootsWork, BootTyped, StepTyped, Busy, SeqNext
<1>6. SequenceWorks'
  BY DEF SequenceWorks, SequenceTyped, StepTyped, Busy, SeqNext
<1>7. NoForgottenDevice'
  BY DEF NoForgottenDevice, MapsTyped, StepTyped, SequenceTyped, Pooled, InFlight, Busy,
    SequenceWorks, SeqNext
<1> QED
  BY <1>2, <1>3, <1>4, <1>5, <1>6, <1>7

\* The sequential run could not boot its device.
LEMMA SeqRejectedInv ==
  ASSUME PoolInv, SeqRejected
  PROVE  PoolInv'
<1> USE PoolConstants DEF PoolInv, Makers
<1>1. UNCHANGED <<ports, nextPort, boot, shut, closing, pool, sessions>>
  BY DEF SeqRejected
<1>2. /\ PortsTyped' /\ PortsBelow' /\ PortsDiffer' /\ BootTyped' /\ ShutTyped'
      /\ ShutsKnow' /\ PooledIsMade' /\ PooledIsTracked'
  BY <1>1 DEF PortsTyped, PortsBelow, PortsDiffer, BootTyped, ShutTyped, ShutsKnow, PooledIsMade,
    PooledIsTracked, Pooled
<1>3. MapsTyped'
  BY DEF MapsTyped, Pooled, BootTyped, SequenceTyped, SequenceWorks, SeqRejected
<1>4. StepTyped'
  BY DEF StepTyped, Stages, SeqRejected
<1>5. SequenceTyped'
  BY DEF SequenceTyped, SeqRejected
<1>6. BootsWork'
  BY DEF BootsWork, BootTyped, StepTyped, Busy, SeqRejected
<1>7. SequenceWorks'
  BY DEF SequenceWorks, SequenceTyped, StepTyped, Busy, SeqRejected
<1>8. NoForgottenDevice'
  BY DEF NoForgottenDevice, MapsTyped, StepTyped, SequenceTyped, Pooled, InFlight, Busy,
    SequenceWorks, SeqRejected
<1> QED
  BY <1>2, <1>3, <1>4, <1>5, <1>6, <1>7, <1>8

\* It has, and pools it.
LEMMA SeqConnectedInv ==
  ASSUME PoolInv, SeqConnected
  PROVE  PoolInv'
<1> USE PoolConstants DEF PoolInv, Makers
<1>1. UNCHANGED <<ports, nextPort, boot, shut, closing>>
  BY DEF SeqConnected
<1>2. /\ PortsTyped' /\ PortsBelow' /\ PortsDiffer' /\ BootTyped' /\ ShutTyped'
      /\ ShutsKnow'
  BY <1>1 DEF PortsTyped, PortsBelow, PortsDiffer, BootTyped, ShutTyped, ShutsKnow
<1>3. MapsTyped'
  BY DEF MapsTyped, Pooled, BootTyped, SequenceTyped, SequenceWorks, SeqConnected
<1>4. StepTyped'
  BY DEF StepTyped, Stages, SeqConnected
<1>5. SequenceTyped'
  BY DEF SequenceTyped, SeqConnected
<1>6. BootsWork'
  BY DEF BootsWork, BootTyped, StepTyped, Busy, SeqConnected
<1>7. SequenceWorks'
  BY DEF SequenceWorks, SequenceTyped, StepTyped, Busy, SeqConnected
<1>8. PooledIsMade'
  BY DEF PooledIsMade, MapsTyped, BootTyped, BootsWork, SeqConnected
<1>9. NoForgottenDevice'
  BY DEF NoForgottenDevice, MapsTyped, StepTyped, SequenceTyped, Pooled, InFlight, Busy,
    SequenceWorks, SeqConnected
<1>10. PooledIsTracked'
  BY DEF PooledIsTracked, MapsTyped, BootTyped, StepTyped, Pooled, BootsWork, PooledIsMade, Busy,
    SeqConnected
<1> QED
  BY <1>2, <1>3, <1>4, <1>5, <1>6, <1>7, <1>8, <1>9, <1>10

\* It shuts its device down.
LEMMA SeqStoppedInv ==
  ASSUME PoolInv, SeqStopped
  PROVE  PoolInv'
<1> USE PoolConstants DEF PoolInv, Makers
<1>1. UNCHANGED <<boot, step, shut, closing>>
  BY DEF SeqStopped, Removed
<1>2. /\ BootTyped' /\ StepTyped' /\ ShutTyped' /\ ShutsKnow' /\ BootsWork'
  BY <1>1 DEF BootTyped, StepTyped, ShutTyped, ShutsKnow, BootsWork
<1>3. MapsTyped'
  BY DEF MapsTyped, Pooled, BootTyped, SequenceTyped, SequenceWorks, SeqStopped, Removed
<1>4. PortsTyped'
  BY DEF PortsTyped, SeqStopped, Removed
<1>5. PortsBelow'
  BY DEF PortsBelow, PortsTyped, SeqStopped, Removed
<1>6. PortsDiffer'
  BY DEF PortsDiffer, PortsTyped, PortsBelow, SeqStopped, Removed
<1>7. SequenceTyped'
  BY DEF SequenceTyped, SeqStopped, Removed
<1>8. SequenceWorks'
  BY DEF SequenceWorks, SequenceTyped, StepTyped, Busy, SeqStopped, Removed
<1>9. PooledIsMade'
  BY DEF PooledIsMade, MapsTyped, BootTyped, BootsWork, SeqStopped, Removed
<1>10. NoForgottenDevice'
  BY DEF NoForgottenDevice, MapsTyped, StepTyped, SequenceTyped, Pooled, InFlight, Busy,
    SequenceWorks, SeqStopped, Removed
<1>11. PooledIsTracked'
  BY DEF PooledIsTracked, MapsTyped, BootTyped, StepTyped, Pooled, BootsWork, PooledIsMade, Busy,
    SeqStopped, Removed
<1> QED
  BY <1>2, <1>3, <1>4, <1>5, <1>6, <1>7, <1>8, <1>9, <1>10, <1>11

\* Its runner ends, or it has come to its end.
LEMMA SeqGoesInv ==
  ASSUME PoolInv, SeqShutdown \/ SeqDone
  PROVE  PoolInv'
<1> USE PoolConstants DEF PoolInv, Makers
<1>1. UNCHANGED <<pool, running, sessions, registry, left, ports, nextPort, boot, step, shut,
                  closing>>
  BY DEF SeqShutdown, SeqDone
<1>2. /\ MapsTyped' /\ PortsTyped' /\ PortsBelow' /\ PortsDiffer' /\ BootTyped'
      /\ StepTyped' /\ ShutTyped' /\ ShutsKnow' /\ BootsWork' /\ PooledIsMade'
      /\ NoForgottenDevice' /\ PooledIsTracked'
  BY <1>1 DEF MapsTyped, PortsTyped, PortsBelow, PortsDiffer, BootTyped, StepTyped, ShutTyped,
    ShutsKnow, BootsWork, PooledIsMade, NoForgottenDevice, PooledIsTracked, Pooled, InFlight
<1>3. SequenceTyped'
  BY DEF SequenceTyped, SeqShutdown, SeqDone
<1>4. SequenceWorks'
  BY DEF SequenceWorks, SequenceTyped, StepTyped, Busy, SeqShutdown, SeqDone
<1> QED
  BY <1>2, <1>3, <1>4

\* Every step of the pool keeps the invariant.
LEMMA PoolNextInv == PoolInv /\ [Next]_vars => PoolInv'
<1> SUFFICES ASSUME PoolInv, [Next]_vars
             PROVE  PoolInv'
  OBVIOUS
<1>1. CASE UNCHANGED vars
  BY <1>1 DEF vars, PoolInv, MapsTyped, PortsTyped, BootTyped, StepTyped, SequenceTyped, ShutTyped,
    PortsBelow, PortsDiffer, ShutsKnow, BootsWork, SequenceWorks, PooledIsMade, NoForgottenDevice,
        PooledIsTracked,
    Pooled, InFlight
<1>2. ASSUME NEW k \in Boots, BootStep(k) \/ \E D \in SUBSET Devices : BootAll(k, D)
      PROVE  PoolInv'
  BY <1>2, BootAllInv, NotEnoughMemoryInv, BatchInv, BootRejectedInv, ConnectedInv,
      BootAllDoneInv DEF BootStep
<1>3. ASSUME NEW k \in Makers, DeviceStep(k)
      PROVE  PoolInv'
  BY <1>3, BootedInv, OpenedInv DEF DeviceStep
<1>4. ASSUME NEW s \in Shuts, ShutStep(s) \/ \E d \in Devices : ShutdownOne(s, d)
      PROVE  PoolInv'
  BY <1>4, ShutsInv, StoppedInv DEF ShutStep
<1>5. CASE ShutdownAll \/ AllStep
  BY <1>5, ShutdownAllInv, AllStoppedInv, AllDoneInv DEF AllStep
<1>6. CASE SeqStep \/ \E D \in SUBSET Devices : BootSequential(D)
  BY <1>6, SeqGoesInv, BootSequentialInv, SeqNextInv, SeqRejectedInv, SeqConnectedInv,
      SeqStoppedInv DEF SeqStep
<1> QED
  BY <1>1, <1>2, <1>3, <1>4, <1>5, <1>6 DEF Next

\* The pool's state keeps its shape.
THEOREM PoolTypeCorrect == Spec => []TypeOK
<1>1. PoolInv => TypeOK
  BY DEF PoolInv, TypeOK, MapsTyped, PortsTyped, BootTyped, StepTyped, SequenceTyped, ShutTyped
<1> QED
  BY PoolInitInv, PoolNextInv, <1>1, PTL DEF Spec

\* Two devices never share a port, however boots, shutdowns and the reset of the counter overlap.
THEOREM PortsAreUnique == Spec => []PortsDiffer
<1>1. PoolInv => PortsDiffer
  BY DEF PoolInv
<1> QED
  BY PoolInitInv, PoolNextInv, <1>1, PTL DEF Spec

\* No simulator runs that the pool does not know of, is not working on, or was not left
\* running by a boot or a shutdown that failed.
THEOREM NoneIsForgotten == Spec => []NoForgottenDevice
<1>1. PoolInv => NoForgottenDevice
  BY DEF PoolInv
<1> QED
  BY PoolInitInv, PoolNextInv, <1>1, PTL DEF Spec

\* What a finished bootAll() or the sequential run has pooled is tracked by the session
\* manager, however many boots and shutdowns overlap.
THEOREM PoolIsTracked == Spec => []PooledIsTracked
<1>1. PoolInv => PooledIsTracked
  BY DEF PoolInv
<1> QED
  BY PoolInitInv, PoolNextInv, <1>1, PTL DEF Spec

-----------------------------------------------------------------------------
(* The tools that touch the screen. *)

\* A call of a tap, with its locals, and the screen it acts on.
TapLabels ==
  {"begin", "launch", "classify", "launchAgain", "classifyAgain", "query", "found", "scrolled",
   "press", "before", "compare", "baseline", "tap", "verify", "tapped", "verified", "denied",
   "bounds", "second", "sent", "end"}

\* What a tap, a swipe or a scroll may answer, and the types of its call and of the screen.
TapAnswers ==
  {"none", "refused", "error", "tapped", "verified", "denied", "unsettled", "backgrounded"}
Surfaces == {"app", "home"}
TapCall ==
  [tool : {"tap_element", "tap", "double_tap", "swipe", "scroll"},
   opts : SUBSET {"bundle", "long", "noPress", "scroll", "settle", "raw", "lenient", "reactivate"},
   at : TapLabels, out : TapAnswers, base : Nat \cup {NoTree}, sent : Nat, swiped : BOOLEAN,
   front : Surfaces \cup {"unknown"}, after : Surfaces \cup {"unknown"}]
TapScreen ==
  [front : Surfaces, page : Nat, ui : Nat, due : BOOLEAN, shown : BOOLEAN, acts : Nat, wrong : Nat]

\* What a tap's call and the screen are at the start, field by field.
LEMMA TapInitIs ==
  ASSUME TapInit
  PROVE  /\ world \in TapScreen /\ world.acts = 0 /\ world.wrong = 0
         /\ call \in TapCall /\ call.at = "begin" /\ call.out = "none" /\ call.base = NoTree
         /\ call.sent = 0 /\ call.swiped = FALSE /\ call.after = "unknown"
<1>1. world \in TapScreen
  <2>1. world \in [front : {"app", "home"}, page : {0}, ui : {0}, due : {FALSE},
                   shown : BOOLEAN, acts : {0}, wrong : {0}]
    BY DEF TapInit
  <2>2. world.due \in BOOLEAN
    BY <2>1
  <2> QED  BY <2>1, <2>2 DEF TapScreen, Surfaces
<1>5. world.acts = 0 /\ world.wrong = 0
  BY DEF TapInit
<1> DEFINE locals == [base |-> NoTree, sent |-> 0, swiped |-> FALSE, front |-> "unknown",
                      after |-> "unknown"]
<1>2. PICK t \in DOMAIN TapOptions : \E o \in SUBSET TapOptions[t] : call = NewCall(t, o, locals)
  <2>1. call \in ToolCalls(TapOptions, locals)
    BY DEF TapInit
  <2> HIDE DEF locals
  <2> QED  BY <2>1 DEF ToolCalls
<1> PICK o \in SUBSET TapOptions[t] : call = NewCall(t, o, locals)
  BY <1>2
<1>3. /\ TapOptions[t] \subseteq {"bundle", "long", "noPress", "scroll", "settle", "raw", "lenient",
                                  "reactivate"}
      /\ t \in {"tap_element", "tap", "double_tap", "swipe", "scroll"}
  BY DEF TapOptions
<1>4. call = [tool |-> t, opts |-> o, at |-> "begin", out |-> "none", base |-> NoTree, sent |-> 0,
              swiped |-> FALSE, front |-> "unknown", after |-> "unknown"]
  BY DEF NewCall
<1>6. call \in TapCall
  <2> HIDE DEF locals
  <2>1. o \in SUBSET {"bundle", "long", "noPress", "scroll", "settle", "raw", "lenient",
                      "reactivate"}
    BY <1>3
  <2> QED  BY <1>3, <1>4, <2>1 DEF TapCall, TapLabels, TapAnswers
<1> QED  BY <1>1, <1>4, <1>5, <1>6

\* Before an input, and when it is refused, nothing was touched.
Untried == {"begin", "launch", "classify", "launchAgain", "classifyAgain", "query", "found",
            "scrolled",
          "bounds"}

\* Where a tap has sent something to the device.
Tried == {"before", "compare", "verify", "verified"}

\* A call that has sent nothing has touched nothing; one that was refused sent nothing.
TapTouched ==
  /\ call.sent = 0 => world.acts = 0 /\ world.wrong = 0
  /\ call.at \in Untried \/ call.out = "refused" => call.sent = 0
  /\ call.at \in Tried \/ call.out = "verified" => call.sent > 0

\* Only a tap with autoScroll has swiped, and not before it found its element.
TapSwiped ==
  /\ call.swiped => call.tool = TE /\ Opt("scroll")
  /\ call.at \in Untried \ {"scrolled"} => ~call.swiped

\* The tree that is compared with is of before.
TapSaw ==
  /\ call.base # NoTree => call.base \in Nat /\ call.base <= world.ui
  /\ call.at = "verified" \/ call.out = "verified" => call.base # NoTree /\ call.base < world.ui

\* Whose screen it is after a tap is only known once it was looked at.
Unseen == {"begin", "bounds", "press", "tap", "verify"}

\* What an unverified tap does not know, and the app it put into the background.
TapAway ==
  /\ call.tool = "tap" /\ call.at \in Unseen => call.after = "unknown"
  /\ BackgroundingIsReported

\* The inductive invariant of the taps.
TapInv ==
  /\ world \in TapScreen /\ call \in TapCall
  /\ call.at # "end" => call.out = "none"
  /\ TapTouched /\ TapSwiped /\ TapSaw /\ TapAway

\* A step that moves the call, and touches nothing.
LEMMA TapPassInv ==
  ASSUME TapInv, NEW tool, NEW from, NEW to \in TapLabels, Go(tool, from, to),
         world' \in TapScreen, world'.ui = world.ui, world'.acts = world.acts,
             world'.wrong = world.wrong,
         to # "end", from # "end", to # "verified" \/ SawChange,
         to \in Untried => from \in Untried \ {"scrolled"}, to \in Tried => from \in Tried \/ call.sent > 0,
         tool = "tap" /\ to \in Unseen => from \in Unseen
  PROVE  TapInv'
<1>1. /\ call' = [call EXCEPT !.at = to] /\ call.tool = tool /\ call.at = from
  BY DEF Go, Became, At
<1>2. /\ call' \in TapCall /\ call'.at = to /\ call'.tool = call.tool /\ call'.opts = call.opts
      /\ call'.out = call.out /\ call'.base = call.base /\ call'.sent = call.sent
      /\ call'.front = call.front /\ call'.after = call.after /\ call'.swiped = call.swiped
  BY <1>1 DEF TapInv, TapCall
<1>3. call'.base \in Nat \cup {NoTree} /\ world.ui \in Nat /\ call.sent \in Nat
  BY <1>2 DEF TapInv, TapCall, TapScreen
<1>4. TapTouched'
  BY <1>1, <1>2, <1>3 DEF TapInv, TapTouched
<1>7. TapSwiped'
  BY <1>1, <1>2 DEF TapInv, TapSwiped, Untried, Opt
<1>5. TapSaw'
  BY <1>1, <1>2, <1>3 DEF TapInv, TapSaw, SawChange
<1>6. TapAway'
  BY <1>1, <1>2 DEF TapInv, TapAway, BackgroundingIsReported, At
<1> QED  BY <1>1, <1>2, <1>4, <1>5, <1>6, <1>7 DEF TapInv

\* The answer of a call that touches nothing any more.
LEMMA TapEndInv ==
  ASSUME TapInv, NEW tool, NEW from, NEW out \in TapAnswers, Answers(tool, from, out),
         world' \in TapScreen, world'.ui = world.ui, world'.acts = world.acts,
             world'.wrong = world.wrong,
         out = "refused" => from \in Untried, out = "verified" => from = "verified",
         tool = "tap" => from \in Unseen \/ Opt("lenient") \/ ~Backgrounded \/ out = "backgrounded"
  PROVE  TapInv'
<1>1. /\ call' = [call EXCEPT !.at = "end", !.out = out] /\ call.tool = tool /\ call.at = from
  BY DEF Answers, Became, At
<1>2. /\ call' \in TapCall /\ call'.at = "end" /\ call'.tool = call.tool /\ call'.opts = call.opts
      /\ call'.out = out /\ call'.base = call.base /\ call'.sent = call.sent
      /\ call'.front = call.front /\ call'.after = call.after /\ call'.swiped = call.swiped
  BY <1>1 DEF TapInv, TapCall, TapLabels
<1>3. call'.base \in Nat \cup {NoTree} /\ world.ui \in Nat /\ call.sent \in Nat
  BY <1>2 DEF TapInv, TapCall, TapScreen
<1>4. TapTouched'
  BY <1>1, <1>2, <1>3 DEF TapInv, TapTouched, Untried, Tried
<1>7. TapSwiped'
  BY <1>1, <1>2 DEF TapInv, TapSwiped, Untried, Opt
<1>5. TapSaw'
  BY <1>1, <1>2, <1>3 DEF TapInv, TapSaw
<1>6. TapAway'
  BY <1>1, <1>2 DEF TapInv, TapAway, BackgroundingIsReported, At, Unseen, Backgrounded, Opt
<1> QED  BY <1>1, <1>2, <1>4, <1>5, <1>6, <1>7 DEF TapInv

\* A tree is read to compare with.
LEMMA TapBaseInv ==
  ASSUME TapInv, NEW tool, NEW from, NEW to \in {"baseline", "compare", "tap"},
         NEW base \in {call.base, NoTree, world.ui}, tool # "tap", UNCHANGED world,
         from # "end", to = "compare" => from \in Tried,
         Became(tool, from, [call EXCEPT !.at = to, !.base = base])
  PROVE  TapInv'
<1>1. /\ call' = [call EXCEPT !.at = to, !.base = base] /\ call.tool = tool /\ call.at = from
  BY DEF Became, At
<1>0. base \in Nat \cup {NoTree} /\ world.ui \in Nat /\ call.sent \in Nat
  BY DEF TapInv, TapCall, TapScreen
<1>2. /\ call' \in TapCall /\ call'.at = to /\ call'.tool = call.tool /\ call'.opts = call.opts
      /\ call'.out = call.out /\ call'.base = base /\ call'.sent = call.sent
      /\ call'.front = call.front /\ call'.after = call.after /\ call'.swiped = call.swiped
  BY <1>0, <1>1 DEF TapInv, TapCall, TapLabels
<1>4. TapTouched'
  BY <1>0, <1>1, <1>2 DEF TapInv, TapTouched, Untried, Tried
<1>7. TapSwiped'
  BY <1>1, <1>2 DEF TapInv, TapSwiped, Untried, Opt
<1>5. TapSaw'
  BY <1>0, <1>1, <1>2 DEF TapInv, TapSaw
<1>6. TapAway'
  BY <1>1, <1>2 DEF TapInv, TapAway, BackgroundingIsReported, At
<1> QED  BY <1>1, <1>2, <1>4, <1>5, <1>6, <1>7 DEF TapInv

\* An input is sent, and may touch something.
LEMMA TapInputInv ==
  ASSUME TapInv, NEW tool, NEW from, NEW to \in TapLabels \ Untried, to \notin {"end", "verified"},
         Became(tool, from, [call EXCEPT !.at = to, !.sent = @ + 1]), from # "end",
         world' \in TapScreen, world'.ui = world.ui, tool = "tap"
             /\ to \in Unseen => from \in Unseen
  PROVE  TapInv'
<1>1. /\ call' = [call EXCEPT !.at = to, !.sent = @ + 1] /\ call.tool = tool /\ call.at = from
  BY DEF Became, At
<1>0. call.base \in Nat \cup {NoTree} /\ world.ui \in Nat /\ call.sent \in Nat
  BY DEF TapInv, TapCall, TapScreen
<1>a. call.sent + 1 \in Nat /\ to \in TapLabels /\ call \in TapCall
  BY <1>0 DEF TapInv
<1>b. call' = [call EXCEPT !.at = to, !.sent = call.sent + 1]
  BY <1>1
<1>2. /\ call' \in TapCall /\ call'.at = to /\ call'.tool = call.tool /\ call'.opts = call.opts
      /\ call'.out = call.out /\ call'.base = call.base /\ call'.sent = call.sent + 1
      /\ call'.front = call.front /\ call'.after = call.after /\ call'.swiped = call.swiped
  BY <1>a, <1>b DEF TapCall
<1>4. TapTouched'
  BY <1>0, <1>1, <1>2 DEF TapInv, TapTouched
<1>7. TapSwiped'
  BY <1>1, <1>2 DEF TapInv, TapSwiped, Untried, Opt
<1>5. TapSaw'
  BY <1>0, <1>1, <1>2 DEF TapInv, TapSaw
<1>6. TapAway'
  BY <1>1, <1>2 DEF TapInv, TapAway, BackgroundingIsReported, At
<1> QED  BY <1>1, <1>2, <1>4, <1>5, <1>6, <1>7 DEF TapInv

\* What an input does to the screen.
LEMMA HitIs ==
  ASSUME TapInv, world' \in {world, Hit}  PROVE world' \in TapScreen /\ world'.ui = world.ui
<1>1. world \in TapScreen /\ world.acts + 1 \in Nat
  BY DEF TapInv, TapScreen
<1>2. /\ [world EXCEPT !.acts = world.acts + 1, !.due = TRUE] \in TapScreen
      /\ [world EXCEPT !.wrong = 1, !.due = TRUE] \in TapScreen
  BY <1>1 DEF TapScreen
<1>3. world' \in {world, [world EXCEPT !.acts = world.acts + 1, !.due = TRUE],
                 [world EXCEPT !.wrong = 1, !.due = TRUE]}
  BY DEF Hit
<1>4. world'.ui = world.ui
  BY <1>1, <1>3 DEF TapScreen
<1> QED  BY <1>1, <1>2, <1>3, <1>4

\* A gesture that is sent keeps the invariant, wherever the call was.
LEMMA TapSentInv ==
  ASSUME TapInv, NEW tool, NEW from, NEW to \in TapLabels \ Untried, to \notin {"end", "verified"},
         from # "end", tool = "tap" /\ to \in Unseen => from \in Unseen, Sends(tool, from, to)
  PROVE  TapInv'
BY HitIs, TapInputInv DEF Sends

\* An accessibility press keeps it, done or not.
LEMMA TapPressedInv ==
  ASSUME TapInv, NEW tool, NEW to \in TapLabels \ Untried, to \notin {"end", "verified"},
         PressOk(tool, to) \/ PressNotOk(tool, to)
  PROVE  TapInv'
<1>1. world' \in {world, Hit} /\ Became(tool, "press", [call EXCEPT !.at = to, !.sent = @ + 1])
  BY DEF PressOk, PressNotOk
<1> QED  BY <1>1, HitIs, TapInputInv DEF Unseen

\* What a call that ends without touching anything may answer.
LEMMA TapEndsInv ==
  ASSUME TapInv, NEW tool, NEW from, NEW out \in TapAnswers, End(tool, from, out),
         out = "refused" => from \in Untried, out = "verified" => from = "verified",
         tool = "tap" => from \in Unseen \/ Opt("lenient") \/ ~Backgrounded \/ out = "backgrounded"
  PROVE  TapInv'
BY TapEndInv DEF End, TapInv

\* A tap that throws keeps it.
LEMMA TapThrowsInv ==
  ASSUME TapInv, NEW tool, NEW labels, Throws(tool, labels), tool = "tap" => labels \subseteq Unseen
  PROVE  TapInv'
<1> PICK at \in labels : End(tool, at, "error")
  BY DEF Throws
<1> QED  BY TapEndsInv DEF TapAnswers

\* A call that goes on without touching the screen keeps it.
LEMMA TapPassesInv ==
  ASSUME TapInv, NEW tool, NEW from, NEW to \in TapLabels, Go(tool, from, to), UNCHANGED world,
         to # "end", from # "end", to # "verified" \/ SawChange,
         to \in Untried => from \in Untried \ {"scrolled"}, to \in Tried => from \in Tried \/ call.sent > 0,
         tool = "tap" /\ to \in Unseen => from \in Unseen
  PROVE  TapInv'
BY TapPassInv DEF TapInv

-----------------------------------------------------------------------------
\* The actions of tap_element, one by one.
LEMMA TapBeginInv == TapInv /\ TapBegin => TapInv'
<1> SUFFICES ASSUME TapInv, TapBegin PROVE TapInv'
  OBVIOUS
<1>1. CASE End(TE, "begin", "refused")
  BY <1>1, TapEndsInv DEF TE, TapAnswers, Untried
<1>2. CASE UNCHANGED world /\ Go(TE, "begin", IF Opt("bundle") THEN "launch" ELSE "query")
  BY <1>2, TapPassesInv DEF TE, TapLabels, Untried, Tried
<1> QED  BY <1>1, <1>2 DEF TapBegin

\* Bringing the app to the front touches no element.
LEMMA LaunchesInv ==
  ASSUME TapInv, NEW from, NEW to, Launches(TE, from, to), from \in Untried \ {"scrolled"},
         to \in Untried
  PROVE  TapInv'
<1>1. world' \in TapScreen /\ world'.ui = world.ui /\ world'.acts = world.acts
    /\ world'.wrong = world.wrong
  BY DEF TapInv, TapScreen, Launches, Surfaces
<1> QED  BY <1>1, TapPassInv DEF Launches, TE, TapLabels, Untried, Tried

\* The target app's context is checked before anything is sent.
LEMMA TapContextInv == TapInv /\ TapContext => TapInv'
<1> SUFFICES ASSUME TapInv, TapContext PROVE TapInv'
  OBVIOUS
<1>1. CASE Launches(TE, "launch", "classify") \/ Launches(TE, "launchAgain", "classifyAgain")
  BY <1>1, LaunchesInv DEF Untried
<1>2. CASE /\ UNCHANGED world
           /\ \/ Go(TE, "classify", "query") \/ Go(TE, "classify", "launchAgain")
              \/ Go(TE, "classifyAgain", "query")
  BY <1>2, TapPassesInv DEF TE, TapLabels, Untried, Tried
<1>3. CASE End(TE, "classifyAgain", "refused")
  BY <1>3, TapEndsInv DEF TE, TapAnswers, Untried
<1>4. CASE Throws(TE, {"launch", "launchAgain", "classify", "classifyAgain"})
  BY <1>4, TapThrowsInv DEF TE
<1> QED  BY <1>1, <1>2, <1>3, <1>4 DEF TapContext

\* Looking the element up sends nothing.
LEMMA TapQueryInv == TapInv /\ TapQuery => TapInv'
<1> SUFFICES ASSUME TapInv, TapQuery PROVE TapInv'
  OBVIOUS
<1>1. CASE Go(TE, "query", "found") /\ UNCHANGED world
  BY <1>1, TapPassesInv DEF TE, TapLabels, Untried, Tried
<1>2. CASE End(TE, "query", "refused")
  BY <1>2, TapEndsInv DEF TE, TapAnswers, Untried
<1>3. CASE Throws(TE, {"query"})
  BY <1>3, TapThrowsInv DEF TE
<1> QED  BY <1>1, <1>2, <1>3 DEF TapQuery

\* What is shown is not what an input touches.
LEMMA ShownIs ==
  ASSUME TapInv, NEW shown \in BOOLEAN, world' = [world EXCEPT !.shown = shown]
  PROVE  world' \in TapScreen /\ world'.ui = world.ui /\ world'.acts = world.acts
      /\ world'.wrong = world.wrong
BY DEF TapInv, TapScreen

\* The swipes of a tap with autoScroll press and tap nothing.
LEMMA ScrollsInv == TapInv /\ Scrolls => TapInv'
<1> SUFFICES ASSUME TapInv, Scrolls PROVE TapInv'
  OBVIOUS
<1>1. PICK shown \in BOOLEAN, due \in BOOLEAN :
        world' = [world EXCEPT !.shown = shown, !.due = world.due \/ due]
  BY DEF Scrolls, TapInv, TapScreen
<1>2. (world.due \/ due) \in BOOLEAN /\ world \in TapScreen
  BY DEF TapInv, TapScreen
<1>3. /\ world' \in TapScreen /\ world'.ui = world.ui /\ world'.acts = world.acts
      /\ world'.wrong = world.wrong
  BY <1>1, <1>2 DEF TapScreen
<1>4. /\ call' = [call EXCEPT !.at = "scrolled", !.swiped = TRUE]
      /\ call.tool = TE /\ call.at = "found" /\ call.out = "none" /\ Opt("scroll")
  BY DEF Scrolls, Became, At, TapInv
<1>5. /\ call' \in TapCall /\ call'.at = "scrolled" /\ call'.tool = TE /\ call'.opts = call.opts
      /\ call'.out = "none" /\ call'.base = call.base /\ call'.sent = call.sent
      /\ call'.after = call.after
  BY <1>4 DEF TapInv, TapCall, TapLabels
<1>6. TapTouched'
  BY <1>3, <1>4, <1>5 DEF TapInv, TapTouched, Untried, Tried
<1>7. TapSwiped'
  BY <1>4, <1>5 DEF TapSwiped, Opt
<1>8. TapSaw'
  BY <1>3, <1>5 DEF TapInv, TapSaw
<1>9. TapAway'
  BY <1>5 DEF TapAway, BackgroundingIsReported, At, TE
<1> QED  BY <1>3, <1>5, <1>6, <1>7, <1>8, <1>9 DEF TapInv

\* A scroll to the element, and the look after it.
LEMMA TapScrollInv == TapInv /\ TapScroll => TapInv'
<1> SUFFICES ASSUME TapInv, TapScroll PROVE TapInv'
  OBVIOUS
<1>1. CASE Scrolls
  BY <1>1, ScrollsInv
<1>2. CASE call.at \in {"found", "scrolled"} /\ End(TE, call.at, "refused")
  BY <1>2, TapEndsInv DEF TE, TapAnswers, Untried
<1>3. CASE /\ call.at \in {"found", "scrolled"} /\ UNCHANGED world
           /\ Go(TE, call.at, IF call.opts \cap {"long", "noPress"} = {} THEN "press"
                 ELSE "baseline")
  BY <1>3, TapPassesInv DEF TE, TapLabels, Untried, Tried
<1> QED  BY <1>1, <1>2, <1>3 DEF TapScroll

\* The accessibility press of the element.
LEMMA TapPressInv == TapInv /\ TapPress => TapInv'
<1> SUFFICES ASSUME TapInv, TapPress PROVE TapInv'
  OBVIOUS
<1>1. CASE PressOk(TE, "before") \/ PressNotOk(TE, "baseline")
  BY <1>1, TapPressedInv DEF TapLabels, Untried
<1>2. CASE Throws(TE, {"press"})
  BY <1>2, TapThrowsInv DEF TE
<1> QED  BY <1>1, <1>2 DEF TapPress

\* The look for the press's effect.
LEMMA TapPressEffectInv == TapInv /\ TapPressEffect => TapInv'
<1> SUFFICES ASSUME TapInv, TapPressEffect PROVE TapInv'
  OBVIOUS
<1>1. ASSUME NEW base \in Baselines,
    Became(TE, "before", [call EXCEPT !.at = "compare", !.base = base])
      PROVE  TapInv'
  BY <1>1, TapBaseInv DEF TapPressEffect, TE, Baselines, Tried
<1>2. CASE SawChange /\ Go(TE, "compare", "verified")
  BY <1>2, TapPassesInv DEF TapPressEffect, TE, TapLabels, Untried, Tried
<1>3. ASSUME NEW base \in {call.base, NoTree},
             Became(TE, "compare", [call EXCEPT !.at = "baseline", !.base = base])
      PROVE  TapInv'
  BY <1>3, TapBaseInv DEF TapPressEffect, TE
<1> QED  BY <1>1, <1>2, <1>3 DEF TapPressEffect

\* The tree is read before the tap that it is compared with.
LEMMA TapBaselineInv == TapInv /\ TapBaseline => TapInv'
<1> SUFFICES ASSUME TapInv, TapBaseline PROVE TapInv'
  OBVIOUS
<1>1. ASSUME NEW base \in Baselines,
    Became(TE, "baseline", [call EXCEPT !.at = "tap", !.base = base])
      PROVE  TapInv'
  BY <1>1, TapBaseInv DEF TapBaseline, TE, Baselines
<1>2. CASE Go(TE, "baseline", "tap")
  BY <1>2, TapPassesInv DEF TapBaseline, TE, TapLabels, Untried, Tried
<1> QED  BY <1>1, <1>2 DEF TapBaseline

\* The tap by coordinates.
LEMMA TapTapInv == TapInv /\ TapTap => TapInv'
<1> SUFFICES ASSUME TapInv, TapTap PROVE TapInv'
  OBVIOUS
<1>1. CASE Sends(TE, "tap", IF Opt("bundle") \/ call.base # NoTree THEN "verify" ELSE "tapped")
  BY <1>1, TapSentInv DEF TE, TapLabels, Untried
<1>2. CASE Throws(TE, {"tap"})
  BY <1>2, TapThrowsInv DEF TE
<1> QED  BY <1>1, <1>2 DEF TapTap

\* The trees before and after the tap are compared.
LEMMA TapVerifyInv == TapInv /\ TapVerify => TapInv'
<1> SUFFICES ASSUME TapInv, TapVerify PROVE TapInv'
  OBVIOUS
<1>1. CASE SawChange /\ Go(TE, "verify", "verified") /\ UNCHANGED world
  BY <1>1, TapPassesInv DEF TE, TapLabels, Untried, Tried
<1>2. CASE End(TE, "verify", "denied")
  BY <1>2, TapEndsInv DEF TE, TapAnswers
<1>3. CASE Go(TE, "verify", "tapped") /\ UNCHANGED world
  BY <1>3, TapPassesInv DEF TE, TapLabels, Untried, Tried
<1> QED  BY <1>1, <1>2, <1>3 DEF TapVerify

\* The wait for the screen to settle.
LEMMA TapSettleInv ==
  ASSUME TapInv, NEW at \in {"tapped", "verified"}, TapSettle(at)  PROVE TapInv'
<1>1. CASE End(TE, at, at) \/ End(TE, at, "unsettled")
  BY <1>1, TapEndsInv DEF TE, TapAnswers
<1>2. CASE Throws(TE, {at})
  BY <1>2, TapThrowsInv DEF TE
<1> QED  BY <1>1, <1>2 DEF TapSettle, WaitForSettle

-----------------------------------------------------------------------------
\* The tree that app_tap read, and whose it was.
LEMMA PointBeginInv == TapInv /\ PointBegin => TapInv'
<1> SUFFICES ASSUME TapInv, PointBegin PROVE TapInv'
  OBVIOUS
<1>1. CASE End("tap", "begin", "refused")
  BY <1>1, TapEndsInv DEF TapAnswers, Untried, Unseen
<1>2. CASE Throws("tap", {"begin"})
  BY <1>2, TapThrowsInv DEF Unseen
<1>3. ASSUME NEW base \in Baselines,
             Became("tap", "begin", [call EXCEPT !.at = "bounds", !.base = base,
               !.front = IF base = NoTree THEN "unknown" ELSE Surface])
      PROVE  TapInv'
  <2>1. PICK front \in Surfaces \cup {"unknown"} :
          call' = [call EXCEPT !.at = "bounds", !.base = base, !.front = front]
    BY <1>3 DEF Became, Surface, TapInv, TapScreen
  <2>2. /\ base \in Nat \cup {NoTree} /\ world.ui \in Nat /\ call.sent \in Nat
        /\ call.tool = "tap" /\ call.at = "begin" /\ UNCHANGED world
        /\ base # NoTree => base = world.ui
    BY <1>3 DEF TapInv, TapCall, TapScreen, Baselines, Became, At, PointBegin
  <2>3. /\ call' \in TapCall /\ call'.at = "bounds" /\ call'.tool = "tap" /\ call'.opts = call.opts
        /\ call'.out = call.out /\ call'.base = base /\ call'.sent = call.sent
        /\ call'.after = call.after /\ call'.swiped = call.swiped
    BY <2>1, <2>2 DEF TapInv, TapCall, TapLabels
  <2>4. TapTouched'
    BY <2>2, <2>3 DEF TapInv, TapTouched, Untried, Tried
  <2>7. TapSwiped'
    BY <2>2, <2>3 DEF TapInv, TapSwiped, Untried, Opt
  <2>5. TapSaw'
    BY <2>2, <2>3 DEF TapInv, TapSaw
  <2>6. TapAway'
    BY <2>2, <2>3 DEF TapInv, TapAway, BackgroundingIsReported, At, Unseen
  <2> QED  BY <2>2, <2>3, <2>4, <2>5, <2>6, <2>7 DEF TapInv
<1> QED  BY <1>1, <1>2, <1>3 DEF PointBegin

\* A tap at a point first asks whether the point is on the screen.
LEMMA PointBoundsInv == TapInv /\ PointBounds => TapInv'
<1> SUFFICES ASSUME TapInv, PointBounds PROVE TapInv'
  OBVIOUS
<1>1. CASE End("tap", "bounds", "refused")
  BY <1>1, TapEndsInv DEF TapAnswers, Untried, Unseen
<1>2. CASE Go("tap", "bounds", IF Opt("long") THEN "tap" ELSE "press") /\ UNCHANGED world
  BY <1>2, TapPassesInv DEF TapLabels, Untried, Tried, Unseen
<1>3. CASE Go("tap", "bounds", "tap") /\ UNCHANGED world
  BY <1>3, TapPassesInv DEF TapLabels, Untried, Tried, Unseen
<1> QED  BY <1>1, <1>2, <1>3 DEF PointBounds

\* A tap at a point, as a press or as a touch.
LEMMA PointPressInv == TapInv /\ (PointPress \/ PointTap) => TapInv'
<1> SUFFICES ASSUME TapInv, PointPress \/ PointTap PROVE TapInv'
  OBVIOUS
<1>1. CASE PressOk("tap", "verify")
  BY <1>1, TapPressedInv DEF TapLabels, Untried
<1>4. CASE PressNotOk("tap", "tap")
  BY <1>4, TapPressedInv DEF TapLabels, Untried
<1>2. CASE Sends("tap", "tap", "verify")
  BY <1>2, TapSentInv DEF TapLabels, Untried, Unseen
<1>3. CASE Throws("tap", {"tap"})
  BY <1>3, TapThrowsInv DEF Unseen
<1> QED  BY <1>1, <1>2, <1>3, <1>4 DEF PointPress, PointTap

\* What the last tree of the tap showed.
LEMMA PointVerifyInv == TapInv /\ PointVerify => TapInv'
<1> SUFFICES ASSUME TapInv, PointVerify PROVE TapInv'
  OBVIOUS
<1>1. PICK to \in {"verified", "denied", "tapped"} :
        /\ to # "verified" \/ SawChange
        /\ \E after \in {"unknown", Surface} :
             Became("tap", "verify", [call EXCEPT !.at = to, !.after = after])
  BY DEF PointVerify
<1>2. PICK after \in {"unknown", Surface} :
        Became("tap", "verify", [call EXCEPT !.at = to, !.after = after])
  BY <1>1
<1>3. /\ after \in Surfaces \cup {"unknown"} /\ call.base \in Nat \cup {NoTree} /\ world.ui \in Nat
      /\ call.sent \in Nat /\ call.tool = "tap" /\ call.at = "verify" /\ UNCHANGED world
  BY <1>2 DEF TapInv, TapCall, TapScreen, Surface, Became, At, PointVerify
<1>4. /\ call' \in TapCall /\ call'.at = to /\ call'.tool = "tap" /\ call'.opts = call.opts
      /\ call'.out = call.out /\ call'.base = call.base /\ call'.sent = call.sent
      /\ call'.swiped = call.swiped
  BY <1>2, <1>3 DEF TapInv, TapCall, TapLabels, Became
<1>5. TapTouched'
  BY <1>3, <1>4 DEF TapInv, TapTouched, Untried, Tried
<1>6. TapSaw'
  BY <1>1, <1>3, <1>4 DEF TapInv, TapSaw, SawChange
<1>7. TapAway'
  BY <1>3, <1>4 DEF TapInv, TapAway, BackgroundingIsReported, At, Unseen
<1>8. TapSwiped'
  BY <1>3, <1>4 DEF TapInv, TapSwiped, Untried, Opt
<1> QED  BY <1>3, <1>4, <1>5, <1>6, <1>7, <1>8 DEF TapInv

\* A tap at a point answers with the app it found in front.
LEMMA PointAnswerInv ==
  ASSUME TapInv, NEW at \in {"verified", "denied", "tapped"}, PointAnswer(at)  PROVE TapInv'
<1> DEFINE answer == IF Backgrounded /\ ~Opt("lenient") THEN "backgrounded" ELSE at
<1>1. answer \in TapAnswers /\ (answer = "verified" => at = "verified") /\ answer # "refused"
      /\ (Opt("lenient") \/ ~Backgrounded \/ answer = "backgrounded")
  BY DEF TapAnswers
<1>2. CASE End("tap", at, answer)
  <2> HIDE DEF answer
  <2> QED  BY <1>1, <1>2, TapEndsInv
<1>3. CASE /\ Answers("tap", at, answer)
           /\ \E front \in {world.front, "app"} : world' = [world EXCEPT !.front = front]
  <2>1. world' \in TapScreen /\ world'.ui = world.ui /\ world'.acts = world.acts
      /\ world'.wrong = world.wrong
    BY <1>3 DEF TapInv, TapScreen, Surfaces
  <2> HIDE DEF answer
  <2> QED  BY <1>1, <1>3, <2>1, TapEndInv
<1> QED  BY <1>2, <1>3 DEF PointAnswer

-----------------------------------------------------------------------------
\* A double tap is two touches.
LEMMA AppDoubleTapInv == TapInv /\ AppDoubleTap => TapInv'
<1> SUFFICES ASSUME TapInv, AppDoubleTap PROVE TapInv'
  OBVIOUS
<1>1. CASE End("double_tap", "begin", "refused") \/ End("double_tap", "tapped", "tapped")
  BY <1>1, TapEndsInv DEF TapAnswers, Untried
<1>2. CASE Sends("double_tap", "begin", "second") \/ Sends("double_tap", "second", "tapped")
  BY <1>2, TapSentInv DEF TapLabels, Untried
<1>3. CASE Throws("double_tap", {"begin", "second"})
  BY <1>3, TapThrowsInv
<1> QED  BY <1>1, <1>2, <1>3 DEF AppDoubleTap

\* A swipe or a scroll is one gesture.
LEMMA SwipesInv ==
  ASSUME TapInv, NEW tool \in {"swipe", "scroll"},
         End(tool, "begin", "refused") \/ Swipe(tool) \/ End(tool, "sent", "tapped")
             \/ Throws(tool, {"begin"})
  PROVE  TapInv'
<1>1. CASE End(tool, "begin", "refused") \/ End(tool, "sent", "tapped")
  BY <1>1, TapEndsInv DEF TapAnswers, Untried
<1>2. CASE Swipe(tool)
  <2>1. world' \in TapScreen /\ world'.ui = world.ui
    <3> PICK shown \in BOOLEAN : world' = [world EXCEPT !.shown = shown]
      BY <1>2 DEF Swipe
    <3> QED  BY ShownIs
  <2>2. Became(tool, "begin", [call EXCEPT !.at = "sent", !.sent = @ + 1])
    BY <1>2 DEF Swipe
  <2>3. "sent" \in TapLabels \ Untried /\ tool # "tap"
    BY DEF TapLabels, Untried
  <2> QED  BY <2>1, <2>2, <2>3, TapInputInv
<1>3. CASE Throws(tool, {"begin"})
  BY <1>3, TapThrowsInv
<1> QED  BY <1>1, <1>2, <1>3

\* What the app and the screen do by themselves.
LEMMA TapDriftInv == TapInv /\ (React \/ Drift) => TapInv'
<1> SUFFICES ASSUME TapInv, React \/ Drift PROVE TapInv'
  OBVIOUS
<1>1. /\ world' \in TapScreen /\ world'.ui = world.ui + 1 /\ world'.acts = world.acts
      /\ world'.wrong = world.wrong /\ UNCHANGED call
  <2>1. /\ world \in TapScreen /\ world.ui + 1 \in Nat /\ world.front \in Surfaces
    BY DEF TapInv, TapScreen
  <2>2. CASE React
    <3> PICK front \in {world.front, "home"}, page \in 0..1 :
          world' = [world EXCEPT !.ui = world.ui + 1, !.front = front, !.page = page, !.due = FALSE]
      BY <2>1, <2>2 DEF React, Changes, TapScreen
    <3>1. front \in Surfaces /\ page \in Nat
      BY <2>1 DEF Surfaces
    <3> QED  BY <2>1, <2>2, <3>1 DEF TapScreen, React
  <2>3. CASE Drift
    <3> PICK front \in {world.front, "home"}, page \in 0..1 :
          world' = [world EXCEPT !.ui = world.ui + 1, !.front = front, !.page = page]
      BY <2>3 DEF Drift, Changes
    <3>1. front \in Surfaces /\ page \in Nat
      BY <2>1 DEF Surfaces
    <3> QED  BY <2>1, <2>3, <3>1 DEF TapScreen, Drift
  <2> QED  BY <2>2, <2>3
<1>2. call.base \in Nat \cup {NoTree} /\ world.ui \in Nat
  BY DEF TapInv, TapCall, TapScreen
<1> QED  BY <1>1, <1>2 DEF TapInv, TapTouched, TapSwiped, TapSaw, TapAway, BackgroundingIsReported, At, Opt

\* Every step of a tap keeps the invariant.
LEMMA TapStepInv == TapInv /\ [TapNext]_tvars => TapInv'
<1> SUFFICES ASSUME TapInv, [TapNext]_tvars PROVE TapInv'
  OBVIOUS
<1>1. CASE AppTapElement
  BY <1>1, TapBeginInv, TapContextInv, TapQueryInv, TapScrollInv, TapPressInv, TapPressEffectInv,
     TapBaselineInv, TapTapInv, TapVerifyInv, TapSettleInv DEF AppTapElement
<1>2. CASE AppTap
  BY <1>2, PointBeginInv, PointBoundsInv, PointPressInv, PointVerifyInv, PointAnswerInv DEF AppTap
<1>3. CASE AppDoubleTap
  BY <1>3, AppDoubleTapInv
<1>4. CASE AppSwipeNative \/ AppScrollNative
  BY <1>4, SwipesInv DEF AppSwipeNative, AppScrollNative
<1>5. CASE React \/ Drift
  BY <1>5, TapDriftInv
<1>6. CASE UNCHANGED tvars
  BY <1>6 DEF tvars, TapInv, TapTouched, TapSwiped, TapSaw, TapAway, BackgroundingIsReported, At, Opt
<1> QED  BY <1>1, <1>2, <1>3, <1>4, <1>5, <1>6 DEF TapNext, TapStep

\* The invariant holds at the start.
LEMMA TapInitInv == TapInit => TapInv
<1> SUFFICES ASSUME TapInit PROVE TapInv
  OBVIOUS
<1> QED  BY TapInitIs DEF TapInv, TapTouched, TapSwiped, TapSaw, TapAway, BackgroundingIsReported, At,
    Untried, Tried

-----------------------------------------------------------------------------
(* The tools that keep what an app has. *)

\* A call that saves or restores a profile, with its locals, and what it acts on.
Profiled == call.tool \in Saving \cup Restoring

\* What an app's container, its keychain or an archive of them may hold.
Contents == {"now", "old", "empty", "torn", "gone"}

\* Where a call that saves, restores, launches or resets an app may be.
ProfileLabels ==
  {"begin", "save", "pack", "packed", "packKeys", "boot", "write", "saved", "restore", "wipeData",
   "restored", "wipeKeys", "bootRestored", "bootFailed", "relaunch", "launch", "answer", "wipe",
   "privacy", "uninstall", "end"}

\* The types of such a call and of what it works on.
ProfileCall ==
  [tool : Saving \cup Restoring, opts : SUBSET {"profile", "keychain", "relaunch"},
   at : ProfileLabels,
   out : {"none", "refused", "error", "saved", "restored", "launched", "reset"},
   down : BOOLEAN, stuck : BOOLEAN, ran : BOOLEAN, warned : BOOLEAN, kept : Contents,
   given : Seq(Contents \cup {"keys"})]
Container ==
  [booted : BOOLEAN, running : BOOLEAN, screen : {"app", "home", "other"}, others : BOOLEAN,
   data : Contents, keys : Contents, payload : BOOLEAN, notified : BOOLEAN, enrolled : BOOLEAN,
   mails : Seq({"mine", "foreign", "plain"}), tar : Contents, tarKeys : Contents,
   file : {"gone", "data", "both", "torn"}]

\* What app_reset has kept of what it takes, at each of its steps.
KeptInv ==
  call.tool = "reset" /\ Opt("profile") /\ call.warned = FALSE =>
    /\ call.at = "pack" => call.kept = world.data
    /\ call.ran = FALSE /\ call.at \in {"packed", "packKeys", "boot", "write"}
       => world.tar = call.kept
    /\ call.ran = FALSE /\ (call.at \in {"wipe", "privacy", "uninstall"} \/ call.out = "reset") =>
         world.file \in {"data", "both"} /\ world.tar = call.kept

\* What a restore has put back, at each of its steps.
PutBackInv ==
  call.tool \in Restoring =>
    /\ call.at \in {"restored", "wipeKeys", "bootRestored", "bootFailed", "relaunch"} =>
         world.data = world.tar
    /\ call.at \in {"bootRestored", "relaunch"} /\ world.file = "both" => world.keys = world.tarKeys
    /\ call.given # <<>> =>
         /\ call.at \in {"launch", "answer", "end"} /\ world.data = call.given[1]
         /\ Len(call.given) = 2 => world.keys = call.given[2]

\* A device that is down was taken down by the call, which has yet to boot it, or could not.
DownInv ==
  world.booted = FALSE =>
    \/ call.stuck = TRUE
    \/ call.down = TRUE /\ call.at \in {"packKeys", "boot", "wipeKeys", "bootRestored",
                                        "bootFailed"}

\* The types of a call on an app's state, and of that state.
ProfileTypes ==
  world \in Container /\ call \in ProfileCall /\ (call.at # "end" => call.out = "none")

\* The inductive invariant of the calls on an app's state.
ProfileInv == ProfileTypes /\ KeptInv /\ PutBackInv /\ DownInv

\* It is about the calls that save or restore an app's state alone.
AppInv == "tool" \in DOMAIN call /\ (Profiled => ProfileInv)

\* The invariant holds at the start.
LEMMA AppInitInv == AppInit => AppInv
<1> SUFFICES ASSUME AppInit PROVE AppInv
  OBVIOUS
<1> DEFINE locals == [down |-> FALSE, stuck |-> FALSE, kept |-> "gone", ran |-> FALSE,
                      warned |-> FALSE,
                      given |-> <<>>]
<1>1. PICK t \in DOMAIN AppOptions : \E o \in SUBSET AppOptions[t] : call = NewCall(t, o, locals)
  BY DEF AppInit, ToolCalls
<1>5. PICK o \in SUBSET AppOptions[t] : call = NewCall(t, o, locals)
  BY <1>1
<1>2. call = [tool |-> t, opts |-> o, at |-> "begin", out |-> "none", down |-> FALSE,
              stuck |-> FALSE,
              kept |-> "gone", ran |-> FALSE, warned |-> FALSE, given |-> <<>>]
  BY <1>5 DEF NewCall
<1>3. ASSUME Profiled  PROVE call \in ProfileCall
  <2>1. t \in Saving \cup Restoring
    BY <1>2, <1>3 DEF Profiled
  <2>2. AppOptions[t] \subseteq {"profile", "keychain", "relaunch"}
    BY <2>1 DEF AppOptions, Saving, Restoring
  <2>3. o \in SUBSET {"profile", "keychain", "relaunch"} /\ <<>> \in Seq(Contents \cup {"keys"})
    BY <2>2
  <2>4. "gone" \in Contents /\ "begin" \in ProfileLabels
    BY DEF Contents, ProfileLabels
  <2> HIDE DEF locals
  <2> QED  BY <1>2, <2>1, <2>3, <2>4 DEF ProfileCall
<1>4. world \in Container /\ world.booted = TRUE
  BY DEF AppInit, Container, Contents
<1> QED  BY <1>2, <1>3, <1>4 DEF AppInv, ProfileInv, ProfileTypes, KeptInv, PutBackInv, DownInv

-----------------------------------------------------------------------------
\* What of a call stays when it moves on.
CallKeeps ==
  /\ call' \in ProfileCall /\ call'.tool = call.tool /\ call'.opts = call.opts
  /\ call'.ran = call.ran /\ call'.kept = call.kept /\ call'.given = call.given

\* A call goes on, and what it has to say stays.
CallMoves(from, to) ==
  /\ CallKeeps /\ call.at = from /\ call'.at = to
  /\ call'.out = call.out /\ call'.down = call.down /\ call'.stuck = call.stuck
  /\ call'.warned = call.warned

\* Going on leaves the fields of the call alone.
LEMMA ProfileMoves ==
  ASSUME call \in ProfileCall, NEW tool, NEW from, NEW to \in ProfileLabels, Go(tool, from, to)
  PROVE  CallMoves(from, to)
<1>1. call' = [call EXCEPT !.at = to] /\ call.at = from
  BY DEF Go, Became, At
<1> QED  BY <1>1 DEF CallMoves, CallKeeps, ProfileCall

\* A call that ends with an answer.
CallEnds(from, out) ==
  /\ CallKeeps /\ call.at = from /\ call'.at = "end"
  /\ call'.out = out /\ call'.down = call.down /\ call'.stuck = call.stuck
  /\ call'.warned = call.warned

\* An answer leaves the fields of the call alone.
LEMMA ProfileEnds ==
  ASSUME call \in ProfileCall, NEW tool, NEW from,
         NEW out \in {"refused", "error", "saved", "restored", "launched", "reset"},
             Answers(tool, from, out)
  PROVE  CallEnds(from, out) /\ call.tool = tool
<1>1. call' = [call EXCEPT !.at = "end", !.out = out] /\ call.at = from /\ call.tool = tool
  BY DEF Answers, Became, At
<1> QED  BY <1>1 DEF CallEnds, CallKeeps, ProfileCall, ProfileLabels

\* What fails of a profile ends its own tools; the other two go on with a warning.
CallFails(from) ==
  /\ CallKeeps /\ call.at = from /\ call'.down = call.down
  /\ \/ /\ call'.warned = TRUE /\ call'.out = call.out
        /\ call'.at = IF call.tool = "reset" THEN "wipe" ELSE "launch"
     \/ call'.warned = call.warned /\ call'.at = "end" /\ call'.out = "error"

\* A call that fails keeps what it had taken down.
LEMMA ProfileFails ==
  ASSUME call \in ProfileCall, NEW from, NEW stuck \in BOOLEAN,
         Became(call.tool, from, Failed([call EXCEPT !.stuck = stuck]))
  PROVE  CallFails(from) /\ call'.stuck = stuck
<1> DEFINE c == [call EXCEPT !.stuck = stuck]
<1>1. /\ c \in ProfileCall /\ c.tool = call.tool /\ c.opts = call.opts /\ c.ran = call.ran
         /\ c.kept = call.kept
      /\ c.given = call.given /\ c.down = call.down /\ c.out = call.out /\ c.warned = call.warned
      /\ c.stuck = stuck /\ call.at = from /\ call' = Failed(c)
  BY DEF ProfileCall, Became, At
<1> HIDE DEF c
<1>2. CASE c.tool \in {"reset", "launch"}
  <2> DEFINE to == IF c.tool = "reset" THEN "wipe" ELSE "launch"
  <2>1. call' = [c EXCEPT !.at = to, !.warned = TRUE]
    BY <1>1, <1>2 DEF Failed
  <2>2. to \in ProfileLabels /\ to = IF call.tool = "reset" THEN "wipe" ELSE "launch"
    BY <1>1 DEF ProfileLabels
  <2> HIDE DEF to
  <2>3. /\ call' \in ProfileCall /\ call'.at = to /\ call'.warned = TRUE /\ call'.tool = c.tool
        /\ call'.opts = c.opts /\ call'.ran = c.ran /\ call'.kept = c.kept /\ call'.given = c.given
        /\ call'.out = c.out /\ call'.down = c.down /\ call'.stuck = c.stuck
    BY <1>1, <2>1, <2>2 DEF ProfileCall
  <2> QED  BY <1>1, <2>2, <2>3 DEF CallFails, CallKeeps
<1>3. CASE c.tool \notin {"reset", "launch"}
  <2>1. call' = [c EXCEPT !.at = "end", !.out = "error"]
    BY <1>1, <1>3 DEF Failed
  <2> QED  BY <1>1, <2>1, ZenonT(40) DEF CallFails, CallKeeps, ProfileCall, ProfileLabels
<1> QED  BY <1>2, <1>3

\* A call that gives up fails, and nothing is stuck that was not.
LEMMA GivesUpIs ==
  ASSUME call \in ProfileCall, NEW from, GivesUp(from)
    PROVE CallFails(from) /\ call'.stuck = call.stuck
<1>1. call = [call EXCEPT !.stuck = call.stuck] /\ call.stuck \in BOOLEAN
  BY DEF ProfileCall
<1> QED  BY <1>1, ProfileFails DEF GivesUp

-----------------------------------------------------------------------------
\* What of the world the profile's properties speak of.
Untouched ==
  /\ world' \in Container /\ world'.booted = world.booted /\ world'.data = world.data
  /\ world'.keys = world.keys /\ world'.tar = world.tar /\ world'.tarKeys = world.tarKeys
  /\ world'.file = world.file

\* What is not changed is untouched.
LEMMA SameIsUntouched == ASSUME world \in Container, UNCHANGED world  PROVE Untouched
BY DEF Untouched

\* Terminating an app or fronting another leaves its container alone.
LEMMA HaltedIsUntouched ==
  ASSUME world \in Container, world' \in {Halted(world), world, Fronted(world)}  PROVE Untouched
BY DEF Untouched, Halted, Fronted, Container

\* A call of these tools that moves, and touches nothing of the profile.
LEMMA ProfileMoveInv ==
  ASSUME ProfileInv, Profiled, NEW tool, NEW from, NEW to \in ProfileLabels, Go(tool, from, to),
      Untouched,
         to # "end", from # "end",
         to \notin {"pack", "packed", "packKeys", "boot", "write", "wipeKeys", "bootRestored",
                    "bootFailed", "restored",
                    "relaunch"},
         from \notin {"packKeys", "boot", "wipeKeys", "bootRestored", "bootFailed"},
         to \in {"wipe", "privacy", "uninstall"} =>
           \/ from \in {"wipe", "privacy", "uninstall"}
           \/ ~Opt("profile") \/ call.tool # "reset",
         to \in {"launch", "answer"} \/ from \notin {"launch", "answer"}
  PROVE  ProfileInv'
<1>1. CallMoves(from, to)
  BY ProfileMoves DEF ProfileInv, ProfileTypes
<1>2. ProfileTypes'
  BY <1>1 DEF ProfileInv, ProfileTypes, CallMoves, CallKeeps, Untouched
<1>3. KeptInv'
  BY <1>1 DEF ProfileInv, ProfileTypes, KeptInv, CallMoves, CallKeeps, Untouched, Opt
<1>4. PutBackInv'
  BY <1>1 DEF ProfileInv, ProfileTypes, PutBackInv, CallMoves, CallKeeps, Untouched
<1>5. DownInv'
  BY <1>1 DEF ProfileInv, ProfileTypes, DownInv, CallMoves, CallKeeps, Untouched
<1> QED  BY <1>2, <1>3, <1>4, <1>5 DEF ProfileInv

\* ... and one that ends.
LEMMA ProfileEndInv ==
  ASSUME ProfileInv, Profiled, NEW tool, NEW from, Untouched,
         NEW out \in {"refused", "error", "saved", "restored", "launched", "reset"},
         Answers(tool, from, out), from \notin {"packKeys", "boot", "wipeKeys", "bootRestored",
                                                "bootFailed"},
         out = "reset" => from \in {"wipe", "privacy", "uninstall"}
  PROVE  ProfileInv'
<1>1. CallEnds(from, out)
  BY ProfileEnds DEF ProfileInv, ProfileTypes
<1>2. ProfileTypes'
  BY <1>1 DEF ProfileInv, ProfileTypes, CallEnds, CallKeeps, Untouched
<1>3. KeptInv'
  BY <1>1 DEF ProfileInv, ProfileTypes, KeptInv, CallEnds, CallKeeps, Untouched, Opt
<1>4. PutBackInv'
  BY <1>1 DEF ProfileInv, ProfileTypes, PutBackInv, CallEnds, CallKeeps, Untouched
<1>5. DownInv'
  BY <1>1 DEF ProfileInv, ProfileTypes, DownInv, CallEnds, CallKeeps, Untouched
<1> QED  BY <1>2, <1>3, <1>4, <1>5 DEF ProfileInv

\* A failure, whatever it did to the archives, the data and the keychains. Only the boot of
\* a device that is down has to tell that it failed.
LEMMA ProfileFailInv ==
  ASSUME ProfileInv, Profiled, NEW from, CallFails(from), world' \in Container,
         from \notin {"launch", "answer", "end"},
         world'.booted = TRUE \/ call'.stuck = TRUE
             \/ (world'.booted = world.booted /\ call'.stuck = call.stuck
           /\ from \notin {"packKeys", "boot", "wipeKeys", "bootRestored", "bootFailed"})
  PROVE  ProfileInv'
<1>2. ProfileTypes'
  BY DEF ProfileInv, ProfileTypes, CallFails, CallKeeps
<1>3. KeptInv'
  BY DEF ProfileInv, ProfileTypes, KeptInv, CallFails, CallKeeps, Opt
<1>4. PutBackInv'
  BY DEF ProfileInv, ProfileTypes, PutBackInv, CallFails, CallKeeps, Restoring
<1>5. DownInv'
  BY DEF ProfileInv, ProfileTypes, DownInv, CallFails, CallKeeps
<1> QED  BY <1>2, <1>3, <1>4, <1>5 DEF ProfileInv

\* A step that leaves the archives, the data and the keychains alone, but may take the device
\* down or boot it.
FilesKeep ==
  /\ world' \in Container /\ world'.data = world.data /\ world'.keys = world.keys
  /\ world'.tar = world.tar /\ world'.tarKeys = world.tarKeys /\ world'.file = world.file

\* A call goes on after it booted the device, or failed to.
CallBoots(from, to) ==
  /\ CallKeeps /\ call.at = from /\ call'.at = to /\ call'.out = call.out
  /\ call'.warned = call.warned

\* Between two steps on the keychain the archives and the container stay.
LEMMA KeysMoveInv ==
  ASSUME ProfileInv, Profiled, FilesKeep, NEW from, NEW to, CallBoots(from, to),
      call.tool \in Saving \cup Restoring,
         \/ from = "packed" /\ to \in {"packKeys", "write"} /\ call.tool \in Saving
         \/ from = "boot" /\ to = "write" /\ call.tool \in Saving
         \/ from = "restored" /\ to = "wipeKeys" /\ call.tool \in Restoring
         \/ from = "restored" /\ to = "relaunch" /\ call.tool \in Restoring /\ world.file = "data"
         \/ from = "bootRestored" /\ to = "relaunch" /\ call.tool \in Restoring,
         world'.booted = FALSE =>
           call'.stuck = TRUE \/ (call'.down = TRUE /\ to \in {"packKeys", "wipeKeys"})
  PROVE  ProfileInv'
<1>0. Saving \cap Restoring = {}
  BY DEF Saving, Restoring
<1>2. ProfileTypes'
  BY DEF ProfileInv, ProfileTypes, CallBoots, CallKeeps, FilesKeep
<1>3. KeptInv'
  BY <1>0 DEF ProfileInv, ProfileTypes, KeptInv, CallBoots, CallKeeps, FilesKeep, Opt, Restoring
<1>4. PutBackInv'
  BY <1>0 DEF ProfileInv, ProfileTypes, PutBackInv, CallBoots, CallKeeps, FilesKeep
<1>5. DownInv'
  BY DEF ProfileInv, ProfileTypes, DownInv, CallBoots, CallKeeps, FilesKeep
<1> QED  BY <1>2, <1>3, <1>4, <1>5 DEF ProfileInv

\* Shutting the device down keeps its files.
LEMMA WoundIs == ASSUME world \in Container, world' = Wound(world)  PROVE FilesKeep
BY DEF Container, Wound, Halted, FilesKeep

\* Booting the device keeps its files.
LEMMA BootedIs ==
  ASSUME world \in Container, world' = [world EXCEPT !.booted = TRUE]
  PROVE  FilesKeep /\ world'.booted = TRUE
BY DEF Container, FilesKeep

\* Going on is a special case of booting.
LEMMA MovesBoot == ASSUME NEW from, NEW to, CallMoves(from, to)  PROVE CallBoots(from, to)
BY DEF CallMoves, CallBoots

\* Before the keychain is packed or wiped the device is shut down.
LEMMA KeysBeginInv ==
  ASSUME ProfileInv, Profiled, NEW from, NEW to, KeysBegin(from, to),
         \/ from = "packed" /\ to = "packKeys" /\ call.tool \in Saving
         \/ from = "restored" /\ to = "wipeKeys" /\ call.tool \in Restoring
  PROVE  ProfileInv'
<1>0. to \in ProfileLabels /\ call \in ProfileCall /\ world \in Container
  BY DEF ProfileLabels, ProfileInv, ProfileTypes
<1>1. CASE /\ world' = Wound(world)
           /\ Became(call.tool, from, [call EXCEPT !.at = to, !.down = TRUE])
  <2>1. CallBoots(from, to) /\ call'.down = TRUE
    BY <1>0, <1>1 DEF Became, At, CallBoots, CallKeeps, ProfileCall
  <2>2. FilesKeep
    BY <1>0, <1>1, WoundIs
  <2> QED  BY <2>1, <2>2, KeysMoveInv DEF Profiled
<1>2. CASE Pass(call.tool, from, to)
  <2>1. CallMoves(from, to) /\ UNCHANGED world
    BY <1>0, <1>2, ProfileMoves DEF Pass
  <2>2. FilesKeep /\ (world'.booted = FALSE => call'.stuck = TRUE)
    BY <1>0, <2>1 DEF FilesKeep, ProfileInv, DownInv, CallMoves
  <2> QED  BY <2>1, <2>2, MovesBoot, KeysMoveInv DEF Profiled
<1>3. CASE GivesUp(from) /\ UNCHANGED world
  BY <1>0, <1>3, GivesUpIs, ProfileFailInv
<1>4. CASE world' = Wound(world) /\ Became(call.tool, from, Failed([call EXCEPT !.stuck = TRUE]))
  <2>1. CallFails(from) /\ call'.stuck = TRUE
    BY <1>0, <1>4, ProfileFails
  <2>2. world' \in Container
    BY <1>0, <1>4, WoundIs DEF FilesKeep
  <2> QED  BY <1>0, <2>1, <2>2, ProfileFailInv
<1> QED  BY <1>1, <1>2, <1>3, <1>4 DEF KeysBegin

\* The device is booted again after the keychain.
LEMMA BootAgainInv ==
  ASSUME ProfileInv, Profiled, NEW from, NEW to, BootAgain(from, [call EXCEPT !.at = to]),
         \/ from = "boot" /\ to = "write" /\ call.tool \in Saving
         \/ from = "bootRestored" /\ to = "relaunch" /\ call.tool \in Restoring
  PROVE  ProfileInv'
<1>0. to \in ProfileLabels /\ call \in ProfileCall /\ world \in Container
  BY DEF ProfileLabels, ProfileInv, ProfileTypes
<1>1. ASSUME Became(call.tool, from, [call EXCEPT !.at = to])  PROVE CallMoves(from, to)
  BY <1>0, <1>1, ProfileMoves DEF Go
<1>2. CASE Became(call.tool, from, [call EXCEPT !.at = to])
    /\ world' = [world EXCEPT !.booted = TRUE]
  BY <1>0, <1>1, <1>2, BootedIs, MovesBoot, KeysMoveInv DEF Profiled
<1>3. CASE ~call.down /\ Became(call.tool, from, [call EXCEPT !.at = to]) /\ UNCHANGED world
  <2>1. FilesKeep /\ (world'.booted = FALSE => call'.stuck = TRUE)
    BY <1>0, <1>1, <1>3 DEF FilesKeep, ProfileInv, DownInv, CallMoves
  <2> QED  BY <1>1, <1>3, <2>1, MovesBoot, KeysMoveInv DEF Profiled
<1>4. CASE Became(call.tool, from, Failed([call EXCEPT !.stuck = TRUE])) /\ UNCHANGED world
  <2>1. CallFails(from) /\ call'.stuck = TRUE
    BY <1>0, <1>4, ProfileFails
  <2> QED  BY <1>0, <1>4, <2>1, ProfileFailInv
<1> QED  BY <1>2, <1>3, <1>4 DEF BootAgain

\* A call whose device does not boot again fails.
LEMMA BootFailedInv ==
  ASSUME ProfileInv, Profiled, BootAgain("bootFailed", Failed(call))  PROVE ProfileInv'
<1>0. call \in ProfileCall /\ world \in Container
  BY DEF ProfileInv, ProfileTypes
<1>1. ASSUME Became(call.tool, "bootFailed", Failed(call))
      PROVE  CallFails("bootFailed") /\ call'.stuck = call.stuck
  BY <1>0, <1>1, GivesUpIs DEF GivesUp
<1>2. CASE Became(call.tool, "bootFailed", Failed(call)) /\ world' = [world EXCEPT !.booted = TRUE]
  <2>1. world' \in Container /\ world'.booted = TRUE
    BY <1>0, <1>2, BootedIs DEF FilesKeep
  <2> QED  BY <1>1, <1>2, <2>1, ProfileFailInv
<1>3. CASE ~call.down /\ Became(call.tool, "bootFailed", Failed(call)) /\ UNCHANGED world
  <2>1. world'.booted = TRUE \/ call'.stuck = TRUE
    BY <1>0, <1>1, <1>3 DEF ProfileInv, DownInv, Container
  <2> QED  BY <1>0, <1>1, <1>3, <2>1, ProfileFailInv
<1>4. CASE Became(call.tool, "bootFailed", Failed([call EXCEPT !.stuck = TRUE])) /\ UNCHANGED world
  <2>1. CallFails("bootFailed") /\ call'.stuck = TRUE
    BY <1>0, <1>4, ProfileFails
  <2> QED  BY <1>0, <1>4, <2>1, ProfileFailInv
<1> QED  BY <1>2, <1>3, <1>4 DEF BootAgain

-----------------------------------------------------------------------------
\* Saving terminates the app first.
LEMMA SaveStopInv == ASSUME ProfileInv, Profiled, call.tool \in Saving, SaveStop  PROVE ProfileInv'
<1>0. call \in ProfileCall /\ world \in Container /\ call.tool \notin Restoring
  BY DEF ProfileInv, ProfileTypes, Saving, Restoring
<1>1. Untouched
  BY <1>0, HaltedIsUntouched DEF SaveStop
<1>2. /\ call' \in ProfileCall /\ call.at = "save" /\ call'.at = "pack" /\ call'.tool = call.tool
      /\ call'.opts = call.opts /\ call'.out = call.out /\ call'.stuck = call.stuck
      /\ call'.kept = world.data /\ call'.given = call.given /\ call'.warned = call.warned
  <2>1. world'.running \in BOOLEAN /\ world.data \in Contents /\ "pack" \in ProfileLabels
    BY <1>0, <1>1 DEF Untouched, Container, ProfileLabels
  <2>2. call' = [call EXCEPT !.at = "pack", !.ran = world'.running, !.kept = world.data]
      /\ call.at = "save"
    BY DEF SaveStop, Became, At
  <2> QED  BY <1>0, <2>1, <2>2 DEF ProfileCall
<1>3. ProfileTypes'
  BY <1>1, <1>2 DEF ProfileInv, ProfileTypes, Untouched
<1>4. KeptInv' /\ PutBackInv'
  BY <1>0, <1>1, <1>2 DEF ProfileInv, ProfileTypes, KeptInv, PutBackInv, Untouched, Opt
<1>5. DownInv'
  BY <1>1, <1>2 DEF ProfileInv, ProfileTypes, DownInv, Untouched
<1> QED  BY <1>3, <1>4, <1>5 DEF ProfileInv

\* Packing the container writes the archive alone.
LEMMA TarIs ==
  ASSUME world \in Container, NEW tar \in Contents, world' = [world EXCEPT !.tar = tar]
  PROVE  /\ world' \in Container /\ world'.booted = world.booted /\ world'.data = world.data
         /\ world'.keys = world.keys /\ world'.tar = tar /\ world'.tarKeys = world.tarKeys
         /\ world'.file = world.file
BY DEF Container

\* The container is packed.
LEMMA SavePackInv == ASSUME ProfileInv, Profiled, call.tool \in Saving, SavePack  PROVE ProfileInv'
<1>0. call \in ProfileCall /\ world \in Container /\ call.tool \notin Restoring
    /\ "torn" \in Contents
      /\ world.data \in Contents /\ "packed" \in ProfileLabels
  BY DEF ProfileInv, ProfileTypes, Saving, Restoring, Container, Contents, ProfileLabels
<1>1. CASE /\ Go(call.tool, "pack", "packed")
           /\ world' = [world EXCEPT !.tar = IF call.ran THEN "torn" ELSE world.data]
  <2> DEFINE tar == IF call.ran THEN "torn" ELSE world.data
  <2>1. CallMoves("pack", "packed")
    BY <1>0, <1>1, ProfileMoves
  <2>2. tar \in Contents /\ (call.ran = FALSE => tar = world.data)
    BY <1>0
  <2>3. /\ world' \in Container /\ world'.booted = world.booted /\ world'.tar = tar
        /\ world'.file = world.file
    <3> HIDE DEF tar
    <3> QED  BY <1>0, <1>1, <2>2, TarIs DEF tar
  <2> HIDE DEF tar
  <2>4. ProfileTypes'
    BY <2>1, <2>3 DEF ProfileInv, ProfileTypes, CallMoves, CallKeeps
  <2>5. KeptInv' /\ PutBackInv'
    BY <1>0, <2>1, <2>2, <2>3 DEF ProfileInv, ProfileTypes, KeptInv, PutBackInv, CallMoves,
        CallKeeps, Opt
  <2>6. DownInv'
    BY <2>1, <2>3 DEF ProfileInv, ProfileTypes, DownInv, CallMoves, CallKeeps
  <2> QED  BY <2>4, <2>5, <2>6 DEF ProfileInv
<1>2. CASE GivesUp("pack") /\ world' \in {world, [world EXCEPT !.tar = "torn"]}
  <2>1. world' \in Container /\ world'.booted = world.booted
    BY <1>0, <1>2, TarIs
  <2>2. CallFails("pack") /\ call'.stuck = call.stuck
    BY <1>0, <1>2, GivesUpIs
  <2> QED  BY <2>1, <2>2, ProfileFailInv
<1> QED  BY <1>1, <1>2 DEF SavePack

\* The keychain is packed.
LEMMA SaveKeysInv == ASSUME ProfileInv, Profiled, call.tool \in Saving, SaveKeys  PROVE ProfileInv'
<1>0. call \in ProfileCall /\ world \in Container /\ call.tool \notin Restoring
    /\ "torn" \in Contents
      /\ world.keys \in Contents /\ world.tarKeys \in Contents /\ "boot" \in ProfileLabels
         /\ "write" \in ProfileLabels
  BY DEF ProfileInv, ProfileTypes, Saving, Restoring, Container, Contents, ProfileLabels
<1>1. CASE Pass(call.tool, "packed", "write")
  <2>1. CallMoves("packed", "write") /\ UNCHANGED world
    BY <1>0, <1>1, ProfileMoves DEF Pass
  <2>2. FilesKeep /\ (world'.booted = FALSE => call'.stuck = TRUE)
    BY <1>0, <2>1 DEF FilesKeep, ProfileInv, DownInv, CallMoves
  <2> QED  BY <2>1, <2>2, MovesBoot, KeysMoveInv DEF Profiled
<1>2. CASE KeysBegin("packed", "packKeys")
  BY <1>2, KeysBeginInv
<1>3. CASE Pass(call.tool, "packKeys", "boot")
  <2>1. CallMoves("packKeys", "boot") /\ UNCHANGED world
    BY <1>0, <1>3, ProfileMoves DEF Pass
  <2>2. ProfileTypes' /\ KeptInv' /\ PutBackInv'
    BY <1>0, <2>1 DEF ProfileInv, ProfileTypes, KeptInv, PutBackInv, CallMoves, CallKeeps, Opt
  <2>3. DownInv'
    BY <2>1 DEF ProfileInv, ProfileTypes, DownInv, CallMoves, CallKeeps
  <2> QED  BY <2>2, <2>3 DEF ProfileInv
<1>4. CASE /\ Became(call.tool, "packKeys", [call EXCEPT !.at = "boot", !.given = <<"keys">>])
           /\ \E tar \in {world.keys, "torn",
                          world.tarKeys} : world' = [world EXCEPT !.tarKeys = tar]
  <2>1. PICK tar \in Contents : world' = [world EXCEPT !.tarKeys = tar]
    BY <1>0, <1>4
  <2>2. /\ world' \in Container /\ world'.booted = world.booted /\ world'.tar = world.tar
        /\ world'.file = world.file /\ world'.data = world.data
    BY <1>0, <2>1 DEF Container
  <2>3. <<"keys">> \in Seq(Contents \cup {"keys"})
    OBVIOUS
  <2>4. /\ call' \in ProfileCall /\ call.at = "packKeys" /\ call'.at = "boot"
           /\ call'.tool = call.tool
        /\ call'.opts = call.opts /\ call'.out = call.out /\ call'.stuck = call.stuck
           /\ call'.down = call.down
        /\ call'.kept = call.kept /\ call'.ran = call.ran /\ call'.warned = call.warned
    BY <1>0, <1>4, <2>3 DEF ProfileCall, Became, At
  <2>5. ProfileTypes' /\ KeptInv' /\ PutBackInv'
    BY <1>0, <2>2, <2>4 DEF ProfileInv, ProfileTypes, KeptInv, PutBackInv, Opt
  <2>6. DownInv'
    BY <2>2, <2>4 DEF ProfileInv, ProfileTypes, DownInv
  <2> QED  BY <2>5, <2>6 DEF ProfileInv
<1>5. CASE BootAgain("boot", [call EXCEPT !.at = "write"])
  BY <1>5, BootAgainInv
<1> QED  BY <1>1, <1>2, <1>3, <1>4, <1>5 DEF SaveKeys

\* Writing a profile writes the file alone.
LEMMA FileIs ==
  ASSUME world \in Container, NEW file \in {"data", "both", "torn"},
      world' = [world EXCEPT !.file = file]
  PROVE  /\ world' \in Container /\ world'.booted = world.booted /\ world'.tar = world.tar
         /\ world'.file = file /\ world'.data = world.data
BY DEF Container

\* The profile is written.
LEMMA SaveWriteInv == ASSUME ProfileInv, Profiled, call.tool \in Saving, SaveWrite
  PROVE ProfileInv'
<1>0. call \in ProfileCall /\ world \in Container /\ call.tool \notin Restoring
  BY DEF ProfileInv, ProfileTypes, Saving, Restoring
<1>1. CASE /\ Go(call.tool, "write", IF call.tool = "reset" THEN "wipe" ELSE "saved")
           /\ world' = [world EXCEPT !.file = IF call.given = <<>> THEN "data" ELSE "both"]
  <2>1. PICK to \in {"wipe", "saved"} :
          Go(call.tool, "write", to) /\ to = IF call.tool = "reset" THEN "wipe" ELSE "saved"
    BY <1>1
  <2>2. PICK file \in {"data", "both"} : world' = [world EXCEPT !.file = file]
    BY <1>1
  <2>3. CallMoves("write", to)
    BY <1>0, <2>1, ProfileMoves DEF ProfileLabels
  <2>4. /\ world' \in Container /\ world'.booted = world.booted /\ world'.tar = world.tar
        /\ world'.file = file
    BY <1>0, <2>2, FileIs
  <2>5. ProfileTypes' /\ PutBackInv'
    BY <1>0, <2>3, <2>4 DEF ProfileInv, ProfileTypes, PutBackInv, CallMoves, CallKeeps
  <2>6. KeptInv'
    BY <2>1, <2>3, <2>4 DEF ProfileInv, ProfileTypes, KeptInv, CallMoves, CallKeeps, Opt
  <2>7. DownInv'
    BY <2>3, <2>4 DEF ProfileInv, ProfileTypes, DownInv, CallMoves, CallKeeps
  <2> QED  BY <2>5, <2>6, <2>7 DEF ProfileInv
<1>2. CASE GivesUp("write") /\ world' \in {world, [world EXCEPT !.file = "torn"]}
  <2>1. world' \in Container /\ world'.booted = world.booted
    BY <1>0, <1>2, FileIs
  <2>2. CallFails("write") /\ call'.stuck = call.stuck
    BY <1>0, <1>2, GivesUpIs
  <2> QED  BY <2>1, <2>2, ProfileFailInv
<1> QED  BY <1>1, <1>2 DEF SaveWrite

-----------------------------------------------------------------------------
\* The profile is read before anything is wiped.
LEMMA RestoreReadInv == ASSUME ProfileInv, Profiled, call.tool \in Restoring, RestoreRead
  PROVE ProfileInv'
<1>0. call \in ProfileCall /\ world \in Container /\ "wipeData" \in ProfileLabels
  BY DEF ProfileInv, ProfileTypes, ProfileLabels
<1>1. CASE Go(call.tool, "restore", "wipeData") /\ world' \in {Halted(world), world}
  BY <1>0, <1>1, HaltedIsUntouched, ProfileMoveInv
<1>2. CASE GivesUp("restore") /\ UNCHANGED world
  BY <1>0, <1>2, GivesUpIs, ProfileFailInv
<1> QED  BY <1>1, <1>2 DEF RestoreRead

\* Unpacking the container writes the data alone.
LEMMA DataIs ==
  ASSUME world \in Container, NEW data \in Contents, world' = [world EXCEPT !.data = data]
  PROVE  /\ world' \in Container /\ world'.booted = world.booted /\ world'.data = data
         /\ world'.tar = world.tar
BY DEF Container

\* The container is wiped and unpacked, or put back.
LEMMA RestoreDataInv == ASSUME ProfileInv, Profiled, call.tool \in Restoring, RestoreData
  PROVE ProfileInv'
<1>0. /\ call \in ProfileCall /\ world \in Container /\ call.tool \notin Saving
         /\ "restored" \in ProfileLabels
      /\ world.tar \in Contents /\ world.data \in Contents /\ "torn" \in Contents
         /\ "empty" \in Contents
  BY DEF ProfileInv, ProfileTypes, ProfileLabels, Saving, Restoring, Container, Contents
<1>1. CASE Go(call.tool, "wipeData", "restored") /\ world' = [world EXCEPT !.data = world.tar]
  <2>1. CallMoves("wipeData", "restored")
    BY <1>0, <1>1, ProfileMoves
  <2>2. /\ world' \in Container /\ world'.booted = world.booted /\ world'.data = world.tar
        /\ world'.tar = world.tar
    BY <1>0, <1>1, DataIs
  <2>3. ProfileTypes' /\ KeptInv'
    BY <1>0, <2>1, <2>2 DEF ProfileInv, ProfileTypes, KeptInv, CallMoves, CallKeeps, Saving
  <2>4. PutBackInv' /\ DownInv'
    BY <2>1, <2>2 DEF ProfileInv, ProfileTypes, PutBackInv, DownInv, CallMoves, CallKeeps
  <2> QED  BY <2>3, <2>4 DEF ProfileInv
<1>2. CASE /\ GivesUp("wipeData")
           /\ IF Present THEN \E data \in {world.data, "torn", "empty"} :
                                world' = [world EXCEPT !.data = data]
                         ELSE UNCHANGED world
  <2>1. world' \in Container /\ world'.booted = world.booted
    <3>1. CASE UNCHANGED world
      BY <1>0, <3>1
    <3>2. ASSUME NEW data \in {world.data, "torn", "empty"}, world' = [world EXCEPT !.data = data]
          PROVE  world' \in Container /\ world'.booted = world.booted
      BY <1>0, <3>2, DataIs
    <3> QED  BY <1>2, <3>1, <3>2
  <2>2. CallFails("wipeData") /\ call'.stuck = call.stuck
    BY <1>0, <1>2, GivesUpIs
  <2> QED  BY <2>1, <2>2, ProfileFailInv
<1> QED  BY <1>1, <1>2 DEF RestoreData

\* Unpacking the keychain writes the keys alone.
LEMMA KeysAre ==
  ASSUME world \in Container, NEW keys \in Contents, world' = [world EXCEPT !.keys = keys]
  PROVE  /\ world' \in Container /\ world'.booted = world.booted /\ world'.data = world.data
         /\ world'.tar = world.tar /\ world'.keys = keys /\ world'.tarKeys = world.tarKeys
BY DEF Container

\* The keychains are unpacked, or not, with the device down.
LEMMA WipeKeysInv ==
  ASSUME ProfileInv, Profiled, call.tool \in Restoring, NEW keys \in Contents,
         world' = [world EXCEPT !.keys = keys],
         NEW to \in {"bootRestored", "bootFailed"}, Go(call.tool, "wipeKeys", to),
         to = "bootRestored" => keys = world.tarKeys
  PROVE  ProfileInv'
<1>0. call \in ProfileCall /\ world \in Container /\ call.tool \notin Saving /\ to \in ProfileLabels
  BY DEF ProfileInv, ProfileTypes, ProfileLabels, Saving, Restoring
<1>1. CallMoves("wipeKeys", to)
  BY <1>0, ProfileMoves
<1>2. /\ world' \in Container /\ world'.booted = world.booted /\ world'.data = world.data
      /\ world'.tar = world.tar /\ world'.keys = keys /\ world'.tarKeys = world.tarKeys
  BY <1>0, KeysAre
<1>3. ProfileTypes' /\ KeptInv'
  BY <1>0, <1>1, <1>2 DEF ProfileInv, ProfileTypes, KeptInv, CallMoves, CallKeeps, Saving
<1>4. PutBackInv' /\ DownInv'
  BY <1>1, <1>2 DEF ProfileInv, ProfileTypes, PutBackInv, DownInv, CallMoves, CallKeeps
<1> QED  BY <1>3, <1>4 DEF ProfileInv

\* The keychain is wiped and unpacked, or put back.
LEMMA RestoreKeysInv == ASSUME ProfileInv, Profiled, call.tool \in Restoring, RestoreKeys
  PROVE ProfileInv'
<1>0. /\ call \in ProfileCall /\ world \in Container /\ "relaunch" \in ProfileLabels
      /\ world.keys \in Contents /\ world.tarKeys \in Contents /\ "torn" \in Contents
         /\ "gone" \in Contents
  BY DEF ProfileInv, ProfileTypes, ProfileLabels, Container, Contents
<1>1. CASE world.file = "data" /\ Pass(call.tool, "restored", "relaunch")
  <2>1. CallMoves("restored", "relaunch") /\ UNCHANGED world
    BY <1>0, <1>1, ProfileMoves DEF Pass
  <2>2. FilesKeep /\ (world'.booted = FALSE => call'.stuck = TRUE)
    BY <1>0, <2>1 DEF FilesKeep, ProfileInv, DownInv, CallMoves
  <2> QED  BY <1>1, <2>1, <2>2, MovesBoot, KeysMoveInv DEF Profiled
<1>2. CASE KeysBegin("restored", "wipeKeys")
  BY <1>2, KeysBeginInv
<1>3. CASE Go(call.tool, "wipeKeys", "bootRestored")
    /\ world' = [world EXCEPT !.keys = world.tarKeys]
  BY <1>0, <1>3, WipeKeysInv
<1>4. CASE /\ Go(call.tool, "wipeKeys", "bootFailed")
           /\ \E keys \in {world.keys, "torn", "gone"} : world' = [world EXCEPT !.keys = keys]
  <2> PICK keys \in Contents : world' = [world EXCEPT !.keys = keys]
    BY <1>0, <1>4
  <2> QED  BY <1>4, WipeKeysInv
<1>5. CASE BootAgain("bootRestored", [call EXCEPT !.at = "relaunch"])
  BY <1>5, BootAgainInv
<1>6. CASE BootAgain("bootFailed", Failed(call))
  BY <1>6, BootFailedInv
<1> QED  BY <1>1, <1>2, <1>3, <1>4, <1>5, <1>6 DEF RestoreKeys

\* A restored app is launched again, or not.
LEMMA RestoreDoneInv == ASSUME ProfileInv, Profiled, RestoreDone  PROVE ProfileInv'
<1>0. /\ call \in ProfileCall /\ world \in Container /\ call.tool \notin Saving
         /\ call.tool \in Restoring
      /\ world.tar \in Contents /\ world.tarKeys \in Contents /\ UNCHANGED world
  BY DEF ProfileInv, ProfileTypes, Saving, Restoring, Container, RestoreDone
<1>1. PICK to \in {"launch", "answer"} :
        /\ call.at = "relaunch"
        /\ call' = [call EXCEPT !.at = to,
                      !.given = IF world.file = "both" THEN <<world.tar, world.tarKeys>>
                          ELSE <<world.tar>>]
  BY DEF RestoreDone
<1>2. PICK given \in Seq(Contents \cup {"keys"}) :
        /\ given = IF world.file = "both" THEN <<world.tar, world.tarKeys>> ELSE <<world.tar>>
        /\ call' = [call EXCEPT !.at = to, !.given = given]
  <2>1. <<world.tar, world.tarKeys>> \in Seq(Contents \cup {"keys"})
      /\ <<world.tar>> \in Seq(Contents \cup {"keys"})
    BY <1>0
  <2>2. CASE world.file = "both"
    BY <1>1, <2>1, <2>2
  <2>3. CASE world.file # "both"
    BY <1>1, <2>1, <2>3
  <2> QED  BY <2>2, <2>3
<1>3. /\ call' \in ProfileCall /\ call'.at = to /\ call'.tool = call.tool /\ call'.opts = call.opts
      /\ call'.out = call.out /\ call'.stuck = call.stuck /\ call'.given = given
  BY <1>0, <1>2 DEF ProfileCall, ProfileLabels
<1>4. ProfileTypes' /\ KeptInv'
  BY <1>0, <1>1, <1>3 DEF ProfileInv, ProfileTypes, KeptInv, Saving
<1>5. PutBackInv'
  BY <1>0, <1>1, <1>2, <1>3 DEF ProfileInv, PutBackInv
<1>6. DownInv'
  BY <1>0, <1>1, <1>3 DEF ProfileInv, DownInv
<1> QED  BY <1>4, <1>5, <1>6 DEF ProfileInv

-----------------------------------------------------------------------------
\* A call goes on to its work from its start.
LEMMA ProfilePassInv ==
  ASSUME ProfileInv, Profiled, NEW tool, NEW from,
      NEW to \in {"save", "restore", "launch", "wipe", "uninstall"},
         Pass(tool, from, to), from \in {"begin", "privacy"}, to = "uninstall" <=> from = "privacy",
         to = "wipe" => ~Opt("profile") \/ call.tool # "reset"
  PROVE  ProfileInv'
<1>1. to \in ProfileLabels /\ Go(tool, from, to) /\ Untouched
  BY SameIsUntouched DEF Pass, ProfileLabels, ProfileInv, ProfileTypes
<1> QED  BY <1>1, ProfileMoveInv

\* A call that answers keeps the invariant.
LEMMA ProfileEndsInv ==
  ASSUME ProfileInv, Profiled, NEW tool, NEW from,
         NEW out \in {"refused", "error", "saved", "restored", "launched", "reset"},
         End(tool, from, out), from \notin {"packKeys", "boot", "wipeKeys", "bootRestored",
                                            "bootFailed"},
         out = "reset" => from \in {"wipe", "privacy", "uninstall"}
  PROVE  ProfileInv'
BY SameIsUntouched, ProfileEndInv DEF End, ProfileInv, ProfileTypes

\* Every step of saving and restoring keeps it.
LEMMA ProfileToolsInv ==
  ASSUME ProfileInv, Profiled, AuthSaveNative \/ AuthRestoreNative  PROVE ProfileInv'
<1>1. CASE End("save_native", "begin", "refused") \/ End("save_native", "saved", "saved")
           \/ End("restore_native", "begin", "refused")
              \/ End("restore_native", "answer", "restored")
  BY <1>1, ProfileEndsInv
<1>2. CASE Pass("save_native", "begin", "save") \/ Pass("restore_native", "begin", "restore")
  BY <1>2, ProfilePassInv
<1> QED  BY <1>1, <1>2 DEF AuthSaveNative, AuthRestoreNative

\* Launching the app keeps it.
LEMMA LaunchAppInv ==
  ASSUME ProfileInv, Profiled, NEW tool, LaunchApp(tool, "answer")  PROVE ProfileInv'
<1>1. CASE Go(tool, "launch", "answer") /\ world' = Fronted(world)
  BY <1>1, HaltedIsUntouched, ProfileMoveInv DEF ProfileLabels, ProfileInv, ProfileTypes
<1>2. CASE Throws(tool, {"launch"})
  <2>1. End(tool, "launch", "error")
    BY <1>2 DEF Throws
  <2> QED  BY <2>1, ProfileEndsInv
<1> QED  BY <1>1, <1>2 DEF LaunchApp

\* Every step of app_launch keeps it.
LEMMA AppLaunchInv == ASSUME ProfileInv, Profiled, AppLaunch  PROVE ProfileInv'
<1>1. CASE End("launch", "begin", "refused") \/ End("launch", "answer", "launched")
  BY <1>1, ProfileEndsInv
<1>2. CASE Pass("launch", "begin", IF Opt("profile") THEN "restore" ELSE "launch")
  BY <1>2, ProfilePassInv
<1>3. CASE LaunchApp("launch", "answer") \/ LaunchApp("restore_native", "answer")
  BY <1>3, LaunchAppInv
<1> QED  BY <1>1, <1>2, <1>3 DEF AppLaunch

\* Every step of app_reset keeps it: it wipes only what no profile asks it to keep.
LEMMA AppResetInv == ASSUME ProfileInv, Profiled, AppReset  PROVE ProfileInv'
<1>0. call \in ProfileCall /\ world \in Container
  BY DEF ProfileInv, ProfileTypes
<1>1. CASE End("reset", "begin", "refused") \/ End("reset", "wipe", "error")
           \/ End("reset", "uninstall", "error")
  BY <1>1, ProfileEndsInv
<1>2. CASE Pass("reset", "begin", IF Opt("profile") THEN "save" ELSE "wipe")
  BY <1>2, ProfilePassInv
<1>3. CASE Act("reset", "wipe", "privacy", {Halted(world), world})
  BY <1>0, <1>3, HaltedIsUntouched, ProfileMoveInv DEF Act, ProfileLabels
<1>4. CASE Pass("reset", "privacy", "uninstall")
  BY <1>4, ProfilePassInv
<1>5. CASE End("reset", "uninstall", "reset")
  BY <1>5, ProfileEndsInv
<1>6. CASE /\ Answers("reset", "uninstall", "reset")
           /\ world' = [Halted(world) EXCEPT !.data = "gone"]
  <2>1. CallEnds("uninstall", "reset") /\ call.tool = "reset"
    BY <1>0, <1>6, ProfileEnds
  <2>2. /\ world' \in Container /\ world'.booted = world.booted /\ world'.tar = world.tar
        /\ world'.file = world.file
    BY <1>0, <1>6 DEF Container, Halted, Contents
  <2>3. ProfileTypes' /\ KeptInv'
    BY <2>1, <2>2 DEF ProfileInv, ProfileTypes, KeptInv, CallEnds, CallKeeps, Opt
  <2>4. PutBackInv' /\ DownInv'
    BY <2>1, <2>2 DEF ProfileInv, ProfileTypes, PutBackInv, DownInv, CallEnds, CallKeeps, Restoring
  <2> QED  BY <2>3, <2>4 DEF ProfileInv
<1> QED  BY <1>1, <1>2, <1>3, <1>4, <1>5, <1>6 DEF AppReset

\* What the app and the screen do by themselves.
LEMMA WanderInv == ASSUME ProfileInv, Wander  PROVE ProfileInv'
<1>1. Untouched /\ UNCHANGED call
  BY DEF Wander, Untouched, ProfileInv, ProfileTypes, Container
<1> QED  BY <1>1 DEF Untouched, ProfileInv, ProfileTypes, KeptInv, PutBackInv, DownInv, Opt

-----------------------------------------------------------------------------
\* A call stays one of its tool.
SameTool == "tool" \in DOMAIN call' /\ call'.tool = call.tool

\* Going on, passing and answering are steps of the call's own tool.
LEMMA GoSame ==
  ASSUME "tool" \in DOMAIN call, NEW tool, NEW from, NEW to,
         Go(tool, from, to) \/ Pass(tool, from, to) \/ Answers(tool, from, to)
             \/ End(tool, from, to)
  PROVE  SameTool /\ call.tool = tool
BY DEF SameTool, Go, Pass, Answers, End, Became, At

\* So is throwing.
LEMMA ThrowsSame ==
  ASSUME "tool" \in DOMAIN call, NEW tool, NEW labels, Throws(tool, labels)
  PROVE  SameTool /\ call.tool = tool
BY GoSame DEF Throws

\* The other tools on apps are not calls on an app's state.
LEMMA OtherToolsSame ==
  ASSUME "tool" \in DOMAIN call,
         \/ AuthDeleteNative \/ AppActivate \/ AppSwitchApp \/ AppTerminate \/ AppDeeplink
            \/ AppCommand
         \/ AppPushNotification \/ AppBiometric \/ AuthOtpFetch
  PROVE  SameTool /\ ~Profiled
<1> USE DEF Profiled, Saving, Restoring
<1>1. CASE AuthDeleteNative
  BY <1>1, GoSame DEF AuthDeleteNative
<1>a. ASSUME NEW tool, AppProbes(tool)  PROVE SameTool /\ call.tool = tool
  BY <1>a, GoSame DEF AppProbes
<1>b. ASSUME NEW tool, LaunchApp(tool, "probe")  PROVE SameTool /\ call.tool = tool
  BY <1>b, GoSame, ThrowsSame DEF LaunchApp
<1>2. CASE AppActivate
  BY <1>2, <1>a, <1>b, GoSame DEF AppActivate, BringForward
<1>3. CASE AppSwitchApp
  BY <1>3, <1>a, <1>b, GoSame, ThrowsSame DEF AppSwitchApp, Act
<1>4. CASE AppTerminate
  BY <1>4, GoSame, ThrowsSame DEF AppTerminate
<1>5. CASE AppDeeplink
  BY <1>5, GoSame, ThrowsSame DEF AppDeeplink, Act
<1>6. CASE AppCommand
  BY <1>6, GoSame, ThrowsSame DEF AppCommand
<1>7. CASE AppPushNotification
  <2>1. CASE PushUnlink
    BY <2>1 DEF PushUnlink, Became, At, SameTool
  <2> QED  BY <1>7, <2>1, GoSame DEF AppPushNotification, PushWrite, PushSend, Act
<1>8. CASE AppBiometric
  BY <1>8, GoSame DEF AppBiometric, ResolveBiometricDevice, RunBiometric
<1>9. CASE AuthOtpFetch
  <2>1. CASE FetchFromMailhog
    BY <2>1 DEF FetchFromMailhog, Became, At, SameTool
  <2> QED  BY <1>9, <2>1, GoSame, ThrowsSame DEF AuthOtpFetch, FetchFromWebhookOrCustom
<1> QED  BY <1>1, <1>2, <1>3, <1>4, <1>5, <1>6, <1>7, <1>8, <1>9

\* Every step of a call on an app's state keeps its invariant.
LEMMA ProfileStep ==
  ASSUME AppInv, Profiled, [AppNext]_tvars  PROVE ProfileInv'
<1>0. ProfileInv /\ "tool" \in DOMAIN call
  BY DEF AppInv
<1>1. CASE NativeSave
  BY <1>0, <1>1, SaveStopInv, SavePackInv, SaveKeysInv, SaveWriteInv DEF NativeSave
<1>2. CASE NativeRestore
  BY <1>0, <1>2, RestoreReadInv, RestoreDataInv, RestoreKeysInv, RestoreDoneInv DEF NativeRestore
<1>3. CASE AuthSaveNative \/ AuthRestoreNative \/ AppLaunch \/ AppReset
  BY <1>0, <1>3, ProfileToolsInv, AppLaunchInv, AppResetInv
<1>4. CASE \/ AuthDeleteNative \/ AppActivate \/ AppSwitchApp \/ AppTerminate \/ AppDeeplink
              \/ AppCommand
           \/ AppPushNotification \/ AppBiometric \/ AuthOtpFetch
  BY <1>0, <1>4, OtherToolsSame
<1>5. CASE Wander
  BY <1>0, <1>5, WanderInv
<1>6. CASE MailComes
  BY <1>6 DEF MailComes, Profiled, Saving, Restoring
<1>7. CASE UNCHANGED tvars
  BY <1>0, <1>7 DEF tvars, ProfileInv, ProfileTypes, KeptInv, PutBackInv, DownInv, Opt
<1> QED  BY <1>1, <1>2, <1>3, <1>4, <1>5, <1>6, <1>7 DEF AppNext, AppStep

\* Another call on an app stays another call.
LEMMA ElseStep ==
  ASSUME AppInv, ~Profiled, [AppNext]_tvars  PROVE SameTool
<1>0. "tool" \in DOMAIN call
  BY DEF AppInv
<1>1. CASE NativeSave \/ NativeRestore
  BY <1>1 DEF NativeSave, NativeRestore, Profiled
<1>2. CASE AuthSaveNative \/ AuthRestoreNative \/ AppReset
  BY <1>0, <1>2, GoSame DEF AuthSaveNative, AuthRestoreNative, AppReset, Act
<1>3. CASE AppLaunch
  BY <1>0, <1>3, GoSame, ThrowsSame DEF AppLaunch, LaunchApp
<1>4. CASE \/ AuthDeleteNative \/ AppActivate \/ AppSwitchApp \/ AppTerminate \/ AppDeeplink
              \/ AppCommand
           \/ AppPushNotification \/ AppBiometric \/ AuthOtpFetch
  BY <1>0, <1>4, OtherToolsSame
<1>5. CASE Wander \/ MailComes \/ UNCHANGED tvars
  BY <1>0, <1>5 DEF Wander, MailComes, tvars, SameTool
<1> QED  BY <1>1, <1>2, <1>3, <1>4, <1>5 DEF AppNext, AppStep

\* Every step of the tools on apps keeps the invariant.
LEMMA AppStepInv == AppInv /\ [AppNext]_tvars => AppInv'
<1> SUFFICES ASSUME AppInv, [AppNext]_tvars PROVE AppInv'
  OBVIOUS
<1>1. CASE Profiled
  <2>1. ProfileInv'
    BY <1>1, ProfileStep
  <2> QED  BY <2>1 DEF AppInv, ProfileInv, ProfileTypes, ProfileCall
<1>2. CASE ~Profiled
  <2>1. SameTool
    BY <1>2, ElseStep
  <2> QED  BY <1>2, <2>1 DEF AppInv, SameTool, Profiled
<1> QED  BY <1>1, <1>2

\* The strengthening implies what the runs check.
LEMMA AppInvKeeps == AppInv => StateIsNotLost
<1> SUFFICES ASSUME AppInv PROVE StateIsNotLost
  OBVIOUS
<1>1. ResetKeepsWhatItTakes
  <2> SUFFICES ASSUME call.tool = "reset", Opt("profile"), call.out = "reset", ~call.warned,
      ~call.ran
               PROVE  world.file \in {"data", "both"} /\ world.tar = call.kept
    BY DEF ResetKeepsWhatItTakes
  <2>1. ProfileInv
    BY DEF AppInv, Profiled, Saving
  <2>2. call.warned = FALSE /\ call.ran = FALSE
    BY <2>1 DEF ProfileInv, ProfileTypes, ProfileCall
  <2> QED  BY <2>1, <2>2 DEF ProfileInv, KeptInv
<1>2. RestoredIsWhole
  BY DEF AppInv, Profiled, ProfileInv, PutBackInv, RestoredIsWhole
<1>3. DeviceIsGivenBack
  <2> SUFFICES ASSUME Profiled, ~world.booted, call.at = "end"  PROVE call.stuck
    BY DEF DeviceIsGivenBack, Profiled
  <2>1. ProfileInv
    BY DEF AppInv
  <2>2. world.booted = FALSE
    BY <2>1 DEF ProfileInv, ProfileTypes, Container
  <2> QED  BY <2>1, <2>2 DEF ProfileInv, DownInv
<1> QED  BY <1>1, <1>2, <1>3 DEF StateIsNotLost

----------------------------------------------------------------------------
(* The tool of a call does not change. *)

\* Acting on the world is a step of the call's own tool.
LEMMA ActSame ==
  ASSUME "tool" \in DOMAIN call, NEW tool, NEW from, NEW to, NEW effects,
      Act(tool, from, to, effects)
  PROVE  SameTool
BY GoSame DEF Act

\* So is a step of the world alone.
LEMMA StaysSame ==
  ASSUME "tool" \in DOMAIN call, UNCHANGED call
  PROVE  SameTool
BY DEF SameTool

\* No step of the alert tools changes the tool that was called.
LEMMA AlertSame ==
  ASSUME "tool" \in DOMAIN call, AlertNext PROVE SameTool
<1> USE GoSame, ThrowsSame, ActSame, StaysSame DEF Became, At
<1>1. CASE HandleBegin \/ Scan \/ Poll \/ Stack \/ Finalize
  BY <1>1 DEF HandleBegin, Scan, Poll, Stack, Finalize, Counts, SameTool
<1>2. CASE Script \/ Keys \/ Reset
  BY <1>2 DEF Script, Keys, Reset, Counts, SameTool
<1>3. CASE PressBegin \/ PressButton \/ CheckButton \/ Escalate \/ PlainKey
  BY <1>3 DEF PressBegin, PressButton, CheckButton, Escalate, PlainKey, SameTool
<1>4. CASE AlertCloses \/ AlertComes
  BY <1>4 DEF AlertCloses, AlertComes
<1> QED  BY <1>1, <1>2, <1>3, <1>4 DEF AlertNext, AlertStep, HandleAlert, AlertHandle

\* Nor does a step of the navigation tools.
LEMMA NavSame ==
  ASSUME "tool" \in DOMAIN call, NavNext PROVE SameTool
<1> USE GoSame, ThrowsSame, ActSame, StaysSame DEF Became, At, Sent
<1>1. CASE PopUntil
  BY <1>1 DEF PopUntil, PopBegin, PopEvaluates, PopVerify, PopBackend, PopBack, PopNativeVerify,
     PopExhausted, SameTool
<1>2. CASE GotoScreen
  BY <1>2 DEF GotoScreen, GotoBegin, GotoQuery, GotoRoute, GotoLink, GotoNative, SameTool
<1>3. CASE DismissOverlay \/ DismissKeyboard
  BY <1>3 DEF DismissOverlay, OverlayBegin, OverlayGestures, OverlayVerify, DismissKeyboard
<1>4. CASE GestureLands \/ LinkOpens \/ NavDrifts
  BY <1>4 DEF GestureLands, LinkOpens, NavDrifts
<1> QED  BY <1>1, <1>2, <1>3, <1>4 DEF NavNext, NavStep

\* Nor does a step of the tools that read the screen.
LEMMA ReadSame ==
  ASSUME "tool" \in DOMAIN call, ReadNext PROVE SameTool
<1> USE GoSame, ThrowsSame, ActSame, StaysSame DEF Became, At, Step, Tells, SameTool
<1>1. CASE ReadBegin \/ ActivateApp \/ EnsureTargetAppContext
  BY <1>1 DEF ReadBegin, ActivateApp, EnsureTargetAppContext
<1>2. CASE EnsureSemanticsActive \/ DumpTreeWithRecovery
  BY <1>2 DEF EnsureSemanticsActive, EnsuresTo, DumpTreeWithRecovery
<1>3. CASE AppTree \/ AppInspect \/ AppQuery \/ AppAssertElement
  BY <1>3 DEF AppTree, AppInspect, AppQuery, AppAssertElement
<1>4. CASE AppWaitFor
  BY <1>4 DEF AppWaitFor, WaitForPoll, Polled
<1>5. CASE AppContext \/ AppStateSnapshot \/ AppAssert
  BY <1>5 DEF AppContext, AppStateSnapshot, AppAssert
<1>6. CASE SemanticsComeUp \/ ReadDrift
  BY <1>6 DEF SemanticsComeUp, ReadDrift
<1> QED  BY <1>1, <1>2, <1>3, <1>4, <1>5, <1>6 DEF ReadNext, ReadStep

\* Nor does a step of the settings and typing tools.
LEMMA SettingSame ==
  ASSUME "tool" \in DOMAIN call, SettingNext PROVE SameTool
<1> USE GoSame, ThrowsSame, ActSame, StaysSame DEF Became, At, Sets, Fails, SameTool
<1>1. CASE QaDarkMode
  BY <1>1 DEF QaDarkMode, DarkBegin, DarkLook, DarkRestore
<1>2. CASE QaOrientation \/ QaKeyboardOverlap
  BY <1>2 DEF QaOrientation, QaKeyboardOverlap
<1>3. CASE AppTypeElement
  BY <1>3 DEF AppTypeElement, TypeBegin, TypeFocus, TypeKeys, VerifyTypedText, PasteBorrow,
      PasteType,
     PasteReturn, PasteCheck, TypeSettle
<1>4. CASE AppTypeText \/ AppKeyInput \/ FlutterDebugPaint \/ AppearanceToggle \/ DeviceRotate
  BY <1>4 DEF AppTypeText, AppKeyInput, FlutterDebugPaint, AppearanceToggle, DeviceRotate
<1>5. CASE MockGeolocation \/ MockPermission \/ NetworkThrottle
  BY <1>5 DEF MockGeolocation, MockPermission, Mocks, NetworkThrottle
<1>6. CASE PasteLands \/ UserCopies
  BY <1>6 DEF PasteLands, UserCopies
<1> QED  BY <1>1, <1>2, <1>3, <1>4, <1>5, <1>6 DEF SettingNext, SettingStep

\* Nor does a step of a scenario, of an assertion over devices or of hybrid QA.
LEMMA ScenarioSame ==
  ASSUME "tool" \in DOMAIN call, PoolNext PROVE SameTool
<1> USE GoSame, ThrowsSame, ActSame, StaysSame DEF Became, At, SameTool
<1>0. ASSUME NEW d, \/ \E label : DevGoes(d, label) \/ DevActs(d, label)
                    \/ DevFails(d) \/ \E n : Gestures(d, n)
      PROVE  SameTool
  BY <1>0 DEF DevGoes, DevFails, DevActs, Gestures
<1>1. CASE ScenarioBegin \/ ExecuteStep \/ StepEnds \/ RunScenario
  BY <1>1 DEF ScenarioBegin, ExecuteStep, StepEnds, RunScenario
<1>2. ASSUME NEW d \in Pool, \/ DeviceFails(d) \/ SimpleStep(d) \/ AssertStep(d) \/ WaitForStep(d)
                                \/ GotoStep(d)
                             \/ TapElement(d)
      PROVE  SameTool
  BY <1>0, <1>2 DEF DeviceFails, SimpleStep, AssertStep, WaitForStep, GotoStep, TapElement, Settles
<1>3. ASSUME NEW d \in Pool, PopStep(d) \/ DismissStep(d) \/ Gesture(d) \/ RunCheck(d)
      PROVE  SameTool
  BY <1>0, <1>3 DEF PopStep, DismissStep, Gesture, RunCheck, Settles
<1>4. CASE AssertBegin \/ AssertAll \/ CompareCapture \/ CompareDevices
  BY <1>4 DEF AssertBegin, AssertAll, CompareCapture, CompareDevices
<1>5. CASE HybridStep
  BY <1>5 DEF HybridStep, HybridBegin, InjectAuth, ScanViewport, ClosePhaseA, BeginPhaseB,
      VerifyDevice,
     PhaseBEnds, ClearTempAuth, HybridQA, Hybrid, PhaseAFails
<1>6. CASE PoolMoves
  BY <1>6 DEF PoolMoves
<1> QED  BY <1>1, <1>2, <1>3, <1>4, <1>5, <1>6 DEF PoolNext, PoolStep, ScenarioStep

\* Nor does a step of the Flutter tools.
LEMMA FlutterSame ==
  ASSUME "tool" \in DOMAIN call, FlutterNext PROVE SameTool
<1> USE GoSame, ThrowsSame, ActSame, StaysSame DEF Became, At, SameTool
<1>0. ASSUME NEW from, NEW to, NEW new,
             \/ Does(from, to, new) \/ DoesNot(from, new) \/ OfIsolate(from, to, new)
             \/ OfExtension(from, to, new)
      PROVE  SameTool
  BY <1>0 DEF Does, DoesNot, Request, OfIsolate, OfExtension
<1>1. ASSUME NEW tool, NEW to, Begins(tool, to) \/ EnsureDebug(tool, to)
      PROVE  SameTool
  BY <1>0, <1>1 DEF Begins, EnsureDebug
<1>2. CASE FlutterConnect \/ FlutterBuildMode \/ FlutterLogs
  BY <1>1, <1>2 DEF FlutterConnect, ConnectDial, Disclosure, Says, FlutterBuildMode, FlutterLogs,
      LogsListen
<1>3. CASE FlutterTrackRebuilds
  BY <1>0, <1>1, <1>3 DEF FlutterTrackRebuilds, StartTracking, StopTracking
<1>4. CASE FlutterSetBreakpoint \/ FlutterRemoveBreakpoint \/ FlutterResume \/ FlutterGetStack
    \/ FlutterWaitForPause
  BY <1>0, <1>1, <1>4 DEF FlutterSetBreakpoint, FlutterRemoveBreakpoint, FlutterResume,
      FlutterGetStack,
     FlutterWaitForPause
<1>5. CASE FlutterAllocationProfile \/ FlutterHeapSnapshot \/ FlutterCpuProfile
    \/ FlutterTimelineCapture
  BY <1>0, <1>1, <1>5 DEF FlutterAllocationProfile, FlutterHeapSnapshot, CollectHeapSnapshot,
      FlutterCpuProfile,
     FlutterTimelineCapture
<1>6. CASE FlutterWidgetAtPoint \/ FlutterEvaluate \/ FlutterRootWidget
  BY <1>0, <1>1, <1>6 DEF FlutterWidgetAtPoint, SelectWidgetAtPoint, FlutterEvaluate, Evaluate,
      FlutterRootWidget,
     RootWidgetSummaryTree
<1>7. ASSUME NEW tool, NEW answers, Question(tool, answers)
      PROVE  SameTool
  BY <1>0, <1>1, <1>7 DEF Question
<1>8. CASE FlutterWidgetTree \/ FlutterListServiceExtensions \/ FlutterCallServiceExtension
    \/ FlutterGetRoute
  BY <1>7, <1>8 DEF FlutterWidgetTree, FlutterListServiceExtensions, FlutterCallServiceExtension,
      FlutterGetRoute
<1>9. CASE FlutterInspectSelection \/ FlutterHotReload
  BY <1>0, <1>1, <1>9 DEF FlutterInspectSelection, FlutterHotReload
<1>10. CASE VmPauses \/ VmMoves
  BY <1>10 DEF VmPauses, VmMoves
<1> QED  BY <1>2, <1>3, <1>4, <1>5, <1>6, <1>8, <1>9, <1>10 DEF FlutterNext, FlutterStep

\* Nor does a step of the QA checks.
LEMMA QaSame ==
  ASSUME "tool" \in DOMAIN call, QaNext PROVE SameTool
<1> USE GoSame, ThrowsSame, ActSame, StaysSame DEF Became, At, SameTool
<1>1. CASE QaFlutterTouchTargets \/ QaFlutterSemantics
  BY <1>1 DEF QaFlutterTouchTargets, QaFlutterSemantics, Reads
<1>2. CASE QaFlutterFullAudit
  BY <1>2 DEF QaFlutterFullAudit, AuditTree, CheckDarkMode
<1>3. CASE AppListRoutes
  BY <1>3 DEF AppListRoutes
<1>4. CASE NetStart \/ NetStop \/ NetLog \/ NetHar \/ NetThrottle
  BY <1>4 DEF NetStart, NetStop, NetLog, NetHar, NetThrottle
<1>5. CASE Proxied \/ Upgraded
  BY <1>5 DEF Proxied, Upgraded
<1>6. CASE ClientLeaves
  BY <1>6 DEF ClientLeaves
<1> QED  BY <1>1, <1>2, <1>3, <1>4, <1>5, <1>6 DEF QaNext, QaStep

\* Nor does a step of the tools on a page.
LEMMA BrowserSame ==
  ASSUME "tool" \in DOMAIN call, BrowserNext PROVE SameTool
<1> USE GoSame, ThrowsSame, ActSame, StaysSame DEF Became, At, SameTool
<1>0. ASSUME NEW from, NEW to, NEW effect, NEW tool,
             Runs(from, to, effect) \/ PageScript(tool, from, to, effect) \/ Refuses(tool)
                 \/ OneScript(tool)
      PROVE  SameTool
  BY <1>0 DEF Runs, PageScript, Refuses, OneScript
<1>1. CASE Navigate
  BY <1>1 DEF Navigate, NavigateRead, Sub
<1>2. CASE NavigateTool
  BY <1>0, <1>1, <1>2 DEF NavigateTool
<1>3. CASE Click \/ LongPress \/ Type \/ SelectOption \/ WaitFor
  BY <1>0, <1>3 DEF Click, LongPress, Center, Type, SelectOption, WaitFor
<1>4. CASE Press \/ Scroll \/ PageSwipe \/ Blur \/ ReadPage \/ QueryDom \/ Javascript \/ PageInspect
  BY <1>0, <1>4 DEF Press, Scroll, PageSwipe, Blur, ReadPage, QueryDom, Javascript, PageInspect
<1>5. CASE Screenshot
  BY <1>0, <1>5 DEF Screenshot
<1>6. CASE CookiesGet \/ CookiesSet \/ CookiesClear
  BY <1>0, <1>6 DEF CookiesGet, CookiesSet, CookiesClear, Got, SetCookies, ClearCookies
<1>7. CASE AuthSave
  BY <1>0, <1>7 DEF AuthSave, WriteProfile, Got
<1>8. CASE AuthRestore \/ AuthList
  BY <1>0, <1>1, <1>8 DEF AuthRestore, SetCookies, AuthList
<1>9. CASE PageTurns
  BY <1>9 DEF PageTurns
<1> QED  BY <1>2, <1>3, <1>4, <1>5, <1>6, <1>7, <1>8, <1>9 DEF BrowserNext, BrowserStep

\* Nor does a step of the tools that gather evidence.
LEMMA EvidenceSame ==
  ASSUME "tool" \in DOMAIN call, EvidenceNext PROVE SameTool
<1> USE GoSame, ThrowsSame, ActSame, StaysSame DEF Became, At, SameTool
<1>1. CASE AppScreenshotNative
  BY <1>1 DEF AppScreenshotNative, ScreenshotMask, CaptureWithRetry, ScreenshotRead,
      ScreenshotUnlink
<1>2. CASE AppNotesPasteAndTapUrl
  BY <1>2 DEF AppNotesPasteAndTapUrl, NotesLaunch, WaitForEditor, NotesFocus, SafeReadPasteboard,
      WritePasteboard,
     NotesChord, PollForPermissionDialog, TryPressPermissionButton, NotesReturn,
         WaitForDetectedLink, NotesTap
<1>3. CASE CollectDebugBundle
  BY <1>3 DEF CollectDebugBundle, BundleBegin, CaptureScreenshot, CaptureAxTree, CaptureLogs,
      FindFreshCrashes,
     CaptureFlutterRoute, BundleEnd, Section
<1>4. CASE DebugBundleCollect \/ WrapHandlerForBundle \/ MaybeAttachDebugBundle
  BY <1>3, <1>4 DEF DebugBundleCollect, WrapHandlerForBundle, MaybeAttachDebugBundle
<1>5. CASE AppCrashReports \/ AppLogs \/ AppOpenUrl
  BY <1>5 DEF AppCrashReports, CrashReportsList, CrashReportsRead, AppLogs, AppOpenUrl,
      CaptureLogsWindow
<1>6. CASE Diagnose
  BY <1>6 DEF Diagnose, ProbeSimctl, ProbeSimHid
<1>7. CASE EvidenceTurns
  BY <1>7 DEF EvidenceTurns, EditorComes, NotesAsks, NotesPastes, NotesMoves, ReportsTurn,
      LineComes, OneChange
<1> QED  BY <1>1, <1>2, <1>4, <1>5, <1>6, <1>7 DEF EvidenceNext, EvidenceStep

----------------------------------------------------------------------------
(* Alerts. *)

\* Effects that were seen on the screen: no count of the scan is above theirs, nor is it
\* once more is counted when the button it has pressed is gone.
AlertInv ==
  /\ {"tool", "opts", "at", "out", "path", "base", "count", "round",
      "strategy"} \subseteq DOMAIN call
  /\ {"alerts", "lure", "closing", "gone", "came", "touched", "reset"} \subseteq DOMAIN world
  /\ world.gone \in Nat /\ world.came \in Nat /\ world.touched \in Nat /\ call.count \in Nat
  /\ call.strategy \in {"none", "ax-scan"} => call.count <= Fingerprint
  /\ call.strategy = "none" => call.count = 0
  /\ /\ call.strategy \in {"none", "ax-scan"}
     /\ call.tool = HA /\ call.at \in {"scanPress", "poll", "stackPress", "stackPoll"}
     /\ call.path \notin Buttons
     => call.count + 1 <= Fingerprint
  /\ call.tool = HA /\ call.at \in {"begin", "scan", "scanPress", "poll", "script", "keys"}
     => call.strategy = "none"
  /\ call.tool = HA /\ call.at \in {"stack", "stackPress", "stackPoll"} => call.strategy # "none"

\* The invariant says that every alert counted had gone, come or been pressed.
LEMMA AlertInvCounts == AlertInv => CountedHadAnEffect
BY DEF AlertInv, CountedHadAnEffect, Fingerprint

\* The invariant holds at the start.
LEMMA AlertInitInv == AlertInit => AlertInv
<1> SUFFICES ASSUME AlertInit PROVE AlertInv
  OBVIOUS
<1> DEFINE locals == [path |-> NoPath, base |-> 0, count |-> 0, round |-> 0, strategy |-> "none"]
<1>0. call \in ToolCalls(AlertOptions, locals)
  BY DEF AlertInit
<1>1. PICK t \in DOMAIN AlertOptions : \E o \in SUBSET AlertOptions[t] : call = NewCall(t, o,
    locals)
  BY <1>0 DEF ToolCalls
<1>2. PICK o \in SUBSET AlertOptions[t] : call = NewCall(t, o, locals)
  BY <1>1
<1>3. call = [tool |-> t, opts |-> o, at |-> "begin", out |-> "none", path |-> NoPath, base |-> 0,
              count |-> 0,
              round |-> 0, strategy |-> "none"]
  BY <1>2 DEF NewCall
<1> HIDE DEF locals
<1>4. world \in [alerts : UNION {[1..n -> Paths] : n \in 0..MaxAlerts}, lure : BOOLEAN,
               closing : {FALSE}, gone : {0}, came : {0}, touched : {0}, reset : {FALSE}]
  BY DEF AlertInit
<1>5. /\ {"alerts", "lure", "closing", "gone", "came", "touched", "reset"} \subseteq DOMAIN world
      /\ world.gone = 0 /\ world.came = 0 /\ world.touched = 0
  BY <1>4
<1> QED  BY <1>3, <1>5 DEF AlertInv, Fingerprint

\* A step either keeps the buttons and what was seen, or there is more to be seen.
MoreSeen ==
  /\ {"alerts", "lure", "closing", "gone", "came", "touched", "reset"} \subseteq DOMAIN world'
  /\ world'.gone \in Nat /\ world'.came \in Nat /\ world'.touched \in Nat
  /\ Fingerprint \in Nat /\ Fingerprint' \in Nat
  /\ \/ Buttons' = Buttons /\ Fingerprint' = Fingerprint
     \/ Fingerprint' >= Fingerprint + 1

\* What changed of the alerts only grows: when nothing changes,
LEMMA StillSeen == ASSUME AlertInv, UNCHANGED world PROVE MoreSeen
BY DEF AlertInv, MoreSeen, Buttons, Fingerprint, Shows, Top

\* when something is pressed,
LEMMA PressSeen == ASSUME AlertInv, NEW path, world' \in PressedAt(path) PROVE MoreSeen
<1>1. CASE world' = world
  BY <1>1, StillSeen
<1>2. CASE world' = [world EXCEPT !.lure = FALSE, !.touched = @ + 1]
  BY <1>2 DEF AlertInv, MoreSeen, Fingerprint
<1>3. CASE world' = [world EXCEPT !.closing = TRUE]
  BY <1>3 DEF AlertInv, MoreSeen, Buttons, Fingerprint, Shows, Top
<1> QED  BY <1>1, <1>2, <1>3 DEF PressedAt

\* and when a key is.
LEMMA KeySeen == ASSUME AlertInv, world' \in Keyed PROVE MoreSeen
<1>1. CASE world' = world
  BY <1>1, StillSeen
<1>2. CASE world' = [world EXCEPT !.touched = @ + 1]
  BY <1>2 DEF AlertInv, MoreSeen, Fingerprint
<1>3. CASE world' = [world EXCEPT !.closing = TRUE]
  BY <1>3 DEF AlertInv, MoreSeen, Buttons, Fingerprint, Shows, Top
<1> QED  BY <1>1, <1>2, <1>3 DEF Keyed

\* Every step of the alert tools keeps the invariant.
LEMMA AlertStepInv ==
  ASSUME AlertInv, AlertNext PROVE AlertInv'
<1> USE DEF Became, At, Go, Pass, Answers, End, Throws, Act, HA, AH, Opt
<1>1. CASE AlertCloses
  <2>1. world'.gone = world.gone + 1 /\ world'.came = world.came /\ world'.touched = world.touched
    BY <1>1 DEF AlertCloses, AlertInv
  <2>2. MoreSeen
    BY <1>1, <2>1 DEF AlertCloses, AlertInv, MoreSeen, Fingerprint
  <2> QED  BY <1>1, <2>2 DEF AlertCloses, AlertInv, MoreSeen, Fingerprint
<1>2. CASE AlertComes
  <2>1. world'.came = world.came + 1 /\ world'.gone = world.gone /\ world'.touched = world.touched
    BY <1>2 DEF AlertComes, AlertInv
  <2>2. MoreSeen
    BY <1>2, <2>1 DEF AlertComes, AlertInv, MoreSeen, Fingerprint
  <2> QED  BY <1>2, <2>2 DEF AlertComes, AlertInv, MoreSeen, Fingerprint
<1>3. CASE HandleBegin \/ Finalize
  <2>1. MoreSeen
    BY <1>3, StillSeen DEF HandleBegin, Finalize
  <2> QED  BY <1>3, <2>1 DEF HandleBegin, Finalize, AlertInv, MoreSeen, Fingerprint
<1>4. CASE Scan
  <2>1. CASE /\ UNCHANGED world
             /\ \E path \in Buttons : Became(HA, "scan",
                                             [call EXCEPT !.at = "scanPress", !.path = path])
    BY <2>1 DEF AlertInv, Fingerprint, Buttons, Shows, Top
  <2>2. CASE Pass(HA, "scan", "script")
    BY <2>2 DEF AlertInv, Fingerprint
  <2>3. ASSUME NEW to \in {"poll", "script"}, Act(HA, "scanPress", to, PressedAt(call.path))
        PROVE  AlertInv'
    <3>1. MoreSeen
      BY <2>3, PressSeen
    <3> QED  BY <2>3, <3>1 DEF AlertInv, MoreSeen
  <2> QED  BY <1>4, <2>1, <2>2, <2>3 DEF Scan
<1>5. CASE Poll
  <2>1. MoreSeen
    BY <1>5, StillSeen DEF Poll
  <2>2. CASE call.path \notin Buttons /\ Counts("poll", "ax-scan") /\ UNCHANGED world
    <3>1. /\ call'.tool = call.tool /\ call'.count = 1 /\ call'.strategy = "ax-scan"
          /\ DOMAIN call' = DOMAIN call /\ call'.at \in {"stack", "counted"}
      BY <2>2 DEF Counts, AlertInv
    <3>2. call.tool = HA /\ call.at = "poll"
      BY <2>2 DEF Counts
    <3>3. Fingerprint >= 1
      BY <2>2, <3>2, <2>1 DEF AlertInv, MoreSeen
    <3>4. Fingerprint' >= 1
      BY <3>3, <2>1 DEF MoreSeen
    <3>5. (call.tool = HA)' /\ call'.at # "begin"
      BY <3>1, <3>2
    <3> QED  BY <2>1, <3>1, <3>4, <3>5 DEF AlertInv, MoreSeen
  <2>3. CASE Pass(HA, "poll", "counted")
    <3>1. call'.tool = call.tool /\ call'.count = call.count /\ call'.strategy = call.strategy
          /\ DOMAIN call' = DOMAIN call /\ call'.at = "counted"
      BY <2>3 DEF AlertInv
    <3> QED  BY <2>1, <3>1 DEF AlertInv, MoreSeen
  <2> QED  BY <1>5, <2>2, <2>3 DEF Poll
<1>6. CASE Stack
  <2>1. CASE /\ UNCHANGED world
             /\ \E path \in Buttons :
                  Became(HA, "stack", [call EXCEPT !.at = "stackPress", !.path = path,
                                       !.round = @ + 1])
    BY <2>1 DEF AlertInv, Fingerprint, Buttons, Shows, Top
  <2>2. CASE Pass(HA, "stack", "counted") \/ Pass(HA, "stackPoll", "counted")
    BY <2>2 DEF AlertInv, Fingerprint
  <2>3. ASSUME NEW to \in {"stackPoll", "counted"}, Act(HA, "stackPress", to, PressedAt(call.path))
        PROVE  AlertInv'
    <3>1. MoreSeen
      BY <2>3, PressSeen
    <3> QED  BY <2>3, <3>1 DEF AlertInv, MoreSeen
  <2>4. CASE /\ call.path \notin Buttons /\ UNCHANGED world
             /\ Became(HA, "stackPoll", [call EXCEPT !.at = "stack", !.count = @ + 1])
    <3>1. MoreSeen
      BY <2>4, StillSeen
    <3> QED  BY <2>4, <3>1 DEF AlertInv, MoreSeen, Fingerprint
  <2> QED  BY <1>6, <2>1, <2>2, <2>3, <2>4 DEF Stack
<1>7. CASE Script \/ Keys \/ Reset
  <2>1. MoreSeen
    <3>1. CASE world' = [world EXCEPT !.closing = TRUE]
      BY <3>1 DEF AlertInv, MoreSeen, Buttons, Fingerprint, Shows, Top
    <3>2. CASE world' = [world EXCEPT !.reset = TRUE]
      BY <3>2 DEF AlertInv, MoreSeen, Buttons, Fingerprint, Shows, Top
    <3> QED  BY <1>7, <3>1, <3>2, StillSeen, KeySeen DEF Script, Keys, Reset
  <2>2. ASSUME NEW from \in {"script", "keys"},
      NEW how \in {"applescript-sheet", "keyboard-fallback"},
               Counts(from, how)
        PROVE  AlertInv'
    <3>1. /\ call'.tool = call.tool /\ call.tool = HA /\ call'.count = 1 /\ call'.strategy = how
          /\ DOMAIN call' = DOMAIN call /\ call'.at \in {"stack", "counted"}
      BY <2>2 DEF Counts, AlertInv
    <3> QED  BY <2>1, <3>1 DEF AlertInv, MoreSeen
  <2>3. ASSUME call'.tool = call.tool, call.tool = HA, call'.count = call.count,
      call'.strategy = call.strategy,
               call.at \in {"script", "keys", "fallback"}, DOMAIN call' = DOMAIN call,
               call'.at \in {"keys", "fallback", "end"}, call.at = "script" \/ call'.at # "keys"
        PROVE  AlertInv'
    BY <2>1, <2>3 DEF AlertInv, MoreSeen
  <2>4. CASE Script
    <3>1. CASE Counts("script", "applescript-sheet")
      BY <3>1, <2>2
    <3>2. CASE Pass(HA, "script", IF Opt("keys") THEN "keys" ELSE "fallback")
      <4>1. /\ call'.tool = call.tool /\ call.tool = HA /\ call'.count = call.count
            /\ call'.strategy = call.strategy /\ call.at = "script" /\ DOMAIN call' = DOMAIN call
            /\ call'.at \in {"keys", "fallback"}
        BY <3>2 DEF AlertInv
      <4> QED  BY <4>1, <2>3
    <3> QED  BY <2>4, <3>1, <3>2 DEF Script
  <2>5. CASE Keys
    <3>1. CASE Counts("keys", "keyboard-fallback")
      BY <3>1, <2>2
    <3>2. CASE Pass(HA, "keys", "fallback")
      <4>1. /\ call'.tool = call.tool /\ call.tool = HA /\ call'.count = call.count
            /\ call'.strategy = call.strategy /\ call.at = "keys" /\ DOMAIN call' = DOMAIN call
            /\ call'.at = "fallback"
        BY <3>2 DEF AlertInv
      <4> QED  BY <4>1, <2>3
    <3> QED  BY <2>5, <3>1, <3>2 DEF Keys
  <2>6. CASE Reset
    <3>1. /\ call'.tool = call.tool /\ call.tool = HA /\ call'.count = call.count
          /\ call'.strategy = call.strategy /\ call.at = "fallback" /\ DOMAIN call' = DOMAIN call
          /\ call'.at = "end"
      BY <2>6 DEF Reset, AlertInv
    <3> QED  BY <3>1, <2>3
  <2> QED  BY <1>7, <2>4, <2>5, <2>6
<1>8. CASE AlertHandle
  <2>1. MoreSeen
    BY <1>8, StillSeen, KeySeen, PressSeen DEF AlertHandle, PressBegin, PressButton, CheckButton,
        Escalate, PlainKey
  <2>2. /\ call.tool = AH /\ call'.tool = AH /\ call'.count = call.count
           /\ call'.strategy = call.strategy
        /\ DOMAIN call' = DOMAIN call
    BY <1>8 DEF AlertHandle, PressBegin, PressButton, CheckButton, Escalate, PlainKey, AlertInv
  <2> QED  BY <2>1, <2>2 DEF AlertInv, MoreSeen
<1> QED  BY <1>1, <1>2, <1>3, <1>4, <1>5, <1>6, <1>7, <1>8 DEF AlertNext, AlertStep, HandleAlert

----------------------------------------------------------------------------
(* Navigation. *)

\* A screen, as far as the claims need it.
NavScreen(w) ==
  /\ {"depth", "target", "alike", "overlay", "vm", "pops", "link", "drifts", "seen",
      "bare"} \subseteq DOMAIN w
  /\ w.overlay \in BOOLEAN /\ w.seen \in BOOLEAN /\ w.bare \in BOOLEAN

\* What shows has been noted.
Noted(w) ==
  /\ NavScreen(w)
  /\ w.depth = w.target => w.seen = TRUE
  /\ w.overlay = FALSE => w.bare = TRUE

\* app_goto_screen knows what it verifies.
Verifying == {"query", "route", "tap"}

\* The inductive invariant of the navigation tools.
NavInv ==
  /\ {"tool", "opts", "at", "out", "kinds", "phase", "met", "tried", "sent"} \subseteq DOMAIN call
  /\ Noted(world)
  /\ call.kinds \subseteq call.opts \cap {"ax", "route"}
  /\ call.at # "end" => call.out = "none"
  /\ call.tool = GS /\ call.at \in Verifying => call.phase \in {"already", "opened", "native"}
  /\ (/\ call.tool \in {PU, GS} /\ call.out \in {"ok", "already", "navigated"}
      /\ "route" \in call.kinds) => world.seen = TRUE
  /\ At(DO, "end") /\ call.out = "dismissed" /\ Opt("gone") => world.bare = TRUE

\* It says that what navigation claims is so.
LEMMA NavInvClaims == NavInv => NavClaimsAreTrue
BY DEF NavInv, NavClaimsAreTrue

\* What a look at the screen notes.
LEMMA SeesIs ==
  ASSUME NEW w, NavScreen(w)
  PROVE  /\ Noted(Sees(w))
         /\ w.seen = TRUE => Sees(w).seen = TRUE
         /\ w.bare = TRUE => Sees(w).bare = TRUE
<1> DEFINE a == w.seen \/ w.depth = w.target
           b == w.bare \/ ~w.overlay
<1>1. a \in BOOLEAN /\ b \in BOOLEAN /\ (w.depth = w.target => a = TRUE)
    /\ (w.overlay = FALSE => b = TRUE)
      /\ (w.seen = TRUE => a = TRUE) /\ (w.bare = TRUE => b = TRUE)
  BY DEF NavScreen
<1>2. Sees(w) = [w EXCEPT !.seen = a, !.bare = b]
  BY Zenon DEF Sees
<1> HIDE DEF a, b
<1>3. /\ DOMAIN Sees(w) = DOMAIN w /\ Sees(w).seen = a /\ Sees(w).bare = b
      /\ Sees(w).overlay = w.overlay /\ Sees(w).depth = w.depth /\ Sees(w).target = w.target
  BY <1>2 DEF NavScreen
<1> QED  BY <1>1, <1>3 DEF Noted, NavScreen

\* The screen after a step: what was seen stays seen.
Goes(w) ==
  /\ Noted(w)
  /\ world.seen = TRUE => w.seen = TRUE
  /\ world.bare = TRUE => w.bare = TRUE

\* A gesture leaves what was seen.
LEMMA GesturedGoes == ASSUME NavInv, world' \in Gestured PROVE Goes(world')
BY DEF NavInv, Gestured, Goes, Noted, NavScreen

\* So does leaving pages,
LEMMA PoppedGoes == ASSUME NavInv, NEW n PROVE Goes(Popped(world, n))
<1> DEFINE w == [world EXCEPT !.depth = IF world.depth > n THEN world.depth - n ELSE 0]
<1>1. NavScreen(w) /\ w.seen = world.seen /\ w.bare = world.bare
  BY DEF NavInv, Noted, NavScreen
<1>2. Popped(world, n) = Sees(w)
  BY Zenon DEF Popped
<1> QED  BY <1>1, <1>2, SeesIs DEF Goes

\* and a deep link that is opened or not.
LEMMA LinkGoes == ASSUME NavInv, NEW b \in BOOLEAN PROVE Goes([world EXCEPT !.link = b])
BY DEF NavInv, Goes, Noted, NavScreen

\* The app's own steps keep the invariant.
LEMMA NavTurnInv ==
  ASSUME NavInv, GestureLands \/ LinkOpens \/ NavDrifts PROVE NavInv'
<1>1. CASE GestureLands
  <2> DEFINE w == [world EXCEPT !.pops = @ - 1]
             v == [w EXCEPT !.overlay = FALSE]
             u == [w EXCEPT !.depth = IF w.depth > 1 THEN w.depth - 1 ELSE 0]
  <2>1. NavScreen(v) /\ v.seen = world.seen /\ v.bare = world.bare
    BY DEF NavInv, Noted, NavScreen
  <2>2. NavScreen(u) /\ u.seen = world.seen /\ u.bare = world.bare
    BY DEF NavInv, Noted, NavScreen
  <2>3. world' = Sees(v) \/ world' = Sees(u)
    BY <1>1 DEF GestureLands, Popped
  <2> HIDE DEF u, v
  <2>4. Goes(world')
    BY <2>1, <2>2, <2>3, SeesIs DEF Goes
  <2> QED  BY <1>1, <2>4 DEF GestureLands, NavInv, Goes, At, Opt
<1>2. CASE LinkOpens
  <2>1. PICK page \in Pages : world' = Sees([world EXCEPT !.depth = page, !.link = FALSE])
    BY <1>2 DEF LinkOpens
  <2> DEFINE v == [world EXCEPT !.depth = page, !.link = FALSE]
  <2>2. NavScreen(v) /\ v.seen = world.seen /\ v.bare = world.bare
    BY DEF NavInv, Noted, NavScreen
  <2> HIDE DEF v
  <2>4. Goes(world')
    BY <2>1, <2>2, SeesIs DEF Goes, v
  <2> QED  BY <1>2, <2>4 DEF LinkOpens, NavInv, Goes, At, Opt
<1>3. CASE NavDrifts
  <2>1. ASSUME NEW page \in Pages, world' = Sees([world EXCEPT !.depth = page, !.drifts = 1])
        PROVE  Goes(world')
    <3> DEFINE v == [world EXCEPT !.depth = page, !.drifts = 1]
    <3>2. NavScreen(v) /\ v.seen = world.seen /\ v.bare = world.bare
      BY DEF NavInv, Noted, NavScreen
    <3> QED  BY <2>1, <3>2, SeesIs DEF Goes
  <2>2. ASSUME world' = Sees([world EXCEPT !.overlay = ~@, !.drifts = 1])
        PROVE  Goes(world')
    <3> DEFINE b == ~world.overlay
               v == [world EXCEPT !.overlay = b, !.drifts = 1]
    <3>1. b \in BOOLEAN
      OBVIOUS
    <3>2. [world EXCEPT !.overlay = ~@, !.drifts = 1] = v
      BY Zenon
    <3> HIDE DEF b
    <3>3. NavScreen(v) /\ v.seen = world.seen /\ v.bare = world.bare
      BY <3>1 DEF NavInv, Noted, NavScreen
    <3> HIDE DEF v
    <3> QED  BY <2>2, <3>2, <3>3, SeesIs DEF Goes
  <2>3. ASSUME world' = [world EXCEPT !.vm = FALSE, !.drifts = 1]
        PROVE  Goes(world')
    BY <2>3 DEF NavInv, Goes, Noted, NavScreen
  <2>4. Goes(world')
    BY <1>3, <2>1, <2>2, <2>3 DEF NavDrifts
  <2> QED  BY <1>3, <2>4 DEF NavDrifts, NavInv, Goes, At, Opt
<1> QED  BY <1>1, <1>2, <1>3

\* A call that moves, ends without a claim, or ends with one that holds.
LEMMA NavMoveInv ==
  ASSUME NavInv, Goes(world'), NEW tool, NEW from, NEW to, Go(tool, from, to), to # "end",
      call.at # "end",
         tool = GS /\ to \in Verifying => call.at \in Verifying
  PROVE  NavInv'
BY DEF NavInv, Goes, Go, Became, At, Opt, Verifying

\* A call that answers what it has seen keeps it.
LEMMA NavEndInv ==
  ASSUME NavInv, Goes(world'), NEW tool, NEW from, NEW out, Answers(tool, from, out),
         out \in {"ok", "already", "navigated"} /\ tool \in {PU, GS}
             /\ "route" \in call.kinds => world'.seen = TRUE,
         out = "dismissed" /\ tool = DO /\ Opt("gone") => world'.bare = TRUE
  PROVE  NavInv'
BY DEF NavInv, Goes, Answers, Became, At, Opt, Verifying

\* What is not changed goes on.
LEMMA NavStays == ASSUME NavInv, UNCHANGED world PROVE Goes(world')
BY DEF NavInv, Goes

\* A call that throws keeps it.
LEMMA NavThrowsInv ==
  ASSUME NavInv, NEW tool, NEW labels, Throws(tool, labels) PROVE NavInv'
BY NavStays, NavEndInv DEF Throws, End

\* Whatever a call that goes on has changed of its locals.
LEMMA NavGoesOnInv ==
  ASSUME NavInv, Goes(world'), DOMAIN call' = DOMAIN call, call'.tool = call.tool,
      call'.opts = call.opts,
         call'.kinds \subseteq call.opts \cap {"ax", "route"}, call'.at # "end", call'.out = "none",
         call.tool = GS /\ call'.at \in Verifying => call'.phase \in {"already", "opened", "native"}
  PROVE  NavInv'
BY DEF NavInv, Goes, At, Opt

\* Every step of pop_until keeps it: it answers of the page it has looked at.
LEMMA PopUntilInv == ASSUME NavInv, PopUntil PROVE NavInv'
<1> USE DEF PU, DO, GS
<1>0. NavInv /\ (UNCHANGED world => Goes(world')) /\ (world' \in Gestured => Goes(world'))
  BY NavStays, GesturedGoes
<1>d. /\ {"tool", "opts", "at", "out", "kinds", "phase", "met", "tried",
          "sent"} \subseteq DOMAIN call
      /\ call.kinds \subseteq call.opts \cap {"ax", "route"}
      /\ call.at # "end" => call.out = "none"
      /\ call.tool = GS /\ call.at \in Verifying => call.phase \in {"already", "opened", "native"}
  BY DEF NavInv
<1>1. CASE PopBegin
  <2>1. CASE End(PU, "begin", "refused")
    BY <2>1, <1>0, NavEndInv DEF End
  <2>2. CASE Pass(PU, "begin", "evaluate")
    BY <2>2, <1>0, NavMoveInv DEF Pass, Go, Became, At, Verifying
  <2>3. CASE UNCHANGED world
      /\ Became(PU, "begin", [call EXCEPT !.at = "backend", !.kinds = NativePost])
    BY <2>3, <1>0, <1>d, NavGoesOnInv DEF Became, At, NativePost, Asked, Verifying
  <2> QED  BY <1>1, <2>1, <2>2, <2>3 DEF PopBegin
<1>2. CASE PopEvaluates
  <2>1. Goes(PopTarget)
    BY PoppedGoes DEF PopTarget
  <2>2. CASE Answers(PU, "evaluate", "error") /\ world' \in {world, PopTarget}
    BY <2>1, <2>2, <1>0, NavEndInv
  <2>3. CASE /\ world' = PopTarget
             /\ Became(PU, "evaluate",
                  [call EXCEPT !.at = IF Asked = {} THEN "popped" ELSE "verify", !.kinds = Asked])
    BY <2>1, <2>3, <1>d, NavGoesOnInv DEF Became, At, Asked, Verifying
  <2> QED  BY <1>2, <2>2, <2>3 DEF PopEvaluates
<1>3. CASE PopVerify
  <2>1. CASE Asked = {} /\ End(PU, "popped", "ok")
    BY <2>1, <1>0, <1>d, NavEndInv DEF End, Asked
  <2>2. CASE PopVerified /\ End(PU, "verify", "ok")
    BY <2>2, <1>0, <1>d, NavEndInv DEF End, PopVerified, RouteHolds, Goes, Noted
  <2>3. CASE End(PU, "verify", "unverified")
    BY <2>3, <1>0, NavEndInv DEF End
  <2> QED  BY <1>3, <2>1, <2>2, <2>3 DEF PopVerify
<1>4. CASE PopBackend
  BY <1>4, <1>0, NavEndInv, NavMoveInv DEF PopBackend, End, Pass, Go, Became, At, Verifying
<1>5. CASE PopBack
  <2>1. CASE \E at \in {"back", "escape"} : Sent(PU, at, "sent", Gestured)
    BY <2>1, <1>0, <1>d, NavGoesOnInv DEF Sent, Became, At, Verifying
  <2>2. CASE Act(PU, "back", "escape", Gestured)
    BY <2>2, <1>0, NavMoveInv DEF Act, Go, Became, At, Verifying
  <2>3. CASE \E at \in {"back", "escape"} : Pass(PU, at, "exhausted")
    BY <2>3, <1>0, NavMoveInv DEF Pass, Go, Became, At, Verifying
  <2> QED  BY <1>5, <2>1, <2>2, <2>3 DEF PopBack
<1>6. CASE PopNativeVerify
  <2>1. CASE PopVerified /\ End(PU, "sent", "ok")
    BY <2>1, <1>0, <1>d, NavEndInv DEF End, PopVerified, RouteHolds, Goes, Noted
  <2>2. CASE /\ Became(PU, "sent", [call EXCEPT !.tried = @ + 1,
                              !.at = IF call.tried + 1 < StepCap THEN "back" ELSE "exhausted"])
             /\ UNCHANGED world
    BY <2>2, <1>0, <1>d, NavGoesOnInv DEF Became, At, Verifying
  <2> QED  BY <1>6, <2>1, <2>2 DEF PopNativeVerify
<1>7. CASE PopExhausted
  <2> DEFINE out == IF Opt("count") /\ Asked = {} /\ call.sent >= CountAsked THEN "ok"
      ELSE "unverified"
  <2>1. End(PU, "exhausted", out) /\ (out = "ok" => Asked = {}) /\ out # "dismissed"
        /\ out \notin {"already", "navigated"}
    BY <1>7 DEF PopExhausted
  <2> HIDE DEF out
  <2> QED  BY <2>1, <1>0, <1>d, NavEndInv DEF End, Asked
<1> QED  BY <1>1, <1>2, <1>3, <1>4, <1>5, <1>6, <1>7, Zenon DEF PopUntil

\* Every step of goto_screen keeps it.
LEMMA GotoScreenInv == ASSUME NavInv, GotoScreen PROVE NavInv'
<1> USE DEF PU, DO, GS
<1>0. NavInv /\ (UNCHANGED world => Goes(world')) /\ Goes([world EXCEPT !.link = TRUE])
  BY NavStays, LinkGoes
<1>d. /\ {"tool", "opts", "at", "out", "kinds", "phase", "met", "tried",
          "sent"} \subseteq DOMAIN call
      /\ call.kinds \subseteq call.opts \cap {"ax", "route"}
      /\ call.at # "end" => call.out = "none"
      /\ call.tool = GS /\ call.at \in Verifying => call.phase \in {"already", "opened", "native"}
  BY DEF NavInv
<1>1. CASE GotoBegin
  <2>1. CASE End(GS, "begin", "refused")
    BY <2>1, <1>0, NavEndInv DEF End
  <2>2. CASE UNCHANGED world
             /\ Became(GS, "begin",
                       [call EXCEPT !.at = "query", !.phase = "already", !.kinds = Asked])
    BY <2>2, <1>0, <1>d, NavGoesOnInv DEF Became, At, Asked, Verifying
  <2> QED  BY <1>1, <2>1, <2>2 DEF GotoBegin
<1>2. CASE GotoQuery
  <2>1. UNCHANGED world /\ \E met : Became(GS, "query", [call EXCEPT !.at = "route", !.met = met])
    BY <1>2 DEF GotoQuery
  <2> QED  BY <2>1, <1>0, <1>d, NavGoesOnInv DEF Became, At, Verifying
<1>3. CASE GotoRoute
  <2>1. CASE \E out : End(GS, "route", out) /\ ("route" \in call.kinds => RouteHolds)
    <3>1. PICK out : End(GS, "route", out) /\ ("route" \in call.kinds => RouteHolds)
      BY <2>1
    <3> QED  BY <3>1, <1>0, <1>d, NavEndInv DEF End, RouteHolds, Goes, Noted
  <2>2. CASE Pass(GS, "route", GotoNext[call.phase])
    <3>1. call.phase \in {"already", "opened", "native"}
      BY <2>2, <1>d DEF Pass, Go, Became, At, Verifying
    <3>2. GotoNext[call.phase] \in {"link", "native"}
      BY <3>1 DEF GotoNext
    <3> QED  BY <2>2, <3>2, <1>0, NavMoveInv DEF Pass, Go, Became, At, Verifying
  <2>3. PICK route \in IF "route" \in call.kinds THEN May(RouteHolds) ELSE {TRUE} :
          IF PostMet(route) THEN End(GS, "route", GotoFound[call.phase])
          ELSE Pass(GS, "route", GotoNext[call.phase])
    BY <1>3 DEF GotoRoute
  <2>4. "route" \in call.kinds /\ PostMet(route) => RouteHolds
    BY <2>3 DEF May, PostMet
  <2> QED  BY <2>1, <2>2, <2>3, <2>4
<1>4. CASE GotoLink
  <2>1. CASE RouteHolds /\ End(GS, "link", "already")
    BY <2>1, <1>0, <1>d, NavEndInv DEF End, RouteHolds, Goes, Noted
  <2>2. CASE /\ Became(GS, "link", [call EXCEPT !.at = "query", !.phase = "opened", !.sent = @ + 1])
             /\ world' \in {world, [world EXCEPT !.link = TRUE]}
    BY <2>2, <1>0, <1>d, NavGoesOnInv DEF Became, At, Verifying
  <2>3. CASE Act(GS, "link", "native", {world, [world EXCEPT !.link = TRUE]})
    <3>1. Goes(world') /\ Go(GS, "link", "native")
      BY <2>3, <1>0 DEF Act
    <3> QED  BY <3>1, <1>0, NavMoveInv DEF Go, Became, At, Verifying
  <2> QED  BY <1>4, <2>1, <2>2, <2>3 DEF GotoLink
<1>5. CASE GotoNative
  <2>1. CASE End(GS, "native", "failed")
    BY <2>1, <1>0, NavEndInv DEF End
  <2>2. CASE /\ \E to \in {"query", "tap"} :
                  Became(GS, "native", [call EXCEPT !.at = to, !.phase = "native",
                                                    !.tried = @ + 1, !.sent = @ + 1])
             /\ world' \in {world, [world EXCEPT !.link = TRUE]}
    BY <2>2, <1>0, <1>d, NavGoesOnInv DEF Became, At, Verifying
  <2>3. CASE Became(GS, "native", [call EXCEPT !.tried = @ + 1]) /\ UNCHANGED world
    BY <2>3, <1>0, <1>d, NavGoesOnInv DEF Became, At, Verifying
  <2>4. CASE \E to \in {"query", "native"} : Act(GS, "tap", to,
                                                 {world, [world EXCEPT !.link = TRUE]})
    BY <2>4, <1>0, NavMoveInv DEF Act, Go, Became, At, Verifying
  <2>5. CASE Throws(GS, {"native"})
    BY <2>5, NavThrowsInv
  <2> QED  BY <1>5, <2>1, <2>2, <2>3, <2>4, <2>5 DEF GotoNative
<1> QED  BY <1>1, <1>2, <1>3, <1>4, <1>5 DEF GotoScreen

\* Every step of the tools that dismiss an overlay or the keyboard keeps it.
LEMMA DismissInv == ASSUME NavInv, DismissOverlay \/ DismissKeyboard PROVE NavInv'
<1> USE DEF PU, DO, GS, DK
<1>0. NavInv /\ (UNCHANGED world => Goes(world')) /\ (world' \in Gestured => Goes(world'))
  BY NavStays, GesturedGoes
<1>1. CASE OverlayBegin
  <2>1. CASE End(DO, "begin", "refused")
    BY <2>1, <1>0, NavEndInv DEF End
  <2>2. CASE Throws(DO, {"begin"})
    BY <2>2, NavThrowsInv
  <2>3. CASE Pass(DO, "begin", IF Opt("gesture") THEN "swipe" ELSE "escape")
    BY <2>3, <1>0, NavMoveInv DEF Pass, Go, Became, At, Verifying
  <2> QED  BY <1>1, <2>1, <2>2, <2>3 DEF OverlayBegin
<1>2. CASE OverlayGestures
  <2>1. ASSUME NEW from \in {"escape", "scrim", "swipe"}, NEW to \in {"scrim", "swipe", "sent"},
               Act(DO, from, to, Gestured)
        PROVE  NavInv'
    BY <2>1, <1>0, NavMoveInv DEF Act, Go, Became, At, Verifying
  <2> QED  BY <1>2, <2>1, NavThrowsInv DEF OverlayGestures
<1>3. CASE OverlayVerify
  <2>1. CASE (Opt("gone") => ~world.overlay) /\ End(DO, "sent", "dismissed")
    BY <2>1, <1>0, NavEndInv DEF End, NavInv, Noted, NavScreen, Goes
  <2>2. CASE End(DO, "sent", IF Opt("lenient") THEN "kept" ELSE "error")
    BY <2>2, <1>0, NavEndInv DEF End
  <2> QED  BY <1>3, <2>1, <2>2 DEF OverlayVerify
<1>4. CASE DismissKeyboard
  <2>1. CASE End(DK, "begin", "refused") \/ End(DK, "tap", "error")
    BY <2>1, <1>0, NavEndInv DEF End
  <2>2. CASE Throws(DK, {"begin"})
    BY <2>2, NavThrowsInv
  <2>3. CASE \E at \in {"begin", "tap"} : Answers(DK, at, "dismissed") /\ world' \in Gestured
    BY <2>3, <1>0, NavEndInv
  <2>4. CASE Act(DK, "begin", "tap", Gestured)
    BY <2>4, <1>0, NavMoveInv DEF Act, Go, Became, At, Verifying
  <2> QED  BY <1>4, <2>1, <2>2, <2>3, <2>4 DEF DismissKeyboard
<1> QED  BY <1>1, <1>2, <1>3, <1>4 DEF DismissOverlay

\* Every step of the navigation tools keeps it.
LEMMA NavStepInv == ASSUME NavInv, NavNext PROVE NavInv'
BY PopUntilInv, GotoScreenInv, DismissInv, NavTurnInv DEF NavNext, NavStep

\* The invariant holds at the start.
LEMMA NavInitInv == NavInit => NavInv
<1> SUFFICES ASSUME NavInit PROVE NavInv
  OBVIOUS
<1> DEFINE locals == [kinds |-> {}, phase |-> "none", met |-> FALSE, tried |-> 0, sent |-> 0]
<1>1. PICK t \in DOMAIN NavOptions : \E o \in SUBSET NavOptions[t] : call = NewCall(t, o, locals)
  BY DEF NavInit, ToolCalls
<1>2. PICK o \in SUBSET NavOptions[t] : call = NewCall(t, o, locals)
  BY <1>1
<1>3. call = [tool |-> t, opts |-> o, at |-> "begin", out |-> "none", kinds |-> {},
              phase |-> "none",
              met |-> FALSE, tried |-> 0, sent |-> 0]
  BY <1>2 DEF NewCall
<1> HIDE DEF locals
<1>4. PICK w \in [depth : Pages, target : Pages, alike : Pages, overlay : BOOLEAN, vm : BOOLEAN,
               pops : {0}, link : {FALSE}, drifts : {0}, seen : {FALSE},
                   bare : {FALSE}] : world = Sees(w)
  BY DEF NavInit
<1>5. NavScreen(w)
  BY DEF NavScreen
<1>6. Noted(world)
  BY <1>4, <1>5, SeesIs
<1> QED  BY <1>3, <1>6 DEF NavInv, At, Verifying

----------------------------------------------------------------------------
(* What is on the screen. *)

\* What there is has been noted.
ReadNoted(w) ==
  /\ {"front", "full", "asked", "there", "drifts", "seen", "fronted"} \subseteq DOMAIN w
  /\ w.there \in BOOLEAN /\ w.seen \in BOOLEAN /\ w.fronted \in BOOLEAN
  /\ w.there = TRUE => w.seen = TRUE
  /\ w.front = "app" => w.fronted = TRUE

\* With a bundle nothing is read before the app was in front.
Looking == {"read", "between", "relaxed", "requery"}

\* A call that reads the app's screen has the app in front.
ReadCall ==
  /\ call.then \in {"read", "dump", "requery"} /\ call.first \in BOOLEAN
  /\ Reading =>
    /\ call.at \notin {"begin", "end"} /\ call.then = "read" => ~Opt("bundle")
    /\ (call.then = "requery" \/ call.at \in Looking) /\ Opt("bundle") => world.fronted = TRUE
    /\ call.at = "begin" => call.first = FALSE
    /\ call.first = TRUE => call.gap = FALSE

\* The inductive invariant of the tools that read the screen.
ReadInv ==
  /\ {"tool", "opts", "at", "out", "active", "force", "then", "tries", "failed", "polls", "again",
      "first",
      "gap", "warned"} \subseteq DOMAIN call
  /\ ReadNoted(world)
  /\ call.at # "end" => call.out = "none"
  /\ ReadCall
  /\ Reading /\ call.out \in {"ok", "present", "found", "passed", "failed"} =>
       /\ Opt("bundle") => world.fronted = TRUE
       /\ call.out = "present" \/ (call.out \in {"found", "passed"} /\ ~Opt("gone"))
          => world.seen = TRUE
  /\ At("wait_for", "end") /\ call.out = "found" /\ Opt("stable") => call.gap = FALSE

\* It says that an element is there when found, and that a stable screen was seen stable.
LEMMA ReadInvClaims == ReadInv => PresenceIsTrue /\ StableWasObserved
BY DEF ReadInv, PresenceIsTrue, StableWasObserved

\* What the call notes of the screen when it reads it is so.
LEMMA NotesIs ==
  ASSUME NEW w, {"front", "full", "asked", "there", "drifts", "seen", "fronted"} \subseteq DOMAIN w,
         w.there \in BOOLEAN, w.seen \in BOOLEAN, w.fronted \in BOOLEAN
  PROVE  /\ ReadNoted(Notes(w))
         /\ w.seen = TRUE => Notes(w).seen = TRUE
         /\ w.fronted = TRUE => Notes(w).fronted = TRUE
<1> DEFINE a == w.seen \/ w.there
           b == w.fronted \/ w.front = "app"
<1>1. a \in BOOLEAN /\ b \in BOOLEAN /\ (w.there = TRUE => a = TRUE)
    /\ (w.front = "app" => b = TRUE)
      /\ (w.seen = TRUE => a = TRUE) /\ (w.fronted = TRUE => b = TRUE)
  OBVIOUS
<1>2. Notes(w) = [w EXCEPT !.seen = a, !.fronted = b]
  BY Zenon DEF Notes
<1> HIDE DEF a, b
<1>3. /\ DOMAIN Notes(w) = DOMAIN w /\ Notes(w).seen = a /\ Notes(w).fronted = b
      /\ Notes(w).front = w.front /\ Notes(w).there = w.there
  BY <1>2
<1> QED  BY <1>1, <1>3 DEF ReadNoted

\* What was seen stays seen.
ReadGoes(w) ==
  /\ ReadNoted(w)
  /\ world.seen = TRUE => w.seen = TRUE
  /\ world.fronted = TRUE => w.fronted = TRUE

\* Nothing that was seen is forgotten when nothing or only the asking changes,
LEMMA ReadStays == ASSUME ReadInv PROVE ReadGoes(world) /\ ReadGoes(Asks)
BY DEF ReadInv, ReadGoes, ReadNoted, Asks

\* nor when the screen is read.
LEMMA NotesGoes ==
  ASSUME ReadInv, NEW w, DOMAIN w = DOMAIN world, w.there \in BOOLEAN, w.seen = world.seen,
      w.fronted = world.fronted
  PROVE  ReadGoes(Notes(w))
BY NotesIs DEF ReadInv, ReadNoted, ReadGoes

\* The screen's own steps keep the invariant.
LEMMA ReadTurnInv ==
  ASSUME ReadInv, SemanticsComeUp \/ ReadDrift PROVE ReadInv'
<1>0. UNCHANGED call
  BY DEF SemanticsComeUp, ReadDrift
<1>1. CASE SemanticsComeUp
  <2>1. ReadGoes(world')
    BY <1>1 DEF SemanticsComeUp, ReadInv, ReadNoted, ReadGoes
  <2> QED  BY <1>0, <2>1 DEF ReadInv, ReadGoes, ReadCall, Reading, At, Opt
<1>2. CASE ReadDrift
  <2> DEFINE w == [world EXCEPT !.drifts = @ + 1]
             b == ~w.there
             v == [w EXCEPT !.there = b]
             u == [w EXCEPT !.front = "home"]
  <2>1. [w EXCEPT !.there = ~@] = v
    BY Zenon
  <2>2. world' \in {Notes([w EXCEPT !.there = ~@]), Notes(u), [w EXCEPT !.full = FALSE]}
    BY <1>2 DEF ReadDrift
  <2>2a. world' \in {Notes(v), Notes(u), [w EXCEPT !.full = FALSE]}
    BY <2>1, <2>2
  <2>3. b \in BOOLEAN
    OBVIOUS
  <2> HIDE DEF b
  <2>4. DOMAIN v = DOMAIN world /\ v.there \in BOOLEAN /\ v.seen = world.seen
      /\ v.fronted = world.fronted
    BY <2>3 DEF ReadInv, ReadNoted
  <2>5. DOMAIN u = DOMAIN world /\ u.there \in BOOLEAN /\ u.seen = world.seen
      /\ u.fronted = world.fronted
    BY DEF ReadInv, ReadNoted
  <2>6. ReadGoes([w EXCEPT !.full = FALSE])
    BY DEF ReadInv, ReadNoted, ReadGoes
  <2> HIDE DEF v, u, w
  <2>7. ReadGoes(world')
    BY <2>2a, <2>4, <2>5, <2>6, NotesGoes
  <2> QED  BY <1>0, <2>7 DEF ReadInv, ReadGoes, ReadCall, Reading, At, Opt
<1> QED  BY <1>1, <1>2

\* A call that goes on.
LEMMA ReadOnInv ==
  ASSUME ReadInv, ReadGoes(world'), DOMAIN call' = DOMAIN call, call'.tool = call.tool,
      call'.opts = call.opts,
         call'.at # "end", call'.out = "none", ReadCall'
  PROVE  ReadInv'
BY DEF ReadInv, ReadGoes, At, Opt, Reading

\* A call that goes on keeps it, when it starts to look only with its app in front.
LEMMA ReadMoveInv ==
  ASSUME ReadInv, ReadGoes(world'), NEW tool, NEW from, NEW to, Go(tool, from, to), from # "end",
         to \notin {"begin", "end"}, from # "begin" \/ ~Reading,
         to \notin Looking \/ from \in Looking \/ (Opt("bundle") => world.front = "app")
  PROVE  ReadInv'
<1>1. ReadCall'
  BY DEF ReadInv, ReadGoes, ReadNoted, ReadCall, Reading, Go, Became, At, Opt
<1> QED  BY <1>1, ReadOnInv DEF ReadInv, Go, Became, At

\* A call that ends: what it claims was seen, or it claims nothing.
ReadEarned(from, out) ==
  /\ from # "end"
  /\ Reading /\ out \in {"ok", "present", "found", "passed", "failed"} =>
       /\ from \in Looking
       /\ out = "present" \/ (out \in {"found", "passed"} /\ ~Opt("gone")) => world.there = TRUE
  /\ call.tool = "wait_for" /\ out = "found" /\ Opt("stable") => call.gap = FALSE

\* A call that ends with what it earned keeps it,
LEMMA ReadClosedInv ==
  ASSUME ReadInv, NEW from, NEW out, ReadEarned(from, out), UNCHANGED world,
         DOMAIN call' = DOMAIN call, call'.tool = call.tool, call'.opts = call.opts,
         call.at = from, call'.at = "end", call'.out = out, call'.then = call.then,
         call'.first = call.first, call'.gap = call.gap
  PROVE  ReadInv'
<1>1. Looking \cap {"end"} = {}
  BY DEF Looking
<1> QED  BY <1>1 DEF ReadInv, ReadEarned, ReadNoted, ReadCall, Reading, At, Opt, Looking

\* as an answer,
LEMMA ReadEndInv ==
  ASSUME ReadInv, NEW tool, NEW from, NEW out, End(tool, from, out), ReadEarned(from, out)
  PROVE  ReadInv'
BY ReadClosedInv DEF End, Answers, Became, At, ReadInv

\* or as an answer with a warning.
LEMMA ReadTellsInv ==
  ASSUME ReadInv, NEW tool, NEW from, NEW out, NEW warned, Tells(tool, from, out, warned),
      ReadEarned(from, out)
  PROVE  ReadInv'
BY ReadClosedInv DEF Tells, Became, At, ReadInv

\* A call that throws keeps it.
LEMMA ReadThrowsInv ==
  ASSUME ReadInv, NEW tool, NEW labels, Throws(tool, labels), "end" \notin labels PROVE ReadInv'
<1>1. PICK at \in labels : End(tool, at, "error")
  BY DEF Throws
<1> QED  BY <1>1, ReadEndInv DEF ReadEarned

\* The steps of reading, one by one: the start,
LEMMA ReadBeginInv == ASSUME ReadInv, ReadBegin PROVE ReadInv'
<1>1. CASE End(call.tool, "begin", "refused")
  BY <1>1, ReadEndInv DEF ReadEarned
<1>2. CASE /\ UNCHANGED world
           /\ Became(call.tool, "begin",
             [call EXCEPT !.at = IF Opt("bundle") THEN "launch" ELSE "activate",
                !.then = IF Opt("bundle") \/ call.tool = "tree" THEN "dump" ELSE "read"])
  <2>1. call.at = "begin" /\ call'.tool = call.tool /\ call'.opts = call.opts
      /\ call'.first = call.first
        /\ call'.out = call.out /\ DOMAIN call' = DOMAIN call
        /\ call'.at \in {"launch", "activate"} /\ call'.then \in {"dump", "read"}
        /\ (Opt("bundle") => call'.then = "dump")
    BY <1>2 DEF Became, At, ReadInv
  <2>2. ReadCall'
    BY <2>1 DEF ReadCall, ReadInv, Reading, Opt, Looking
  <2> QED  BY <1>2, <2>1, <2>2, ReadStays, ReadOnInv DEF ReadInv
<1> QED  BY <1>1, <1>2 DEF ReadBegin

\* the app that is brought to the front,
LEMMA ActivateAppInv == ASSUME ReadInv, ActivateApp PROVE ReadInv'
<1>1. CASE /\ Go(call.tool, "launch", "activate")
           /\ \E front \in {world.front, "app"} : world' = Notes([world EXCEPT !.front = front])
  <2>1. PICK front \in {world.front, "app"} : world' = Notes([world EXCEPT !.front = front])
    BY <1>1
  <2> DEFINE w == [world EXCEPT !.front = front]
  <2>2. DOMAIN w = DOMAIN world /\ w.there \in BOOLEAN /\ w.seen = world.seen
      /\ w.fronted = world.fronted
    BY DEF ReadInv, ReadNoted
  <2> HIDE DEF w
  <2>3. ReadGoes(world')
    BY <2>1, <2>2, NotesGoes DEF w
  <2> QED  BY <1>1, <2>3, ReadMoveInv DEF Looking
<1> QED  BY <1>1, ReadThrowsInv DEF ActivateApp

\* one way to turn the semantics on,
LEMMA EnsuresToInv ==
  ASSUME ReadInv, NEW from \in {"activate", "simctl", "service"}, NEW active,
      EnsuresTo(from, active), UNCHANGED world
  PROVE  ReadInv'
<1> DEFINE failed == call.failed \/ (call.force /\ ~active)
           now == IF call.force THEN call.active ELSE active
<1>1. Became(call.tool, from, [call EXCEPT !.at = call.then, !.failed = failed, !.active = now])
  BY DEF EnsuresTo
<1> HIDE DEF failed, now
<1>2. call.at = from /\ call'.tool = call.tool /\ call'.opts = call.opts /\ call'.out = call.out
      /\ call'.then = call.then /\ call'.at = call.then /\ DOMAIN call' = DOMAIN call
      /\ call'.first = call.first /\ call'.gap = call.gap
  BY <1>1 DEF Became, At, ReadInv
<1>3. ReadCall'
  BY <1>2 DEF ReadInv, ReadCall, Reading, Opt, Looking
<1> QED  BY <1>2, <1>3, ReadStays, ReadOnInv DEF ReadInv, ReadCall

\* all of them,
LEMMA EnsureSemanticsActiveInv == ASSUME ReadInv, EnsureSemanticsActive PROVE ReadInv'
<1>1. ASSUME NEW from \in {"activate", "simctl", "service"}, NEW active, EnsuresTo(from, active)
    /\ UNCHANGED world
      PROVE  ReadInv'
  BY <1>1, EnsuresToInv
<1>2. ASSUME NEW from \in {"activate", "simctl"}, NEW to \in {"simctl", "service"},
             Act(call.tool, from, to, {world, Asks})
      PROVE  ReadInv'
  <2>1. ReadGoes(world') /\ Go(call.tool, from, to)
    BY <1>2, ReadStays DEF Act
  <2> QED  BY <2>1, ReadMoveInv DEF Looking
<1> QED  BY <1>1, <1>2 DEF EnsureSemanticsActive

\* a step that looks at nothing,
LEMMA ReadStepsInv ==
  ASSUME ReadInv, NEW tool, NEW from, NEW to, Pass(tool, from, to), from # "end",
      to \notin {"begin", "end"},
         from # "begin" \/ ~Reading,
         to \notin Looking \/ from \in Looking \/ (Opt("bundle") => world.front = "app")
  PROVE  ReadInv'
BY ReadStays, ReadMoveInv DEF Pass

\* and the dump with its recovery.
LEMMA DumpTreeWithRecoveryInv ==
  ASSUME ReadInv, DumpTreeWithRecovery \/ EnsureTargetAppContext PROVE ReadInv'
<1>0. ReadGoes(world) /\ ReadInv
  BY ReadStays
<1>1. CASE Step("dump", "dumped")
  BY <1>1, ReadStepsInv DEF Step, Looking
<1>2. CASE /\ UNCHANGED world
           /\ Became(call.tool, "dump",
                     [call EXCEPT !.at = "activate", !.force = TRUE, !.tries = @ + 1])
  <2>1. call.at = "dump" /\ call'.tool = call.tool /\ call'.opts = call.opts /\ call'.out = call.out
        /\ call'.then = call.then /\ call'.at = "activate" /\ DOMAIN call' = DOMAIN call
        /\ call'.first = call.first /\ call'.gap = call.gap
    BY <1>2 DEF Became, At, ReadInv
  <2>2. ReadCall'
    BY <1>0, <1>2, <2>1 DEF ReadInv, ReadCall, Reading, Opt, Looking
  <2> QED  BY <1>0, <1>2, <2>1, <2>2, ReadOnInv DEF ReadInv
<1>3. CASE \E out \in {"inactive", "error"} : End(call.tool, "dump", out)
  BY <1>3, ReadEndInv DEF ReadEarned
<1>4. CASE Throws(call.tool, {"dump"})
  BY <1>4, ReadThrowsInv
<1>5. CASE (Opt("bundle") => world.front = "app") /\ Step("dumped", "read")
  BY <1>5, ReadStepsInv DEF Step
<1>6. CASE /\ UNCHANGED world
           /\ Became(call.tool, "dumped",
                [call EXCEPT !.at = "launch", !.again = TRUE, !.tries = 0, !.force = FALSE])
  <2>1. call.at = "dumped" /\ call'.tool = call.tool /\ call'.opts = call.opts
      /\ call'.out = call.out
        /\ call'.then = call.then /\ call'.at = "launch" /\ DOMAIN call' = DOMAIN call
        /\ call'.first = call.first /\ call'.gap = call.gap
    BY <1>6 DEF Became, At, ReadInv
  <2>2. ReadCall'
    BY <1>0, <1>6, <2>1 DEF ReadInv, ReadCall, Reading, Opt, Looking
  <2> QED  BY <1>0, <1>6, <2>1, <2>2, ReadOnInv DEF ReadInv
<1>7. CASE End(call.tool, "dumped", "refused")
  BY <1>7, ReadEndInv DEF ReadEarned
<1> QED  BY <1>1, <1>2, <1>3, <1>4, <1>5, <1>6, <1>7 DEF DumpTreeWithRecovery,
    EnsureTargetAppContext

\* Every step of app_query keeps the invariant.
LEMMA AppQueryInv == ASSUME ReadInv, AppQuery PROVE ReadInv'
<1>0. ReadGoes(world) /\ ReadInv
  BY ReadStays
<1>1. ASSUME NEW at \in {"read", "requery", "relaxed"}, Found, Tells("query", at, "present", FALSE)
      PROVE  ReadInv'
  BY <1>1, ReadTellsInv DEF ReadEarned, Looking, Found, ReadInv, ReadNoted
<1>2. CASE /\ UNCHANGED world
           /\ Became("query", "read",
                     [call EXCEPT !.at = "simctl", !.force = TRUE, !.then = "requery"])
  <2>1. call.at = "read" /\ call.tool = "query" /\ call'.tool = call.tool /\ call'.opts = call.opts
        /\ call'.out = call.out /\ call'.then = "requery" /\ call'.at = "simctl"
           /\ DOMAIN call' = DOMAIN call
        /\ call'.first = call.first /\ call'.gap = call.gap
    BY <1>2 DEF Became, At, ReadInv
  <2>2. ReadCall'
    BY <1>0, <1>2, <2>1 DEF ReadInv, ReadCall, Reading, Opt, Looking
  <2> QED  BY <1>0, <1>2, <2>1, <2>2, ReadOnInv DEF ReadInv
<1>3. CASE Step("requery", "relaxed")
  BY <1>3, ReadStepsInv DEF Step, Looking
<1>4. CASE Tells("query", "relaxed", "absent", Unheard)
  BY <1>4, ReadTellsInv DEF ReadEarned
<1>5. CASE Throws("query", {"read", "requery"})
  BY <1>5, ReadThrowsInv
<1> QED  BY <1>1, <1>2, <1>3, <1>4, <1>5 DEF AppQuery

\* A condition that holds, and is not that the element is gone, has the element there.
LEMMA ConditionIs == ASSUME ReadInv, Condition, ~Opt("gone") PROVE world.there = TRUE
BY DEF Condition, Found, ReadInv, ReadNoted

\* Every step of app_wait_for keeps it.
LEMMA AppWaitForInv == ASSUME ReadInv, AppWaitFor PROVE ReadInv'
<1>0. ReadGoes(world) /\ ReadInv
  BY ReadStays
<1>1. CASE Condition /\ (Opt("stable") => call.first) /\ Tells("wait_for", "read", "found", FALSE)
  <2>1. Opt("stable") => call.first = TRUE
    BY <1>1 DEF ReadInv, ReadCall
  <2>2. ReadEarned("read", "found")
    BY <1>1, <2>1, ConditionIs DEF ReadEarned, Looking, ReadInv, ReadCall, Reading, Tells, Became,
        At
  <2> QED  BY <1>1, <2>2, ReadTellsInv
<1>2. ASSUME NEW first \in BOOLEAN, NEW gap \in BOOLEAN, first = TRUE => gap = FALSE,
             Polled([call EXCEPT !.first = first, !.gap = gap])
      PROVE  ReadInv'
  <2>1. call' = [call EXCEPT !.first = first, !.gap = gap, !.at = "between", !.polls = @ + 1]
        /\ UNCHANGED world /\ call.tool = "wait_for" /\ call.at = "read"
    BY <1>2 DEF Polled, Became, At
  <2>2. call'.tool = call.tool /\ call'.opts = call.opts
        /\ call'.out = call.out /\ call'.then = call.then /\ call'.at = "between"
           /\ DOMAIN call' = DOMAIN call
        /\ call'.first = first /\ call'.gap = gap
    BY <2>1 DEF ReadInv
  <2>3. ReadCall'
    BY <1>0, <1>2, <2>1, <2>2 DEF ReadInv, ReadCall, Reading, Opt, Looking
  <2> QED  BY <1>0, <2>1, <2>2, <2>3, ReadOnInv DEF ReadInv
<1>3. CASE WaitForPoll
  BY <1>1, <1>2, <1>3 DEF WaitForPoll
<1>4. CASE Step("between", "read")
  BY <1>4, ReadStepsInv DEF Step, Looking
<1>5. CASE /\ Go("wait_for", "between", "read")
           /\ \E there \in {world.there, TRUE} : world' = Notes([world EXCEPT !.there = there])
  <2>1. PICK there \in {world.there, TRUE} : world' = Notes([world EXCEPT !.there = there])
    BY <1>5
  <2> DEFINE w == [world EXCEPT !.there = there]
  <2>2. DOMAIN w = DOMAIN world /\ w.there \in BOOLEAN /\ w.seen = world.seen
      /\ w.fronted = world.fronted
    BY DEF ReadInv, ReadNoted
  <2> HIDE DEF w
  <2>3. ReadGoes(world')
    BY <2>1, <2>2, NotesGoes DEF w
  <2> QED  BY <1>5, <2>3, ReadMoveInv DEF Looking
<1>6. CASE \E at \in {"between", "read"} : Tells("wait_for", at, "timeout", Unheard)
  BY <1>6, ReadTellsInv DEF ReadEarned
<1> QED  BY <1>3, <1>4, <1>5, <1>6 DEF AppWaitFor

\* Every step of the other tools that read keeps it.
LEMMA OtherReadersInv ==
  ASSUME ReadInv, AppTree \/ AppInspect \/ AppAssertElement \/ AppContext \/ AppStateSnapshot
      \/ AppAssert
  PROVE  ReadInv'
<1> USE DEF ReadEarned, Looking
<1>1. CASE AppTree \/ AppInspect
  BY <1>1, ReadEndInv, ReadThrowsInv DEF AppTree, AppInspect
<1>2. CASE AppAssertElement
  <2>1. CASE Condition /\ Tells("assert_element", "read", "passed", FALSE)
    BY <2>1, ReadTellsInv, ConditionIs
  <2>2. CASE Tells("assert_element", "read", "failed", Unheard /\ ~Found)
    BY <2>2, ReadTellsInv
  <2> QED  BY <1>2, <2>1, <2>2, ReadThrowsInv DEF AppAssertElement
<1>3. CASE AppContext
  <2>1. CASE Throws("context", {"begin"})
    BY <2>1, ReadThrowsInv
  <2>2. ASSUME NEW out \in {"refused", "failed", "ok"}, End("context", "begin", out)
        PROVE  ReadInv'
    BY <2>2, ReadEndInv DEF Reading, End, Answers, Became, At
  <2>3. CASE \E match \in BOOLEAN : End("context", "begin",
               IF {"expected", "required"} \subseteq call.opts /\ ~match THEN "failed" ELSE "ok")
    <3>1. PICK match \in BOOLEAN : End("context", "begin",
               IF {"expected", "required"} \subseteq call.opts /\ ~match THEN "failed" ELSE "ok")
      BY <2>3
    <3>2. CASE {"expected", "required"} \subseteq call.opts /\ ~match
      BY <3>1, <3>2, <2>2
    <3>3. CASE ~({"expected", "required"} \subseteq call.opts /\ ~match)
      <4>1. End("context", "begin", "ok")
        BY <3>1, <3>3
      <4> QED  BY <4>1, <2>2
    <3> QED  BY <3>2, <3>3
  <2> QED  BY <1>3, <2>1, <2>2, <2>3 DEF AppContext
<1>4. CASE AppStateSnapshot
  <2>1. CASE call.tool = "state"
      /\ \E from \in {"begin", "route"}, to \in {"route", "snapshot"} : Step(from, to)
    BY <2>1, ReadStepsInv DEF Step, Reading
  <2>2. CASE End("state", "snapshot", "ok")
    BY <2>2, ReadEndInv DEF Reading, End, Answers, Became, At
  <2>3. CASE Throws("state", {"begin"})
    BY <2>3, ReadThrowsInv
  <2> QED  BY <1>4, <2>1, <2>2, <2>3 DEF AppStateSnapshot
<1>5. CASE AppAssert
  <2>1. PICK out \in {"passed", "failed", "refused"} : End("assert", "begin", out)
    BY <1>5 DEF AppAssert
  <2> QED  BY <2>1, ReadEndInv DEF Reading, End, Answers, Became, At
<1> QED  BY <1>1, <1>2, <1>3, <1>4, <1>5

\* Every step of the tools that read the screen keeps it.
LEMMA ReadStepInv == ASSUME ReadInv, ReadNext PROVE ReadInv'
BY ReadBeginInv, ActivateAppInv, EnsureSemanticsActiveInv, DumpTreeWithRecoveryInv, AppQueryInv,
    AppWaitForInv,
   OtherReadersInv, ReadTurnInv DEF ReadNext, ReadStep

\* The invariant holds at the start.
LEMMA ReadInitInv == ReadInit => ReadInv
<1> SUFFICES ASSUME ReadInit PROVE ReadInv
  OBVIOUS
<1> DEFINE locals == [active |-> TRUE, force |-> FALSE, then |-> "read", tries |-> 0,
                      failed |-> FALSE,
        polls |-> 0, again |-> FALSE, first |-> FALSE, gap |-> FALSE, warned |-> FALSE]
<1>1. PICK t \in DOMAIN ReadOptions : \E o \in SUBSET ReadOptions[t] : call = NewCall(t, o, locals)
  BY DEF ReadInit, ToolCalls
<1>2. PICK o \in SUBSET ReadOptions[t] : call = NewCall(t, o, locals)
  BY <1>1
<1>3. call = [tool |-> t, opts |-> o, at |-> "begin", out |-> "none", active |-> TRUE,
              force |-> FALSE,
              then |-> "read", tries |-> 0, failed |-> FALSE, polls |-> 0, again |-> FALSE,
                  first |-> FALSE,
              gap |-> FALSE, warned |-> FALSE]
  BY <1>2 DEF NewCall
<1> HIDE DEF locals
<1>4. PICK w \in [front : {"app", "home"}, full : BOOLEAN, asked : {FALSE}, there : BOOLEAN,
               drifts : {0}, seen : {FALSE}, fronted : {FALSE}] : world = Notes(w)
  BY DEF ReadInit
<1>5. {"front", "full", "asked", "there", "drifts", "seen", "fronted"} \subseteq DOMAIN w
      /\ w.there \in BOOLEAN /\ w.seen \in BOOLEAN /\ w.fronted \in BOOLEAN
  OBVIOUS
<1>6. ReadNoted(world)
  BY <1>4, <1>5, NotesIs
<1> QED  BY <1>3, <1>6 DEF ReadInv, ReadCall, Looking, At

----------------------------------------------------------------------------
(* Settings and typing. *)

\* The inductive invariant of the settings and typing tools.
SettingInv ==
  /\ {"tool", "opts", "at", "out", "read", "kept", "left", "tries", "told"} \subseteq DOMAIN call
  /\ {"dark", "wide", "paint", "board", "was", "field", "paste", "up",
      "copied"} \subseteq DOMAIN world
  /\ world.dark \in BOOLEAN /\ world.was.dark \in BOOLEAN
     /\ world.paint \subseteq {"size", "baseline"}
  /\ call.at # "end" => call.out = "none"
  /\ call.at \in {"light", "lit", "dark", "dim", "restore", "undo"} => call.tool = DM
  \* the appearance
  /\ call.tool = DM =>
       /\ call.at = "begin" => call.kept = FALSE /\ world.dark = world.was.dark
       /\ call.kept = TRUE => call.read = IF world.was.dark = TRUE THEN "dark" ELSE "light"
       /\ call.at \in {"judge", "failed", "end"} /\ call.kept = TRUE /\ call.left = FALSE =>
            (world.dark = TRUE <=> call.read = "dark")
       /\ call.left = FALSE \/ call.left = TRUE
       /\ call.kept = FALSE \/ call.kept = TRUE
  \* the clipboard
  /\ call.tool = TY => call.read # "text"
  /\ call.tool = TY /\ call.at \in {"begin", "query", "focus", "borrow", "write"}
     => world.board # "text"
  /\ call.told = "restored" =>
       call.tool = TY /\ call.at \in {"check", "settle", "end"} /\ world.board # "text"
  \* the keyboard and the orientation
  /\ call.tool # KO => world.up = FALSE
  /\ world.up = FALSE \/ call.at \notin {"begin", "field"}
  /\ call.out \in {"passed", "failed"} => world.up = FALSE
  /\ call.tool = OR /\ (call.at = "judge" \/ call.out \in {"passed", "failed"})
     => world.wide = FALSE
  \* the overlays
  /\ call.tool = "debug_paint" /\ Opt("all_off") /\ call.out = "ok" => world.paint = {}

\* It says that what is said to be given back is.
LEMMA SettingInvUndone == SettingInv => BorrowedIsReturned
BY DEF SettingInv, BorrowedIsReturned, Ended, TY, DM

\* The invariant holds at the start.
LEMMA SettingInitInv == SettingInit => SettingInv
<1> SUFFICES ASSUME SettingInit PROVE SettingInv
  OBVIOUS
<1> DEFINE locals == [read |-> "none", kept |-> FALSE, left |-> FALSE, tries |-> 0, told |-> "none"]
<1>1. PICK t \in DOMAIN SettingOptions : \E o \in SUBSET SettingOptions[t] : call = NewCall(t, o,
    locals)
  BY DEF SettingInit, ToolCalls
<1>2. PICK o \in SUBSET SettingOptions[t] : call = NewCall(t, o, locals)
  BY <1>1
<1>3. call = [tool |-> t, opts |-> o, at |-> "begin", out |-> "none", read |-> "none",
              kept |-> FALSE, left |-> FALSE, tries |-> 0, told |-> "none"]
  BY <1>2 DEF NewCall
<1>4. PICK dark \in BOOLEAN, wide \in BOOLEAN, paint \in SUBSET {"size", "baseline"},
    board \in {"user", "none"} :
       world = [dark |-> dark, wide |-> wide, paint |-> paint, board |-> board,
                   was |-> [dark |-> dark, wide |-> wide], field |-> {}, paste |-> FALSE,
                   up |-> FALSE, mock |-> FALSE, copied |-> FALSE]
  BY DEF SettingInit
<1> HIDE DEF locals
<1> QED  BY <1>3, <1>4 DEF SettingInv, DM, TY, KO, OR

\* The appearance that is read, and whether it is the one there is.
AppearanceRead(read) ==
  call' = [call EXCEPT !.at = "light", !.read = IF read THEN "dark"
           ELSE "light", !.kept = read = world.dark]

\* What reading the appearance makes of the call, case by case.
LEMMA DarkReads ==
  ASSUME world.dark \in BOOLEAN, \E read \in {world.dark, FALSE} : AppearanceRead(read)
  PROVE  \/ call' = [call EXCEPT !.at = "light", !.read = "dark", !.kept = TRUE]
            /\ world.dark = TRUE
         \/ call' = [call EXCEPT !.at = "light", !.read = "light", !.kept = TRUE]
            /\ world.dark = FALSE
         \/ call' = [call EXCEPT !.at = "light", !.read = "light", !.kept = FALSE]
<1>1. PICK read \in {world.dark, FALSE} : AppearanceRead(read)
  OBVIOUS
<1>2. CASE world.dark = FALSE
  <2>1. (read = world.dark) = TRUE
    BY <1>2
  <2> QED  BY <1>1, <1>2, <2>1 DEF AppearanceRead
<1>3. CASE world.dark = TRUE
  <2>1. read = TRUE \/ read = FALSE
    BY <1>3
  <2>2. (read = TRUE => (read = world.dark) = TRUE) /\ (read = FALSE => (read = world.dark) = FALSE)
    BY <1>3
  <2> QED  BY <1>1, <1>3, <2>1, <2>2 DEF AppearanceRead
<1> QED  BY <1>2, <1>3

\* What writing it back makes of the device.
LEMMA DarkWrites ==
  ASSUME world' = Dark(call.read = "dark")
  PROVE  \/ call.read = "dark" /\ world' = [world EXCEPT !.dark = TRUE]
         \/ call.read # "dark" /\ world' = [world EXCEPT !.dark = FALSE]
BY DEF Dark

\* The start of a comparison of both appearances keeps the invariant.
LEMMA DarkBeginInv ==
  ASSUME SettingInv, DarkBegin PROVE SettingInv'
<1>1. CASE End(DM, "begin", "error")
  BY <1>1 DEF SettingInv, End, Answers, Became, At, DM, OR, KO, TY, Opt
<1>2. CASE /\ UNCHANGED world /\ At(DM, "begin")
           /\ \E read \in {world.dark, FALSE} : AppearanceRead(read)
  <2>1. \/ call' = [call EXCEPT !.at = "light", !.read = "dark", !.kept = TRUE] /\ world.dark = TRUE
        \/ call' = [call EXCEPT !.at = "light", !.read = "light", !.kept = TRUE]
           /\ world.dark = FALSE
        \/ call' = [call EXCEPT !.at = "light", !.read = "light", !.kept = FALSE]
    BY <1>2, DarkReads DEF SettingInv
  <2>2. world.dark = world.was.dark
    BY <1>2 DEF SettingInv, At
  <2> QED  BY <1>2, <2>1, <2>2, ZenonT(40) DEF SettingInv, At, DM, OR, KO, TY, Opt
<1> QED  BY <1>1, <1>2 DEF DarkBegin, Became, AppearanceRead

\* Its end, which writes back what was read, keeps it.
LEMMA DarkRestoreInv ==
  ASSUME SettingInv, call.tool = DM, DarkRestore PROVE SettingInv'
<1>1. CASE Sets("restore", "judge", Dark(call.read = "dark"))
  <2>1. world' = Dark(call.read = "dark")
    BY <1>1 DEF Sets, Act
  <2>2. \/ call.read = "dark" /\ world' = [world EXCEPT !.dark = TRUE]
        \/ call.read # "dark" /\ world' = [world EXCEPT !.dark = FALSE]
    BY <2>1, DarkWrites
  <2> QED  BY <1>1, <2>2 DEF SettingInv, Sets, Act, Go, Became, At, DM, OR, KO, TY, Opt
<1>2. CASE \/ Fails("restore", "undo", Dark(call.read = "dark"))
           \/ Sets("undo", "failed", Dark(call.read = "dark"))
           \/ /\ Became(DM, "undo", [call EXCEPT !.at = "failed", !.left = TRUE])
              /\ world' \in {world, Dark(call.read = "dark")}
  <2>1. world' \in {world, Dark(call.read = "dark")}
    BY <1>2 DEF Fails, Sets, Act
  <2>2. \/ world' = world
        \/ call.read = "dark" /\ world' = [world EXCEPT !.dark = TRUE]
        \/ call.read # "dark" /\ world' = [world EXCEPT !.dark = FALSE]
    BY <2>1, DarkWrites
  <2>3. CASE Fails("restore", "undo", Dark(call.read = "dark"))
    BY <2>2, <2>3 DEF SettingInv, Fails, Act, Go, Became, At, DM, OR, KO, TY, Opt
  <2>4. CASE Sets("undo", "failed", Dark(call.read = "dark"))
    <3>1. world' = Dark(call.read = "dark")
      BY <2>4 DEF Sets, Act
    <3>2. \/ call.read = "dark" /\ world' = [world EXCEPT !.dark = TRUE]
          \/ call.read # "dark" /\ world' = [world EXCEPT !.dark = FALSE]
      BY <3>1, DarkWrites
    <3> QED  BY <2>4, <3>2 DEF SettingInv, Sets, Act, Go, Became, At, DM, OR, KO, TY, Opt
  <2>5. CASE Became(DM, "undo", [call EXCEPT !.at = "failed", !.left = TRUE])
    BY <2>2, <2>5 DEF SettingInv, Became, At, DM, OR, KO, TY, Opt
  <2> QED  BY <1>2, <2>3, <2>4, <2>5
<1> QED  BY <1>1, <1>2 DEF DarkRestore

\* Every step of the settings and typing tools keeps it.
LEMMA SettingStepInv ==
  ASSUME SettingInv, SettingNext PROVE SettingInv'
<1> USE DEF SettingInv, Became, At, Go, Pass, Answers, End, Throws, Act, Sets, Fails, Dark, Wide,
    DM, OR, KO, TY, Opt
<1>1. CASE QaDarkMode
  <2>1. CASE DarkBegin
    BY <2>1, DarkBeginInv
  <2>2. CASE DarkLook("light", FALSE, "lit", "dark") \/ DarkLook("dark", TRUE, "dim", "restore")
    <3>1. CASE Pass(DM, "lit", "dark") \/ Pass(DM, "dim", "restore") \/ Pass(DM, "lit", "undo")
        \/ Pass(DM, "dim", "undo")
      BY <3>1
    <3>2. CASE Sets("light", "lit", Dark(FALSE)) \/ Fails("light", "undo", Dark(FALSE))
      BY <3>2
    <3>3. CASE Sets("dark", "dim", Dark(TRUE)) \/ Fails("dark", "undo", Dark(TRUE))
      BY <3>3
    <3> QED  BY <2>2, <3>1, <3>2, <3>3 DEF DarkLook
  <2>3. CASE DarkRestore
    <3>1. call.at \in {"restore", "undo"}
      BY <2>3 DEF DarkRestore
    <3>2. call.tool = DM
      BY <3>1
    <3> HIDE DEF SettingInv, Became, At, Go, Pass, Answers, End, Throws, Act, Sets, Fails, Dark,
        Wide, DM, OR, KO, TY, Opt
    <3> QED  BY <2>3, <3>2, DarkRestoreInv
  <2>4. CASE (\E out \in {"passed", "failed"} : End(DM, "judge", out)) \/ End(DM, "failed", "error")
    BY <2>4
  <2> QED  BY <1>1, <2>1, <2>2, <2>3, <2>4 DEF QaDarkMode
<1>2. CASE QaOrientation
  BY <1>2, ZenonT(40) DEF QaOrientation
<1>3. CASE QaKeyboardOverlap
  BY <1>3, ZenonT(40) DEF QaKeyboardOverlap
<1>4. CASE AppTypeElement
  <2>0. call.tool = TY
    BY <1>4 DEF AppTypeElement
  <2>1. CASE TypeBegin \/ TypeFocus \/ TypeKeys
    BY <2>0, <2>1 DEF TypeBegin, TypeFocus, TypeKeys
  <2>2. CASE VerifyTypedText \/ PasteCheck \/ TypeSettle
    BY <2>0, <2>2, ZenonT(40) DEF VerifyTypedText, PasteCheck, TypeSettle
  <2>3. CASE PasteBorrow \/ PasteType
    BY <2>0, <2>3, ZenonT(40) DEF PasteBorrow, PasteType
  <2>4. CASE PasteReturn
    BY <2>0, <2>4 DEF PasteReturn
  <2> QED  BY <1>4, <2>1, <2>2, <2>3, <2>4 DEF AppTypeElement
<1>5. CASE AppTypeText \/ AppKeyInput
  BY <1>5 DEF AppTypeText, AppKeyInput
<1>6. CASE FlutterDebugPaint
  <2>1. CASE End("debug_paint", "begin", "error")
    BY <2>1
  <2>2. ASSUME NEW reset \in SUBSET {"size", "baseline"},
               Answers("debug_paint", "begin", IF reset = {"size", "baseline"} THEN "ok"
                       ELSE "partial"),
               world' = [world EXCEPT !.paint = @ \ reset]
        PROVE  SettingInv'
    <3>1. CASE reset = {"size", "baseline"}
      <4>1. world' = [world EXCEPT !.paint = {}]
        BY <2>2, <3>1
      <4> QED  BY <2>2, <3>1, <4>1
    <3>2. CASE reset # {"size", "baseline"}
      BY <2>2, <3>2
    <3> QED  BY <3>1, <3>2
  <2>3. CASE /\ ~Opt("all_off") /\ Answers("debug_paint", "begin", "ok")
             /\ world' = [world EXCEPT !.paint = IF Opt("enable") THEN @ \cup {"size"}
                          ELSE @ \ {"size"}]
    BY <2>3
  <2> QED  BY <1>6, <2>1, <2>2, <2>3 DEF FlutterDebugPaint
<1>7. CASE AppearanceToggle
  <2>1. CASE End("appearance", "begin", "error") \/ End("appearance", "toggle", "error")
    BY <2>1
  <2>2. CASE Answers("appearance", "begin", "ok") /\ world' = Dark(Opt("dark"))
    BY <2>2
  <2>3. CASE /\ UNCHANGED world
             /\ Became("appearance", "begin", [call EXCEPT !.at = "toggle",
                                                   !.read = IF world.dark THEN "dark" ELSE "light"])
    BY <2>3
  <2>4. CASE Answers("appearance", "toggle", "ok") /\ world' = Dark(call.read = "light")
    BY <2>4
  <2> QED  BY <1>7, <2>1, <2>2, <2>3, <2>4 DEF AppearanceToggle
<1>8. CASE DeviceRotate
  BY <1>8 DEF DeviceRotate
<1>9. CASE MockGeolocation \/ MockPermission \/ NetworkThrottle
  BY <1>9 DEF MockGeolocation, MockPermission, Mocks, NetworkThrottle
<1>10. CASE PasteLands \/ UserCopies
  <2>1. UNCHANGED call
    BY <1>10 DEF PasteLands, UserCopies
  <2>2. CASE PasteLands
    BY <2>1, <2>2 DEF PasteLands
  <2>3. CASE UserCopies
    BY <2>1, <2>3 DEF UserCopies
  <2> QED  BY <1>10, <2>2, <2>3
<1> QED  BY <1>1, <1>2, <1>3, <1>4, <1>5, <1>6, <1>7, <1>8, <1>9, <1>10 DEF SettingNext, SettingStep

----------------------------------------------------------------------------
(* Codes and pushed messages. *)

\* The mails there are, and the fields of a call that reads them.
Mails == {"mine", "foreign", "plain"}
CallFields ==
  {"tool", "opts", "at", "out", "down", "stuck", "kept", "ran", "warned",
   "given"} \subseteq DOMAIN call

\* The code that was taken is of the newest mail there is, for none comes after it.
OtpInv ==
  /\ CallFields /\ "mails" \in DOMAIN world /\ world.mails \in Seq(Mails)
  /\ call.at # "end" => call.given = <<>>
  /\ call.given # <<>> =>
       \E got \in Nat, all \in Nat :
         /\ call.given = <<got, all>> /\ all = Len(world.mails)
         /\ \A n \in got + 1 .. all : ~Carries(world.mails[Len(world.mails) + 1 - n])
         /\ call.out = "code" => Carries(world.mails[Len(world.mails) + 1 - got])

\* The payload is there from when it is written until it is deleted.
PushInv ==
  /\ CallFields /\ {"payload", "notified"} \subseteq DOMAIN world /\ world.payload \in BOOLEAN
  /\ call.stuck \in BOOLEAN
  /\ call.at = "begin" => world.payload = FALSE
  /\ call.at = "end" /\ call.stuck = FALSE => world.payload = FALSE

\* The inductive invariant of the code and the pushed message.
CodeInv == (call.tool = "otp" => OtpInv) /\ (call.tool = "notify" => PushInv)

\* It says that the code is of the newest mail, and that no payload file is left behind.
LEMMA CodeInvNewest == CodeInv => CodeIsNewest
<1> SUFFICES ASSUME CodeInv PROVE CodeIsNewest
  OBVIOUS
<1>1. ASSUME call.tool = "otp", call.given # <<>>
      PROVE  LET mail(n) == world.mails[Len(world.mails) + 1 - n]
             IN /\ \A n \in call.given[1] + 1 .. call.given[2] : ~Carries(mail(n))
                /\ call.out = "code" => Carries(mail(call.given[1]))
  <2>1. PICK got \in Nat, all \in Nat :
         /\ call.given = <<got, all>> /\ all = Len(world.mails)
         /\ \A n \in got + 1 .. all : ~Carries(world.mails[Len(world.mails) + 1 - n])
         /\ call.out = "code" => Carries(world.mails[Len(world.mails) + 1 - got])
    BY <1>1 DEF CodeInv, OtpInv
  <2> QED  BY <2>1
<1>2. call.tool = "notify" /\ Ended /\ ~call.stuck => ~world.payload
  BY DEF CodeInv, PushInv, Ended
<1> QED  BY <1>1, <1>2 DEF CodeIsNewest

\* The invariant holds at the start.
LEMMA CodeInitInv == AppInit => CodeInv
<1> SUFFICES ASSUME AppInit PROVE CodeInv
  OBVIOUS
<1> DEFINE locals == [down |-> FALSE, stuck |-> FALSE, kept |-> "gone", ran |-> FALSE,
                      warned |-> FALSE, given |-> <<>>]
<1>1. PICK t \in DOMAIN AppOptions : \E o \in SUBSET AppOptions[t] : call = NewCall(t, o, locals)
  BY DEF AppInit, ToolCalls
<1>2. PICK o \in SUBSET AppOptions[t] : call = NewCall(t, o, locals)
  BY <1>1
<1>3. call = [tool |-> t, opts |-> o, at |-> "begin", out |-> "none", down |-> FALSE,
              stuck |-> FALSE,
              kept |-> "gone", ran |-> FALSE, warned |-> FALSE, given |-> <<>>]
  BY <1>2 DEF NewCall
<1> HIDE DEF locals
<1>4. /\ {"payload", "notified", "mails"} \subseteq DOMAIN world
      /\ world.payload = FALSE /\ world.mails = <<>>
  BY DEF AppInit
<1>5. world.mails \in Seq(Mails)
  BY <1>4
<1> QED  BY <1>3, <1>4, <1>5 DEF CodeInv, OtpInv, PushInv, CallFields

\* The steps of a call of these two tools.
LEMMA CodeSteps ==
  ASSUME call.tool \in {"otp", "notify"}, AppNext
  PROVE  AppPushNotification \/ AuthOtpFetch \/ Wander \/ MailComes
<1> USE DEF Go, Pass, Answers, End, Act, Throws, Became, At, Saving, Restoring
<1>1. ~NativeSave /\ ~NativeRestore
  BY DEF NativeSave, NativeRestore
<1>2. ~AuthSaveNative /\ ~AuthRestoreNative /\ ~AuthDeleteNative
  BY DEF AuthSaveNative, AuthRestoreNative, AuthDeleteNative
<1>3. ~AppActivate /\ ~AppSwitchApp
  BY DEF AppActivate, AppSwitchApp, BringForward, AppProbes, LaunchApp
<1>4. ~AppLaunch
  BY DEF AppLaunch, LaunchApp
<1>5. ~AppTerminate /\ ~AppReset /\ ~AppDeeplink /\ ~AppCommand
  BY DEF AppTerminate, AppReset, AppDeeplink, AppCommand
<1>6. ~AppBiometric
  BY DEF AppBiometric, ResolveBiometricDevice, RunBiometric
<1> QED  BY <1>1, <1>2, <1>3, <1>4, <1>5, <1>6 DEF AppNext, AppStep

\* Every step of fetching a code keeps it,
LEMMA OtpStepInv ==
  ASSUME OtpInv, call.tool = "otp", AppNext PROVE call'.tool = "otp" /\ OtpInv'
<1>0. ~AppPushNotification
  BY DEF AppPushNotification, PushWrite, PushSend, PushUnlink, Act, Go, End, Answers, Became, At
<1>1. CASE Wander
  <2>1. world'.mails = world.mails /\ "mails" \in DOMAIN world'
    BY <1>1 DEF Wander, OtpInv
  <2> QED  BY <1>1, <2>1 DEF Wander, OtpInv, CallFields, Carries, Opt
<1>2. CASE MailComes
  <2>1. PICK mail \in Mails : world' = [world EXCEPT !.mails = <<mail>> \o @]
    BY <1>2 DEF MailComes, Mails
  <2>2. world'.mails \in Seq(Mails) /\ "mails" \in DOMAIN world'
    BY <2>1 DEF OtpInv
  <2>3. call.given = <<>>
    BY <1>2 DEF MailComes, OtpInv, Ended
  <2> QED  BY <1>2, <2>2, <2>3 DEF MailComes, OtpInv, CallFields
<1>3. CASE AuthOtpFetch
  <2>1. ASSUME NEW from, NEW to, Go("otp", from, to) \/ Answers("otp", from, to), UNCHANGED world,
      from # "end"
        PROVE  call'.tool = "otp" /\ OtpInv'
    BY <2>1 DEF Go, Answers, Became, At, OtpInv, CallFields
  <2>2. ASSUME NEW i \in DOMAIN world.mails \cup {0}, UNCHANGED world,
               Became("otp", "ask", [call EXCEPT !.at = "end", !.out = IF i = 0 THEN "none"
                                     ELSE "code",
                    !.given = <<IF i = 0 THEN 0 ELSE Len(world.mails) + 1 - i, Len(world.mails)>>]),
               i # 0 => Carries(world.mails[i]),
               \A j \in DOMAIN world.mails : (i = 0 \/ j < i) => ~Carries(world.mails[j])
        PROVE  call'.tool = "otp" /\ OtpInv'
    <3>1. Len(world.mails) \in Nat /\ DOMAIN world.mails = 1 .. Len(world.mails)
        /\ world.mails \in Seq(Mails)
      BY DEF OtpInv
    <3>2. PICK got \in Nat : /\ got = IF i = 0 THEN 0 ELSE Len(world.mails) + 1 - i
                             /\ i # 0 => Len(world.mails) + 1 - got = i
      BY <3>1
    <3>3. PICK all \in Nat : all = Len(world.mails)
      BY <3>1
    <3>4. ASSUME NEW n \in got + 1 .. all
          PROVE  ~Carries(world.mails[Len(world.mails) + 1 - n])
      <4>1. Len(world.mails) + 1 - n \in DOMAIN world.mails
          /\ (i = 0 \/ Len(world.mails) + 1 - n < i)
        BY <3>1, <3>2, <3>3
      <4> QED  BY <2>2, <4>1
    <3>5. /\ call'.tool = "otp" /\ call'.opts = call.opts /\ call'.at = "end"
             /\ DOMAIN call' = DOMAIN call
          /\ call'.given = <<got, all>> /\ call'.out = IF i = 0 THEN "none" ELSE "code"
      BY <2>2, <3>2, <3>3 DEF Became, At, OtpInv, CallFields
    <3>6. call'.out = "code" => Carries(world.mails[Len(world.mails) + 1 - got])
      BY <2>2, <3>2, <3>5
    <3>7. \A mail : Carries(mail)' <=> Carries(mail)
      BY <3>5 DEF Carries, Opt
    <3> QED  BY <2>2, <3>1, <3>3, <3>4, <3>5, <3>6, <3>7 DEF OtpInv, CallFields
  <2>3. CASE FetchFromMailhog
    <3> DEFINE carrying == {i \in DOMAIN world.mails : Carries(world.mails[i])}
               found(i) == [call EXCEPT !.at = "end", !.out = IF i = 0 THEN "none" ELSE "code",
                    !.given = <<IF i = 0 THEN 0 ELSE Len(world.mails) + 1 - i, Len(world.mails)>>]
    <3>0. DOMAIN world.mails = 1 .. Len(world.mails) /\ Len(world.mails) \in Nat
      BY DEF OtpInv
    <3>1. CASE carrying = {} /\ Became("otp", "ask", found(0))
      BY <2>2, <2>3, <3>1 DEF FetchFromMailhog
    <3>2. CASE \E i \in carrying : (\A j \in carrying : i <= j) /\ Became("otp", "ask", found(i))
      <4>1. PICK i \in carrying : (\A j \in carrying : i <= j) /\ Became("otp", "ask", found(i))
        BY <3>2
      <4>2. i \in DOMAIN world.mails /\ i # 0 /\ Carries(world.mails[i])
            /\ \A j \in DOMAIN world.mails : j < i => ~Carries(world.mails[j])
        BY <3>0, <4>1
      <4> QED  BY <2>2, <2>3, <4>1, <4>2 DEF FetchFromMailhog
    <3> QED  BY <2>3, <3>1, <3>2 DEF FetchFromMailhog
  <2>4. CASE FetchFromWebhookOrCustom
    BY <2>4, <2>1 DEF FetchFromWebhookOrCustom, End
  <2> QED  BY <1>3, <2>1, <2>3, <2>4 DEF AuthOtpFetch, End, Pass, Throws
<1> QED  BY <1>0, <1>1, <1>2, <1>3, CodeSteps

\* and every step of pushing a message.
LEMMA PushStepInv ==
  ASSUME PushInv, call.tool = "notify", AppNext PROVE call'.tool = "notify" /\ PushInv'
<1>0. ~AuthOtpFetch
  BY DEF AuthOtpFetch, FetchFromMailhog, FetchFromWebhookOrCustom, Throws, Pass, Go, End, Answers,
      Became, At
<1>1. CASE Wander
  <2>1. world'.payload = world.payload /\ DOMAIN world' = DOMAIN world
    BY <1>1 DEF Wander, PushInv
  <2> QED  BY <1>1, <2>1 DEF Wander, PushInv, CallFields
<1>2. CASE MailComes
  BY <1>2 DEF MailComes
<1>3. CASE PushWrite \/ PushSend
  <2>1. CASE End("notify", "begin", "refused")
    BY <2>1 DEF End, Answers, Became, At, PushInv, CallFields
  <2>2. ASSUME NEW from \in {"begin", "push"}, NEW to \in {"push", "sent", "failed"},
      Go("notify", from, to),
               \/ world' = world \/ world' = [world EXCEPT !.payload = TRUE]
               \/ world' = [world EXCEPT !.notified = TRUE]
        PROVE  call'.tool = "notify" /\ PushInv'
    <3>1. DOMAIN world' = DOMAIN world /\ world'.payload \in BOOLEAN
      BY <2>2 DEF PushInv
    <3> QED  BY <2>2, <3>1 DEF Go, Became, At, PushInv, CallFields
  <2> QED  BY <1>3, <2>1, <2>2 DEF PushWrite, PushSend, Act
<1>4. CASE PushUnlink
  <2>1. PICK from \in {"sent", "failed"}, gone \in BOOLEAN :
          /\ Became("notify", from, [call EXCEPT !.at = "end", !.stuck = ~gone,
                                        !.out = IF from = "sent" THEN "pushed" ELSE "error"])
          /\ world' = [world EXCEPT !.payload = @ /\ ~gone]
    BY <1>4 DEF PushUnlink
  <2> DEFINE stuck == ~gone
             rest == world.payload /\ ~gone
  <2>2. stuck \in BOOLEAN /\ rest \in BOOLEAN /\ (stuck = FALSE => rest = FALSE)
    OBVIOUS
  <2>3. call' = [call EXCEPT !.at = "end", !.stuck = stuck, !.out = IF from = "sent" THEN "pushed"
                 ELSE "error"]
    BY <2>1, Zenon DEF Became
  <2>4. world' = [world EXCEPT !.payload = rest]
    BY <2>1, Zenon
  <2> HIDE DEF stuck, rest
  <2>5. call'.tool = "notify" /\ call'.at = "end" /\ call'.stuck = stuck
      /\ DOMAIN call' = DOMAIN call
        /\ world'.payload = rest /\ DOMAIN world' = DOMAIN world
    BY <2>3, <2>4 DEF PushInv, CallFields
  <2> QED  BY <2>2, <2>5 DEF PushInv, CallFields
<1> QED  BY <1>0, <1>1, <1>2, <1>3, <1>4, CodeSteps DEF AppPushNotification

\* So does every step of the tools on apps.
LEMMA CodeStepInv == ASSUME AppInv, CodeInv, AppNext PROVE CodeInv'
<1>1. CASE call.tool = "otp"
  BY <1>1, OtpStepInv DEF CodeInv
<1>2. CASE call.tool = "notify"
  BY <1>2, PushStepInv DEF CodeInv
<1>3. CASE call.tool \notin {"otp", "notify"}
  <2>1. CASE Profiled
    <3>1. call'.tool \in Saving \cup Restoring
      BY <2>1, ProfileStep DEF ProfileInv, ProfileTypes, ProfileCall
    <3> QED  BY <3>1 DEF CodeInv, Saving, Restoring
  <2>2. CASE ~Profiled
    BY <1>3, <2>2, ElseStep DEF CodeInv, SameTool
  <2> QED  BY <2>1, <2>2
<1> QED  BY <1>1, <1>2, <1>3
=============================================================================
