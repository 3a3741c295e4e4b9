----------------------------- MODULE DeviceProofs -----------------------------
(***************************************************************************)
(* Machine-checked safety of what leads to a device, for any processes,    *)
(* devices, inputs and bounds: the registry the processes of a host share  *)
(* and its lock, device_boot and device_shutdown with their proxy, and the *)
(* way an input takes to a device.                                         *)
(***************************************************************************)
EXTENDS DeviceRegistry, DeviceSession, InputRouting, TLAPS

----------------------------------------------------------------------------
(* DeviceRegistry: the state keeps its shape. *)

\* The empty registry is one.
LEMMA EmptyType == Empty \in Registry
BY DEF Empty, Registry

\* What a registry is after an operation is a registry.
LEMMA AfterType ==
  ASSUME TypeOK, NEW p \in Procs, NEW r \in Registry
  PROVE  After(p, r) \in Registry
<1>1. op[p].kind \in {"set", "add", "partition"} /\ op[p].devs \in SUBSET Devices
  BY DEF TypeOK, Ops
<1>2. CASE op[p].kind = "set"
  BY <1>1, <1>2 DEF After, Registry
<1>3. CASE op[p].kind = "add"
  <2>1. r[p] \cup op[p].devs \in SUBSET Devices
    BY <1>1 DEF Registry
  <2>2. After(p, r) = [r EXCEPT ![p] = r[p] \cup op[p].devs]
    BY <1>3 DEF After
  <2> QED BY <2>1, <2>2 DEF Registry
<1>4. CASE op[p].kind = "partition"
  <2>1. After(p, r) = [q \in Procs |-> IF q \in alive THEN r[q] ELSE {}]
    BY <1>4 DEF After
  <2> QED BY <2>1 DEF Registry
<1> QED BY <1>1, <1>2, <1>3, <1>4

\* What is orphaned are devices of the registry.
LEMMA OrphansType ==
  ASSUME TypeOK, NEW p \in Procs, NEW r \in Registry
  PROVE  Orphans(p, r) \in SUBSET Devices
<1>1. sweep[p].seen \in SUBSET Devices
  BY DEF TypeOK, Sweeps
<1>2. Orphans(p, r) \subseteq sweep[p].seen
  BY DEF Orphans
<1> QED BY <1>1, <1>2

\* The labels a process may have.
LEMMA PCsType ==
  {"idle", "mkdir", "look", "steal", "stealDir", "dead", "info", "read",
   "truncate", "fill", "unlink", "rmdir"} \subseteq PCs
BY DEF PCs, Holding

\* Where a process goes when it leaves the lock.
LEMMA LeaveType == \A p \in Procs : Leave(p) \in PCs
BY PCsType DEF Leave

\* The operations that are asked for.
LEMMA OpsType ==
  /\ NoOp \in Ops
  /\ \A D \in SUBSET Devices :
       /\ [kind |-> "set", devs |-> D] \in Ops
       /\ [kind |-> "add", devs |-> D] \in Ops
       /\ [kind |-> "partition", devs |-> D] \in Ops
BY DEF NoOp, Ops

\* What a sweep works on.
LEMMA SweepsType ==
  /\ NoSweep \in Sweeps
  /\ \A D \in SUBSET Devices :
       /\ [at |-> "listed", seen |-> D, doomed |-> {}] \in Sweeps
       /\ [at |-> "acting", seen |-> {}, doomed |-> D] \in Sweeps
       /\ \A w \in Sweeps : [w EXCEPT !.doomed = D] \in Sweeps
BY DEF NoSweep, Sweeps

\* The beginning of a registry call.
LEMMA CallType ==
  ASSUME TypeOK, NEW p \in Procs, NEW kind \in {"set", "add", "partition"},
         NEW D \in SUBSET Devices, Call(p, kind, D)
  PROVE  pc' \in [Procs -> PCs] /\ op' \in [Procs -> Ops]
BY PCsType, OpsType DEF TypeOK, Call

\* A step of a registry call that only moves its process and the lock.
LEMMA LockStepType ==
  ASSUME TypeOK, NEW p \in Procs,
         Mkdir(p) \/ WriteInfo(p) \/ Look(p) \/ StealInfo(p) \/ StealDir(p)
           \/ Unlink(p) \/ Rmdir(p) \/ Deadline(p) \/ LockAges
  PROVE  TypeOK'
<1>1. CASE Mkdir(p)
  <2>1. pc' \in [Procs -> PCs]
    BY <1>1, PCsType DEF TypeOK, Mkdir
  <2>2. lock' \in [dir : BOOLEAN, info : {"none", "fresh", "old"}]
    BY <1>1 DEF TypeOK, Mkdir
  <2>3. late' \subseteq Procs /\ disturbed' \in BOOLEAN
    BY <1>1 DEF TypeOK, Mkdir
  <2> QED BY <1>1, <2>1, <2>2, <2>3 DEF TypeOK, Mkdir
<1>2. CASE WriteInfo(p)
  BY <1>2, PCsType DEF TypeOK, WriteInfo
<1>3. CASE Look(p)
  BY <1>3, PCsType DEF TypeOK, Look
<1>4. CASE StealInfo(p)
  BY <1>4, PCsType DEF TypeOK, StealInfo
<1>5. CASE StealDir(p)
  BY <1>5, PCsType DEF TypeOK, StealDir
<1>6. CASE Unlink(p) \/ Rmdir(p)
  BY <1>6, PCsType, ZenonT(40) DEF TypeOK, Unlink, Rmdir
<1>7. CASE Deadline(p) \/ LockAges
  BY <1>7 DEF TypeOK, Deadline, LockAges
<1> QED BY <1>1, <1>2, <1>3, <1>4, <1>5, <1>6, <1>7

\* A step on the registry's file keeps the types.
LEMMA FileStepType ==
  ASSUME TypeOK, NEW p \in Procs, Read(p) \/ Truncate(p) \/ Fill(p)
  PROVE  TypeOK'
<1>1. CASE Read(p)
  <2> DEFINE r == IF torn THEN Empty ELSE file
  <2>1. r \in Registry
    BY EmptyType DEF TypeOK
  <2>2. Orphans(p, r) \in SUBSET Devices
    BY <2>1, OrphansType
  <2>3. [at |-> "acting", seen |-> {}, doomed |-> Orphans(p, r)] \in Sweeps
    BY <2>2, SweepsType
  <2>4. sweep' \in [Procs -> Sweeps]
    BY <1>1, <2>3 DEF Read, TypeOK
  <2>5. mem' \in [Procs -> Registry]
    BY <1>1, <2>1, AfterType DEF Read, TypeOK
  <2>6. pc' \in [Procs -> PCs] /\ op' \in [Procs -> Ops]
    BY <1>1, LeaveType, PCsType, OpsType DEF Read, TypeOK
  <2> QED BY <1>1, <2>4, <2>5, <2>6 DEF Read, TypeOK
<1>2. CASE Truncate(p)
  BY <1>2, PCsType DEF TypeOK, Truncate
<1>3. CASE Fill(p)
  <2>1. mem[p] \in Registry
    BY DEF TypeOK
  <2>2. mem[p][p] \in SUBSET Devices
    BY <2>1 DEF Registry
  <2>3. claim' \in Registry
    BY <1>3, <2>2 DEF Fill, TypeOK, Registry
  <2>4. mem' \in [Procs -> Registry] /\ pc' \in [Procs -> PCs] /\ op' \in [Procs -> Ops]
    BY <1>3, EmptyType, LeaveType, OpsType DEF Fill, TypeOK
  <2> QED BY <1>3, <2>1, <2>3, <2>4 DEF Fill, TypeOK
<1> QED BY <1>1, <1>2, <1>3

\* Every step of a process keeps the types.
LEMMA StepType == TypeOK /\ [Next]_vars => TypeOK'
<1> SUFFICES ASSUME TypeOK, [Next]_vars PROVE TypeOK'
  OBVIOUS
<1>1. ASSUME NEW p \in Procs, NEW d \in Devices, BootOne(p, d) \/ ShutdownOwn(p, d)
      PROVE  TypeOK'
  <2>1. claim[p] \ {d} \in SUBSET Devices /\ {d} \in SUBSET Devices
    BY DEF TypeOK, Registry
  <2>2. pc' \in [Procs -> PCs] /\ op' \in [Procs -> Ops]
    BY <1>1, <2>1, CallType DEF BootOne, ShutdownOwn
  <2> QED BY <1>1, <2>2 DEF TypeOK, BootOne, ShutdownOwn
<1>2. ASSUME NEW p \in Procs, NEW D \in SUBSET Devices, BootBatch(p, D) PROVE TypeOK'
  <2>1. pc' \in [Procs -> PCs] /\ op' \in [Procs -> Ops]
    BY <1>2, CallType DEF BootBatch
  <2> QED BY <1>2, <2>1 DEF TypeOK, BootBatch
<1>3. ASSUME NEW p \in Procs, Partition(p) PROVE TypeOK'
  <2>1. pc' \in [Procs -> PCs] /\ op' \in [Procs -> Ops]
    BY <1>3, CallType DEF Partition
  <2> QED BY <1>3, <2>1 DEF TypeOK, Partition
<1>4. ASSUME NEW p \in Procs, NEW D \in SUBSET Devices, ListBooted(p, D) \/ SweepDone(p)
      PROVE  TypeOK'
  <2>0. running \ D \in SUBSET Devices
    BY DEF TypeOK
  <2>1. /\ [at |-> "listed", seen |-> running \ D, doomed |-> {}] \in Sweeps
        /\ NoSweep \in Sweeps
    BY <2>0, SweepsType
  <2>2. sweep' \in [Procs -> Sweeps]
    BY <1>4, <2>1 DEF TypeOK, ListBooted, SweepDone
  <2> QED BY <1>4, <2>2 DEF TypeOK, ListBooted, SweepDone
<1>5. ASSUME NEW p \in Procs, NEW d \in Devices, ShutdownOrphan(p, d) PROVE TypeOK'
  <2>1. sweep[p].doomed \ {d} \in SUBSET Devices
    BY DEF TypeOK, Sweeps
  <2>2. [sweep[p] EXCEPT !.doomed = @ \ {d}] \in Sweeps
    BY <2>1, SweepsType DEF TypeOK
  <2> QED BY <1>5, <2>2 DEF TypeOK, ShutdownOrphan
<1>6. ASSUME NEW p \in Procs, Deadline(p) \/ CallStep(p) PROVE TypeOK'
  BY <1>6, LockStepType, FileStepType DEF CallStep
<1>7. ASSUME NEW p \in Procs, Die(p) PROVE TypeOK'
  BY <1>7, EmptyType, PCsType, OpsType, SweepsType DEF TypeOK, Die, Registry
<1>8. CASE LockAges
  BY <1>8 DEF TypeOK, LockAges
<1>9. CASE UNCHANGED vars
  BY <1>9 DEF vars, TypeOK
<1> QED BY <1>1, <1>2, <1>3, <1>4, <1>5, <1>6, <1>7, <1>8, <1>9 DEF Next

\* The state of the processes, the lock and the registry keeps its shape.
THEOREM TypeCorrect == Spec => []TypeOK
<1>1. Init => TypeOK
  <2> SUFFICES ASSUME Init PROVE TypeOK
    OBVIOUS
  <2>1. pc \in [Procs -> PCs] /\ op \in [Procs -> Ops] /\ sweep \in [Procs -> Sweeps]
    BY PCsType, OpsType, SweepsType DEF Init
  <2>2. file \in Registry /\ claim \in Registry /\ mem \in [Procs -> Registry]
    BY EmptyType DEF Init
  <2>3. lock \in [dir : BOOLEAN, info : {"none", "fresh", "old"}]
    BY DEF Init
  <2> QED BY <2>1, <2>2, <2>3 DEF Init, TypeOK
<1> QED BY <1>1, StepType, PTL DEF Spec

-----------------------------------------------------------------------------
(* The lock. *)

\* The directory is there while somebody holds the lock, and one process does.
LockInv ==
  ~ disturbed =>
    /\ \A p \in Procs : pc[p] \in Holding => lock.dir
    /\ \A p, q \in Procs : pc[p] \in Holding /\ pc[q] \in Holding => p = q

\* Who is not about to hold the lock changes nothing about it.
LEMMA OutsideKeepsLock ==
  ASSUME TypeOK, LockInv, disturbed' = disturbed, lock'.dir = lock.dir,
         \A p \in Procs : pc'[p] \in Holding => pc[p] \in Holding
  PROVE  LockInv'
BY DEF LockInv

\* Every step keeps what is known of the lock.
LEMMA LockStep == TypeOK /\ LockInv /\ [Next]_vars => LockInv'
<1> SUFFICES ASSUME TypeOK, LockInv, [Next]_vars PROVE LockInv'
  OBVIOUS
<1> USE DEF TypeOK
<1>1. ASSUME NEW p \in Procs, NEW d \in Devices,
             BootOne(p, d) \/ ShutdownOwn(p, d) \/ ShutdownOrphan(p, d)
      PROVE  LockInv'
  BY <1>1, OutsideKeepsLock DEF BootOne, ShutdownOwn, ShutdownOrphan, Call, Holding
<1>2. ASSUME NEW p \in Procs, NEW D \in SUBSET Devices, BootBatch(p, D) \/ ListBooted(p, D)
      PROVE  LockInv'
  BY <1>2, OutsideKeepsLock DEF BootBatch, ListBooted, Call, Holding
<1>3. ASSUME NEW p \in Procs, Partition(p) \/ SweepDone(p) PROVE LockInv'
  BY <1>3, OutsideKeepsLock DEF Partition, SweepDone, Call, Holding
<1>4. ASSUME NEW p \in Procs, Mkdir(p) PROVE LockInv'
  <2>1. CASE p \in late
    BY <1>4, <2>1 DEF Mkdir, LockInv
  <2>2. CASE p \notin late /\ ~ lock.dir
    BY <1>4, <2>2 DEF Mkdir, LockInv, Holding
  <2>3. CASE p \notin late /\ lock.dir
    BY <1>4, <2>3, OutsideKeepsLock DEF Mkdir, Holding
  <2> QED BY <2>1, <2>2, <2>3
<1>5. ASSUME NEW p \in Procs, WriteInfo(p) PROVE LockInv'
  BY <1>5 DEF WriteInfo, LockInv, Holding
<1>6. ASSUME NEW p \in Procs, Look(p) \/ Deadline(p) PROVE LockInv'
  BY <1>6, OutsideKeepsLock DEF Look, Deadline, Holding
<1>7. ASSUME NEW p \in Procs, StealInfo(p) \/ StealDir(p) PROVE LockInv'
  BY <1>7 DEF StealInfo, StealDir, LockInv, Holding
<1>8. ASSUME NEW p \in Procs, Read(p) PROVE LockInv'
  BY <1>8, OutsideKeepsLock DEF Read, Leave, Holding
<1>9. ASSUME NEW p \in Procs, Truncate(p) \/ Fill(p) \/ Unlink(p) PROVE LockInv'
  BY <1>9, OutsideKeepsLock DEF Truncate, Fill, Unlink, Leave, Holding
<1>10. ASSUME NEW p \in Procs, Rmdir(p) PROVE LockInv'
  BY <1>10 DEF Rmdir, LockInv, Holding
<1>11. ASSUME NEW p \in Procs, Die(p) PROVE LockInv'
  BY <1>11 DEF Die, LockInv, Holding
<1>12. CASE LockAges
  BY <1>12, OutsideKeepsLock DEF LockAges
<1>13. CASE UNCHANGED vars
  BY <1>13 DEF vars, LockInv
<1> QED BY <1>1, <1>2, <1>3, <1>4, <1>5, <1>6, <1>7, <1>8, <1>9, <1>10, <1>11,
           <1>12, <1>13 DEF Next, CallStep

\* So that holds throughout.
LEMMA LockAlways == Spec => []LockInv
<1>1. Init => LockInv
  BY DEF Init, LockInv, Holding
<1> QED BY <1>1, LockStep, TypeCorrect, PTL DEF Spec

\* Until somebody takes the lock away, goes without it or dies with it, it is a
\* mutual exclusion, for any number of processes.
THEOREM LockExcludes == Spec => []OneHolder
<1>1. LockInv => OneHolder
  BY DEF LockInv, OneHolder
<1> QED BY <1>1, LockAlways, PTL

-----------------------------------------------------------------------------
(* The registry. *)

\* While the lock is a mutual exclusion, the process that is about to write has the
\* entries of the other live ones as they are in the file, which has an entry of each.
RegistryInv ==
  ~ disturbed =>
    /\ \A p \in Procs : pc[p] \in {"truncate", "fill"} =>
         \A q \in alive \ {p} : mem[p][q] = file[q]
    /\ torn => \E p \in Procs : pc[p] = "fill"
    /\ \A p \in alive : file[p] = claim[p]

\* What a step must leave alone to leave the registry alone.
LEMMA OutsideKeepsRegistry ==
  ASSUME TypeOK, RegistryInv, ~ disturbed' => ~ disturbed,
         file' = file, torn' = torn, mem' = mem, claim' = claim, alive' = alive,
         \A p \in Procs : pc'[p] \in {"truncate", "fill"} <=> pc[p] \in {"truncate", "fill"},
         \A p \in Procs : pc'[p] = "fill" <=> pc[p] = "fill"
  PROVE  RegistryInv'
BY DEF RegistryInv, TypeOK

\* A call writes back what it has read of the entries of other live processes.
LEMMA AfterKeepsOthers ==
  ASSUME TypeOK, NEW p \in Procs, NEW r \in Registry, NEW q \in alive, q # p
  PROVE  After(p, r)[q] = r[q]
<1>1. op[p].kind \in {"set", "add", "partition"} /\ q \in Procs
  BY DEF TypeOK, Ops
<1>2. CASE op[p].kind = "set"
  BY <1>1, <1>2 DEF After, Registry
<1>3. CASE op[p].kind = "add"
  BY <1>1, <1>3 DEF After, Registry
<1>4. CASE op[p].kind = "partition"
  <2>1. After(p, r) = [x \in Procs |-> IF x \in alive THEN r[x] ELSE {}]
    BY <1>4 DEF After
  <2> QED BY <1>1, <2>1
<1> QED BY <1>1, <1>2, <1>3, <1>4

\* Reading under the lock finds the file whole.
LEMMA ReadFindsFile ==
  ASSUME TypeOK, LockInv, RegistryInv, ~ disturbed, NEW p \in Procs, pc[p] = "read"
  PROVE  ~ torn
<1>1. ASSUME torn PROVE FALSE
  <2>1. PICK q \in Procs : pc[q] = "fill"
    BY <1>1 DEF RegistryInv
  <2> QED BY <2>1 DEF LockInv, Holding
<1> QED BY <1>1

\* Filling the file keeps what is known of the registry.
LEMMA FillKeepsRegistry ==
  ASSUME TypeOK, LockInv, RegistryInv, NEW p \in Procs, Fill(p)
  PROVE  RegistryInv'
<1> SUFFICES ASSUME ~ disturbed
             PROVE  /\ \A q \in Procs : pc'[q] \notin {"truncate", "fill"}
                    /\ torn' => \E q \in Procs : pc'[q] = "fill"
                    /\ \A q \in alive' : file'[q] = claim'[q]
  BY DEF RegistryInv, Fill
<1>1. /\ pc[p] = "fill" /\ alive' = alive /\ file' = mem[p]
      /\ \A q \in alive \ {p} : mem[p][q] = file[q]
  BY DEF Fill, RegistryInv
<1>2. \A q \in Procs : pc'[q] \notin {"truncate", "fill"}
  <2>1. pc'[p] \notin {"truncate", "fill"}
    BY DEF Fill, Leave, TypeOK
  <2>2. \A q \in Procs : q # p => pc'[q] \notin {"truncate", "fill"}
    BY <1>1 DEF Fill, TypeOK, LockInv, Holding
  <2> QED BY <2>1, <2>2
<1>3. ASSUME NEW q \in alive PROVE file'[q] = claim'[q]
  <2>1. CASE q = p
    BY <1>1, <2>1 DEF Fill, TypeOK, Registry
  <2>2. CASE q # p
    <3>1. file'[q] = file[q]
      BY <1>1, <2>2
    <3>2. claim'[q] = claim[q]
      BY <2>2 DEF Fill, TypeOK, Registry
    <3> QED BY <3>1, <3>2 DEF RegistryInv
  <2> QED BY <2>1, <2>2
<1> QED BY <1>1, <1>2, <1>3 DEF Fill

\* Every step keeps what is known of the registry and who reads it.
LEMMA RegistryStep == TypeOK /\ LockInv /\ RegistryInv /\ [Next]_vars => RegistryInv'
<1> SUFFICES ASSUME TypeOK, LockInv, RegistryInv, [Next]_vars PROVE RegistryInv'
  OBVIOUS
<1>t. pc \in [Procs -> PCs]
  BY DEF TypeOK
<1>1. ASSUME NEW p \in Procs, NEW d \in Devices,
             BootOne(p, d) \/ ShutdownOwn(p, d) \/ ShutdownOrphan(p, d)
      PROVE  RegistryInv'
  BY <1>t, <1>1, OutsideKeepsRegistry DEF BootOne, ShutdownOwn, ShutdownOrphan, Call, Idle
<1>2. ASSUME NEW p \in Procs, NEW D \in SUBSET Devices, BootBatch(p, D) \/ ListBooted(p, D)
      PROVE  RegistryInv'
  BY <1>t, <1>2, OutsideKeepsRegistry DEF BootBatch, ListBooted, Call, Idle
<1>3. ASSUME NEW p \in Procs, Partition(p) \/ SweepDone(p) PROVE RegistryInv'
  BY <1>t, <1>3, OutsideKeepsRegistry DEF Partition, SweepDone, Call, Idle
<1>4. ASSUME NEW p \in Procs, Mkdir(p) \/ WriteInfo(p) PROVE RegistryInv'
  BY <1>t, <1>4, OutsideKeepsRegistry DEF Mkdir, WriteInfo
<1>5. ASSUME NEW p \in Procs, Look(p) \/ StealInfo(p) \/ StealDir(p) \/ Deadline(p)
      PROVE  RegistryInv'
  <2>1. /\ file' = file /\ torn' = torn /\ mem' = mem /\ claim' = claim
        /\ alive' = alive
    BY <1>5 DEF Look, StealInfo, StealDir, Deadline
  <2>d. ~ disturbed' => ~ disturbed
    BY <1>5 DEF Look, StealInfo, StealDir, Deadline
  <2>2. CASE Look(p)
    BY <1>t, <2>1, <2>d, <2>2, OutsideKeepsRegistry DEF Look
  <2>3. CASE StealInfo(p) \/ StealDir(p) \/ Deadline(p)
    <3>1. \/ pc' = pc
          \/ pc[p] = "steal" /\ pc' = [pc EXCEPT ![p] = "stealDir"]
          \/ pc[p] = "stealDir" /\ pc' = [pc EXCEPT ![p] = "mkdir"]
      BY <2>3 DEF StealInfo, StealDir, Deadline
    <3> QED BY <1>t, <2>1, <2>d, <3>1, OutsideKeepsRegistry
  <2> QED BY <1>5, <2>2, <2>3
<1>6. ASSUME NEW p \in Procs, Unlink(p) \/ Rmdir(p) PROVE RegistryInv'
  BY <1>t, <1>6, OutsideKeepsRegistry DEF Unlink, Rmdir
<1>7. ASSUME NEW p \in Procs, Read(p) PROVE RegistryInv'
  <2> SUFFICES ASSUME ~ disturbed PROVE RegistryInv'
    BY <1>7 DEF Read, RegistryInv
  <2>1. ~ torn
    BY <1>7, ReadFindsFile DEF Read
  <2>2. pc'[p] \in {"truncate", "fill"} => \A q \in alive \ {p} : mem'[p][q] = file[q]
    <3>1. pc'[p] \in {"truncate", "fill"} => mem'[p] = After(p, file)
      BY <1>7, <2>1 DEF Read, TypeOK, Leave
    <3>2. \A q \in alive \ {p} : After(p, file)[q] = file[q]
      BY AfterKeepsOthers DEF TypeOK
    <3> QED BY <3>1, <3>2
  <2>3. \A q \in Procs : q # p => pc'[q] = pc[q] /\ mem'[q] = mem[q]
    BY <1>7 DEF Read, TypeOK
  <2>4. file' = file /\ torn' = torn /\ claim' = claim /\ alive' = alive
    BY <1>7 DEF Read
  <2> QED BY <2>1, <2>2, <2>3, <2>4 DEF RegistryInv
<1>8. ASSUME NEW p \in Procs, Truncate(p) PROVE RegistryInv'
  <2>1. pc'[p] = "fill" /\ \A q \in Procs : q # p => pc'[q] = pc[q]
    BY <1>8 DEF Truncate, TypeOK
  <2> QED BY <1>8, <2>1 DEF Truncate, RegistryInv
<1>9. ASSUME NEW p \in Procs, Fill(p) PROVE RegistryInv'
  BY <1>9, FillKeepsRegistry
<1>10. ASSUME NEW p \in Procs, Die(p) PROVE RegistryInv'
  <2> SUFFICES ASSUME ~ disturbed, pc[p] \notin Holding PROVE RegistryInv'
    BY <1>10 DEF Die, RegistryInv
  <2>1. pc[p] # "fill" /\ pc'[p] = "dead"
    BY <1>10 DEF Holding, Die, TypeOK
  <2>2. \A q \in Procs : q # p => pc'[q] = pc[q] /\ mem'[q] = mem[q]
    BY <1>10 DEF Die, TypeOK
  <2>3. \A q \in alive' : q \in alive /\ claim'[q] = claim[q]
    BY <1>10 DEF Die, TypeOK, Registry
  <2> QED BY <1>10, <2>1, <2>2, <2>3 DEF Die, RegistryInv
<1>11. CASE LockAges
  BY <1>11, OutsideKeepsRegistry DEF LockAges
<1>12. CASE UNCHANGED vars
  BY <1>12, OutsideKeepsRegistry DEF vars
<1> QED BY <1>1, <1>2, <1>3, <1>4, <1>5, <1>6, <1>7, <1>8, <1>9, <1>10, <1>11, <1>12
        DEF Next, CallStep

\* So that holds throughout.
LEMMA RegistryAlways == Spec => []RegistryInv
<1>1. Init => RegistryInv
  BY DEF Init, RegistryInv
<1> QED BY <1>1, RegistryStep, TypeCorrect, LockAlways, PTL DEF Spec

\* While the lock is a mutual exclusion, no call loses an entry that a live process
\* has written (zombie-cleanup.ts:96-102), for any processes and devices.
THEOREM NoEntryIsLost == Spec => []EntriesKept
<1>1. RegistryInv => EntriesKept
  BY DEF RegistryInv, EntriesKept
<1> QED BY <1>1, RegistryAlways, PTL

\* The step property behind PartitionIsExact.
ExactStep ==
  \A p \in Procs, q \in alive :
    ~ disturbed' => (sweep'[p].doomed \ sweep[p].doomed) \cap claim[q] = {}

\* Who reads the registry under the lock dooms nothing that a live process claims.
LEMMA ReadIsExact ==
  ASSUME TypeOK, LockInv, RegistryInv, ~ disturbed, NEW p \in Procs, Read(p),
         NEW q \in alive
  PROVE  (sweep'[p].doomed \ sweep[p].doomed) \cap claim[q] = {}
<1>1. ~ torn
  BY ReadFindsFile DEF Read
<1>2. CASE op[p].kind # "partition"
  BY <1>2 DEF Read
<1>3. CASE op[p].kind = "partition"
  <2>1. sweep'[p].doomed = Orphans(p, file)
    BY <1>1, <1>3 DEF Read, TypeOK
  <2>2. Orphans(p, file) \cap file[q] = {}
    BY DEF Orphans
  <2>3. file[q] = claim[q]
    BY DEF RegistryInv
  <2> QED BY <2>1, <2>2, <2>3
<1> QED BY <1>2, <1>3

\* No other step dooms anything.
LEMMA OthersDoomNobody ==
  ASSUME TypeOK, [Next]_vars, NEW p \in Procs, ~ Read(p)
  PROVE  sweep'[p].doomed \subseteq sweep[p].doomed
<1> USE DEF TypeOK
<1>1. ASSUME NEW q \in Procs, NEW d \in Devices,
             BootOne(q, d) \/ ShutdownOwn(q, d) \/ ShutdownOrphan(q, d)
      PROVE  sweep'[p].doomed \subseteq sweep[p].doomed
  <2>1. CASE BootOne(q, d) \/ ShutdownOwn(q, d)
    BY <2>1 DEF BootOne, ShutdownOwn
  <2>2. CASE ShutdownOrphan(q, d)
    BY <2>2 DEF ShutdownOrphan, Sweeps
  <2> QED BY <1>1, <2>1, <2>2
<1>2. ASSUME NEW q \in Procs, NEW D \in SUBSET Devices, BootBatch(q, D) \/ ListBooted(q, D)
      PROVE  sweep'[p].doomed \subseteq sweep[p].doomed
  <2>1. sweep' = sweep \/ sweep'[p] = sweep[p] \/ sweep'[p].doomed = {}
    BY <1>2 DEF BootBatch, ListBooted
  <2> QED BY <2>1
<1>3. ASSUME NEW q \in Procs, Partition(q) \/ SweepDone(q) \/ Die(q)
      PROVE  sweep'[p].doomed \subseteq sweep[p].doomed
  <2>1. sweep' = sweep \/ sweep'[p] = sweep[p] \/ sweep'[p].doomed = {}
    BY <1>3 DEF Partition, SweepDone, Die, NoSweep
  <2> QED BY <2>1
<1>4. ASSUME NEW q \in Procs, Deadline(q) PROVE sweep'[p].doomed \subseteq sweep[p].doomed
  BY <1>4 DEF Deadline
<1>5. ASSUME NEW q \in Procs, CallStep(q), ~ Read(q)
      PROVE  sweep'[p].doomed \subseteq sweep[p].doomed
  BY <1>5 DEF CallStep, Mkdir, WriteInfo, Look, StealInfo, StealDir, Truncate, Fill,
              Unlink, Rmdir
<1>6. ASSUME NEW q \in Procs, Read(q) PROVE sweep'[p].doomed \subseteq sweep[p].doomed
  <2>1. q # p
    BY <1>6
  <2> QED BY <1>6, <2>1 DEF Read
<1>7. CASE LockAges \/ UNCHANGED vars
  BY <1>7 DEF LockAges, vars
<1> QED BY <1>1, <1>2, <1>3, <1>4, <1>5, <1>6, <1>7 DEF Next

\* The lock, once disturbed, stays so.
LEMMA DisturbedStays == [Next]_vars /\ ~ disturbed' => ~ disturbed
BY DEF Next, vars, CallStep, BootOne, BootBatch, ShutdownOwn, ListBooted, Partition,
       ShutdownOrphan, SweepDone, Deadline, Mkdir, WriteInfo, Look, StealInfo, StealDir,
       LockAges, Read, Truncate, Fill, Unlink, Rmdir, Die

\* No step dooms what a live process claims, as long as nothing disturbs the lock.
LEMMA StepIsExact == TypeOK /\ LockInv /\ RegistryInv /\ [Next]_vars => ExactStep
<1> SUFFICES ASSUME TypeOK, LockInv, RegistryInv, [Next]_vars, ~ disturbed',
                    NEW p \in Procs, NEW q \in alive
             PROVE  (sweep'[p].doomed \ sweep[p].doomed) \cap claim[q] = {}
  BY DEF ExactStep
<1>1. ~ disturbed
  BY DisturbedStays
<1>2. CASE Read(p)
  BY <1>1, <1>2, ReadIsExact
<1>3. CASE ~ Read(p)
  BY <1>3, OthersDoomNobody
<1> QED BY <1>2, <1>3

\* While the lock is a mutual exclusion, a partition never finds orphaned what a
\* live process has registered by then (zombie-cleanup.ts:222-224).
THEOREM NoLiveOrphan == Spec => PartitionIsExact
<1>1. TypeOK /\ LockInv /\ RegistryInv /\ [Next]_vars => [ExactStep]_vars
  BY StepIsExact
<1>2. Spec => [][ExactStep]_vars
  BY <1>1, TypeCorrect, LockAlways, RegistryAlways, PTL DEF Spec
<1> QED BY <1>2 DEF PartitionIsExact, ExactStep

----------------------------------------------------------------------------
(* DeviceSession: the port. *)

Kind == {"no", "probing", "spawned", "tearing"}
Proxy ==
  [alive : BOOLEAN, handle : BOOLEAN, killed : BOOLEAN, running : BOOLEAN, reuse : BOOLEAN,
   stop : BOOLEAN, timer : BOOLEAN, tries : Nat, first : Kind, again : Kind]
CallLabels ==
  {"free", "list", "boot", "get", "started", "target", "answer", "connect", "stop", "awaitStart",
   "entry", "stopping", "leave", "check", "ask", "poll", "retry", "look", "erase"}
Calls == [at : CallLabels, tool : {"boot", "shutdown"}, again : BOOLEAN, of : Nat]

\* The state of the proxy manager and of the calls keeps its shape.
ManagerTypeOK ==
  /\ proxies \in Seq(Proxy) /\ managed \in ProxyIds \cup {0} /\ pending \in Nat
  /\ reserved \in BOOLEAN /\ book \in [Bookers -> Calls]

\* A proxy whose first start goes on is the one the manager waits for; it waits for
\* none while it has one.
FirstStartIsPending ==
  /\ \A i \in ProxyIds : proxies[i].first # "no" => pending = i
  /\ pending # 0 => managed = 0

\* Who waits for a process to end waits for that of a proxy.
StopsAProxy == \A b \in Bookers : BAt(b, "stopping") => book[b].of \in ProxyIds

PortInv == ManagerTypeOK /\ FirstStartIsPending /\ StopsAProxy /\ NoPortLeaks

\* The initial state has no proxy.
LEMMA PortInit == DeviceInit => PortInv
<1> SUFFICES ASSUME DeviceInit PROVE PortInv
  OBVIOUS
<1>1. proxies \in Seq(Proxy) /\ ProxyIds = {}
  BY DEF DeviceInit, ProxyIds
<1>2. book \in [Bookers -> Calls] /\ \A b \in Bookers : book[b].at = "free"
  BY DEF DeviceInit, Free, Calls, CallLabels
<1> QED
  BY <1>1, <1>2 DEF DeviceInit, PortInv, ManagerTypeOK, FirstStartIsPending, StopsAProxy, BAt,
                    NoPortLeaks

\* What a failed restart leaves is a proxy with the same first start.
LEMMA RescheduledType ==
  ASSUME NEW p \in Proxy
  PROVE  Rescheduled(p) \in Proxy /\ Rescheduled(p).first = p.first
<1>1. MaxRestarts \in Nat /\ p.tries \in Nat /\ p.tries + 1 \in Nat
  BY DeviceSessionAssumption DEF Proxy
<1> QED
  BY <1>1 DEF Rescheduled, Proxy

\* The proxies stay as many, and no first start begins.
Kept ==
  /\ proxies' \in Seq(Proxy) /\ ProxyIds' = ProxyIds
  /\ \A i \in ProxyIds : proxies'[i].first # "no" => proxies[i].first # "no"

\* The calls stay what they are, but for the ones that go on.
Moved ==
  /\ book' \in [Bookers -> Calls]
  /\ \A b \in Bookers : book'[b].at = "stopping" => book'[b].of \in ProxyIds

\* One proxy becomes another one, whose first start has not begun just now.
LEMMA OneProxyChanges ==
  ASSUME PortInv, NEW i \in ProxyIds, NEW q \in Proxy,
         proxies' = [proxies EXCEPT ![i] = q], q.first # "no" => proxies[i].first # "no"
  PROVE  Kept
BY DEF PortInv, ManagerTypeOK, ProxyIds, Kept

\* Calls that are left alone have not moved anywhere else.
LEMMA CallsStay == PortInv /\ UNCHANGED book => Moved
BY DEF PortInv, ManagerTypeOK, StopsAProxy, BAt, Moved

\* One call goes on, but not to wait for a process.
LEMMA OneCallMoves ==
  ASSUME PortInv, NEW b \in Bookers, NEW c \in Calls, c.at # "stopping",
         book' = [book EXCEPT ![b] = c]
  PROVE  Moved
BY DEF PortInv, ManagerTypeOK, StopsAProxy, BAt, Moved

\* ... which is what a hop, or the end of a call, is.
LEMMA HopMoves ==
  ASSUME PortInv, NEW b \in Bookers, NEW from, NEW to \in CallLabels, to # "stopping",
         Hop(b, from, to) \/ Over(b, from)
  PROVE  Moved
<1>1. CASE Hop(b, from, to)
  <2>1. [book[b] EXCEPT !.at = to] \in Calls /\ [book[b] EXCEPT !.at = to].at = to
    BY DEF PortInv, ManagerTypeOK, Calls, CallLabels
  <2>2. book' = [book EXCEPT ![b] = [book[b] EXCEPT !.at = to]]
    BY <1>1 DEF Hop
  <2> QED BY <2>1, <2>2, OneCallMoves
<1>2. CASE Over(b, from)
  <2>1. Free \in Calls /\ Free.at # "stopping"
    BY DEF Free, Calls, CallLabels
  <2> QED BY <1>2, <2>1, OneCallMoves DEF Over
<1> QED BY <1>1, <1>2

\* Where a call goes on after a stop.
LEMMA AfterStopMoves ==
  ASSUME PortInv, NEW b \in Bookers
  PROVE  /\ [book[b] EXCEPT !.at = AfterStop(b)] \in Calls
         /\ [book[b] EXCEPT !.at = AfterStop(b)].at = AfterStop(b)
         /\ AfterStop(b) # "stopping"
BY DEF PortInv, ManagerTypeOK, Calls, CallLabels, AfterStop

----------------------------------------------------------------------------
\* The manager stays as it is.
LEMMA ManagerStays ==
  ASSUME PortInv, Kept, Moved, UNCHANGED manager
  PROVE  PortInv' /\ PortStep
BY DEF PortInv, ManagerTypeOK, FirstStartIsPending, StopsAProxy, BAt, NoPortLeaks, Kept, Moved,
       manager, PortStep

\* The end of a stop: a port that is needed is given up by an overtaken one only.
LEMMA StopEnds ==
  ASSUME PortInv, Kept, Moved, Forget,
         pending # 0 => \E b \in Bookers : Overtaken(b) /\ book'[b].at # "stopping"
  PROVE  PortInv' /\ PortStep
<1>1. PortInv'
  BY DEF PortInv, ManagerTypeOK, FirstStartIsPending, StopsAProxy, BAt, NoPortLeaks, Kept, Moved,
         Forget
<1>2. PortStep
  BY DEF PortStep, Forget, BAt
<1> QED BY <1>1, <1>2

\* The end of a first start: the proxy is managed, or its port is given back.
LEMMA FirstStartEnds ==
  ASSUME PortInv, Kept, NEW i \in ProxyIds, NEW ok \in BOOLEAN,
         proxies[i].first # "no", proxies'[i].first = "no", Settles(i, ok)
  PROVE  PortInv' /\ PortStep
<1>1. pending = i /\ i # 0 /\ i \in Nat /\ managed = 0
  BY DEF PortInv, ManagerTypeOK, FirstStartIsPending, ProxyIds
<1>2. \A j \in ProxyIds : proxies'[j].first = "no"
  BY <1>1 DEF PortInv, FirstStartIsPending, Kept
<1>3. Moved
  <2>1. book' = Woken(i, ok)
    BY DEF Settles
  <2>2. ASSUME NEW b \in Bookers
        PROVE  book'[b] \in Calls /\ (book'[b].at = "stopping" => book'[b].of \in ProxyIds)
    <3>1. book[b] \in Calls
      BY DEF PortInv, ManagerTypeOK
    <3>2. CASE BAt(b, "started")
      <4>1. book'[b] = [book[b] EXCEPT !.at = IF ok THEN "target" ELSE "answer", !.of = i]
        BY <2>1, <3>2 DEF Woken
      <4> QED BY <1>1, <3>1, <4>1 DEF Calls, CallLabels
    <3>3. CASE ~ BAt(b, "started") /\ BAt(b, "awaitStart")
      <4>1. book'[b] = [book[b] EXCEPT !.at = "entry"]
        BY <2>1, <3>3 DEF Woken
      <4> QED BY <3>1, <4>1 DEF Calls, CallLabels
    <3>4. CASE ~ BAt(b, "started") /\ ~ BAt(b, "awaitStart")
      <4>1. book'[b] = book[b]
        BY <2>1, <3>4 DEF Woken
      <4> QED BY <3>1, <4>1 DEF PortInv, StopsAProxy, BAt
    <3> QED BY <3>2, <3>3, <3>4
  <2> QED BY <2>1, <2>2 DEF Moved, Woken
<1>4. managed' \in ProxyIds \cup {0} /\ pending' = 0 /\ reserved' \in BOOLEAN
  BY <1>1 DEF Settles, PortInv, ManagerTypeOK
<1>5. NoPortLeaks' /\ PortStep
  BY <1>1 DEF Settles, NoPortLeaks, PortStep
<1>6. ManagerTypeOK' /\ FirstStartIsPending' /\ StopsAProxy'
  BY <1>2, <1>3, <1>4 DEF ManagerTypeOK, FirstStartIsPending, StopsAProxy, BAt, Kept, Moved
<1> QED BY <1>5, <1>6 DEF PortInv

\* The end of any start.
LEMMA DonePort ==
  ASSUME PortInv, NEW i \in ProxyIds, NEW kind \in {"first", "again"}, NEW p \in Proxy,
         NEW ok \in BOOLEAN, p.first = proxies[i].first, proxies[i][kind] # "no",
         Done(i, kind, p, ok)
  PROVE  PortInv' /\ PortStep
<1> DEFINE q == [p EXCEPT ![kind] = "no"]
           r == IF ok \/ kind = "first" THEN q ELSE Rescheduled(q)
<1>1. q \in Proxy /\ r \in Proxy /\ r.first = q.first
  <2>1. q \in Proxy
    BY DEF Proxy, Kind
  <2> QED
    BY <2>1, RescheduledType
<1>2. proxies' = [proxies EXCEPT ![i] = r]
  BY DEF Done
<1>3. CASE kind = "first"
  <2>1. r.first = "no" /\ proxies[i].first # "no"
    BY <1>1, <1>3 DEF Proxy
  <2>2. Settles(i, ok)
    BY <1>3 DEF Done
  <2> HIDE DEF q, r
  <2>3. Kept /\ proxies'[i] = r
    BY <1>1, <1>2, <2>1, OneProxyChanges DEF PortInv, ManagerTypeOK, ProxyIds
  <2> QED
    BY <2>1, <2>2, <2>3, FirstStartEnds
<1>4. CASE kind = "again"
  <2>1. r.first = proxies[i].first
    BY <1>1, <1>4 DEF Proxy
  <2>2. UNCHANGED <<manager, book>>
    BY <1>4 DEF Done
  <2> HIDE DEF q, r
  <2> QED
    BY <1>1, <1>2, <2>1, <2>2, OneProxyChanges, CallsStay, ManagerStays
<1> QED
  BY <1>3, <1>4

\* A start that goes on, or ends.
LEMMA StartPort ==
  ASSUME PortInv, NEW i \in ProxyIds, NEW kind \in {"first", "again"},
         StartProbe(i, kind) \/ StartReady(i, kind) \/ TearTimeout(i, kind)
  PROVE  PortInv' /\ PortStep
<1> DEFINE p == proxies[i]
<1>0. p \in Proxy
  BY DEF PortInv, ManagerTypeOK, ProxyIds
<1>1. p[kind] # "no"
  BY DEF StartProbe, StartReady, TearTimeout
<1>a. ASSUME NEW q \in Proxy, NEW ok \in BOOLEAN, q.first = p.first, Done(i, kind, q, ok)
      PROVE  PortInv' /\ PortStep
  BY <1>1, <1>a, DonePort
<1>b. ASSUME NEW q \in Proxy, q.first # "no" => p.first # "no",
             proxies' = [proxies EXCEPT ![i] = q], UNCHANGED <<manager, book>>
      PROVE  PortInv' /\ PortStep
  BY <1>b, OneProxyChanges, CallsStay, ManagerStays
<1>2. CASE StartProbe(i, kind)
  <2> DEFINE q == [p EXCEPT !.running = TRUE, !.reuse = TRUE]
             s == [p EXCEPT !.alive = TRUE, !.handle = TRUE, !.killed = FALSE, !.running = TRUE,
                            !.reuse = FALSE, ![kind] = "spawned"]
  <2>1. q \in Proxy /\ q.first = p.first
    BY <1>0 DEF Proxy
  <2>2. s \in Proxy /\ (s.first # "no" => p.first # "no")
    BY <1>0, <1>1 DEF Proxy, Kind
  <2>3. \/ Done(i, kind, q, TRUE) \/ Done(i, kind, p, FALSE)
        \/ proxies' = [proxies EXCEPT ![i] = s] /\ UNCHANGED <<manager, book>>
    BY <1>2 DEF StartProbe
  <2> HIDE DEF q, s
  <2> QED BY <1>0, <1>a, <1>b, <2>1, <2>2, <2>3
<1>3. CASE StartReady(i, kind)
  <2> DEFINE s == [p EXCEPT !.killed = TRUE, ![kind] = "tearing"]
  <2>1. LetGo(p) \in Proxy /\ LetGo(p).first = p.first
    BY <1>0 DEF Proxy, LetGo
  <2>2. s \in Proxy /\ (s.first # "no" => p.first # "no")
    BY <1>0, <1>1 DEF Proxy, Kind
  <2>3. \/ Done(i, kind, p, TRUE) \/ Done(i, kind, LetGo(p), FALSE)
        \/ proxies' = [proxies EXCEPT ![i] = s] /\ UNCHANGED <<manager, book>>
    BY <1>3 DEF StartReady
  <2> HIDE DEF s
  <2> QED BY <1>0, <1>a, <1>b, <2>1, <2>2, <2>3
<1>4. CASE TearTimeout(i, kind)
  <2> DEFINE q == [p EXCEPT !.running = FALSE, !.handle = FALSE]
  <2>1. q \in Proxy /\ q.first = p.first
    BY <1>0 DEF Proxy
  <2>2. Done(i, kind, q, FALSE)
    BY <1>4 DEF TearTimeout
  <2> HIDE DEF q
  <2> QED BY <1>a, <2>1, <2>2
<1> QED
  BY <1>2, <1>3, <1>4

----------------------------------------------------------------------------
\* The stops that waited for a process end: the manager had nothing else, or they
\* were overtaken.
LEMMA StoppedPort ==
  ASSUME PortInv, Kept, NEW i \in ProxyIds, Stopped(i)
  PROVE  PortInv' /\ PortStep
<1>1. CASE UNCHANGED <<manager, book>>
  BY <1>1, CallsStay, ManagerStays
<1>2. CASE ~ UNCHANGED <<manager, book>>
  <2>1. PICK b \in Bookers : Stopping(b, i)
    BY <1>2 DEF Stopped
  <2>2. Forget /\ book' = [c \in Bookers |->
                    IF Stopping(c, i) THEN [book[c] EXCEPT !.at = AfterStop(c)] ELSE book[c]]
    BY <2>1 DEF Stopped
  <2>3. Moved
    <3>1. ASSUME NEW c \in Bookers
          PROVE  book'[c] \in Calls /\ (book'[c].at = "stopping" => book'[c].of \in ProxyIds)
      <4>1. CASE Stopping(c, i)
        BY <2>2, <4>1, AfterStopMoves
      <4>2. CASE ~ Stopping(c, i)
        BY <2>2, <4>2 DEF PortInv, ManagerTypeOK, StopsAProxy, BAt
      <4> QED BY <4>1, <4>2
    <3> QED BY <2>2, <3>1 DEF Moved
  <2>4. book'[b].at # "stopping"
    BY <2>1, <2>2, AfterStopMoves
  <2>5. pending # 0 => Overtaken(b)
    BY <2>1 DEF PortInv, ManagerTypeOK, FirstStartIsPending, Overtaken, Stopping, ProxyIds
  <2> QED BY <2>2, <2>3, <2>4, <2>5, StopEnds
<1> QED BY <1>1, <1>2

\* A process that ends.
LEMMA ExitPort ==
  ASSUME PortInv, NEW i \in ProxyIds, ProxyExit(i)
  PROVE  PortInv' /\ PortStep
<1> DEFINE p == proxies[i]
           q == [p EXCEPT !.alive = FALSE, !.handle = FALSE, !.running = FALSE,
                          !.first = IF Torn(i, "first") THEN "no" ELSE @,
                          !.again = IF Torn(i, "again") THEN "no" ELSE @]
           again == Torn(i, "again") \/ (p.running /\ ~p.reuse /\ ~Torn(i, "first"))
           r == IF again THEN Rescheduled(q) ELSE q
<1>0. p \in Proxy
  BY DEF PortInv, ManagerTypeOK, ProxyIds
<1>1. q \in Proxy /\ q.first = IF Torn(i, "first") THEN "no" ELSE p.first
  BY <1>0 DEF Proxy, Kind
<1>2. proxies' = [proxies EXCEPT ![i] = r]
  BY DEF ProxyExit
<1>3. Torn(i, "first") => p.first # "no"
  BY DEF Torn
<1>4. IF Torn(i, "first") THEN Settles(i, FALSE) ELSE Stopped(i)
  BY DEF ProxyExit
<1> HIDE DEF p, q, again
<1>5. r \in Proxy /\ r.first = q.first
  BY <1>1, RescheduledType
<1> HIDE DEF r
<1>6. Kept /\ proxies'[i] = r
  BY <1>1, <1>2, <1>5, OneProxyChanges DEF p, PortInv, ManagerTypeOK, ProxyIds
<1> QED
  BY <1>1, <1>3, <1>4, <1>5, <1>6, FirstStartEnds, StoppedPort DEF p

\* The restart timer leaves the first start, and the manager, alone.
LEMMA TimerPort ==
  ASSUME PortInv, NEW i \in ProxyIds, RestartTimer(i)
  PROVE  PortInv' /\ PortStep
<1> DEFINE p == [proxies[i] EXCEPT !.timer = FALSE]
           q == IF p.running THEN p ELSE [p EXCEPT !.stop = FALSE, !.again = "probing"]
<1>0. proxies[i] \in Proxy
  BY DEF PortInv, ManagerTypeOK, ProxyIds
<1>1. q \in Proxy /\ q.first = proxies[i].first
  BY <1>0 DEF Proxy, Kind
<1>2. proxies' = [proxies EXCEPT ![i] = q] /\ UNCHANGED <<manager, book>>
  BY DEF RestartTimer
<1> HIDE DEF p, q
<1> QED
  BY <1>1, <1>2, OneProxyChanges, CallsStay, ManagerStays

\* A call that asks for the proxy starts one only if there is none.
LEMMA GetsPort ==
  ASSUME PortInv, NEW b \in Bookers, GetProxy(b)
  PROVE  PortInv' /\ PortStep
<1>1. Moved
  <2>1. CASE Hop(b, "get", "started")
    BY <2>1, HopMoves DEF CallLabels
  <2>2. CASE managed # 0 /\ book' = [book EXCEPT ![b].at = "target", ![b].of = managed]
    <3>0. managed \in Nat
      BY DEF PortInv, ManagerTypeOK, ProxyIds
    <3>1. [book[b] EXCEPT !.at = "target", !.of = managed] \in Calls
      BY <3>0 DEF PortInv, ManagerTypeOK, Calls, CallLabels
    <3>2. [book[b] EXCEPT !.at = "target", !.of = managed].at = "target"
      BY DEF PortInv, ManagerTypeOK, Calls, CallLabels
    <3>3. book' = [book EXCEPT ![b] = [book[b] EXCEPT !.at = "target", !.of = managed]]
      BY <2>2 DEF PortInv, ManagerTypeOK
    <3> QED BY <3>1, <3>2, <3>3, OneCallMoves
  <2> QED BY <2>1, <2>2 DEF GetProxy
<1>2. CASE UNCHANGED <<proxies, manager>>
  <2>1. Kept
    BY <1>2 DEF Kept, PortInv, ManagerTypeOK, ProxyIds
  <2> QED BY <1>1, <1>2, <2>1, ManagerStays
<1>3. CASE /\ managed = 0 /\ pending = 0 /\ proxies' = Append(proxies, New)
           /\ pending' = Len(proxies) + 1 /\ reserved' = TRUE /\ UNCHANGED managed
  <2>1. New \in Proxy
    BY DEF New, Proxy, Kind
  <2>2. proxies' \in Seq(Proxy) /\ pending' \in Nat \ {0} /\ managed' = 0
    BY <1>3, <2>1 DEF PortInv, ManagerTypeOK
  <2>3. \A i \in ProxyIds : proxies[i].first = "no"
    BY <1>3 DEF PortInv, ManagerTypeOK, FirstStartIsPending, ProxyIds
  <2>4. ProxyIds = 1..Len(proxies) /\ ProxyIds' = 1..(Len(proxies) + 1)
    BY <1>3, <2>1 DEF PortInv, ManagerTypeOK, ProxyIds
  <2>5. FirstStartIsPending'
    <3> SUFFICES ASSUME NEW i \in ProxyIds', proxies'[i].first # "no"
                 PROVE  pending' = i
      BY <2>2 DEF FirstStartIsPending, ProxyIds
    <3>1. i \in 1..Len(proxies) => proxies'[i] = proxies[i]
      BY <1>3, <2>1 DEF PortInv, ManagerTypeOK
    <3> QED
      BY <1>3, <2>3, <2>4, <3>1 DEF PortInv, ManagerTypeOK
  <2>6. ManagerTypeOK' /\ StopsAProxy'
    BY <1>1, <1>3, <2>2, <2>4 DEF Moved, ManagerTypeOK, StopsAProxy, BAt
  <2> QED
    BY <1>3, <2>2, <2>5, <2>6 DEF PortInv, NoPortLeaks, PortStep
<1> QED
  BY <1>2, <1>3 DEF GetProxy

\* A stop that finds a proxy lets go of it, or waits for its process to end.
LEMMA StopPort ==
  ASSUME PortInv, NEW b \in Bookers, StopProxy(b)
  PROVE  PortInv' /\ PortStep
<1> DEFINE p == [proxies[managed] EXCEPT !.stop = TRUE, !.timer = FALSE]
           k == [p EXCEPT !.killed = TRUE]
           c == [book[b] EXCEPT !.at = AfterStop(b)]
           d == [book[b] EXCEPT !.at = "stopping", !.of = managed]
<1>1. book' = [book EXCEPT ![b] = c] => Moved
  BY AfterStopMoves, OneCallMoves
<1>2. CASE UNCHANGED <<proxies, manager>>
  <2>1. Kept
    BY <1>2 DEF Kept, PortInv, ManagerTypeOK, ProxyIds
  <2>2. \/ Hop(b, "stop", "awaitStart") \/ book' = [book EXCEPT ![b] = c]
        \/ managed # 0 /\ book' = [book EXCEPT ![b] = d]
    BY DEF StopProxy, PortInv, ManagerTypeOK
  <2>3. managed # 0 /\ book' = [book EXCEPT ![b] = d] => Moved
    <3> SUFFICES ASSUME managed # 0, book' = [book EXCEPT ![b] = d] PROVE Moved
      OBVIOUS
    <3>0. managed \in Nat /\ managed \in ProxyIds
      BY DEF PortInv, ManagerTypeOK, ProxyIds
    <3>1. d \in Calls /\ d.of \in ProxyIds
      BY <3>0 DEF PortInv, ManagerTypeOK, Calls, CallLabels
    <3> QED BY <3>1 DEF PortInv, ManagerTypeOK, StopsAProxy, BAt, Moved
  <2>4. Moved
    BY <1>1, <2>2, <2>3, HopMoves DEF CallLabels
  <2> QED BY <1>2, <2>1, <2>4, ManagerStays
<1>3. CASE managed \in ProxyIds /\ ~ UNCHANGED <<proxies, manager>>
  <2>1. proxies[managed] \in Proxy /\ managed # 0 /\ pending = 0
    BY <1>3 DEF PortInv, ManagerTypeOK, FirstStartIsPending, ProxyIds
  <2>2. p \in Proxy /\ p.first = proxies[managed].first
    BY <2>1 DEF Proxy
  <2>3. /\ LetGo(p) \in Proxy /\ LetGo(p).first = p.first
        /\ k \in Proxy /\ k.first = p.first
    BY <2>2 DEF Proxy, LetGo
  <2>4. \/ /\ proxies' = [proxies EXCEPT ![managed] = LetGo(p)]
           /\ Forget /\ book' = [book EXCEPT ![b] = c]
        \/ /\ proxies' = [proxies EXCEPT ![managed] = k]
           /\ UNCHANGED manager /\ book' = [book EXCEPT ![b] = d]
    BY <1>3 DEF StopProxy, PortInv, ManagerTypeOK
  <2>n. managed \in Nat
    BY DEF PortInv, ManagerTypeOK, ProxyIds
  <2>5. d \in Calls /\ d.of \in ProxyIds
    BY <1>3, <2>n DEF PortInv, ManagerTypeOK, Calls, CallLabels
  <2>6. book' = [book EXCEPT ![b] = d] => Moved
    BY <2>5 DEF PortInv, ManagerTypeOK, StopsAProxy, BAt, Moved
  <2> HIDE DEF p, k, c, d
  <2>7. Kept
    BY <1>3, <2>2, <2>3, <2>4, OneProxyChanges
  <2> QED
    BY <1>1, <2>1, <2>4, <2>6, <2>7, StopEnds, ManagerStays
<1>4. CASE managed \notin ProxyIds
  BY <1>2, <1>4 DEF StopProxy, PortInv, ManagerTypeOK
<1> QED
  BY <1>2, <1>3, <1>4

\* A stop that waits no longer.
LEMMA TimeoutPort ==
  ASSUME PortInv, NEW b \in Bookers, StopTimeout(b)
  PROVE  PortInv' /\ PortStep
<1> DEFINE i == book[b].of
           q == [proxies[i] EXCEPT !.running = FALSE, !.handle = FALSE]
           c == [book[b] EXCEPT !.at = AfterStop(b)]
<1>1. BAt(b, "stopping") /\ i \in ProxyIds /\ i # 0
  BY DEF StopTimeout, PortInv, ManagerTypeOK, StopsAProxy, ProxyIds
<1>2. q \in Proxy /\ q.first = proxies[i].first
  <2>1. proxies[i] \in Proxy
    BY <1>1 DEF PortInv, ManagerTypeOK, ProxyIds
  <2> HIDE DEF i
  <2> QED BY <2>1 DEF Proxy
<1>3. proxies' = [proxies EXCEPT ![i] = q] /\ Forget /\ book' = [book EXCEPT ![b] = c]
  BY DEF StopTimeout, PortInv, ManagerTypeOK
<1>4. c \in Calls /\ c.at # "stopping"
  BY AfterStopMoves
<1>5. pending # 0 => Overtaken(b)
  BY <1>1 DEF PortInv, FirstStartIsPending, Overtaken
<1> HIDE DEF i, q, c
<1>6. Kept /\ Moved /\ book'[b].at # "stopping"
  BY <1>1, <1>2, <1>3, <1>4, OneProxyChanges, OneCallMoves DEF PortInv, ManagerTypeOK
<1> QED
  BY <1>3, <1>5, <1>6, StopEnds

----------------------------------------------------------------------------
\* The rest of a call, its begin included, leaves the manager alone.
LEMMA RestPort ==
  ASSUME PortInv, NEW b \in Bookers, Book(b) \/ DeviceBoot(b) \/ DeviceShutdown(b)
  PROVE  PortInv' /\ PortStep
<1>1. UNCHANGED <<proxies, manager>>
  BY DEF Book, DeviceBoot, BootList, Boot, Connect, DeviceShutdown, LeaveSession, Rest
<1>2. Moved
  <2>1. CASE Book(b)
    <3>1. PICK tool \in {"boot", "shutdown"} :
            book' = [book EXCEPT ![b] =
                       [at |-> "list", tool |-> tool, again |-> FALSE, of |-> 0]]
      BY <2>1 DEF Book
    <3>2. [at |-> "list", tool |-> tool, again |-> FALSE, of |-> 0] \in Calls
      BY DEF Calls, CallLabels
    <3> QED BY <3>1, <3>2, OneCallMoves
  <2>2. CASE DeviceBoot(b)
    <3>1. CASE BootList(b) \/ Boot(b)
      BY <3>1, HopMoves DEF CallLabels, BootList, Boot
    <3>2. CASE Connect(b)
      <4>1. CASE book' = [book EXCEPT ![b].at = "stop", ![b].again = TRUE]
        <5>1. [book[b] EXCEPT !.at = "stop", !.again = TRUE] \in Calls
          BY DEF PortInv, ManagerTypeOK, Calls, CallLabels
        <5>2. [book[b] EXCEPT !.at = "stop", !.again = TRUE].at = "stop"
          BY DEF PortInv, ManagerTypeOK, Calls, CallLabels
        <5>3. book' = [book EXCEPT ![b] = [book[b] EXCEPT !.at = "stop", !.again = TRUE]]
          BY <4>1 DEF PortInv, ManagerTypeOK
        <5> QED BY <5>1, <5>2, <5>3, OneCallMoves
      <4>2. CASE ~ book' = [book EXCEPT ![b].at = "stop", ![b].again = TRUE]
        BY <3>2, <4>2, HopMoves DEF CallLabels, Connect
      <4> QED BY <4>1, <4>2
    <3> QED BY <2>2, <3>1, <3>2 DEF DeviceBoot
  <2>3. CASE DeviceShutdown(b)
    BY <2>3, HopMoves DEF CallLabels, DeviceShutdown, LeaveSession, GoDown, Erase
  <2> QED BY <2>1, <2>2, <2>3
<1>3. Kept
  BY <1>1 DEF Kept, PortInv, ManagerTypeOK, ProxyIds
<1> QED BY <1>1, <1>2, <1>3, ManagerStays

\* Every step preserves the invariant of the port and gives it up only as it may.
LEMMA PortNext == PortInv /\ [DeviceNext]_dvars => PortInv' /\ [PortStep]_dvars
<1> SUFFICES ASSUME PortInv, [DeviceNext]_dvars PROVE PortInv' /\ [PortStep]_dvars
  OBVIOUS
<1>1. ASSUME NEW b \in Bookers, Book(b) \/ BookStep(b) PROVE PortInv' /\ PortStep
  BY <1>1, GetsPort, StopPort, TimeoutPort, RestPort DEF BookStep
<1>2. ASSUME NEW i \in ProxyIds, ProxyStep(i) \/ ProxyExit(i) \/ RestartTimer(i)
      PROVE  PortInv' /\ PortStep
  BY <1>2, StartPort, ExitPort, TimerPort DEF ProxyStep
<1>3. CASE ShutDown \/ UNCHANGED dvars
  <2>1. UNCHANGED <<proxies, manager, book>>
    BY <1>3 DEF ShutDown, dvars, manager
  <2>2. Kept /\ Moved
    BY <2>1, CallsStay DEF Kept, PortInv, ManagerTypeOK, ProxyIds
  <2> QED BY <2>1, <2>2, ManagerStays
<1> QED
  BY <1>1, <1>2, <1>3 DEF DeviceNext

\* However boots, shutdowns, starts, crashes and restarts interleave, the port is
\* reserved only for a proxy that starts or is managed, and given up under one only
\* by a stop of an older proxy, one that another stop of that proxy has overtaken.
THEOREM PortFollows == DeviceSpec => PortFollowsProxy
<1>1. PortInv /\ [DeviceNext]_dvars => [PortStep /\ NoPortLeaks']_dvars
  BY PortNext DEF PortInv
<1> QED
  BY PortInit, PortNext, <1>1, PTL DEF DeviceSpec, PortFollowsProxy

----------------------------------------------------------------------------
(* InputRouting: the order of the tiers. *)

Found ==
  [pointer : {"unprobed", "probing", "here", "none"}, hid : {"unprobed", "probing", "here", "none"},
   simctl : {"unknown", "detecting", "yes", "no"}]
Kinds == {"none", "flutter", "pointer", "simhid", "simctl", "webkit", "applescript"}
Choices == {"tap", "swipe", "type", "key"}
Labels ==
  {"idle", "flutter", "tiers", "pointer", "hid", "detect", "reconnect", "send", "again", "aim",
   "event", "ok", "unavailable"} \cup Choices
Asked ==
  [at : Labels, op : Choices, plain : Nat, kind : Kinds, got : Nat, raced : BOOLEAN]

\* The calls and the caches keep their shape.
AskTypeOK == found \in Found /\ ask \in [Inputs -> Asked]

\* A bridge that was not found is not there.
ProbeIsTrue == found.hid = "none" => ~env.bridge

\* A call below the bridge has met a probe of another, or there is none.
BelowBridge(a, e) ==
  a.kind \in Lower \/ a.at \in {"detect", "reconnect", "unavailable"} => a.raced \/ ~e.bridge
\* A call below simctl has seen its detection fail.
BelowSimctl(a, f) ==
  a.kind \in Lowest \/ a.at \in {"reconnect", "unavailable"} => f.simctl = "no"
\* The focus is taken on request.
TakesFocus(a, e) == a.kind = "applescript" => e.focus /\ ~e.headless
\* How far a call has sent: what it types is a text, what it sends again went by simctl,
\* and what is confirmed has arrived.
HasSent(a) ==
  /\ a.at \in Choices => a.at = a.op
  /\ a.at = "again" => a.kind = "simctl"
  /\ a.at \in {"aim", "event"} => a.kind = "applescript"
  /\ a.at = "ok" /\ a.kind \in {"simhid", "pointer"} => a.got >= IF a.op = "type" THEN 2 ELSE 1
  /\ a.at = "ok" /\ a.kind = "simctl" => a.got >= 1

InputInv ==
  /\ AskTypeOK /\ ProbeIsTrue
  /\ \A c \in Inputs :
       BelowBridge(ask[c], env) /\ BelowSimctl(ask[c], found) /\ TakesFocus(ask[c], env)
           /\ HasSent(ask[c])

\* Nobody has asked yet.
LEMMA InputInitInv == InputInit => InputInv
BY DEF InputInit, InputInv, AskTypeOK, ProbeIsTrue, BelowBridge, BelowSimctl, TakesFocus, HasSent,
  NoInput, Asked, Found, Labels, Choices, Kinds, Lower, Lowest

\* The invariant gives the property.
LEMMA InputInvRouted == InputInv => InputIsRouted
BY DEF InputInv, InputIsRouted, AskTypeOK, Asked, Found, BelowBridge, BelowSimctl, TakesFocus,
    HasSent,
  AskAt, Lower, Lowest

\* One call changes, and the resolver's caches may, but not what simctl was found to be.
LEMMA OneAsks ==
  ASSUME InputInv, NEW c \in Inputs, NEW a \in Asked, NEW f \in Found,
         ask' = [ask EXCEPT ![c] = a], found' = f, UNCHANGED env,
         found.simctl = "no" => f.simctl = "no", f.hid = "none" => ~env.bridge,
         BelowBridge(a, env), BelowSimctl(a, f), TakesFocus(a, env), HasSent(a)
  PROVE  InputInv'
<1>1. AskTypeOK' /\ ProbeIsTrue'
  BY DEF InputInv, AskTypeOK, ProbeIsTrue
<1>2. ASSUME NEW d \in Inputs
      PROVE  BelowBridge(ask[d], env)' /\ BelowSimctl(ask[d], found)' /\ TakesFocus(ask[d], env)'
          /\ HasSent(ask[d])'
  <2>1. CASE d = c
    <3>1. ask'[d] = a
      BY <2>1 DEF InputInv, AskTypeOK
    <3> QED
      BY <3>1 DEF BelowBridge, BelowSimctl, TakesFocus, HasSent
  <2>2. CASE d # c
    <3>1. ask'[d] = ask[d]
      BY <2>2 DEF InputInv, AskTypeOK
    <3> QED
      BY <3>1 DEF InputInv, BelowBridge, BelowSimctl, TakesFocus, HasSent
  <2> QED
    BY <2>1, <2>2
<1> QED
  BY <1>1, <1>2 DEF InputInv

\* getInputBackend() goes down the tiers in their order, from any of them on.
LEMMA TiersInOrder ==
  ASSUME InputInv, NEW c \in Inputs, NEW f \in Found, NEW from \in {1, 2, 4, 5},
         f.simctl = found.simctl, f.hid = "none" => ~env.bridge,
         from >= 4 => ask[c].raced \/ ~env.bridge,
         from = 4 => f.simctl \in {"yes", "no"}, from = 5 => f.simctl = "no",
         GetInputBackend(c, f, from), UNCHANGED env
  PROVE  InputInv'
<1> DEFINE Passed == ask[c].raced \/ f.hid = "probing"
           At(label) == [ask[c] EXCEPT !.at = label, !.raced = Passed]
           Uses(kind) == [ask[c] EXCEPT !.at = "send", !.kind = kind, !.raced = Passed]
<1>0. ask[c] \in Asked /\ ask \in [Inputs -> Asked] /\ Passed \in BOOLEAN
  BY DEF InputInv, AskTypeOK, Asked
<1>1. /\ \A label \in Labels : At(label) \in Asked
      /\ \A kind \in Kinds : Uses(kind) \in Asked
  BY <1>0 DEF Asked, Labels
<1>2. ASSUME NEW label \in {"pointer", "hid", "detect", "reconnect", "unavailable"},
    NEW g \in Found,
             found' = g, ask' = [ask EXCEPT ![c] = At(label)],
             g.simctl = f.simctl \/ f.simctl = "unknown", g.hid = "none" => ~env.bridge,
             label \in {"detect", "reconnect", "unavailable"} => Passed \/ ~env.bridge,
             label \in {"reconnect", "unavailable"} => f.simctl = "no"
      PROVE  InputInv'
  <2>1. /\ At(label).at = label /\ At(label).kind = ask[c].kind
        /\ At(label).raced = Passed
    BY <1>0 DEF Asked
  <2>2. BelowBridge(At(label), env)
    BY <1>0, <1>2, <2>1 DEF InputInv, BelowBridge
  <2>3. BelowSimctl(At(label), g)
    BY <1>2, <2>1 DEF InputInv, BelowSimctl
  <2>4. TakesFocus(At(label), env) /\ HasSent(At(label))
    BY <2>1 DEF InputInv, TakesFocus, HasSent, Choices
  <2>5. At(label) \in Asked
    BY <1>1 DEF Labels
  <2>6. found.simctl = "no" => g.simctl = "no"
    BY <1>2
  <2> HIDE DEF At
  <2> QED
    BY <1>2, <2>2, <2>3, <2>4, <2>5, <2>6, OneAsks
<1>3. ASSUME NEW kind \in {"pointer", "simhid", "simctl", "webkit", "applescript"},
             found' = f, ask' = [ask EXCEPT ![c] = Uses(kind)],
             kind \in Lower => Passed \/ ~env.bridge,
             kind \in Lowest => f.simctl = "no",
             kind = "applescript" => env.focus /\ ~env.headless
      PROVE  InputInv'
  <2>1. Uses(kind).at = "send" /\ Uses(kind).kind = kind /\ Uses(kind).raced = Passed
    BY <1>0 DEF Asked
  <2>2. BelowBridge(Uses(kind), env) /\ BelowSimctl(Uses(kind), f)
    BY <1>3, <2>1 DEF BelowBridge, BelowSimctl
  <2>3. TakesFocus(Uses(kind), env) /\ HasSent(Uses(kind))
    BY <1>3, <2>1 DEF TakesFocus, HasSent, Choices
  <2>4. Uses(kind) \in Asked
    BY <1>1 DEF Kinds
  <2> HIDE DEF Uses
  <2> QED
    BY <1>3, <2>2, <2>3, <2>4, OneAsks
<1>4. ASSUME NEW label
      PROVE  [ask EXCEPT ![c].at = label, ![c].raced = @ \/ f.hid = "probing"]
               = [ask EXCEPT ![c] = At(label)]
  BY <1>0
<1>5. ASSUME NEW kind
      PROVE  [ask EXCEPT ![c].at = "send", ![c].kind = kind, ![c].raced = @ \/ f.hid = "probing"]
               = [ask EXCEPT ![c] = Uses(kind)]
  BY <1>0
<1>6. from \in {1, 2} /\ f.hid \notin {"unprobed", "here"} => Passed \/ ~env.bridge
  BY DEF Found
<1>7. from >= 4 => Passed \/ ~env.bridge
  OBVIOUS
<1> HIDE DEF Passed, At, Uses
<1>8. CASE /\ from = 1 /\ f.pointer = "unprobed" /\ found' = [f EXCEPT !.pointer = "probing"]
           /\ ask' = [ask EXCEPT ![c] = At("pointer")]
  <2>1. [f EXCEPT !.pointer = "probing"] \in Found
      /\ [f EXCEPT !.pointer = "probing"].simctl = f.simctl
        /\ [f EXCEPT !.pointer = "probing"].hid = f.hid
    BY DEF Found
  <2> QED
    BY <1>2, <1>8, <2>1
<1>9. CASE /\ found' = [f EXCEPT !.hid = "probing"] /\ ask' = [ask EXCEPT ![c] = At("hid")]
  <2>1. [f EXCEPT !.hid = "probing"] \in Found /\ [f EXCEPT !.hid = "probing"].simctl = f.simctl
        /\ [f EXCEPT !.hid = "probing"].hid = "probing"
    BY DEF Found
  <2> QED
    BY <1>2, <1>9, <2>1
<1>10. CASE /\ from \in {1, 2} /\ f.hid \notin {"unprobed", "here"}
               /\ f.simctl \in {"unknown", "detecting"}
            /\ found' = [f EXCEPT !.simctl = "detecting"] /\ ask' = [ask EXCEPT ![c] = At("detect")]
  <2> DEFINE g == [f EXCEPT !.simctl = "detecting"]
  <2>1. g \in Found /\ g.hid = f.hid /\ (g.simctl = f.simctl \/ f.simctl = "unknown")
    BY <1>10 DEF Found
  <2> HIDE DEF g
  <2>2. found' = g
    BY <1>10 DEF g
  <2> QED
    BY <1>2, <1>6, <1>10, <2>1, <2>2
<1>11. CASE \E kind \in {"pointer", "simhid"} : found' = f /\ ask' = [ask EXCEPT ![c] = Uses(kind)]
  BY <1>3, <1>11 DEF Lower, Lowest
<1>12. CASE /\ from >= 4 \/ f.hid \notin {"unprobed", "here"}
            /\ found' = f /\ ask' = [ask EXCEPT ![c] = Uses("simctl")]
  BY <1>3, <1>6, <1>7, <1>12 DEF Lowest
<1>13. CASE /\ from >= 4 \/ f.hid \notin {"unprobed", "here"}
            /\ f.simctl = "no" /\ found' = f
            /\ \/ ask' = [ask EXCEPT ![c] = Uses("webkit")]
               \/ ask' = [ask EXCEPT ![c] = At("reconnect")]
               \/ ask' = [ask EXCEPT ![c] = At("unavailable")]
               \/ env.focus /\ ~env.headless /\ ask' = [ask EXCEPT ![c] = Uses("applescript")]
  BY <1>2, <1>3, <1>6, <1>7, <1>13
<1>14. CASE from = 1 /\ env.pointer /\ f.pointer \in {"unprobed", "here"}
  BY <1>4, <1>5, <1>8, <1>11, <1>14 DEF GetInputBackend
<1> DEFINE NoPointer == ~(from = 1 /\ env.pointer /\ f.pointer \in {"unprobed", "here"})
<1>15. CASE NoPointer /\ from <= 2 /\ f.hid \in {"unprobed", "here"}
  BY <1>4, <1>5, <1>9, <1>11, <1>15 DEF GetInputBackend
<1>16. CASE NoPointer /\ from \in {1, 2} /\ f.hid \notin {"unprobed", "here"}
    /\ f.simctl \in {"unknown", "detecting"}
  <2>1. /\ found' = [f EXCEPT !.simctl = "detecting"]
        /\ ask' = [ask EXCEPT ![c].at = "detect", ![c].raced = @ \/ f.hid = "probing"]
    BY <1>16 DEF GetInputBackend
  <2> QED
    BY <1>4, <1>10, <1>16, <2>1
<1>17. CASE /\ NoPointer /\ (from \in {4, 5} \/ f.hid \notin {"unprobed", "here"})
            /\ f.simctl = "yes"
  <2>1. /\ found' = f
        /\ ask' = [ask EXCEPT ![c].at = "send", ![c].kind = "simctl",
                              ![c].raced = @ \/ f.hid = "probing"]
    BY <1>17 DEF GetInputBackend
  <2>2. ask' = [ask EXCEPT ![c] = Uses("simctl")]
    BY <1>5, <2>1
  <2>3. from >= 4 \/ f.hid \notin {"unprobed", "here"}
    BY <1>17
  <2> QED
    BY <1>12, <2>1, <2>2, <2>3
<1>18. CASE /\ NoPointer /\ (from \in {4, 5} \/ f.hid \notin {"unprobed", "here"})
            /\ f.simctl = "no"
  <2>1. /\ found' = f
        /\ \/ ask' = [ask EXCEPT ![c].at = "send", ![c].kind = "webkit",
                                 ![c].raced = @ \/ f.hid = "probing"]
           \/ ask' = [ask EXCEPT ![c].at = "reconnect", ![c].raced = @ \/ f.hid = "probing"]
           \/ ask' = [ask EXCEPT ![c].at = "unavailable", ![c].raced = @ \/ f.hid = "probing"]
           \/ /\ env.focus /\ ~env.headless
              /\ ask' = [ask EXCEPT ![c].at = "send", ![c].kind = "applescript",
                                    ![c].raced = @ \/ f.hid = "probing"]
    BY <1>18 DEF GetInputBackend
  <2>2. \/ ask' = [ask EXCEPT ![c] = Uses("webkit")]
        \/ ask' = [ask EXCEPT ![c] = At("reconnect")]
        \/ ask' = [ask EXCEPT ![c] = At("unavailable")]
        \/ env.focus /\ ~env.headless /\ ask' = [ask EXCEPT ![c] = Uses("applescript")]
    BY <1>4, <1>5, <2>1
  <2>3. from >= 4 \/ f.hid \notin {"unprobed", "here"}
    BY <1>18
  <2> QED
    BY <1>13, <1>18, <2>1, <2>2, <2>3
<1> QED
  BY <1>14, <1>15, <1>16, <1>17, <1>18 DEF Found

\* A probe that has ended, or the detection of simctl's input, takes the call further down.
LEMMA ProbesInOrder ==
  ASSUME InputInv, NEW c \in Inputs,
         AsksTiers(c) \/ PointerProbed(c) \/ HidProbed(c) \/ Detected(c)
  PROVE  InputInv'
<1>0. found \in Found /\ ask[c] \in Asked /\ UNCHANGED env /\ (found.hid = "none" => ~env.bridge)
  BY DEF InputInv, AskTypeOK, ProbeIsTrue, AsksTiers, PointerProbed, HidProbed, Detected
<1>1. CASE AsksTiers(c)
  BY <1>0, <1>1, TiersInOrder DEF AsksTiers
<1>2. CASE PointerProbed(c)
  <2> DEFINE f == [found EXCEPT !.pointer = Here]
  <2>1. f \in Found /\ f.simctl = found.simctl /\ f.hid = found.hid
    BY <1>0 DEF Found, Here
  <2>2. GetInputBackend(c, f, 1)
    BY <1>2 DEF PointerProbed
  <2> HIDE DEF f
  <2> QED
    BY <1>0, <2>1, <2>2, TiersInOrder
<1>3. CASE HidProbed(c)
  <2> DEFINE f == [found EXCEPT !.hid = Here]
  <2>1. f \in Found /\ f.simctl = found.simctl /\ (f.hid = "none" => ~env.bridge)
    BY <1>0 DEF Found, Here
  <2>2. GetInputBackend(c, f, 2)
    BY <1>3 DEF HidProbed
  <2> HIDE DEF f
  <2> QED
    BY <1>0, <2>1, <2>2, TiersInOrder
<1>4. CASE Detected(c)
  <2>1. ask[c].raced \/ ~env.bridge
    BY <1>4 DEF Detected, AskAt, InputInv, BelowBridge
  <2> QED
    BY <1>0, <1>4, <2>1, TiersInOrder DEF Detected
<1> QED
  BY <1>1, <1>2, <1>3, <1>4

\* A call goes on with the backend it was given.
LEMMA AskMoves ==
  ASSUME InputInv, NEW c \in Inputs, NEW a \in Asked, ask' = [ask EXCEPT ![c] = a],
         UNCHANGED <<env, found>>, a.kind = ask[c].kind \/ a.kind = "none", a.raced = ask[c].raced
             \/ a.kind = "none",
         a.at \notin {"detect", "reconnect", "unavailable"}, HasSent(a)
  PROVE  InputInv'
<1>1. found \in Found /\ (found.hid = "none" => ~env.bridge)
  BY DEF InputInv, AskTypeOK, ProbeIsTrue
<1>2. BelowBridge(a, env) /\ BelowSimctl(a, found) /\ TakesFocus(a, env)
  BY DEF InputInv, BelowBridge, BelowSimctl, TakesFocus, Lower, Lowest
<1> QED
  BY <1>1, <1>2, OneAsks

\* A call that fails, or was answered, starts over.
LEMMA AskOver ==
  ASSUME InputInv, NEW c \in Inputs, Fails(c), UNCHANGED <<env, found>>
  PROVE  InputInv'
<1>1. NoInput \in Asked /\ NoInput.kind = "none" /\ NoInput.at = "idle" /\ HasSent(NoInput)
  BY DEF NoInput, Asked, Labels, Choices, Kinds, HasSent
<1> QED
  BY <1>1, AskMoves DEF Fails

\* A call that sends nothing gets to another label.
LEMMA AskGoes ==
  ASSUME InputInv, NEW c \in Inputs, NEW label \in Labels, AskEnds(c, label),
      UNCHANGED <<env, found>>,
         label \notin {"detect", "reconnect", "unavailable"},
         label \in Choices => ask[c].op = label, label = "again" => ask[c].kind = "simctl",
         label \in {"aim", "event"} => ask[c].kind = "applescript",
         label = "ok" => HasSent([ask[c] EXCEPT !.at = "ok"])
  PROVE  InputInv'
<1> DEFINE a == [ask[c] EXCEPT !.at = label]
<1>0. ask[c] \in Asked
  BY DEF InputInv, AskTypeOK
<1>1. a \in Asked /\ a.kind = ask[c].kind /\ a.raced = ask[c].raced /\ a.at = label
    /\ a.op = ask[c].op
  BY <1>0 DEF Asked
<1>2. HasSent(a)
  BY <1>1 DEF HasSent
<1>3. ask' = [ask EXCEPT ![c] = a]
  BY DEF AskEnds
<1> HIDE DEF a
<1> QED
  BY <1>1, <1>2, <1>3, AskMoves

\* An input arrives. A text by keys needs two of them.
LEMMA AskArrives ==
  ASSUME InputInv, NEW c \in Inputs, NEW label \in {"ok", "type", "again"}, Arrives(c, label),
         UNCHANGED <<env, found>>,
         label = "type" => ask[c].op = "type", label = "again" => ask[c].kind = "simctl",
         label = "ok" /\ ask[c].kind \in {"simhid", "pointer"} => ask[c].op # "type"
  PROVE  InputInv'
<1> DEFINE a == [ask[c] EXCEPT !.got = @ + 1, !.at = label]
<1>0. ask[c] \in Asked
  BY DEF InputInv, AskTypeOK
<1>1. /\ a \in Asked /\ a.kind = ask[c].kind /\ a.raced = ask[c].raced /\ a.at = label
      /\ a.op = ask[c].op /\ a.got \in Nat /\ a.got >= 1
  <2> DEFINE n == ask[c].got + 1
  <2>1. n \in Nat /\ n >= 1 /\ label \in Labels
    BY <1>0 DEF Asked, Labels, Choices
  <2>2. a = [ask[c] EXCEPT !.got = n, !.at = label]
    OBVIOUS
  <2> HIDE DEF n, a
  <2> QED
    BY <1>0, <2>1, <2>2 DEF Asked
<1> HIDE DEF a
<1>2. HasSent(a)
  <2>1. (a.at \in Choices => a.at = a.op) /\ (a.at = "again" => a.kind = "simctl")
    BY <1>1 DEF Choices
  <2>2. a.at = "ok" /\ a.kind \in {"simhid", "pointer"} => a.op # "type"
    BY <1>1
  <2> QED
    BY <1>1, <2>1, <2>2 DEF HasSent
<1>3. ask' = [ask EXCEPT ![c] = a]
  BY DEF Arrives, a
<1> QED
  BY <1>1, <1>2, <1>3, AskMoves

\* Safari comes back, or the call goes on below it.
LEMMA ReconnectInOrder ==
  ASSUME InputInv, NEW c \in Inputs, TryReconnectWebKit(c)
  PROVE  InputInv'
<1>0. /\ found \in Found /\ ask[c] \in Asked /\ UNCHANGED env /\ (found.hid = "none" => ~env.bridge)
      /\ (ask[c].raced \/ ~env.bridge) /\ found.simctl = "no"
  BY DEF InputInv, AskTypeOK, ProbeIsTrue, TryReconnectWebKit, BelowBridge, BelowSimctl, AskAt
<1>1. CASE GetInputBackend(c, found, 5)
  BY <1>0, <1>1, TiersInOrder
<1>2. CASE ask' = [ask EXCEPT ![c].at = "send", ![c].kind = "webkit"] /\ UNCHANGED found
  <2> DEFINE a == [ask[c] EXCEPT !.at = "send", !.kind = "webkit"]
  <2>1. a \in Asked /\ a.at = "send" /\ a.kind = "webkit" /\ a.raced = ask[c].raced
    BY <1>0 DEF Asked, Labels, Kinds
  <2>2. ask' = [ask EXCEPT ![c] = a]
    BY <1>2
  <2> HIDE DEF a
  <2>3. BelowBridge(a, env) /\ BelowSimctl(a, found) /\ TakesFocus(a, env) /\ HasSent(a)
    BY <1>0, <2>1 DEF BelowBridge, BelowSimctl, TakesFocus, HasSent, Choices
  <2> QED
    BY <1>0, <1>2, <2>1, <2>2, <2>3, OneAsks
<1> QED
  BY <1>1, <1>2 DEF TryReconnectWebKit

\* simctl is detected once; a call below it has seen the detection fail before.
LEMMA DetectsOnce ==
  ASSUME InputInv, ProbeSimctlInput
  PROVE  InputInv'
<1>1. AskTypeOK' /\ ProbeIsTrue' /\ found.simctl # "no"
  BY DEF InputInv, AskTypeOK, ProbeIsTrue, ProbeSimctlInput, Found
<1>2. UNCHANGED <<env, ask>>
  BY DEF ProbeSimctlInput
<1> QED
  BY <1>1, <1>2 DEF InputInv, BelowBridge, BelowSimctl, TakesFocus, HasSent

\* The Flutter resolution answers all calls that asked for it at once.
LEMMA ResolvesInOrder ==
  ASSUME InputInv, NEW v, NEW client \in BOOLEAN, Resolves(v, client), UNCHANGED <<env, found>>
  PROVE  InputInv'
<1>1. ASSUME NEW c \in Inputs
      PROVE  ask'[c] \in Asked /\ BelowBridge(ask'[c], env) /\ BelowSimctl(ask'[c], found)
             /\ TakesFocus(ask'[c], env) /\ HasSent(ask'[c])
  <2>0. ask[c] \in Asked
    BY DEF InputInv, AskTypeOK
  <2>1. CASE ~AskAt(c, "flutter")
    BY <2>0, <2>1 DEF Resolves, InputInv
  <2>2. CASE AskAt(c, "flutter")
    <3> DEFINE a == [ask[c] EXCEPT !.at = IF client THEN "send" ELSE "tiers",
                                   !.kind = IF client THEN "flutter" ELSE "none"]
    <3>1. a \in Asked /\ a.at \in {"send", "tiers"} /\ a.kind \in {"flutter", "none"}
      BY <2>0 DEF Asked, Labels, Kinds
    <3>2. ask'[c] = a
      BY <2>2 DEF Resolves
    <3> HIDE DEF a
    <3> QED
      BY <3>1, <3>2 DEF BelowBridge, BelowSimctl, TakesFocus, HasSent, Lower, Lowest, Choices
  <2> QED
    BY <2>1, <2>2
<1>2. ask' \in [Inputs -> Asked]
  BY <1>1 DEF Resolves
<1> QED
  BY <1>1, <1>2 DEF InputInv, AskTypeOK, ProbeIsTrue, BelowBridge, BelowSimctl, TakesFocus, HasSent

\* The steps of the Flutter client, and of what surrounds the calls, send nothing.
LEMMA SurroundingsInOrder ==
  ASSUME InputInv,
         FlutterCache \/ FlutterConnect \/ LateConnect \/ FlutterProbe \/ NegativeExpires
             \/ SurroundingsChange
  PROVE  InputInv'
<1>1. UNCHANGED <<env, found>>
  BY DEF FlutterCache, FlutterConnect, LateConnect, FlutterProbe, NegativeExpires,
      SurroundingsChange
<1>2. CASE UNCHANGED ask
  BY <1>1, <1>2 DEF InputInv, AskTypeOK, ProbeIsTrue, BelowBridge, BelowSimctl, TakesFocus, HasSent
<1>3. CASE \E v, client : client \in BOOLEAN /\ Resolves(v, client)
  BY <1>1, <1>3, ResolvesInOrder
<1>4. CASE FlutterCache
  BY <1>2, <1>3, <1>4 DEF FlutterCache
<1>5. CASE FlutterConnect
  BY <1>2, <1>3, <1>5 DEF FlutterConnect
<1>6. CASE FlutterProbe
  BY <1>2, <1>3, <1>6 DEF FlutterProbe
<1>7. CASE LateConnect \/ NegativeExpires \/ SurroundingsChange
  BY <1>2, <1>7 DEF LateConnect, NegativeExpires, SurroundingsChange
<1> QED
  BY <1>4, <1>5, <1>6, <1>7

\* What each backend sends.
LEMMA SendsInOrder ==
  ASSUME InputInv, NEW c \in Inputs,
         \/ ChoosesInput(c) \/ FlutterSends(c) \/ SimHidTypes(c) \/ SimHidRuns(c) \/ RunTapPs(c)
         \/ SimctlSends(c) \/ WebKitSends(c)
         \/ ActivateSimulator(c) \/ ContentOrigin(c) \/ ScriptedEvent(c) \/ InputAnswered(c)
            \/ ResolveFlutter(c)
  PROVE  InputInv'
<1>0. /\ UNCHANGED <<env, found>> /\ ask[c] \in Asked /\ HasSent(ask[c])
  BY DEF InputInv, AskTypeOK, ChoosesInput, FlutterSends, FlutterTaps, FlutterSwipes, FlutterTypes,
    FlutterDispatchesKey, EvalOrThrow, SimHidTypes, SimHidRuns, RunTapPs, SimctlSends, WebKitSends,
    ActivateSimulator, ContentOrigin, ScriptedEvent, InputAnswered, ResolveFlutter
<1>1. CASE Fails(c)
  BY <1>0, <1>1, AskOver
<1>2. CASE ChoosesInput(c)
  <2>1. PICK sort \in Choices, plain \in {1, 2} :
          ask' = [ask EXCEPT ![c].at = sort, ![c].op = sort, ![c].plain = plain]
    BY <1>2 DEF ChoosesInput, Choices
  <2> DEFINE a == [ask[c] EXCEPT !.at = sort, !.op = sort, !.plain = plain]
  <2>2. a \in Asked /\ a.at = sort /\ a.op = sort /\ a.kind = ask[c].kind /\ a.raced = ask[c].raced
    <3>1. sort \in Labels /\ plain \in Nat
      BY DEF Labels
    <3> QED
      BY <1>0, <3>1 DEF Asked
  <2>3. ask' = [ask EXCEPT ![c] = a]
    BY <2>1
  <2> HIDE DEF a
  <2>4. HasSent(a) /\ a.at \notin {"detect", "reconnect", "unavailable"}
    BY <2>2 DEF HasSent, Choices
  <2> QED
    BY <1>0, <2>2, <2>3, <2>4, AskMoves
<1>3. ASSUME AskEnds(c, "ok"), ask[c].kind \in {"flutter", "webkit", "applescript"}
      PROVE  InputInv'
  <2>1. HasSent([ask[c] EXCEPT !.at = "ok"])
    BY <1>0, <1>3 DEF HasSent, Asked, Choices
  <2> QED
    BY <1>0, <1>3, <2>1, AskGoes DEF Labels, Choices
<1>4. ASSUME Arrives(c, "ok"), ask[c].kind \in {"simhid", "pointer"} => ask[c].op # "type"
      PROVE  InputInv'
  BY <1>0, <1>4, AskArrives
<1>5. CASE FlutterSends(c)
  BY <1>1, <1>3, <1>4, <1>5
  DEF FlutterSends, FlutterTaps, FlutterSwipes, FlutterTypes, FlutterDispatchesKey, EvalOrThrow,
      Sent, By
<1>6. CASE SimHidTypes(c)
  <2>1. ask[c].op = "type"
    BY <1>0, <1>6 DEF SimHidTypes, AskAt, HasSent, Choices
  <2>2. CASE Arrives(c, "type")
    BY <1>0, <2>1, <2>2, AskArrives
  <2>3. CASE ask[c].got = 2 /\ AskEnds(c, "ok")
    <3>1. ask[c].kind # "simctl"
      BY <1>6 DEF SimHidTypes
    <3>2. HasSent([ask[c] EXCEPT !.at = "ok"])
      BY <1>0, <2>3, <3>1 DEF HasSent, Asked, Choices
    <3> QED
      BY <1>0, <2>3, <3>2, AskGoes DEF Labels, Choices
  <2> QED
    BY <1>1, <1>6, <2>2, <2>3 DEF SimHidTypes, Sent
<1>7. CASE SimHidRuns(c) \/ RunTapPs(c)
  BY <1>1, <1>4, <1>7 DEF SimHidRuns, RunTapPs, Sent
<1>8. CASE SimctlSends(c)
  <2>1. ask[c].kind = "simctl"
    BY <1>0, <1>8 DEF SimctlSends, By, AskAt, HasSent
  <2>2. CASE Arrives(c, "again")
    BY <1>0, <2>1, <2>2, AskArrives
  <2>3. CASE AskEnds(c, "again")
    BY <1>0, <2>1, <2>3, AskGoes DEF Labels, Choices
  <2>4. CASE Arrives(c, "ok")
    BY <1>4, <2>1, <2>4
  <2> QED
    BY <1>1, <1>8, <2>2, <2>3, <2>4 DEF SimctlSends, Sent
<1>9. CASE WebKitSends(c)
  BY <1>1, <1>3, <1>4, <1>9 DEF WebKitSends, Sent, By
<1>10. ASSUME NEW label \in {"aim", "event", "flutter"}, AskEnds(c, label),
              label # "flutter" => ask[c].kind = "applescript"
       PROVE  InputInv'
  <2>1. label \in Labels
      /\ label \notin Choices \cup {"detect", "reconnect", "unavailable", "again", "ok"}
    BY DEF Labels, Choices
  <2> QED
    BY <1>0, <1>10, <2>1, AskGoes
<1>11. CASE ActivateSimulator(c)
  <2>1. ask[c].kind = "applescript"
    BY <1>11 DEF ActivateSimulator, By
  <2> QED
    BY <1>1, <1>11, <1>10, <2>1 DEF ActivateSimulator, AskEnds
<1>12. CASE ContentOrigin(c)
  <2>1. ask[c].kind = "applescript"
    BY <1>0, <1>12 DEF ContentOrigin, AskAt, HasSent
  <2> QED
    BY <1>12, <1>10, <2>1 DEF ContentOrigin, AskEnds
<1>13. CASE ScriptedEvent(c)
  <2>1. ask[c].kind = "applescript"
    BY <1>0, <1>13 DEF ScriptedEvent, AskAt, HasSent
  <2> QED
    BY <1>1, <1>3, <1>4, <1>13, <2>1 DEF ScriptedEvent, Sent
<1>14. CASE InputAnswered(c)
  BY <1>1, <1>14 DEF InputAnswered, Fails
<1>15. CASE ResolveFlutter(c)
  BY <1>15, <1>10 DEF ResolveFlutter, AskEnds
<1> QED
  BY <1>2, <1>5, <1>6, <1>7, <1>8, <1>9, <1>11, <1>12, <1>13, <1>14, <1>15

\* Every step of the calls, the resolver and their surroundings keeps the invariant.
LEMMA InputNextInv == InputInv /\ [InputNext]_ivars => InputInv'
<1> SUFFICES ASSUME InputInv, [InputNext]_ivars
             PROVE  InputInv'
  OBVIOUS
<1>1. ASSUME NEW c \in Inputs, Probes(c)
      PROVE  InputInv'
  BY <1>1, ProbesInOrder DEF Probes
<1>2. ASSUME NEW c \in Inputs, InputStep(c)
      PROVE  InputInv'
  BY <1>2, ProbesInOrder, ReconnectInOrder, SendsInOrder DEF InputStep
<1>3. CASE ProbeSimctlInput
  BY <1>3, DetectsOnce
<1>4. CASE UNCHANGED ivars
  BY <1>4 DEF ivars, InputInv, AskTypeOK, ProbeIsTrue, BelowBridge, BelowSimctl, TakesFocus, HasSent
<1> QED
  BY <1>1, <1>2, <1>3, <1>4, SurroundingsInOrder DEF InputNext

\* getInputBackend() and the backends: over every interleaving of calls the tiers keep their
\* order, the focus is taken on request only, and what a command has confirmed has arrived.
THEOREM TiersKeepTheirOrder == InputSpec => []InputIsRouted
BY InputInitInv, InputNextInv, InputInvRouted, PTL DEF InputSpec

=============================================================================
