------------------------- MODULE WorkflowEngineProofs -------------------------
(***************************************************************************)
(* Proofs about WorkflowEngine for any workflows, workers and calls.       *)
(***************************************************************************)
EXTENDS WorkflowEngine, TLAPS

Statuses == {"pending", "active"} \cup Ends

\* What EndedIsJudged says of one workflow.
Fair(f) == Ended(f) => f.status = Verdict(f)

\* A workflow that becomes g has not been completed for nothing.
Earned(f, g) ==
  g.status = "completed" =>
    \/ f.status = "completed"
    \/ \A w \in Workers : g.workers[w].status = "completed"

\* The workflow i becomes one that is as it should be, and is saved.
SavedWell(i) ==
  \E g \in Flow : Saved(i, g) /\ Fair(g) /\ Earned(flow[i], g)

-----------------------------------------------------------------------------
(* The pieces of the handlers. *)

LEMMA NoFlowIsNone == NoFlow \notin Flow
BY DEF NoFlow, Flow

LEMMA FirstWorker == 1 \in Workers
BY EngineAssumption DEF Workers

LEMMA NewFlowType == NewFlow \in Flow /\ Fair(NewFlow) /\ NewFlow.status = "running"
<1>1. NewFlow.workers \in [Workers -> Worker]
  BY EngineAssumption DEF NewFlow, Worker
<1>2. ~ Ended(NewFlow)
  BY FirstWorker DEF Ended, NewFlow, Ends
<1> QED BY <1>1, <1>2 DEF NewFlow, Flow, Fair

\* With() changes the status of one worker.
LEMMA WithType ==
  ASSUME NEW f \in Flow, NEW w \in Workers, NEW s \in Statuses
  PROVE  /\ With(f, w, s) \in Flow
         /\ With(f, w, s).status = f.status
         /\ With(f, w, s).workers[w].status = s
<1>1. f.workers \in [Workers -> Worker] /\ f.workers[w] \in Worker
  BY DEF Flow
<1>2. [f.workers[w] EXCEPT !.status = s] \in Worker
  BY <1>1 DEF Worker, Statuses
<1>3. With(f, w, s) = [f EXCEPT !.workers = [f.workers EXCEPT ![w] = [f.workers[w] EXCEPT !.status = s]]]
  BY DEF With, Flow
<1>4. [f.workers EXCEPT ![w] = [f.workers[w] EXCEPT !.status = s]] \in [Workers -> Worker]
  BY <1>1, <1>2
<1>5. [f.workers[w] EXCEPT !.status = s].status = s
  BY <1>1 DEF Worker
<1> QED BY <1>1, <1>3, <1>4, <1>5 DEF Flow

\* With a worker that has not ended there is nothing to judge.
LEMMA WithWaits ==
  ASSUME NEW f \in Flow, NEW w \in Workers, NEW s \in {"pending", "active"}
  PROVE  With(f, w, s) \in Flow /\ Fair(With(f, w, s)) /\ Earned(f, With(f, w, s))
<1>1. s \in Statuses /\ s \notin Ends
  BY DEF Statuses, Ends
<1>2. ~ Ended(With(f, w, s))
  BY <1>1, WithType DEF Ended
<1> QED BY <1>1, <1>2, WithType DEF Fair, Earned

\* checkWorkflowCompletion() leaves a workflow as it should be.
LEMMA JudgedType ==
  ASSUME NEW f \in Flow, NEW g \in Flow, g.status = f.status
  PROVE  Judged(g) \in Flow /\ Fair(Judged(g)) /\ Earned(f, Judged(g))
<1>1. CASE ~ Ended(g)
  BY <1>1 DEF Judged, Fair, Earned
<1>2. CASE Ended(g)
  <2>1. Judged(g) = [g EXCEPT !.status = Verdict(g)]
    BY <1>2 DEF Judged
  <2>2. Judged(g).workers = g.workers /\ Judged(g).status = Verdict(g)
    BY <2>1 DEF Flow
  <2>3. Verdict(g) \in {"partial", "completed"}
    BY DEF Verdict
  <2>4. Judged(g) \in Flow
    BY <2>1, <2>3 DEF Flow
  <2>5. Verdict(Judged(g)) = Verdict(g)
    BY <2>2 DEF Verdict
  <2>6. Verdict(g) = "completed" => \A w \in Workers : g.workers[w].status = "completed"
    BY <1>2 DEF Verdict, Ended, Ends
  <2> QED BY <2>2, <2>4, <2>5, <2>6 DEF Fair, Earned
<1> QED BY <1>1, <1>2

LEMMA RetryType ==
  ASSUME NEW f \in Flow, NEW w \in Workers,
         NEW g, g = [With(f, w, "active") EXCEPT
                       !.workers[w].attempts = IF @ < MaxAttempts THEN @ + 1 ELSE @]
  PROVE  g \in Flow /\ Fair(g) /\ Earned(f, g)
<1> DEFINE h == With(f, w, "active")
           v == [h.workers[w] EXCEPT !.attempts = IF @ < MaxAttempts THEN @ + 1 ELSE @]
<1>1. h \in Flow /\ h.status = f.status /\ h.workers[w].status = "active"
  BY WithType DEF Statuses
<1>2. h.workers \in [Workers -> Worker] /\ h.workers[w] \in Worker
  BY <1>1 DEF Flow
<1>3. v \in Worker /\ v.status = "active"
  <2>1. h.workers[w].attempts \in 1..MaxAttempts
    BY <1>2 DEF Worker
  <2>2. (IF h.workers[w].attempts < MaxAttempts THEN h.workers[w].attempts + 1
         ELSE h.workers[w].attempts) \in 1..MaxAttempts
    BY <2>1, EngineAssumption
  <2> HIDE DEF h
  <2> QED BY <1>1, <1>2, <2>2 DEF Worker
<1> HIDE DEF v
<1>4. g = [h EXCEPT !.workers = [h.workers EXCEPT ![w] = v]]
  BY <1>1 DEF v, Flow
<1> HIDE DEF h
<1>5. g \in Flow /\ g.status = f.status /\ g.workers[w].status = "active"
  <2>1. [h.workers EXCEPT ![w] = v] \in [Workers -> Worker]
    BY <1>2, <1>3
  <2>2. [h.workers EXCEPT ![w] = v][w] = v
    BY <1>2
  <2>3. \A ws \in [Workers -> Worker] :
          /\ [h EXCEPT !.workers = ws] \in Flow
          /\ [h EXCEPT !.workers = ws].status = h.status
          /\ [h EXCEPT !.workers = ws].workers = ws
    BY <1>1 DEF Flow
  <2> QED BY <1>1, <1>3, <1>4, <2>1, <2>2, <2>3
<1>6. ~ Ended(g)
  BY <1>5 DEF Ended, Ends
<1> QED BY <1>5, <1>6 DEF Fair, Earned

LEMMA WithResultsType ==
  ASSUME NEW f \in Flow, NEW results \in [Workers -> Ends]
  PROVE  WithResults(f, results) \in Flow /\ WithResults(f, results).status = f.status
<1> DEFINE ws == [w \in Workers |-> [f.workers[w] EXCEPT !.status = results[w]]]
<1>1. ASSUME NEW w \in Workers PROVE [f.workers[w] EXCEPT !.status = results[w]] \in Worker
  BY DEF Flow, Worker
<1>2. ws \in [Workers -> Worker]
  BY <1>1
<1> HIDE DEF ws
<1>3. WithResults(f, results) = [f EXCEPT !.workers = ws]
  BY DEF WithResults, ws
<1> QED BY <1>2, <1>3 DEF Flow

-----------------------------------------------------------------------------
(* Types. *)

\* The part of TypeOK about workflows, and the part about the lock.
FlowType ==
  /\ flow \in [Ids -> Flow \cup {NoFlow}] /\ disk \in [Ids -> Flow \cup {NoFlow}]
  /\ kept \subseteq Ids /\ behind \subseteq Ids
  /\ \A i \in kept : flow[i] # NoFlow
  /\ run \in [Ids -> Runs]
  /\ \A i \in Ids : run[i].at # 0 => flow[i] # NoFlow

LockType ==
  /\ call \in [Calls -> CallStates \cup {NoCall}]
  /\ locked \in BOOLEAN /\ queue \in Seq(Calls)

LEMMA TypeParts == TypeOK <=> FlowType /\ LockType
BY DEF TypeOK, FlowType, LockType

LEMMA NoRunType == NoRun \in Runs /\ NoRun.at = 0
BY EngineAssumption DEF NoRun, Runs, Ends

\* A report makes its workflow what it should be.
LEMMA ReportIsWell ==
  ASSUME FlowType, LockType, NEW c \in Calls, Report(c), call[c].id \in kept
  PROVE  call[c].id \in Ids /\ SavedWell(call[c].id)
<1>0. call[c].at = "granted"
  BY DEF Report
<1>1. call[c] \in CallStates
  <2>1. call[c] \in CallStates \cup {NoCall}
    BY DEF LockType
  <2>2. call[c] # NoCall
    BY <1>0 DEF NoCall
  <2> QED BY <2>1, <2>2
<1>i. PICK i \in Ids, w \in Workers : i = call[c].id /\ w = call[c].worker /\ i \in kept
  BY <1>1 DEF CallStates
<1>2. i \in Ids /\ w \in Workers
  BY <1>i
<1>s. SUFFICES SavedWell(i)
  BY <1>i
<1>3. PICK f \in Flow : flow[i] = f
  BY <1>i DEF FlowType
<1>4. \/ CompleteWorker(i, w) \/ FailWorker(i, w, TRUE) \/ FailWorker(i, w, FALSE)
      \/ RetryWorker(i, w)
  BY <1>i DEF Report
<1>5. ASSUME NEW s \in Ends
      PROVE  /\ Judged(With(f, w, s)) \in Flow /\ Fair(Judged(With(f, w, s)))
             /\ Earned(f, Judged(With(f, w, s)))
  <2>1. s \in Statuses
    BY DEF Statuses
  <2>2. With(f, w, s) \in Flow /\ With(f, w, s).status = f.status
    BY <1>2, <2>1, WithType
  <2> QED BY <2>2, JudgedType
<1>6. With(f, w, "pending") \in Flow /\ Fair(With(f, w, "pending"))
        /\ Earned(f, With(f, w, "pending"))
  BY <1>2, WithWaits
<1>7. CASE CompleteWorker(i, w)
  BY <1>3, <1>5, <1>7 DEF CompleteWorker, SavedWell, Ends
<1>8. CASE FailWorker(i, w, TRUE) \/ FailWorker(i, w, FALSE)
  BY <1>3, <1>5, <1>6, <1>8 DEF FailWorker, SavedWell, Ends
<1>9. CASE RetryWorker(i, w)
  <2>1. PICK g : g = [With(f, w, "active") EXCEPT
                        !.workers[w].attempts = IF @ < MaxAttempts THEN @ + 1 ELSE @]
    OBVIOUS
  <2>2. g \in Flow /\ Fair(g) /\ Earned(f, g)
    BY <1>2, <2>1, RetryType
  <2>3. Saved(i, g)
    BY <1>3, <1>9, <2>1 DEF RetryWorker
  <2> QED BY <1>3, <2>2, <2>3 DEF SavedWell
<1> QED BY <1>i, <1>4, <1>7, <1>8, <1>9

\* The other ways in which a workflow becomes what it should be.
LEMMA SavedIsWell ==
  ASSUME FlowType, NEW i \in Ids
  PROVE  /\ \A mode : InitWorkflow(i, mode) => SavedWell(i)
         /\ SeqBooted(i) => SavedWell(i)
         /\ SeqEnd(i) => SavedWell(i)
         /\ \A w \in Workers : UpdateWorker(i, w) => SavedWell(i)
<1>1. ASSUME NEW mode, InitWorkflow(i, mode) PROVE SavedWell(i)
  BY <1>1, NewFlowType DEF InitWorkflow, SavedWell, Earned
<1>2. ASSUME SeqBooted(i) PROVE SavedWell(i)
  <2>1. flow[i] \in Flow /\ run[i].at \in Workers
    BY <1>2, EngineAssumption DEF SeqBooted, FlowType, Workers
  <2> QED BY <1>2, <2>1, WithWaits DEF SeqBooted, SavedWell
<1>3. ASSUME SeqEnd(i) PROVE SavedWell(i)
  <2>1. flow[i] \in Flow /\ run[i].results \in [Workers -> Ends]
    BY <1>3, EngineAssumption DEF SeqEnd, FlowType, Runs
  <2>2. /\ WithResults(flow[i], run[i].results) \in Flow
        /\ WithResults(flow[i], run[i].results).status = flow[i].status
    BY <2>1, WithResultsType
  <2> QED BY <1>3, <2>1, <2>2, JudgedType DEF SeqEnd, SavedWell
<1>4. ASSUME NEW w \in Workers, UpdateWorker(i, w) PROVE SavedWell(i)
  <2>1. flow[i] \in Flow
    BY <1>4 DEF UpdateWorker, FlowType
  <2> QED BY <1>4, <2>1, WithWaits DEF UpdateWorker, SavedWell
<1> QED BY <1>1, <1>2, <1>3, <1>4

-----------------------------------------------------------------------------
(* What a step does to the workflows. *)

Untouched == flow' = flow /\ disk' = disk /\ kept' = kept /\ behind' = behind

Cleaned(i) ==
  /\ kept' = kept \ {i} /\ disk' = [disk EXCEPT ![i] = NoFlow] /\ behind' = behind \ {i}
  /\ flow' \in {flow, [flow EXCEPT ![i] = NewFlow]}

\* A step leaves the workflows alone, or saves one, or removes one, or restarts.
LEMMA FlowSteps ==
  ASSUME FlowType, LockType, [Next]_vars
  PROVE  \/ Untouched
         \/ \E i \in Ids : SavedWell(i) /\ kept' \in {kept, kept \cup {i}}
         \/ \E i \in Ids : Cleaned(i)
         \/ \E lost : Restart(lost)
<1> DEFINE Goal == \/ Untouched
                   \/ \E i \in Ids : SavedWell(i) /\ kept' \in {kept, kept \cup {i}}
                   \/ \E i \in Ids : Cleaned(i)
                   \/ \E lost : Restart(lost)
<1>1. ASSUME NEW i \in Ids, NEW mode, InitWorkflow(i, mode) PROVE Goal
  <2>1. kept' = kept \cup {i}
    BY <1>1 DEF InitWorkflow
  <2> QED BY <1>1, <2>1, SavedIsWell
<1>2. ASSUME NEW i \in Ids, SeqBooted(i) \/ SeqEnd(i) PROVE Goal
  <2>1. kept' = kept
    BY <1>2 DEF SeqBooted, SeqEnd
  <2> QED BY <1>2, <2>1, SavedIsWell
<1>3. ASSUME NEW i \in Ids, NEW r \in Ends, SeqResult(i, r) PROVE Goal
  BY <1>3 DEF SeqResult, Untouched
<1>4. ASSUME NEW i \in Ids, CleanupWorkflow(i) PROVE Goal
  <2>1. Cleaned(i)
    BY <1>4 DEF CleanupWorkflow, Cleaned
  <2> QED BY <2>1
<1>5. ASSUME NEW i \in Ids, NEW w \in Workers, UpdateWorker(i, w) PROVE Goal
  <2>1. kept' = kept
    BY <1>5 DEF UpdateWorker
  <2> QED BY <1>5, <2>1, SavedIsWell
<1>6. ASSUME NEW i \in Ids, NEW c \in Calls, NEW r \in Reports, Acquire(c, i, r) PROVE Goal
  BY <1>6 DEF Acquire, Untouched
<1>7. ASSUME NEW c \in Calls, Report(c) PROVE Goal
  <2>1. kept' = kept
    BY <1>7 DEF Report
  <2>2. CASE call[c].id \in kept
    BY <1>7, <2>1, <2>2, ReportIsWell
  <2>3. CASE call[c].id \notin kept
    BY <1>7, <2>1, <2>3 DEF Report, Untouched
  <2> QED BY <2>2, <2>3
<1>8. ASSUME NEW lost, Restart(lost) PROVE Goal
  BY <1>8
<1>9. CASE UNCHANGED vars
  BY <1>9 DEF vars, Untouched
<1> QED BY <1>1, <1>2, <1>3, <1>4, <1>5, <1>6, <1>7, <1>8, <1>9 DEF Next, RunStep

\* The sequential runs, which belong to workflows that exist.
LEMMA RunStepType ==
  ASSUME FlowType, [Next]_vars
  PROVE  /\ run' \in [Ids -> Runs]
         /\ \A j \in Ids : run'[j].at # 0 => run[j].at # 0 \/ flow'[j] # NoFlow
<1> USE NoRunType, EngineAssumption DEF FlowType
<1>1. ASSUME NEW i \in Ids, NEW mode, InitWorkflow(i, mode)
      PROVE  /\ run' \in [Ids -> Runs]
             /\ \A j \in Ids : run'[j].at # 0 => run[j].at # 0 \/ flow'[j] # NoFlow
  <2>1. flow'[i] # NoFlow
    BY <1>1, NewFlowType, NoFlowIsNone DEF InitWorkflow, Saved
  <2>2. [run[i] EXCEPT !.at = 1] \in Runs
    BY DEF Runs
  <2>3. run' \in {run, [run EXCEPT ![i] = [run[i] EXCEPT !.at = 1]]}
    BY <1>1 DEF InitWorkflow
  <2> QED BY <2>1, <2>2, <2>3
<1>2. ASSUME NEW i \in Ids, SeqBooted(i) \/ SeqEnd(i) \/ \E r \in Ends : SeqResult(i, r)
      PROVE  /\ run' \in [Ids -> Runs]
             /\ \A j \in Ids : run'[j].at # 0 => run[j].at # 0 \/ flow'[j] # NoFlow
  <2>1. run[i].at # 0 /\ run[i] \in Runs
    BY <1>2 DEF SeqBooted, SeqEnd, SeqResult, Workers
  <2>2. CASE SeqBooted(i)
    <3>1. [run[i] EXCEPT !.up = TRUE] \in Runs
      BY <2>1 DEF Runs
    <3>2. run' = [run EXCEPT ![i] = [run[i] EXCEPT !.up = TRUE]]
      BY <2>2 DEF SeqBooted
    <3> QED BY <2>1, <3>1, <3>2
  <2>3. CASE SeqEnd(i)
    BY <2>1, <2>3 DEF SeqEnd
  <2>4. ASSUME NEW r \in Ends, SeqResult(i, r)
        PROVE  /\ run' \in [Ids -> Runs]
               /\ \A j \in Ids : run'[j].at # 0 => run[j].at # 0 \/ flow'[j] # NoFlow
    <3> DEFINE n == [at |-> run[i].at + 1, up |-> FALSE,
                     results |-> [run[i].results EXCEPT ![run[i].at] = r]]
    <3>1. run[i].at \in Workers /\ run[i].at + 1 \in 0..NumWorkers + 1
      BY <2>4 DEF SeqResult, Workers
    <3>2. [run[i].results EXCEPT ![run[i].at] = r] \in [Workers -> Ends]
      BY <2>1, <3>1 DEF Runs
    <3>3. n \in Runs
      BY <3>1, <3>2 DEF Runs
    <3>4. run' = [run EXCEPT ![i] = n]
      BY <2>4 DEF SeqResult
    <3> HIDE DEF n
    <3> QED BY <2>1, <3>3, <3>4
  <2> QED BY <1>2, <2>2, <2>3, <2>4
<1>3. ASSUME NEW lost, Restart(lost)
      PROVE  /\ run' \in [Ids -> Runs]
             /\ \A j \in Ids : run'[j].at # 0 => run[j].at # 0 \/ flow'[j] # NoFlow
  BY <1>3 DEF Restart
<1>4. CASE run' = run
  BY <1>4
<1>5. \/ run' = run \/ \E lost : Restart(lost)
      \/ \E i \in Ids : \/ SeqBooted(i) \/ SeqEnd(i) \/ \E r \in Ends : SeqResult(i, r)
                       \/ \E mode : InitWorkflow(i, mode)
  BY DEF Next, RunStep, vars, CleanupWorkflow, UpdateWorker, Acquire, Report
<1> QED BY <1>1, <1>2, <1>3, <1>4, <1>5

-----------------------------------------------------------------------------
(* The invariant about workflows and files. *)

\* EndedIsJudged of the objects and of the files, which a restart reads.
AllFair ==
  \A i \in Ids : /\ flow[i] # NoFlow => Fair(flow[i])
                 /\ disk[i] # NoFlow => Fair(disk[i])

FlowInv == FlowType /\ AllFair /\ DiskFollowsMemory

\* A restart relabels what was running, which had not ended.
LEMMA RestoredType ==
  ASSUME NEW f \in Flow, Fair(f)
  PROVE  /\ Restored(f) \in Flow /\ Fair(Restored(f))
         /\ Restored(f).status = "completed" => f.status = "completed"
<1>1. CASE f.status # "running"
  BY <1>1 DEF Restored
<1>2. CASE f.status = "running"
  <2>1. ~ Ended(f)
    BY <1>2 DEF Fair, Verdict
  <2>2. /\ Restored(f) \in Flow /\ Restored(f).workers = f.workers
        /\ Restored(f).status = "partial"
    BY <1>2 DEF Restored, Flow
  <2>3. ~ Ended(Restored(f))
    BY <2>1, <2>2 DEF Ended
  <2> QED BY <2>2, <2>3 DEF Fair
<1> QED BY <1>1, <1>2

LEMMA NoFlowRestored == Restored(NoFlow) = NoFlow
BY DEF Restored, NoFlow

LEMMA SavedKeepsInv ==
  ASSUME FlowInv, [Next]_vars, NEW i \in Ids, SavedWell(i), kept' \in {kept, kept \cup {i}}
  PROVE  FlowInv'
<1>1. PICK g \in Flow : Saved(i, g) /\ Fair(g)
  BY DEF SavedWell
<1>2. g # NoFlow
  BY NoFlowIsNone
<1>3. /\ flow' \in [Ids -> Flow \cup {NoFlow}] /\ disk' \in [Ids -> Flow \cup {NoFlow}]
      /\ behind' \subseteq Ids
      /\ \A j \in Ids :
           /\ flow'[j] = IF j = i THEN g ELSE flow[j]
           /\ disk'[j] \in IF j = i THEN {g, disk[j], NoFlow} ELSE {disk[j]}
           /\ j \notin behind' => IF j = i THEN disk'[j] = g ELSE j \notin behind
  <2>1. flow' = [flow EXCEPT ![i] = g]
    BY <1>1 DEF Saved
  <2>2. CASE disk' = [disk EXCEPT ![i] = g] /\ behind' = behind \ {i}
    BY <2>1, <2>2 DEF FlowInv, FlowType
  <2>3. CASE disk' \in {disk, [disk EXCEPT ![i] = NoFlow]} /\ behind' = behind \cup {i}
    BY <2>1, <2>3 DEF FlowInv, FlowType
  <2> QED BY <1>1, <2>2, <2>3 DEF Saved, Persisted
<1>4. AllFair'
  BY <1>1, <1>3 DEF AllFair, FlowInv
<1>5. DiskFollowsMemory'
  <2> SUFFICES ASSUME NEW j \in kept' \ behind'
               PROVE  flow'[j] \in {disk'[j], Restored(disk'[j])}
    BY DEF DiskFollowsMemory
  <2>1. j \in Ids /\ (j = i \/ j \in kept)
    BY DEF FlowInv, FlowType
  <2> QED BY <1>3, <2>1 DEF FlowInv, DiskFollowsMemory
<1>6. FlowType'
  BY <1>2, <1>3, RunStepType DEF FlowInv, FlowType
<1> QED BY <1>4, <1>5, <1>6 DEF FlowInv

LEMMA CleanedKeepsInv ==
  ASSUME FlowInv, [Next]_vars, NEW i \in Ids, Cleaned(i)
  PROVE  FlowInv'
<1>1. /\ \A j \in Ids : disk'[j] = IF j = i THEN NoFlow ELSE disk[j]
      /\ behind' = behind \ {i}
  BY DEF Cleaned, FlowInv, FlowType
<1>2. \A j \in Ids : flow'[j] = flow[j] \/ (j = i /\ flow'[j] = NewFlow)
  BY DEF Cleaned, FlowInv, FlowType
<1>3. flow' \in [Ids -> Flow \cup {NoFlow}] /\ disk' \in [Ids -> Flow \cup {NoFlow}]
  BY NewFlowType DEF Cleaned, FlowInv, FlowType
<1>4. NewFlow # NoFlow
  BY NewFlowType, NoFlowIsNone
<1>5. FlowType'
  BY <1>1, <1>2, <1>3, <1>4, RunStepType DEF FlowInv, FlowType, Cleaned
<1>6. AllFair'
  BY <1>1, <1>2, NewFlowType DEF AllFair, FlowInv
<1>7. DiskFollowsMemory'
  <2> SUFFICES ASSUME NEW j \in kept' \ behind'
               PROVE  flow'[j] \in {disk'[j], Restored(disk'[j])}
    BY DEF DiskFollowsMemory
  <2>1. j \in kept \ behind /\ j \in Ids /\ j # i
    BY <1>1 DEF Cleaned, FlowInv, FlowType
  <2> QED BY <1>1, <1>2, <2>1 DEF FlowInv, DiskFollowsMemory
<1> QED BY <1>5, <1>6, <1>7 DEF FlowInv

LEMMA RestartKeepsInv ==
  ASSUME FlowInv, [Next]_vars, NEW lost, Restart(lost)
  PROVE  FlowInv'
<1>1. /\ disk' \in [Ids -> Flow \cup {NoFlow}]
      /\ \A j \in Ids : disk'[j] \in {disk[j], NoFlow}
  BY DEF Restart, FlowInv, FlowType
<1>2. \A j \in Ids : flow'[j] = Restored(disk'[j])
  BY DEF Restart
<1>3. ASSUME NEW j \in Ids
      PROVE  \/ disk'[j] = NoFlow /\ flow'[j] = NoFlow
             \/ disk'[j] # NoFlow /\ Fair(disk'[j]) /\ flow'[j] \in Flow /\ Fair(flow'[j])
  <2>1. CASE disk'[j] = NoFlow
    BY <1>2, <2>1, NoFlowRestored
  <2>2. CASE disk'[j] # NoFlow
    <3>1. disk'[j] \in Flow /\ Fair(disk'[j])
      BY <1>1, <2>2 DEF FlowInv, AllFair
    <3>2. flow'[j] \in Flow /\ Fair(flow'[j])
      BY <1>2, <3>1, RestoredType
    <3> QED BY <2>2, <3>1, <3>2
  <2> QED BY <2>1, <2>2
<1>4. flow' \in [Ids -> Flow \cup {NoFlow}]
  <2>1. flow' = [j \in Ids |-> Restored(disk'[j])]
    BY DEF Restart
  <2> QED BY <1>2, <1>3, <2>1
<1>5. /\ kept' = {j \in Ids : disk'[j] # NoFlow} /\ run' = [j \in Ids |-> NoRun]
      /\ behind' = {}
  BY DEF Restart
<1>6. FlowType'
  BY <1>1, <1>3, <1>4, <1>5, NoRunType, NoFlowIsNone DEF FlowType
<1>7. AllFair'
  BY <1>3 DEF AllFair
<1>8. DiskFollowsMemory'
  BY <1>2, <1>5 DEF DiskFollowsMemory
<1> QED BY <1>6, <1>7, <1>8 DEF FlowInv

LEMMA FlowInvStep == FlowInv /\ LockType /\ [Next]_vars => FlowInv'
<1> SUFFICES ASSUME FlowInv, LockType, [Next]_vars PROVE FlowInv'
  OBVIOUS
<1>1. CASE Untouched
  BY <1>1, RunStepType DEF Untouched, FlowInv, FlowType, AllFair, DiskFollowsMemory
<1>2. ASSUME NEW i \in Ids, SavedWell(i), kept' \in {kept, kept \cup {i}} PROVE FlowInv'
  BY <1>2, SavedKeepsInv
<1>3. ASSUME NEW i \in Ids, Cleaned(i) PROVE FlowInv'
  BY <1>3, CleanedKeepsInv
<1>4. ASSUME NEW lost, Restart(lost) PROVE FlowInv'
  BY <1>4, RestartKeepsInv
<1> QED BY <1>1, <1>2, <1>3, <1>4, FlowSteps DEF FlowInv

-----------------------------------------------------------------------------
(* The lock. *)

\* The lock's flag is up while a call has it; those in the queue, each once, are
\* the ones that wait for it.
LockInv ==
  /\ locked <=> \E c \in Calls : call[c].at = "granted"
  /\ \A c, d \in Calls : call[c].at = "granted" /\ call[d].at = "granted" => c = d
  /\ ~ locked => queue = <<>>
  /\ \A k \in 1..Len(queue) : call[queue[k]].at = "queued"
  /\ \A j, k \in 1..Len(queue) : queue[j] = queue[k] => j = k
  /\ \A c \in Calls : call[c].at = "queued" => \E k \in 1..Len(queue) : queue[k] = c

LEMMA CallTypes ==
  ASSUME LockType, NEW c \in Calls
  PROVE  /\ call[c].at \in {"idle", "queued", "granted"}
         /\ call[c].at = "idle" <=> call[c] = NoCall
         /\ call[c].at # "idle" => call[c] \in CallStates
BY DEF LockType, CallStates, NoCall

LEMMA AcquireType ==
  ASSUME LockType, NEW c \in Calls, NEW i \in Ids, NEW r \in Reports, Acquire(c, i, r)
  PROVE  LockType'
<1>1. r.kind \in Kinds /\ r.worker \in Workers
  BY EngineAssumption
<1>2. [at |-> IF locked THEN "queued" ELSE "granted",
       kind |-> r.kind, id |-> i, worker |-> r.worker] \in CallStates
  BY <1>1 DEF CallStates
<1>3. call' \in [Calls -> CallStates \cup {NoCall}]
  BY <1>2 DEF Acquire, LockType
<1> QED BY <1>3 DEF Acquire, LockType

\* Granting the lock to who waits for it keeps the types.
LEMMA GrantType ==
  ASSUME LockType, NEW c \in Calls, NEW d \in Calls, call[d].at = "queued", c # d,
         call' = [call EXCEPT ![c] = NoCall, ![d].at = "granted"]
  PROVE  /\ call' \in [Calls -> CallStates \cup {NoCall}]
         /\ call'[c] = NoCall /\ call'[d].at = "granted"
         /\ \A e \in Calls \ {c, d} : call'[e] = call[e]
<1>1. call[d] \in CallStates
  BY CallTypes
<1>2. [call[d] EXCEPT !.at = "granted"] \in CallStates
      /\ [call[d] EXCEPT !.at = "granted"].at = "granted"
  BY <1>1 DEF CallStates
<1>3. call' = [e \in Calls |-> IF e = d THEN [call[d] EXCEPT !.at = "granted"]
                               ELSE IF e = c THEN NoCall ELSE call[e]]
  BY DEF LockType
<1> QED BY <1>2, <1>3 DEF LockType

LEMMA LockStep == LockType /\ LockInv /\ [Next]_vars => LockType' /\ LockInv'
<1> SUFFICES ASSUME LockType, LockInv, [Next]_vars PROVE LockType' /\ LockInv'
  OBVIOUS
<1>1. CASE UNCHANGED <<call, locked, queue>>
  BY <1>1 DEF LockType, LockInv
<1>2. ASSUME NEW c \in Calls, NEW i \in Ids, NEW r \in Reports, Acquire(c, i, r)
      PROVE  LockType' /\ LockInv'
  <2>1. LockType'
    BY <1>2, AcquireType
  <2>2. /\ call[c].at = "idle" /\ call'[c].at = IF locked THEN "queued" ELSE "granted"
        /\ \A d \in Calls : d # c => call'[d] = call[d]
        /\ locked' = TRUE
    BY <1>2 DEF Acquire, LockType, NoCall
  <2>3. CASE locked
    <3>1. queue' = Append(queue, c)
      BY <1>2, <2>3 DEF Acquire
    <3>2. /\ Len(queue') = Len(queue) + 1 /\ queue'[Len(queue) + 1] = c
          /\ \A k \in 1..Len(queue) : queue'[k] = queue[k] /\ queue[k] \in Calls
      BY <3>1 DEF LockType
    <3>3. \A k \in 1..Len(queue) : queue[k] # c
      BY <2>2 DEF LockInv
    <3>4. call'[c].at = "queued" /\ \A e \in Calls : call'[e].at = "granted" <=> call[e].at = "granted"
      BY <2>2, <2>3
    <3>5. \A k \in 1..Len(queue') : k \in 1..Len(queue) \/ k = Len(queue) + 1
      BY <3>2 DEF LockType
    <3>6. \A k \in 1..Len(queue') : call'[queue'[k]].at = "queued"
      BY <2>2, <3>2, <3>3, <3>4, <3>5 DEF LockInv
    <3>7. \A j, k \in 1..Len(queue') : queue'[j] = queue'[k] => j = k
      BY <3>2, <3>3, <3>5 DEF LockInv
    <3>8. \A e \in Calls : call'[e].at = "queued" => \E k \in 1..Len(queue') : queue'[k] = e
      <4> SUFFICES ASSUME NEW e \in Calls, call'[e].at = "queued"
                   PROVE  \E k \in 1..Len(queue') : queue'[k] = e
        OBVIOUS
      <4>1. CASE e = c
        BY <3>2, <4>1 DEF LockType
      <4>2. CASE e # c
        <5>1. PICK k \in 1..Len(queue) : queue[k] = e
          BY <2>2, <4>2 DEF LockInv
        <5>2. k \in 1..Len(queue') /\ queue'[k] = e
          BY <3>2, <5>1 DEF LockType
        <5> QED BY <5>2
      <4> QED BY <4>1, <4>2
    <3> QED BY <2>1, <2>2, <2>3, <3>4, <3>6, <3>7, <3>8 DEF LockInv
  <2>4. CASE ~ locked
    <3>1. queue' = queue /\ queue = <<>>
      BY <1>2, <2>4 DEF Acquire, LockInv
    <3> QED BY <2>1, <2>2, <2>4, <3>1 DEF LockInv, LockType
  <2> QED BY <2>3, <2>4
<1>3. ASSUME NEW c \in Calls, Report(c) PROVE LockType' /\ LockInv'
  <2>1. call[c].at = "granted" /\ Release(c)
    BY <1>3 DEF Report
  <2>2. CASE queue = <<>>
    <3>1. /\ call' = [call EXCEPT ![c] = NoCall] /\ locked' = FALSE /\ queue' = queue
      BY <2>1, <2>2 DEF Release
    <3>2. Len(queue') = 0 /\ queue' = <<>>
      BY <2>2, <3>1
    <3>3. LockType'
      BY <3>1 DEF LockType
    <3>4. \A e \in Calls : call'[e].at = IF e = c THEN "idle" ELSE call[e].at
      BY <3>1 DEF LockType, NoCall
    <3>5. \A e \in Calls : call'[e].at \notin {"granted", "queued"}
      BY <2>1, <2>2, <3>4 DEF LockInv
    <3> QED BY <3>1, <3>2, <3>3, <3>5 DEF LockInv
  <2>3. CASE queue # <<>>
    <3>1. /\ Head(queue) = queue[1] /\ Head(queue) \in Calls /\ Len(queue) >= 1
          /\ Len(queue) \in Nat
      BY <2>3 DEF LockType
    <3>2. call[Head(queue)].at = "queued" /\ Head(queue) # c
      BY <2>1, <3>1 DEF LockInv
    <3>3. /\ call' = [call EXCEPT ![c] = NoCall, ![Head(queue)].at = "granted"]
          /\ queue' = Tail(queue) /\ locked' = locked
      BY <2>1, <2>3 DEF Release
    <3>4. /\ call' \in [Calls -> CallStates \cup {NoCall}]
          /\ call'[c] = NoCall /\ call'[Head(queue)].at = "granted"
          /\ \A e \in Calls \ {c, Head(queue)} : call'[e] = call[e]
      BY <3>1, <3>2, <3>3, GrantType
    <3>5. /\ queue' \in Seq(Calls) /\ Len(queue') = Len(queue) - 1
          /\ \A k \in 1..Len(queue') : queue'[k] = queue[k + 1]
      BY <2>3, <3>3 DEF LockType
    <3>6. LockType'
      BY <3>3, <3>4, <3>5 DEF LockType
    <3>7. locked
      BY <2>3 DEF LockInv
    <3>8. \A k \in 1..Len(queue') : queue'[k] \in Calls \ {c, Head(queue)}
      BY <2>1, <3>1, <3>5 DEF LockInv
    <3>9. \A e \in Calls : call'[e].at = "queued" => \E k \in 1..Len(queue') : queue'[k] = e
      <4> SUFFICES ASSUME NEW e \in Calls, call'[e].at = "queued"
                   PROVE  \E k \in 1..Len(queue') : queue'[k] = e
        OBVIOUS
      <4>1. e \notin {c, Head(queue)} /\ call[e].at = "queued"
        BY <3>1, <3>4 DEF NoCall
      <4>2. PICK k \in 1..Len(queue) : queue[k] = e
        BY <4>1 DEF LockInv
      <4>3. k # 1 /\ k - 1 \in 1..Len(queue') /\ queue'[k - 1] = e
        BY <3>1, <3>5, <4>1, <4>2
      <4> QED BY <4>3
    <3>10. \A e \in Calls : call'[e].at = "granted" <=> e = Head(queue)
      BY <2>1, <3>1, <3>2, <3>4 DEF LockInv, NoCall
    <3>11. \A k \in 1..Len(queue') : call'[queue'[k]].at = "queued"
      BY <3>1, <3>4, <3>5, <3>8 DEF LockInv
    <3>12. \A j, k \in 1..Len(queue') : queue'[j] = queue'[k] => j = k
      BY <3>1, <3>5 DEF LockInv
    <3>13. locked' /\ call'[Head(queue)].at = "granted" /\ Head(queue) \in Calls
      BY <3>1, <3>3, <3>4, <3>7
    <3>14. \A d, e \in Calls : call'[d].at = "granted" /\ call'[e].at = "granted" => d = e
      BY <3>10
    <3> QED BY <3>6, <3>9, <3>11, <3>12, <3>13, <3>14 DEF LockInv
  <2> QED BY <2>2, <2>3
<1>4. ASSUME NEW lost, Restart(lost) PROVE LockType' /\ LockInv'
  <2>1. /\ \A e \in Calls : call'[e].at = "idle"
        /\ ~ locked' /\ queue' = <<>> /\ Len(queue') = 0 /\ queue' \in Seq(Calls)
        /\ call' \in [Calls -> CallStates \cup {NoCall}]
    BY <1>4 DEF Restart, NoCall
  <2>2. LockType'
    BY <1>4, <2>1 DEF Restart, LockType
  <2> QED BY <2>1, <2>2 DEF LockInv
<1>5. \/ UNCHANGED <<call, locked, queue>> \/ \E lost : Restart(lost)
      \/ \E c \in Calls : Report(c)
      \/ \E c \in Calls, i \in Ids, r \in Reports : Acquire(c, i, r)
  BY DEF Next, RunStep, vars, InitWorkflow, SeqBooted, SeqResult, SeqEnd, CleanupWorkflow,
         UpdateWorker
<1> QED BY <1>1, <1>2, <1>3, <1>4, <1>5

-----------------------------------------------------------------------------
(* The theorems. *)

IInv == FlowInv /\ LockType /\ LockInv

LEMMA InitInv == Init => IInv
<1> SUFFICES ASSUME Init PROVE IInv
  OBVIOUS
<1>1. /\ \A i \in Ids : flow[i] = NoFlow /\ disk[i] = NoFlow /\ run[i] = NoRun
      /\ flow \in [Ids -> Flow \cup {NoFlow}] /\ disk \in [Ids -> Flow \cup {NoFlow}]
      /\ run \in [Ids -> Runs] /\ kept = {} /\ behind = {}
  BY NoRunType DEF Init
<1>a. AllFair /\ DiskFollowsMemory
  BY <1>1 DEF AllFair, DiskFollowsMemory
<1>2. FlowInv
  BY <1>1, <1>a, NoRunType DEF FlowInv, FlowType
<1>3. /\ \A c \in Calls : call[c] = NoCall /\ call[c].at = "idle"
      /\ call \in [Calls -> CallStates \cup {NoCall}]
      /\ queue = <<>> /\ Len(queue) = 0 /\ queue \in Seq(Calls) /\ locked = FALSE
  BY DEF Init, NoCall
<1>4. LockType
  BY <1>3 DEF LockType
<1>5. \A c \in Calls : call[c].at \notin {"queued", "granted"}
  BY <1>3
<1>6. LockInv
  BY <1>3, <1>5 DEF LockInv
<1> QED BY <1>2, <1>4, <1>6 DEF IInv

LEMMA InvAlways == Spec => []IInv
<1>1. IInv /\ [Next]_vars => IInv'
  BY FlowInvStep, LockStep DEF IInv
<1> QED BY <1>1, InitInv, PTL DEF Spec

\* Workflows, files, runs, calls and the lock keep their shape, for any workflows,
\* workers and calls.
THEOREM TypeCorrect == Spec => []TypeOK
<1>1. IInv => TypeOK
  BY TypeParts DEF IInv, FlowInv
<1> QED BY <1>1, InvAlways, PTL

\* A workflow whose workers have all ended says so, and says whether one failed,
\* whatever order reports, retries, runs and restarts come in
\* (workflow-engine.ts:443-451).
THEOREM EndedWorkflowsAreJudged == Spec => []EndedIsJudged
<1>1. IInv => EndedIsJudged
  BY DEF IInv, FlowInv, AllFair, Fair, EndedIsJudged
<1> QED BY <1>1, InvAlways, PTL

\* Unless its last save failed, the file of a workflow says what the engine knows of
\* it, but for what a restart has relabelled (workflow-engine.ts:129-145).
THEOREM FilesFollow == Spec => []DiskFollowsMemory
<1>1. IInv => DiskFollowsMemory
  BY DEF IInv, FlowInv
<1> QED BY <1>1, InvAlways, PTL

\* The step property behind NoFalseSuccess.
SuccessStep ==
  \A i \in Ids :
    flow[i].status # "completed" /\ flow'[i].status = "completed" /\ i \in kept =>
      \/ \A w \in Workers : flow'[i].workers[w].status = "completed"
      \/ i \in behind /\ flow'[i] = disk[i]

LEMMA SuccessIsEarned == IInv /\ [Next]_vars => SuccessStep
<1> SUFFICES ASSUME IInv, [Next]_vars, NEW i \in Ids, flow[i].status # "completed",
                    flow'[i].status = "completed", i \in kept,
                    ~ (i \in behind /\ flow'[i] = disk[i])
             PROVE  \A w \in Workers : flow'[i].workers[w].status = "completed"
  BY DEF SuccessStep
<1>1. CASE Untouched
  BY <1>1 DEF Untouched
<1>2. ASSUME NEW j \in Ids, SavedWell(j)
      PROVE  \A w \in Workers : flow'[i].workers[w].status = "completed"
  <2>1. PICK g \in Flow : Saved(j, g) /\ Earned(flow[j], g)
    BY <1>2 DEF SavedWell
  <2>2. flow'[i] = IF i = j THEN g ELSE flow[i]
    BY <2>1 DEF Saved, IInv, FlowInv, FlowType
  <2> QED BY <2>1, <2>2 DEF Earned
<1>3. ASSUME NEW j \in Ids, Cleaned(j) PROVE FALSE
  <2>1. flow'[i] = flow[i] \/ flow'[i] = NewFlow
    BY <1>3 DEF Cleaned, IInv, FlowInv, FlowType
  <2> QED BY <2>1, NewFlowType
<1>4. ASSUME NEW lost, Restart(lost) PROVE FALSE
  <2>1. flow'[i] = Restored(disk'[i]) /\ disk'[i] \in {disk[i], NoFlow}
    BY <1>4 DEF Restart
  <2>2. disk'[i] # NoFlow
    BY <2>1, NoFlowRestored DEF NoFlow
  <2>3. disk[i] \in Flow /\ Fair(disk[i]) /\ flow'[i] = Restored(disk[i])
    BY <2>1, <2>2 DEF IInv, FlowInv, FlowType, AllFair
  <2>4. disk[i].status = "completed"
    BY <2>3, RestoredType
  <2>5. Restored(disk[i]) = disk[i]
    BY <2>4 DEF Restored
  <2>6. flow[i] = disk[i]
    BY <2>3, <2>5 DEF IInv, FlowInv, DiskFollowsMemory
  <2> QED BY <2>4, <2>6
<1> QED BY <1>1, <1>2, <1>3, <1>4, FlowSteps DEF IInv, FlowInv

\* A workflow becomes completed only when every worker has completed by then, or on
\* the word of a file that a failed save had left behind.
THEOREM SuccessIsReal == Spec => NoFalseSuccess
<1>1. IInv /\ [Next]_vars => [SuccessStep]_vars
  BY SuccessIsEarned
<1>2. Spec => [][SuccessStep]_vars
  BY <1>1, InvAlways, PTL DEF Spec
<1> QED BY <1>2 DEF NoFalseSuccess, SuccessStep

\* The owner is the call that has the lock.
LEMMA OwnerIs ==
  ASSUME NEW calls,
         \A c, d \in Calls : calls[c].at = "granted" /\ calls[d].at = "granted" => c = d
  PROVE  /\ \A c \in Calls : calls[c].at = "granted" <=> OwnerIn(calls) = c
         /\ OwnerIn(calls) = Nobody <=> \A c \in Calls : calls[c].at # "granted"
<1>1. CASE \E c \in Calls : calls[c].at = "granted"
  <2>1. OwnerIn(calls) \in Calls /\ calls[OwnerIn(calls)].at = "granted"
    BY <1>1 DEF OwnerIn
  <2> QED BY <2>1, EngineAssumption
<1>2. CASE ~ \E c \in Calls : calls[c].at = "granted"
  <2>1. OwnerIn(calls) = Nobody
    BY <1>2 DEF OwnerIn
  <2> QED BY <1>2, <2>1, EngineAssumption
<1> QED BY <1>1, <1>2

LEMMA LockStepRefines ==
  ASSUME IInv, IInv', [Next]_vars
  PROVE  Lock!LockNext \/ UNCHANGED Lock!lockVars
<1> DEFINE Goal == Lock!LockNext \/ UNCHANGED Lock!lockVars
<1>o. /\ \A c \in Calls : call[c].at = "granted" <=> Owner = c
      /\ Owner = Nobody <=> \A c \in Calls : call[c].at # "granted"
  BY OwnerIs DEF IInv, LockInv, Owner
<1>p. /\ \A c \in Calls : call'[c].at = "granted" <=> Owner' = c
      /\ Owner' = Nobody <=> \A c \in Calls : call'[c].at # "granted"
  <2>1. \A c, d \in Calls : call'[c].at = "granted" /\ call'[d].at = "granted" => c = d
    BY DEF IInv, LockInv
  <2> QED BY <2>1, OwnerIs DEF Owner
<1>1. CASE UNCHANGED <<call, locked, queue>>
  <2>1. Owner' = Owner
    BY <1>1 DEF Owner, OwnerIn
  <2> QED BY <1>1, <2>1 DEF Lock!lockVars
<1>2. ASSUME NEW c \in Calls, NEW i \in Ids, NEW r \in Reports, Acquire(c, i, r) PROVE Goal
  <2>1. /\ call[c].at = "idle" /\ call'[c].at = IF locked THEN "queued" ELSE "granted"
        /\ \A d \in Calls : d # c => call'[d] = call[d]
    BY <1>2 DEF Acquire, IInv, LockType, NoCall
  <2>2. c # Owner /\ c \notin Lock!ToSet(queue)
    BY <1>o, <2>1 DEF Lock!ToSet, IInv, LockInv, LockType
  <2>3. locked <=> Owner # Nobody
    BY <1>o DEF IInv, LockInv
  <2>4. CASE locked
    <3>1. Owner' = Owner
      BY <1>o, <1>p, <2>1, <2>4 DEF IInv, LockInv
    <3>2. queue' = Append(queue, c)
      BY <1>2, <2>4 DEF Acquire
    <3>3. Lock!Ask(c)
      BY <2>2, <2>3, <2>4, <3>1, <3>2 DEF Lock!Ask
    <3> QED BY <3>3 DEF Lock!LockNext
  <2>5. CASE ~ locked
    <3>1. Owner' = c /\ queue' = queue
      BY <1>2, <1>p, <2>1, <2>5 DEF Acquire
    <3>2. Lock!Ask(c)
      BY <2>2, <2>3, <2>5, <3>1 DEF Lock!Ask
    <3> QED BY <3>2 DEF Lock!LockNext
  <2> QED BY <2>4, <2>5
<1>3. ASSUME NEW c \in Calls, Report(c) PROVE Goal
  <2>1. call[c].at = "granted" /\ Release(c) /\ Owner = c
    BY <1>3, <1>o DEF Report
  <2>2. CASE queue = <<>>
    <3>1. locked' = FALSE /\ queue' = queue
      BY <2>1, <2>2 DEF Release
    <3>2. Owner' = Nobody
      BY <1>p, <3>1 DEF IInv, LockInv
    <3>3. Lock!Yield(c)
      BY <2>1, <2>2, <3>1, <3>2 DEF Lock!Yield
    <3> QED BY <3>3 DEF Lock!LockNext
  <2>3. CASE queue # <<>>
    <3>1. /\ Head(queue) = queue[1] /\ Head(queue) \in Calls /\ Len(queue) >= 1
          /\ Len(queue) \in Nat
      BY <2>3 DEF IInv, LockType
    <3>2. call[Head(queue)].at = "queued" /\ Head(queue) # c
      BY <2>1, <3>1 DEF IInv, LockInv
    <3>3. /\ call' = [call EXCEPT ![c] = NoCall, ![Head(queue)].at = "granted"]
          /\ queue' = Tail(queue)
      BY <2>1, <2>3 DEF Release
    <3>4. call'[Head(queue)].at = "granted"
      BY <3>1, <3>2, <3>3, GrantType DEF IInv
    <3>5. Owner' = Head(queue)
      BY <1>p, <3>1, <3>4
    <3>6. Lock!Yield(c)
      BY <2>1, <2>3, <3>3, <3>5 DEF Lock!Yield
    <3> QED BY <3>6 DEF Lock!LockNext
  <2> QED BY <2>2, <2>3
<1>4. ASSUME NEW lost, Restart(lost) PROVE Goal
  <2>1. queue' = <<>> /\ \A c \in Calls : call'[c].at = "idle"
    BY <1>4 DEF Restart, NoCall
  <2>2. Owner' = Nobody
    BY <1>p, <2>1
  <2> QED BY <2>1, <2>2 DEF Lock!LockNext, Lock!Forget
<1>5. \/ UNCHANGED <<call, locked, queue>> \/ \E lost : Restart(lost)
      \/ \E c \in Calls : Report(c)
      \/ \E c \in Calls, i \in Ids, r \in Reports : Acquire(c, i, r)
  BY DEF Next, RunStep, vars, InitWorkflow, SeqBooted, SeqResult, SeqEnd, CleanupWorkflow,
         UpdateWorker
<1> QED BY <1>1, <1>2, <1>3, <1>4, <1>5

\* completionLock has one owner at a time and is handed over in the order of the
\* calls: PromiseMutex is a Mutex (workflow-engine.ts:87-110).
THEOREM PromiseMutexIsMutex == Spec => LockIsFair
<1>1. Init => Lock!LockInit
  <2> SUFFICES ASSUME Init PROVE Lock!LockInit
    OBVIOUS
  <2>1. \A c \in Calls : call[c].at # "granted"
    BY DEF Init, NoCall
  <2>2. Owner = Nobody
    BY <2>1 DEF Owner, OwnerIn
  <2> QED BY <2>2 DEF Init, Lock!LockInit
<1>2. IInv /\ IInv' /\ [Next]_vars => [Lock!LockNext]_(Lock!lockVars)
  BY LockStepRefines
<1> QED BY <1>1, <1>2, InvAlways, PTL DEF Spec, LockIsFair, Lock!LockSpec
=============================================================================
