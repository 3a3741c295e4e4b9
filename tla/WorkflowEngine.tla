---------------------------- MODULE WorkflowEngine ----------------------------
(***************************************************************************)
(* The workflow engine (src/src/orchestration/workflow-engine.ts) and its  *)
(* files (workflow-persistence.ts): workflows of workers that outside      *)
(* agents run and report on, or that the engine runs itself one device     *)
(* after the other, kept across restarts of the process.                   *)
(*                                                                         *)
(* A step is what happens between two awaits.  The engine's map and a      *)
(* sequential run hold the same object (flow), which therefore outlives    *)
(* its entry in the map (kept).                                            *)
(***************************************************************************)
EXTENDS Naturals, FiniteSets, Sequences, SequencesExt

CONSTANTS
  Ids,          \* workflow ids
  NumWorkers,   \* workers of a workflow
  Calls,        \* calls of completeWorker(), failWorker() and retryWorker()
  Reports,      \* what they are asked to do: [kind, worker]
  MaxAttempts,  \* a worker's maxAttempts
  Nobody        \* the owner of completionLock when there is none

VARIABLES
  flow,   \* id -> the workflow object
  kept,   \* ids in the engine's map
  disk,   \* id -> what its file says (NoFlow: there is none, or it is torn)
  behind, \* ids whose last save failed (history: nothing reads it)
  run,    \* id -> its sequential run
  call,   \* call -> what it asks for and how far it is
  locked, \* the flag of completionLock
  queue   \* the queue of completionLock

vars == <<flow, kept, disk, behind, run, call, locked, queue>>

-----------------------------------------------------------------------------
Workers == 1..NumWorkers
Ends    == {"completed", "failed"}
Worker  == [status : {"pending", "active"} \cup Ends, attempts : 1..MaxAttempts]
Flow    == [status : {"running", "completed", "partial"}, workers : [Workers -> Worker]]
NoFlow  == [status |-> "none"]
NewFlow == [status  |-> "running",
            workers |-> [w \in Workers |-> [status |-> "pending", attempts |-> 1]]]

\* A sequential run: the worker it is at (0 when there is no run), whether its
\* device is up, and the results of the workers before it.
Runs  == [at : 0..NumWorkers + 1, up : BOOLEAN, results : [Workers -> Ends]]
NoRun == [at |-> 0, up |-> FALSE, results |-> [w \in Workers |-> "failed"]]

Kinds      == {"complete", "fail", "giveUp", "retry"}

ASSUME EngineAssumption ==
  /\ NumWorkers \in Nat \ {0} /\ MaxAttempts \in Nat \ {0}
  /\ Reports \subseteq [kind : Kinds, worker : Workers]
  /\ Nobody \notin Calls

NoCall     == [at |-> "idle"]
CallStates == [at : {"queued", "granted"}, kind : Kinds, id : Ids, worker : Workers]

Init ==
  /\ flow = [i \in Ids |-> NoFlow] /\ kept = {}
  /\ disk = [i \in Ids |-> NoFlow] /\ behind = {}
  /\ run = [i \in Ids |-> NoRun]
  /\ call = [c \in Calls |-> NoCall]
  /\ locked = FALSE /\ queue = <<>>

-----------------------------------------------------------------------------
(* Pieces of the handlers. *)

Ended(f)   == \A w \in Workers : f.workers[w].status \in Ends
Verdict(f) == IF \E w \in Workers : f.workers[w].status = "failed"
              THEN "partial" ELSE "completed"

\* Mutant of Judged: one ended worker ends the workflow.
JudgedEarly(f) ==
  IF \E w \in Workers : f.workers[w].status \in Ends
  THEN [f EXCEPT !.status = Verdict(f)] ELSE f

\* checkWorkflowCompletion()
Judged(f) == IF Ended(f) THEN [f EXCEPT !.status = Verdict(f)] ELSE f

\* persistWorkflow() with the object g: the file is written, or the save fails, and
\* leaves the file as it was or torn.  The failure is logged and forgotten.
Persisted(i, g) ==
  \/ disk' = [disk EXCEPT ![i] = g] /\ behind' = behind \ {i}
  \/ disk' \in {disk, [disk EXCEPT ![i] = NoFlow]} /\ behind' = behind \cup {i}

\* Mutant of Saved: the file is written before the object has changed.
SavedEarly(i, f) ==
  flow' = [flow EXCEPT ![i] = f] /\ Persisted(i, flow[i])

\* The object of workflow i becomes f and is saved.
Saved(i, f) ==
  flow' = [flow EXCEPT ![i] = f] /\ Persisted(i, f)

With(f, w, s) == [f EXCEPT !.workers[w].status = s]

-----------------------------------------------------------------------------
(* initWorkflow() and cleanupWorkflow() *)

\* Concurrent: its devices are up, a boot that fails leaves no workflow behind.
\* Sequential: the workflow is there before its first device boots.
InitWorkflow(i, mode) ==
  /\ flow[i] = NoFlow /\ disk[i] = NoFlow
  /\ Saved(i, NewFlow)
  /\ kept' = kept \cup {i}
  /\ run' = IF mode = "sequential" THEN [run EXCEPT ![i].at = 1] ELSE run
  /\ UNCHANGED <<call, locked, queue>>

\* The next device has booted and the run's callback begins.
SeqBooted(i) ==
  /\ run[i].at \in Workers /\ ~ run[i].up
  /\ Saved(i, With(flow[i], run[i].at, "active"))
  /\ run' = [run EXCEPT ![i].up = TRUE]
  /\ UNCHANGED <<kept, call, locked, queue>>

\* The callback is over, or the boot failed.
SeqResult(i, result) ==
  /\ run[i].at \in Workers /\ (run[i].up \/ result = "failed")
  /\ run' = [run EXCEPT ![i] = [at |-> @.at + 1, up |-> FALSE,
                                results |-> [@.results EXCEPT ![run[i].at] = result]]]
  /\ UNCHANGED <<flow, kept, disk, behind, call, locked, queue>>

\* The workflow with the results of its run.
WithResults(f, results) ==
  [f EXCEPT !.workers = [w \in Workers |-> [f.workers[w] EXCEPT !.status = results[w]]]]

\* Mutant of SeqEnd: the workflow is not checked for completion.
SeqEndUnchecked(i) ==
  /\ run[i].at = NumWorkers + 1
  /\ Saved(i, WithResults(flow[i], run[i].results))
  /\ run' = [run EXCEPT ![i] = NoRun]
  /\ UNCHANGED <<kept, call, locked, queue>>

\* All results are there and are applied at once.
SeqEnd(i) ==
  /\ run[i].at = NumWorkers + 1
  /\ Saved(i, Judged(WithResults(flow[i], run[i].results)))
  /\ run' = [run EXCEPT ![i] = NoRun]
  /\ UNCHANGED <<kept, call, locked, queue>>

\* The pool is shut down afterwards; a sequential run goes on.  Without one nobody
\* looks at the object again, and its value does not matter.
CleanupWorkflow(i) ==
  /\ i \in kept
  /\ kept' = kept \ {i}
  /\ disk' = [disk EXCEPT ![i] = NoFlow] /\ behind' = behind \ {i}
  /\ flow' = IF run[i].at = 0 THEN [flow EXCEPT ![i] = NewFlow] ELSE flow
  /\ UNCHANGED <<run, call, locked, queue>>

-----------------------------------------------------------------------------
(* The workers' reports. *)

\* updateWorker() does not take the lock.
UpdateWorker(i, w) ==
  /\ i \in kept
  /\ Saved(i, With(flow[i], w, "active"))
  /\ UNCHANGED <<kept, run, call, locked, queue>>

\* A report with the lock begins: PromiseMutex.acquire().
Acquire(c, i, r) ==
  /\ call[c] = NoCall
  /\ call' = [call EXCEPT ![c] = [at |-> IF locked THEN "queued" ELSE "granted",
                                  kind |-> r.kind, id |-> i, worker |-> r.worker]]
  /\ locked' = TRUE
  /\ queue' = IF locked THEN Append(queue, c) ELSE queue
  /\ UNCHANGED <<flow, kept, disk, behind, run>>

CompleteWorker(i, w) == Saved(i, Judged(With(flow[i], w, "completed")))

FailWorker(i, w, allowRetry) ==
  IF allowRetry /\ flow[i].workers[w].attempts < MaxAttempts
  THEN Saved(i, With(flow[i], w, "pending"))
  ELSE Saved(i, Judged(With(flow[i], w, "failed")))

\* Attempts are counted up to MaxAttempts, beyond which nothing tells them apart.
RetryWorker(i, w) ==
  Saved(i, [With(flow[i], w, "active") EXCEPT
              !.workers[w].attempts = IF @ < MaxAttempts THEN @ + 1 ELSE @])

\* Mutant of Release: the lock is freed and the next one in the queue forgotten.
ReleaseOnly(c) ==
  /\ locked' = FALSE
  /\ call' = [call EXCEPT ![c] = NoCall]
  /\ UNCHANGED queue

\* Mutant of Release: the last of the queue goes first.
ReleaseLast(c) ==
  IF queue = <<>>
  THEN /\ locked' = FALSE
       /\ call' = [call EXCEPT ![c] = NoCall]
       /\ UNCHANGED queue
  ELSE /\ queue' = Front(queue)
       /\ call' = [call EXCEPT ![c] = NoCall, ![Last(queue)].at = "granted"]
       /\ UNCHANGED locked

\* PromiseMutex.release(): the lock goes to the next in the queue, and stays locked.
Release(c) ==
  IF queue = <<>>
  THEN /\ locked' = FALSE
       /\ call' = [call EXCEPT ![c] = NoCall]
       /\ UNCHANGED queue
  ELSE /\ queue' = Tail(queue)
       /\ call' = [call EXCEPT ![c] = NoCall, ![Head(queue)].at = "granted"]
       /\ UNCHANGED locked

\* The report is made, or throws when its workflow is not there, and the lock is
\* released in either case.
Report(c) ==
  /\ call[c].at = "granted"
  /\ LET i == call[c].id
         w == call[c].worker
     IN  IF i \notin kept THEN UNCHANGED <<flow, disk, behind>>
         ELSE \/ call[c].kind = "complete" /\ CompleteWorker(i, w)
              \/ call[c].kind = "fail" /\ FailWorker(i, w, TRUE)
              \/ call[c].kind = "giveUp" /\ FailWorker(i, w, FALSE)
              \/ call[c].kind = "retry" /\ RetryWorker(i, w)
  /\ Release(c)
  /\ UNCHANGED <<kept, run>>

-----------------------------------------------------------------------------
(* A restart. *)

\* restorePersistedWorkflows(): what was running can at best be partial.
Restored(f) ==
  IF f.status = "running" THEN [f EXCEPT !.status = "partial"] ELSE f

\* The process ends and starts again.  If it ended while it wrote the file of a
\* workflow, that file is corrupt and is skipped.
Restart(lost) ==
  /\ \A i \in lost : i \in kept \/ run[i].at # 0
  /\ disk' = [i \in Ids |-> IF i \in lost THEN NoFlow ELSE disk[i]]
  /\ flow' = [i \in Ids |-> Restored(disk'[i])] /\ behind' = {}
  /\ kept' = {i \in Ids : disk'[i] # NoFlow}
  /\ run' = [i \in Ids |-> NoRun]
  /\ call' = [c \in Calls |-> NoCall]
  /\ locked' = FALSE /\ queue' = <<>>

-----------------------------------------------------------------------------
RunStep(i) ==
  SeqBooted(i) \/ (\E r \in Ends : SeqResult(i, r)) \/ SeqEnd(i)

Next ==
  \/ \E i \in Ids :
       \/ \E mode \in {"concurrent", "sequential"} : InitWorkflow(i, mode)
       \/ RunStep(i) \/ CleanupWorkflow(i)
       \/ \E w \in Workers : UpdateWorker(i, w)
       \/ \E c \in Calls, r \in Reports : Acquire(c, i, r)
  \/ \E c \in Calls : Report(c)
  \/ \E lost \in {{}} \cup {{i} : i \in Ids} : Restart(lost)

Spec == Init /\ [][Next]_vars

\* A report that has the lock goes on, and so does a sequential run: the pool's
\* bootSequential() ends (CallsSettle of SimulatorPool).
FairSpec ==
  /\ Spec
  /\ \A c \in Calls : WF_vars(Report(c))
  /\ \A i \in Ids : WF_vars(RunStep(i))

-----------------------------------------------------------------------------
(* Properties *)

\* Workflows, files, runs, calls and the lock keep their shape.
TypeOK ==
  /\ flow \in [Ids -> Flow \cup {NoFlow}] /\ disk \in [Ids -> Flow \cup {NoFlow}]
  /\ kept \subseteq Ids /\ behind \subseteq Ids
  /\ \A i \in kept : flow[i] # NoFlow
  /\ run \in [Ids -> Runs]
  /\ \A i \in Ids : run[i].at # 0 => flow[i] # NoFlow
  /\ call \in [Calls -> CallStates \cup {NoCall}]
  /\ locked \in BOOLEAN /\ queue \in Seq(Calls)

\* Whatever order reports, retries, sequential runs and restarts come in, a
\* workflow whose workers have all ended says so, and says whether one failed
\* (workflow-engine.ts:443-451).
EndedIsJudged ==
  \A i \in Ids : flow[i] # NoFlow /\ Ended(flow[i]) => flow[i].status = Verdict(flow[i])

\* The file of a workflow says what the engine knows of it, but for what a restart
\* has relabelled in memory (workflow-engine.ts:129-131), unless the last save of
\* the workflow failed: every save writes the whole object, so that the first one
\* that works makes up for those that did not (workflow-engine.ts:139-145).
DiskFollowsMemory ==
  \A i \in kept \ behind : flow[i] \in {disk[i], Restored(disk[i])}

\* A workflow becomes completed only when every worker has completed by then.  A
\* restart can make it so on the word of its file, if the last save had failed.
NoFalseSuccess ==
  [][\A i \in Ids :
       flow[i].status # "completed" /\ flow'[i].status = "completed" /\ i \in kept =>
         \/ \A w \in Workers : flow'[i].workers[w].status = "completed"
         \/ i \in behind /\ flow'[i] = disk[i]]_vars

\* completionLock has one owner at a time and is handed over in the order of the
\* calls; its owner is the call that may go on.
OwnerIn(calls) == IF \E c \in Calls : calls[c].at = "granted"
                  THEN CHOOSE c \in Calls : calls[c].at = "granted" ELSE Nobody
Owner == OwnerIn(call)

Lock == INSTANCE Mutex WITH owner <- Owner, line <- queue

LockIsFair == Lock!LockSpec

\* Every report ends and every sequential run ends: an exception in a report leaves
\* the lock behind for nobody.
AllEnd ==
  /\ \A c \in Calls : call[c] # NoCall ~> call[c] = NoCall
  /\ \A i \in Ids : run[i].at # 0 ~> run[i].at = 0
=============================================================================
