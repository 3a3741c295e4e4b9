--------------------------- MODULE MCWorkflowEngine ---------------------------
(* An instance of WorkflowEngine for TLC.                                    *)
EXTENDS WorkflowEngine

\* One worker that is retried, one that is not.
SomeReports ==
  {[kind |-> k, worker |-> 1] : k \in {"complete", "fail", "retry"}}
    \cup {[kind |-> k, worker |-> 2] : k \in {"complete", "giveUp"}}

\* A third call is there to see who gets the lock: the calls that meet it all
\* complete the first worker and no run goes on meanwhile.
CrowdIsAlike ==
  Len(queue) = 2 =>
    /\ \A i \in Ids : run[i] = NoRun
    /\ \A c \in Calls :
         call[c] # NoCall => call[c].kind = "complete" /\ call[c].worker = 1

\* A file that is behind meets either a sequential run or one report at a time:
\* those that wait for the lock neither read nor write it.
FewAreBehind ==
  behind # {} =>
    \/ \A c \in Calls : call[c] = NoCall
    \/ /\ \A i \in Ids : run[i] = NoRun
       /\ \A c, d \in Calls : call[c] # NoCall /\ call[d] # NoCall => c = d
=============================================================================
