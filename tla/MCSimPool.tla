------------------------------ MODULE MCSimPool ------------------------------
(* Instances of SimPool for TLC.                                            *)
EXTENDS SimPool

One == CHOOSE c \in Calls : TRUE

\* Only one of the calls is kept on request or resists its deletion; the others
\* are there to meet it at the mutex and at the cap.
Trimmed ==
  \A c \in Calls : request[c].keep \/ device[c] \in {"stuck", "stray"} => c = One
=============================================================================
