------------------------------ MODULE ToolCall ------------------------------
(***************************************************************************)
(* One call of a tool: the frame which the modules of the tools share. A   *)
(* handler runs from one await to the next while the world around it       *)
(* changes by itself; it ends by answering, and what its awaits throw ends *)
(* it as well.                                                             *)
(***************************************************************************)
EXTENDS Integers, Sequences, FiniteSets, TLC

VARIABLES
  world,    \* what the tool acts on, as its module describes it
  call      \* [tool, opts, at, out] and the handler's locals

tvars == <<world, call>>

\* A call that has just come: of a tool, with its options and the handler's locals.
NewCall(tool, opts, locals) ==
  LET frame == [tool |-> tool, opts |-> opts, at |-> "begin", out |-> "none"]
  IN [f \in DOMAIN frame \cup DOMAIN locals |->
        IF f \in DOMAIN locals THEN locals[f] ELSE frame[f]]

\* The calls a caller may make: any of the tools with any of its options.
ToolCalls(options, locals) ==
  UNION {{NewCall(tool, opts, locals) : opts \in SUBSET options[tool]} : tool \in DOMAIN options}

Opt(o) == o \in call.opts
At(tool, label) == call.tool = tool /\ call.at = label
Ended == call.at = "end"

\* The handler gets from one await to the next, or ends with an answer.
Became(tool, from, c) == At(tool, from) /\ call' = c
Go(tool, from, to) == Became(tool, from, [call EXCEPT !.at = to])
Answers(tool, from, out) == Became(tool, from, [call EXCEPT !.at = "end", !.out = out])
Pass(tool, from, to) == Go(tool, from, to) /\ UNCHANGED world
Act(tool, from, to, effects) == Go(tool, from, to) /\ world' \in effects
End(tool, from, out) == Answers(tool, from, out) /\ UNCHANGED world

\* What the awaits at these labels throw is answered as an error.
Throws(tool, labels) == \E at \in labels : End(tool, at, "error")

\* Every call ends: each of its awaits returns, throws or runs into its time limit. Only
\* the one that stops the HTTP proxy waits, without a limit, for the connections of
\* the app to be closed ("clients").
ToolCallsEnd == <>(Ended \/ call.at = "clients")
=============================================================================
