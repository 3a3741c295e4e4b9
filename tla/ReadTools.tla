----------------------------- MODULE ReadTools ------------------------------
(***************************************************************************)
(* The tools that look at an app through its accessibility tree: app_tree, *)
(* app_query, app_inspect, app_wait_for, app_assert_element, app_context,  *)
(* app_state_snapshot and app_assert, with what they share: bringing the   *)
(* target app to the front, activating its semantics (the tree of a        *)
(* Flutter app is poor until then), and reading the tree with recovery.    *)
(***************************************************************************)
EXTENDS ToolCall

CONSTANTS
  MaxTries,     \* DEFAULT_MAX_ATTEMPTS of the recovery
  MaxPolls,     \* bound: polls until the timeout of app_wait_for
  MaxDrifts     \* bound: changes the app makes by itself

ReadOptions ==
  [tree |-> {"bundle"}, inspect |-> {"bundle"}, query |-> {"bundle"},
   wait_for |-> {"bundle", "gone", "stable", "scroll"}, assert_element |-> {"bundle", "gone"},
   context |-> {"expected", "required"}, state |-> {"vm"}, assert |-> {}]

\* seen, fronted: whether the element was in the app, and the app in front, at
\* some time of the call.
Notes(w) == [w EXCEPT !.seen = @ \/ w.there, !.fronted = @ \/ w.front = "app"]

ReadInit ==
  /\ call \in ToolCalls(ReadOptions,
       [active |-> TRUE, force |-> FALSE, then |-> "read", tries |-> 0, failed |-> FALSE,
        polls |-> 0, again |-> FALSE, first |-> FALSE, gap |-> FALSE, warned |-> FALSE])
  /\ \E w \in [front : {"app", "home"}, full : BOOLEAN, asked : {FALSE}, there : BOOLEAN,
               drifts : {0}, seen : {FALSE}, fronted : {FALSE}] : world = Notes(w)

----------------------------------------------------------------------------
(* The app. *)

\* The app builds its semantics when it is asked to.
SemanticsComeUp ==
  /\ world.asked /\ ~world.full
  /\ world' = [world EXCEPT !.full = TRUE, !.asked = FALSE]
  /\ UNCHANGED call

\* The element comes and goes, the app leaves the front, its semantics are lost.
ReadDrift ==
  /\ ~Ended /\ world.drifts < MaxDrifts
  /\ LET w == [world EXCEPT !.drifts = @ + 1]
     IN world' \in {Notes([w EXCEPT !.there = ~@]), Notes([w EXCEPT !.front = "home"]),
                    [w EXCEPT !.full = FALSE]}
  /\ UNCHANGED call

Asks == [world EXCEPT !.asked = TRUE]
Step(from, to) == Pass(call.tool, from, to)

\* A query finds the element in a full tree only; a poor one has no match.
Found == world.full /\ world.there

----------------------------------------------------------------------------
(* What the tools share. *)

\* The arguments and the device; with a bundle the app is launched first.
ReadBegin ==
  /\ call.tool \in {"tree", "inspect", "query", "wait_for", "assert_element"}
  /\ \/ End(call.tool, "begin", "refused")
     \/ /\ UNCHANGED world
        /\ Became(call.tool, "begin",
             [call EXCEPT !.at = IF Opt("bundle") THEN "launch" ELSE "activate",
                !.then = IF Opt("bundle") \/ call.tool = "tree" THEN "dump" ELSE "read"])

\* simctl brings the app to the front; the call does not wait until it is there.
ActivateApp ==
  \/ /\ Go(call.tool, "launch", "activate")
     /\ \E front \in {world.front, "app"} : world' = Notes([world EXCEPT !.front = front])
  \/ Throws(call.tool, {"launch"})

\* ensureSemanticsActive: done when the tree is full already, unless a refresh is
\* forced; else ask by simctl and poll, ask over the VM service and poll again.
EnsuresTo(from, active) ==
  Became(call.tool, from,
    [call EXCEPT !.at = call.then, !.failed = @ \/ (call.force /\ ~active),
                 !.active = IF call.force THEN @ ELSE active])

EnsureSemanticsActive ==
  \/ ~call.force /\ world.full /\ EnsuresTo("activate", TRUE) /\ UNCHANGED world
  \/ Act(call.tool, "activate", "simctl", {world, Asks})
  \/ world.full /\ EnsuresTo("simctl", TRUE) /\ UNCHANGED world
  \/ Act(call.tool, "simctl", "service", {world, Asks})       \* half of the time is up
  \/ \E active \in {FALSE, world.full} : EnsuresTo("service", active) /\ UNCHANGED world

\* dumpTreeWithRecovery: an error that may pass is tried again after another
\* activation; the last one is named by its cause when the semantics stayed away.
DumpTreeWithRecovery ==
  \/ Step("dump", "dumped")
  \/ /\ call.tries + 1 < MaxTries /\ UNCHANGED world
     /\ Became(call.tool, "dump", [call EXCEPT !.at = "activate", !.force = TRUE, !.tries = @ + 1])
  \/ /\ call.tries + 1 >= MaxTries
     /\ End(call.tool, "dump", IF Opt("bundle") /\ call.failed THEN "inactive" ELSE "error")
  \/ Throws(call.tool, {"dump"})                              \* an error that stays

\* ensureTargetAppContext: the tree must show the target app, launched again once.
EnsureTargetAppContext ==
  \/ (Opt("bundle") => world.front = "app") /\ Step("dumped", "read")
  \/ /\ Opt("bundle") /\ world.front # "app" /\ ~call.again /\ UNCHANGED world
     /\ Became(call.tool, "dumped",
          [call EXCEPT !.at = "launch", !.again = TRUE, !.tries = 0, !.force = FALSE])
  \/ Opt("bundle") /\ world.front # "app" /\ call.again /\ End(call.tool, "dumped", "refused")

----------------------------------------------------------------------------
(* The tools. *)

AppTree == End("tree", "read", "ok")
AppInspect == End("inspect", "read", "ok") \/ Throws("inspect", {"read"})

\* An answer; whether it carries the warning that the semantics did not come up.
Tells(tool, from, out, warned) ==
  /\ Became(tool, from, [call EXCEPT !.at = "end", !.out = out, !.warned = warned])
  /\ UNCHANGED world
Unheard == ~Opt("bundle") /\ ~call.active

\* Without a match the semantics are refreshed and the query run again; then its
\* relaxed form is looked for in a tree, if one can be read.
AppQuery ==
  \/ Found /\ \E at \in {"read", "requery", "relaxed"} : Tells("query", at, "present", FALSE)
  \/ ~Found /\ UNCHANGED world
     /\ Became("query", "read", [call EXCEPT !.at = "simctl", !.force = TRUE, !.then = "requery"])
  \/ ~Found /\ Step("requery", "relaxed")
  \/ Tells("query", "relaxed", "absent", Unheard)
  \/ Throws("query", {"read", "requery"})

Condition == IF Opt("gone") THEN ~Found ELSE Found

\* Mutant of Polled: every poll sets the deadline anew.
PolledForever(c) == UNCHANGED world /\ Became("wait_for", "read", [c EXCEPT !.at = "between"])

\* One poll; a stable condition must hold at the next one as well, and a poll that
\* fails breaks it. Between two polls the app may be scrolled.
Polled(c) ==
  /\ call.polls < MaxPolls /\ UNCHANGED world
  /\ Became("wait_for", "read", [c EXCEPT !.at = "between", !.polls = @ + 1])

WaitForPoll ==
  \/ Condition /\ (Opt("stable") => call.first) /\ Tells("wait_for", "read", "found", FALSE)
  \/ Condition /\ Opt("stable") /\ ~call.first /\ Polled([call EXCEPT !.first = TRUE, !.gap = FALSE])
  \/ Polled([call EXCEPT !.first = FALSE, !.gap = TRUE])     \* unmet, or failed

AppWaitFor ==
  \/ WaitForPoll
  \/ ~Opt("scroll") /\ Step("between", "read")
  \/ /\ Opt("scroll") /\ Go("wait_for", "between", "read")
     /\ \E there \in {world.there, TRUE} : world' = Notes([world EXCEPT !.there = there])
  \/ Tells("wait_for", "between", "timeout", Unheard)
  \/ call.polls = MaxPolls /\ Tells("wait_for", "read", "timeout", Unheard)

\* One query decides; the warning goes with a failure that found nothing.
AppAssertElement ==
  \/ Condition /\ Tells("assert_element", "read", "passed", FALSE)
  \/ ~Condition /\ Tells("assert_element", "read", "failed", Unheard /\ ~Found)
  \/ Throws("assert_element", {"read"})

\* app_context reads a tree and then the running apps, and compares with what the
\* caller expects; app_state_snapshot asks the VM for the route as well.
AppContext ==
  \/ End("context", "begin", "refused")
  \/ \E match \in BOOLEAN : End("context", "begin",
       IF {"expected", "required"} \subseteq call.opts /\ ~match THEN "failed" ELSE "ok")
  \/ Throws("context", {"begin"})

AppStateSnapshot ==
  \/ Step("begin", IF Opt("vm") /\ call.tool = "state" THEN "route" ELSE "snapshot")
     /\ call.tool = "state"
  \/ Step("route", "snapshot") /\ call.tool = "state"        \* read, or unavailable
  \/ End("state", "snapshot", "ok")
  \/ Throws("state", {"begin"})

\* app_assert looks for text in what simctl lists; it never throws.
AppAssert == \E out \in {"passed", "failed", "refused"} : End("assert", "begin", out)

----------------------------------------------------------------------------
ReadStep ==
  \/ ReadBegin \/ ActivateApp \/ EnsureSemanticsActive \/ DumpTreeWithRecovery
  \/ EnsureTargetAppContext \/ AppTree \/ AppInspect \/ AppQuery \/ AppWaitFor
  \/ AppAssertElement \/ AppContext \/ AppStateSnapshot \/ AppAssert
ReadNext == ReadStep \/ SemanticsComeUp \/ ReadDrift
Reading == call.tool \in {"tree", "inspect", "query", "wait_for", "assert_element"}

(***************************************************************************)
(* What the reading tools say was there: an element that is present was in *)
(* the app during the call, and with a bundle the answer is about the app, *)
(* which was in front.                                                     *)
(***************************************************************************)
PresenceIsTrue ==
  Reading /\ call.out \in {"ok", "present", "found", "passed", "failed"} =>
    /\ Opt("bundle") => world.fronted
    /\ call.out = "present" \/ (call.out \in {"found", "passed"} /\ ~Opt("gone")) => world.seen

(***************************************************************************)
(* A condition app_wait_for calls stable was seen to hold twice with no    *)
(* poll in between that failed or saw otherwise.                           *)
(***************************************************************************)
StableWasObserved == At("wait_for", "end") /\ call.out = "found" /\ Opt("stable") => ~call.gap

=============================================================================
