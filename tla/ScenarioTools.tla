---------------------------- MODULE ScenarioTools ----------------------------
(***************************************************************************)
(* The tools that work on all devices of the pool at once: run_scenario    *)
(* (its steps one after the other, each on all devices side by side),      *)
(* assert_all_devices, compare_devices, and hybrid_qa_start with its fast  *)
(* scan in tabs and its verification on one device after the other.        *)
(***************************************************************************)
EXTENDS ToolCall

CONSTANTS
  Pool,          \* the devices
  MaxSteps,      \* bound: steps of a scenario
  MaxPops        \* maxNativeAttempts

ScenarioOptions ==
  [scenario |-> {"v2", "some"}, assert_all |-> {}, compare |-> {"some", "dom"},
   hybrid |-> {"auth", "skip"}]

\* Conditional steps pass by what they find; the others by being done.
Kinds == {"simple", "assert", "settle", "goto", "press", "pop", "overlay"}
MobileKinds == {"settle", "goto", "press", "pop", "overlay"}

\* here: the devices of the pool; met: on which the condition holds; seen: where it
\* has held since the step began; lost: a step has failed somewhere; temp: whether
\* the pool keeps cookies; up: what hybrid QA has booted; bad: pages with an issue.
ScenarioInit ==
  /\ call \in ToolCalls(ScenarioOptions,
       [steps |-> 0, kind |-> "none", dev |-> [d \in Pool |-> "out"], left |-> [d \in Pool |-> 0],
        ok |-> TRUE, scans |-> [d \in Pool |-> "none"], told |-> [d \in Pool |-> "none"],
        failed |-> FALSE])
  /\ \E met \in {Pool} \cup {{}}, bad \in SUBSET Pool :
       /\ bad # {} => call.tool = "hybrid"
       /\ world = [here |-> Pool, met |-> met, seen |-> {}, lost |-> FALSE, moved |-> FALSE,
                   temp |-> FALSE, up |-> {}, bad |-> bad]

----------------------------------------------------------------------------
\* A device leaves the pool, or its app changes by itself.
PoolMoves ==
  /\ ~Ended /\ ~world.moved /\ UNCHANGED call
  /\ \E d \in Pool :
       \/ world' = [world EXCEPT !.moved = TRUE, !.here = @ \ {d}]
       \/ world' = [world EXCEPT !.moved = TRUE, !.met = (@ \ {d}) \cup ({d} \ @),
                                 !.seen = @ \cup ({d} \ world.met)]

Dev(d, label) == At("scenario", "run") /\ call.dev[d] = label
DevGoes(d, label) == call' = [call EXCEPT !.dev[d] = label]
DevFails(d) == DevGoes(d, "failed") /\ world' = [world EXCEPT !.lost = TRUE]
\* An input: it may bring the condition about, or take it away.
DevActs(d, label) ==
  /\ DevGoes(d, label)
  /\ world' \in {world, [world EXCEPT !.met = @ \cup {d}, !.seen = @ \cup {d}],
                 [world EXCEPT !.met = @ \ {d}]}

----------------------------------------------------------------------------
(* run_scenario *)

ScenarioBegin ==
  \/ End("scenario", "begin", "refused")
  \/ Pass("scenario", "begin", "step")

\* A step runs on the devices that are in the pool when it begins.
ExecuteStep ==
  /\ call.steps < MaxSteps
  /\ \E kind \in Kinds, sims \in (IF Opt("some") THEN SUBSET world.here ELSE {world.here}) :
       /\ Became("scenario", "step",
            [call EXCEPT !.at = "run", !.steps = @ + 1, !.kind = kind,
               !.dev = [d \in Pool |-> IF d \in sims THEN "start" ELSE "out"]])
       /\ world' = [world EXCEPT !.seen = world.met]

\* A mobile step needs a scenario of version 2 and its arguments; any step can throw.
DeviceFails(d) ==
  /\ \E label \in {"start", "press", "gesture"} : Dev(d, label) /\ DevFails(d)
DeviceMay(d) == call.kind \in MobileKinds => Opt("v2")

SimpleStep(d) ==
  /\ Dev(d, "start") /\ call.kind = "simple" /\ DevGoes(d, "passed") /\ UNCHANGED world

AssertStep(d) ==
  /\ Dev(d, "start") /\ call.kind = "assert"
  /\ \/ d \in world.met /\ DevGoes(d, "passed") /\ UNCHANGED world
     \/ d \notin world.met /\ DevFails(d)

\* Mutant of Settles: a condition that was not met is not looked at again.
SettlesUnseen(d, otherwise) ==
  \/ DevGoes(d, "passed") /\ UNCHANGED world
  \/ d \notin world.met /\ otherwise

\* waitForSettle: met when a poll has seen the condition, else the time is up.
Settles(d, otherwise) ==
  \/ d \in world.met /\ DevGoes(d, "passed") /\ UNCHANGED world
  \/ d \notin world.met /\ otherwise

WaitForStep(d) ==
  /\ Dev(d, "start") /\ call.kind = "settle" /\ DeviceMay(d) /\ Settles(d, DevFails(d))

\* navigateSemantically, then its postcondition.
GotoStep(d) ==
  \/ Dev(d, "start") /\ call.kind = "goto" /\ DeviceMay(d) /\ DevActs(d, "settle")
  \/ Dev(d, "settle") /\ Settles(d, DevFails(d))

\* The element is pressed, and tapped when that failed; a text is typed in any case.
TapElement(d) ==
  \/ Dev(d, "start") /\ call.kind = "press" /\ DeviceMay(d) /\ DevActs(d, "press")
  \/ Dev(d, "press") /\ (DevActs(d, "settle") \/ (DevGoes(d, "settle") /\ UNCHANGED world))

\* Gestures that are left to try; after one that was sent the condition is looked at.
Gestures(d, n) == call' = [call EXCEPT !.dev[d] = "gesture", !.left[d] = n] /\ UNCHANGED world
Gesture(d) ==
  \/ Dev(d, "gesture") /\ call.left[d] > 0 /\ DevActs(d, "sent")
  \/ Dev(d, "gesture") /\ call.left[d] > 0 /\ Gestures(d, call.left[d] - 1)      \* not sent
  \/ Dev(d, "gesture") /\ call.left[d] = 0 /\ DevFails(d)
  \/ Dev(d, "sent") /\ Settles(d, Gestures(d, call.left[d] - 1))

\* Escape and the swipe from the edge, by turns.
PopStep(d) ==
  Dev(d, "start") /\ call.kind = "pop" /\ DeviceMay(d) /\ Gestures(d, 2 * MaxPops)
\* The gesture of the mode, or all three.
DismissStep(d) ==
  Dev(d, "start") /\ call.kind = "overlay" /\ DeviceMay(d) /\ \E n \in {1, 3} : Gestures(d, n)

\* A step that failed does not stop the scenario.
StepEnds ==
  /\ \A d \in Pool : call.dev[d] \in {"passed", "failed", "out"}
  /\ Became("scenario", "run",
       [call EXCEPT !.at = "step", !.ok = @ /\ \A d \in Pool : call.dev[d] # "failed",
          !.kind = "none", !.dev = [d \in Pool |-> "out"], !.left = [d \in Pool |-> 0]])
  /\ world' = [world EXCEPT !.seen = {}]

\* The trace may not be written; then the call has no verdict.
RunScenario ==
  \/ End("scenario", "step", IF call.ok THEN "passed" ELSE "failed")
  \/ Throws("scenario", {"step"})

ScenarioStep ==
  \/ ScenarioBegin \/ ExecuteStep \/ StepEnds \/ RunScenario
  \/ \E d \in Pool :
       \/ DeviceFails(d) \/ SimpleStep(d) \/ AssertStep(d) \/ WaitForStep(d) \/ GotoStep(d)
       \/ TapElement(d) \/ PopStep(d) \/ DismissStep(d) \/ Gesture(d)

----------------------------------------------------------------------------
(* assert_all_devices *)

\* All devices of the pool are asked at once; nothing to ask is a failure.
AssertBegin ==
  \/ End("assert_all", "begin", "refused")
  \/ /\ world.here # {} /\ UNCHANGED world
     /\ Became("assert_all", "begin",
          [call EXCEPT !.at = "ask", !.dev = [d \in Pool |-> IF d \in world.here THEN "ask" ELSE "out"]])
  \/ world.here = {} /\ End("assert_all", "begin", "failed")

\* One that throws, or lacks an argument, has not passed.
RunCheck(d) ==
  /\ At("assert_all", "ask") /\ call.dev[d] = "ask"
  /\ \/ d \in world.met /\ DevGoes(d, "passed") /\ UNCHANGED world
     \/ DevFails(d)

AssertAll ==
  /\ \A d \in Pool : call.dev[d] # "ask"
  /\ End("assert_all", "ask", IF \E d \in Pool : call.dev[d] = "failed" THEN "failed" ELSE "passed")

----------------------------------------------------------------------------
(* compare_devices *)

\* Two of the devices that were asked for are needed, and of each a screenshot.
CompareCapture ==
  \/ End("compare", "begin", "refused") \/ Throws("compare", {"begin"})
  \/ \E named \in (IF Opt("some") THEN SUBSET world.here ELSE {world.here}), shot \in SUBSET Pool :
       \/ Cardinality(named \cap shot) < 2 /\ End("compare", "begin", "refused")
       \/ Cardinality(named \cap shot) >= 2 /\ Pass("compare", "begin", "images")
CompareDevices ==
  \/ Opt("dom") /\ Pass("compare", "images", "dom")     \* without it when it fails
  \/ ~Opt("dom") /\ End("compare", "images", "ok")
  \/ End("compare", "dom", "ok")
  \/ Throws("compare", {"images"})

----------------------------------------------------------------------------
(* hybrid_qa_start *)

Hybrid(from, to) == Pass("hybrid", from, to)
\* Phase A fails: its devices stay up, and what it has scanned counts.
PhaseAFails(from) ==
  /\ Became("hybrid", from, [call EXCEPT !.at = "phase b", !.failed = TRUE])
  /\ UNCHANGED world

HybridBegin ==
  \/ End("hybrid", "begin", "refused") \/ PhaseAFails("begin")
  \/ Go("hybrid", "begin", IF Opt("auth") THEN "inject" ELSE "scan")
     /\ world' = [world EXCEPT !.up = Pool]
InjectAuth == Hybrid("inject", "scan") \/ PhaseAFails("inject")

\* Each device's viewport in a tab of its own, one after the other; a scan that
\* fails is kept as one that tells nothing, and does not count as flagged.
ScanViewport ==
  \/ \E d \in Pool, scan \in {"clean", "flagged", "error"} :
       /\ call.scans[d] = "none" /\ (scan = "clean" => d \notin world.bad)
       /\ Became("hybrid", "scan", [call EXCEPT !.scans[d] = scan]) /\ UNCHANGED world
  \/ (\A d \in Pool : call.scans[d] # "none") /\ Hybrid("scan", "close")

ClosePhaseA ==
  \/ Go("hybrid", "close", "phase b") /\ world' = [world EXCEPT !.up = {}]
  \/ PhaseAFails("close")

\* What was flagged is verified, whatever became of phase A.
Flagged == {d \in Pool : call.scans[d] = "flagged"}
ToVerify == {d \in Pool : call.scans[d] \in {"flagged", "error"}}
BeginPhaseB ==
  \/ (Opt("skip") \/ Flagged = {}) /\ Hybrid("phase b", "finish")
  \/ /\ ~Opt("skip") /\ Flagged # {}
     /\ Became("hybrid", "phase b", [call EXCEPT !.at = "verify", !.failed = FALSE])
     /\ world' \in {world} \cup {[world EXCEPT !.temp = TRUE] : o \in call.opts \cap {"auth"}}

\* A device after the other; one that does not connect, or whose page does not load,
\* is passed over, and its cookies are kept for the next one.
VerifyDevice ==
  /\ \E d \in ToVerify, told \in {"confirmed", "false", "over"} :
       /\ call.told[d] = "none" /\ (told = "confirmed" <=> told # "over" /\ d \in world.bad)
       /\ Became("hybrid", "verify", [call EXCEPT !.told[d] = told])
  /\ world' \in {world, [world EXCEPT !.temp = TRUE]}

PhaseBEnds ==
  \/ (\A d \in ToVerify : call.told[d] # "none") /\ Hybrid("verify", "clear")
  \/ /\ Became("hybrid", "verify", [call EXCEPT !.at = "clear", !.failed = TRUE])
     /\ UNCHANGED world

\* Mutant of ClearTempAuth: only a phase B that went well clears.
ClearTempAuthOfEnded ==
  Go("hybrid", "clear", "finish") /\ world' = [world EXCEPT !.temp = @ /\ call.failed]

ClearTempAuth == Go("hybrid", "clear", "finish") /\ world' = [world EXCEPT !.temp = FALSE]

HybridQA == End("hybrid", "finish", IF call.failed THEN "error" ELSE "completed")

HybridStep ==
  \/ HybridBegin \/ InjectAuth \/ ScanViewport \/ ClosePhaseA \/ BeginPhaseB \/ VerifyDevice
  \/ PhaseBEnds \/ ClearTempAuth \/ HybridQA

----------------------------------------------------------------------------
PoolStep ==
  \/ ScenarioStep \/ AssertBegin \/ (\E d \in Pool : RunCheck(d)) \/ AssertAll
  \/ CompareCapture \/ CompareDevices \/ HybridStep
PoolNext == PoolStep \/ PoolMoves

----------------------------------------------------------------------------
(***************************************************************************)
(* A verdict over several devices is earned on each: a scenario or an      *)
(* assertion passes only when no device of any step failed, and a step     *)
(* with a condition passes on a device only where the condition has held   *)
(* since the step began.  (A step that finds no device in the pool passes.) *)
(***************************************************************************)
VerdictsAreEarned ==
  /\ call.tool \in {"scenario", "assert_all"} /\ call.out = "passed" => ~world.lost
  /\ At("scenario", "run") /\ call.kind \in MobileKinds \cup {"assert"} =>
       \A d \in Pool : call.dev[d] = "passed" => d \in world.seen

(***************************************************************************)
(* hybrid_qa_start keeps no cookies when it ends, and confirms only what   *)
(* is so on the device.  (It may end as completed although its first phase *)
(* had failed, and with findings that no device has verified.)             *)
(***************************************************************************)
HybridCleansUp ==
  call.tool = "hybrid" /\ Ended =>
    /\ ~world.temp
    /\ \A d \in Pool : call.told[d] = "confirmed" => d \in world.bad
=============================================================================
