---------------------------- MODULE ToolCallProofs ----------------------------
(***************************************************************************)
(* Machine-checked safety of a call of any of the tools, for any devices,  *)
(* steps, trees, apps and bounds: what it says it did or saw is so, what   *)
(* it says it gave back it did, what an app has kept is not lost, and a    *)
(* refusal has touched nothing.  Here are the modules of the tools on      *)
(* several devices, on Flutter programs, on pages and on evidence, and the *)
(* composition of all of them; ToolProofs has the others.                  *)
(***************************************************************************)
EXTENDS ToolProofs

----------------------------------------------------------------------------
(* Scenarios and hybrid QA. *)

\* The fields of a scenario and of what its devices show.
ScenarioFields ==
  /\ {"tool", "opts", "at", "out", "steps", "kind", "dev", "left", "ok", "scans", "told",
      "failed"} \subseteq DOMAIN call
  /\ {"here", "met", "seen", "lost", "moved", "temp", "up", "bad"} \subseteq DOMAIN world
  /\ DOMAIN call.dev = Pool /\ DOMAIN call.told = Pool
  /\ world.lost \in BOOLEAN /\ world.temp \in BOOLEAN /\ call.ok \in BOOLEAN
  /\ call.at # "end" => call.out = "none"

\* A step that has failed somewhere is known to the call, as long as it goes on.
LostInv ==
  /\ call.tool = "scenario" /\ world.lost = TRUE /\ call.at # "end" =>
       \/ call.ok = FALSE
       \/ call.at = "run" /\ \E d \in Pool : call.dev[d] = "failed"
  /\ call.tool = "assert_all" /\ world.lost = TRUE /\ call.at # "end" =>
       call.at = "ask" /\ \E d \in Pool : call.dev[d] = "failed"
  /\ call.tool \in {"scenario", "assert_all"} /\ call.out = "passed" => world.lost = FALSE

\* Where the condition holds it has been seen, and where a step with one passed.
EarnedInv ==
  At("scenario", "run") =>
    /\ world.met \subseteq world.seen
    /\ call.kind # "simple" => \A d \in Pool : call.dev[d] = "passed" => d \in world.seen

\* Cookies are kept while devices are verified, and what is confirmed is so.
HybridInv ==
  call.tool = "hybrid" =>
    /\ world.temp = TRUE => call.at \in {"verify", "clear"}
    /\ \A d \in Pool : call.told[d] = "confirmed" => d \in world.bad

\* The inductive invariant of scenarios, assertions and hybrid QA.
ScenarioInv == ScenarioFields /\ LostInv /\ EarnedInv /\ HybridInv

\* It says that verdicts are earned and hybrid QA cleans up.
LEMMA ScenarioInvClaims == ScenarioInv => VerdictsAreEarned /\ HybridCleansUp
BY DEF ScenarioInv, ScenarioFields, LostInv, EarnedInv, HybridInv, VerdictsAreEarned,
    HybridCleansUp, Ended, MobileKinds

\* The invariant holds at the start.
LEMMA ScenarioInitInv == ScenarioInit => ScenarioInv
<1> SUFFICES ASSUME ScenarioInit PROVE ScenarioInv
  OBVIOUS
<1> DEFINE locals ==
       [steps |-> 0, kind |-> "none", dev |-> [d \in Pool |-> "out"], left |-> [d \in Pool |-> 0],
        ok |-> TRUE, scans |-> [d \in Pool |-> "none"], told |-> [d \in Pool |-> "none"],
        failed |-> FALSE]
<1>1. PICK t \in DOMAIN ScenarioOptions : \E o \in SUBSET ScenarioOptions[t] : call = NewCall(t, o,
    locals)
  BY DEF ScenarioInit, ToolCalls
<1>2. PICK o \in SUBSET ScenarioOptions[t] : call = NewCall(t, o, locals)
  BY <1>1
<1>3. call = [tool |-> t, opts |-> o, at |-> "begin", out |-> "none", steps |-> 0, kind |-> "none",
              dev |-> [d \in Pool |-> "out"], left |-> [d \in Pool |-> 0], ok |-> TRUE,
              scans |-> [d \in Pool |-> "none"], told |-> [d \in Pool |-> "none"], failed |-> FALSE]
  BY <1>2 DEF NewCall
<1> HIDE DEF locals
<1>4. PICK met \in {Pool} \cup {{}}, bad \in SUBSET Pool :
        world = [here |-> Pool, met |-> met, seen |-> {}, lost |-> FALSE, moved |-> FALSE,
                 temp |-> FALSE, up |-> {}, bad |-> bad]
  BY DEF ScenarioInit
<1>5. ScenarioFields /\ call.at = "begin" /\ call.told = [d \in Pool |-> "none"]
  BY <1>3, <1>4 DEF ScenarioFields
<1>6. LostInv /\ world.temp = FALSE
  BY <1>3, <1>4 DEF LostInv
<1> QED  BY <1>5, <1>6 DEF ScenarioInv, EarnedInv, HybridInv, At

\* The screens' own steps keep it.
LEMMA PoolMovesInv == ASSUME ScenarioInv, PoolMoves PROVE ScenarioInv'
<1>1. PICK d \in Pool :
       \/ world' = [world EXCEPT !.moved = TRUE, !.here = @ \ {d}]
       \/ world' = [world EXCEPT !.moved = TRUE, !.met = (@ \ {d}) \cup ({d} \ @),
                                 !.seen = @ \cup ({d} \ world.met)]
  BY DEF PoolMoves
<1>2. UNCHANGED call
  BY DEF PoolMoves
<1>3. /\ DOMAIN world' = DOMAIN world /\ world'.lost = world.lost /\ world'.temp = world.temp
      /\ world'.bad = world.bad /\ world.seen \subseteq world'.seen
      /\ world.met \subseteq world.seen => world'.met \subseteq world'.seen
  BY <1>1 DEF ScenarioInv, ScenarioFields
<1> QED  BY <1>2, <1>3 DEF ScenarioInv, ScenarioFields, LostInv, EarnedInv, HybridInv, At

\* What a step of one device leaves alone.
OneDevice(d, label) ==
  /\ DOMAIN call' = DOMAIN call /\ call'.tool = call.tool /\ call'.opts = call.opts
     /\ call'.at = call.at
  /\ call'.out = call.out /\ call'.kind = call.kind /\ call'.ok = call.ok /\ call'.told = call.told
  /\ call'.dev = [call.dev EXCEPT ![d] = label]
  /\ call.dev[d] # "failed"

\* One device's screen changes, and nothing that was seen is forgotten.
OneScreen ==
  /\ DOMAIN world' = DOMAIN world /\ world'.lost \in BOOLEAN /\ world'.temp = world.temp
  /\ world'.bad = world.bad /\ world.seen \subseteq world'.seen
  /\ world.met \subseteq world.seen => world'.met \subseteq world'.seen

\* A step of one device keeps the invariant when it passes only what it has met.
LEMMA DeviceInv ==
  ASSUME ScenarioInv, NEW d \in Pool, NEW label, OneDevice(d, label), OneScreen,
         At("scenario", "run") \/ At("assert_all", "ask"),
         world'.lost = TRUE => world.lost = TRUE \/ label = "failed",
         label = "passed" => d \in world.met \/ call.kind = "simple"
  PROVE  ScenarioInv'
<1> USE DEF OneDevice, OneScreen, At
<1>1. ScenarioFields'
  BY DEF ScenarioInv, ScenarioFields
<1>2. LostInv'
  BY DEF ScenarioInv, ScenarioFields, LostInv
<1>3. EarnedInv'
  BY DEF ScenarioInv, ScenarioFields, EarnedInv
<1>4. HybridInv'
  BY DEF ScenarioInv, ScenarioFields, HybridInv
<1> QED  BY <1>1, <1>2, <1>3, <1>4 DEF ScenarioInv

\* A device's step: it goes on, passes where the condition holds, acts, or fails.
LEMMA DevGoesIs ==
  ASSUME ScenarioInv, NEW d \in Pool, NEW from, NEW label, call.dev[d] = from, from # "failed",
      DevGoes(d, label)
  PROVE  OneDevice(d, label)
BY DEF DevGoes, OneDevice, ScenarioInv, ScenarioFields

\* A device that goes on keeps it,
LEMMA DevOnInv ==
  ASSUME ScenarioInv, NEW d \in Pool, NEW from, NEW label, Dev(d, from), from # "failed",
      DevGoes(d, label),
         UNCHANGED world, label # "failed", label = "passed" => d \in world.met
             \/ call.kind = "simple"
  PROVE  ScenarioInv'
<1>1. OneDevice(d, label)
  BY DevGoesIs DEF Dev
<1>2. OneScreen
  BY DEF OneScreen, ScenarioInv, ScenarioFields
<1> QED  BY <1>1, <1>2, DeviceInv DEF Dev

\* one that acts on its screen,
LEMMA DevActsInv ==
  ASSUME ScenarioInv, NEW d \in Pool, NEW from, NEW label, Dev(d, from), from # "failed",
      DevActs(d, label),
         label \notin {"failed", "passed"}
  PROVE  ScenarioInv'
<1>1. OneDevice(d, label)
  BY DevGoesIs DEF Dev, DevActs
<1>2. OneScreen /\ world'.lost = world.lost
  BY DEF OneScreen, DevActs, ScenarioInv, ScenarioFields
<1> QED  BY <1>1, <1>2, DeviceInv DEF Dev

\* and one that fails.
LEMMA DevFailsInv ==
  ASSUME ScenarioInv, NEW d \in Pool, NEW from, call.dev[d] = from, from # "failed", DevFails(d),
         At("scenario", "run") \/ At("assert_all", "ask")
  PROVE  ScenarioInv'
<1>1. OneDevice(d, "failed")
  BY DevGoesIs DEF DevFails
<1>2. OneScreen
  BY DEF OneScreen, DevFails, ScenarioInv, ScenarioFields
<1> QED  BY <1>1, <1>2, DeviceInv

\* A gesture keeps it.
LEMMA GesturesInv ==
  ASSUME ScenarioInv, NEW d \in Pool, NEW from, NEW n, Dev(d, from), from # "failed", Gestures(d, n)
  PROVE  ScenarioInv'
<1>1. OneDevice(d, "gesture") /\ UNCHANGED world
  BY DEF Gestures, Dev, OneDevice, ScenarioInv, ScenarioFields
<1>2. OneScreen
  BY <1>1 DEF OneScreen, ScenarioInv, ScenarioFields
<1> QED  BY <1>1, <1>2, DeviceInv DEF Dev

\* Every step of one device keeps it.
LEMMA DevicesInv ==
  ASSUME ScenarioInv, NEW d \in Pool,
         \/ DeviceFails(d) \/ SimpleStep(d) \/ AssertStep(d) \/ WaitForStep(d) \/ GotoStep(d)
         \/ TapElement(d) \/ PopStep(d) \/ DismissStep(d) \/ Gesture(d)
  PROVE  ScenarioInv'
<1>0. ASSUME NEW from, Dev(d, from), from # "failed", DevFails(d) PROVE ScenarioInv'
  BY <1>0, DevFailsInv DEF Dev
<1>1. CASE DeviceFails(d)
  BY <1>1, <1>0 DEF DeviceFails
<1>2. CASE SimpleStep(d)
  BY <1>2, DevOnInv DEF SimpleStep
<1>3. CASE AssertStep(d)
  BY <1>3, <1>0, DevOnInv DEF AssertStep
<1>4. CASE WaitForStep(d) \/ GotoStep(d)
  BY <1>4, <1>0, DevOnInv, DevActsInv DEF WaitForStep, GotoStep, Settles
<1>5. CASE TapElement(d)
  BY <1>5, DevOnInv, DevActsInv DEF TapElement
<1>6. CASE PopStep(d) \/ DismissStep(d)
  BY <1>6, GesturesInv DEF PopStep, DismissStep
<1>7. CASE Gesture(d)
  BY <1>7, <1>0, DevOnInv, DevActsInv, GesturesInv DEF Gesture, Settles
<1> QED  BY <1>1, <1>2, <1>3, <1>4, <1>5, <1>6, <1>7

\* So does a step's check on a device,
LEMMA RunCheckInv == ASSUME ScenarioInv, NEW d \in Pool, RunCheck(d) PROVE ScenarioInv'
<1>1. CASE d \in world.met /\ DevGoes(d, "passed") /\ UNCHANGED world
  <2>1. OneDevice(d, "passed")
    BY <1>1, DevGoesIs DEF RunCheck
  <2>2. OneScreen
    BY <1>1 DEF OneScreen, ScenarioInv, ScenarioFields
  <2> QED  BY <1>1, <2>1, <2>2, DeviceInv DEF RunCheck
<1> QED  BY <1>1, DevFailsInv DEF RunCheck

\* A call that ends, without a verdict that all is well or with one that is earned.
LEMMA ScenarioEndInv ==
  ASSUME ScenarioInv, NEW tool, NEW from, NEW out, End(tool, from, out), from # "end",
         out = "passed" => tool \notin {"scenario", "assert_all"} \/ world.lost = FALSE,
         tool = "hybrid" => from \notin {"verify", "clear"}
  PROVE  ScenarioInv'
<1> USE DEF End, Answers, Became, At, ScenarioInv
<1>1. ScenarioFields'
  BY DEF ScenarioFields
<1>2. LostInv'
  BY DEF ScenarioFields, LostInv
<1>3. EarnedInv' /\ HybridInv'
  BY DEF ScenarioFields, EarnedInv, HybridInv
<1> QED  BY <1>1, <1>2, <1>3

\* the start of a scenario,
LEMMA ScenarioBeginInv == ASSUME ScenarioInv, ScenarioBegin PROVE ScenarioInv'
<1>1. CASE Pass("scenario", "begin", "step")
  BY <1>1 DEF Pass, Go, Became, At, ScenarioInv, ScenarioFields, LostInv, EarnedInv, HybridInv
<1> QED  BY <1>1, ScenarioEndInv DEF ScenarioBegin

\* the start of a step on its devices,
LEMMA ExecuteStepInv == ASSUME ScenarioInv, ExecuteStep PROVE ScenarioInv'
<1>1. PICK kind, sims :
       /\ Became("scenario", "step",
            [call EXCEPT !.at = "run", !.steps = @ + 1, !.kind = kind,
               !.dev = [d \in Pool |-> IF d \in sims THEN "start" ELSE "out"]])
       /\ world' = [world EXCEPT !.seen = world.met]
  BY DEF ExecuteStep
<1>2. /\ DOMAIN call' = DOMAIN call /\ call.tool = "scenario" /\ call'.tool = "scenario"
         /\ call'.at = "run"
      /\ call.at = "step" /\ call'.out = call.out /\ call'.ok = call.ok /\ call'.told = call.told
      /\ call'.dev = [d \in Pool |-> IF d \in sims THEN "start" ELSE "out"]
  BY <1>1 DEF Became, At, ScenarioInv, ScenarioFields
<1>3. /\ DOMAIN world' = DOMAIN world /\ world'.lost = world.lost /\ world'.temp = world.temp
      /\ world'.met = world.met /\ world'.seen = world.met
  BY <1>1 DEF ScenarioInv, ScenarioFields
<1> QED  BY <1>2, <1>3 DEF ScenarioInv, ScenarioFields, LostInv, EarnedInv, HybridInv, At

\* its end on all of them,
LEMMA StepEndsInv == ASSUME ScenarioInv, StepEnds PROVE ScenarioInv'
<1> DEFINE ok == call.ok /\ \A d \in Pool : call.dev[d] # "failed"
<1>1. Became("scenario", "run",
       [call EXCEPT !.at = "step", !.ok = ok,
          !.kind = "none", !.dev = [d \in Pool |-> "out"], !.left = [d \in Pool |-> 0]])
  BY Zenon DEF StepEnds
<1>2. ok \in BOOLEAN /\ (ok = TRUE => call.ok = TRUE /\ \A d \in Pool : call.dev[d] # "failed")
  BY DEF ScenarioInv, ScenarioFields
<1> HIDE DEF ok
<1>3. /\ DOMAIN call' = DOMAIN call /\ call.tool = "scenario" /\ call'.tool = "scenario"
         /\ call'.at = "step"
      /\ call.at = "run" /\ call'.out = call.out /\ call'.ok = ok /\ call'.told = call.told
      /\ call'.dev = [d \in Pool |-> "out"]
  BY <1>1 DEF Became, At, ScenarioInv, ScenarioFields
<1>4. world' = [world EXCEPT !.seen = {}]
  BY DEF StepEnds
<1>5. DOMAIN world' = DOMAIN world /\ world'.lost = world.lost /\ world'.temp = world.temp
  BY <1>4 DEF ScenarioInv, ScenarioFields
<1> QED  BY <1>2, <1>3, <1>5 DEF ScenarioInv, ScenarioFields, LostInv, EarnedInv, HybridInv, At

\* and the end of the scenario.
LEMMA RunScenarioInv == ASSUME ScenarioInv, RunScenario PROVE ScenarioInv'
<1>1. CASE Throws("scenario", {"step"})
  BY <1>1, ScenarioEndInv DEF Throws
<1>2. CASE End("scenario", "step", IF call.ok THEN "passed" ELSE "failed")
  <2>1. call.ok = TRUE \/ call.ok = FALSE
    BY DEF ScenarioInv, ScenarioFields
  <2>2. CASE call.ok = TRUE
    <3>1. world.lost = FALSE
      BY <1>2, <2>2 DEF ScenarioInv, ScenarioFields, LostInv, End, Answers, Became, At
    <3> QED  BY <1>2, <2>2, <3>1, ScenarioEndInv
  <2>3. CASE call.ok = FALSE
    BY <1>2, <2>3, ScenarioEndInv
  <2> QED  BY <2>1, <2>2, <2>3
<1> QED  BY <1>1, <1>2 DEF RunScenario

\* An assertion over devices keeps it,
LEMMA AssertInv == ASSUME ScenarioInv, AssertBegin \/ AssertAll PROVE ScenarioInv'
<1>1. CASE UNCHANGED world /\ Became("assert_all", "begin",
          [call EXCEPT !.at = "ask", !.dev = [d \in Pool |-> IF d \in world.here THEN "ask"
                                              ELSE "out"]])
  <2>1. /\ DOMAIN call' = DOMAIN call /\ call.tool = "assert_all" /\ call'.tool = "assert_all"
           /\ call'.at = "ask"
        /\ call.at = "begin" /\ call'.out = call.out /\ call'.ok = call.ok /\ call'.told = call.told
        /\ DOMAIN call'.dev = Pool
    BY <1>1 DEF Became, At, ScenarioInv, ScenarioFields
  <2> QED  BY <1>1, <2>1 DEF ScenarioInv, ScenarioFields, LostInv, EarnedInv, HybridInv, At
<1>2. CASE \E from \in {"begin", "ask"},
    out \in {"refused", "failed"} : End("assert_all", from, out)
  BY <1>2, ScenarioEndInv
<1>3. CASE End("assert_all", "ask", "passed") /\ ~\E d \in Pool : call.dev[d] = "failed"
  <2>1. world.lost = FALSE
    BY <1>3 DEF ScenarioInv, ScenarioFields, LostInv, End, Answers, Became, At
  <2> QED  BY <1>3, <2>1, ScenarioEndInv
<1> QED  BY <1>1, <1>2, <1>3 DEF AssertBegin, AssertAll

\* and so does their comparison.
LEMMA CompareInv == ASSUME ScenarioInv, CompareCapture \/ CompareDevices PROVE ScenarioInv'
<1>1. CASE \E from \in {"begin", "images", "dom"},
    out \in {"refused", "ok", "error"} : End("compare", from, out)
  BY <1>1, ScenarioEndInv
<1>2. CASE \E from \in {"begin", "images"}, to \in {"images", "dom"} : Pass("compare", from, to)
  BY <1>2 DEF Pass, Go, Became, At, ScenarioInv, ScenarioFields, LostInv, EarnedInv, HybridInv
<1> QED  BY <1>1, <1>2 DEF CompareCapture, CompareDevices, Throws

\* A step of hybrid QA that confirms nothing.
LEMMA HybridMovesInv ==
  ASSUME ScenarioInv, DOMAIN call' = DOMAIN call, call.tool = "hybrid", call'.tool = "hybrid",
      call.at # "end",
         call'.at # "end", call'.out = call.out, call'.ok = call.ok, call'.dev = call.dev,
         DOMAIN call'.told = Pool,
         \A d \in Pool : call'.told[d] = "confirmed" => call.told[d] = "confirmed"
             \/ d \in world.bad,
         DOMAIN world' = DOMAIN world, world'.lost = world.lost, world'.bad = world.bad,
             world'.temp \in BOOLEAN,
         world'.temp = TRUE => call'.at \in {"verify", "clear"}
  PROVE  ScenarioInv'
<1>1. ScenarioFields'
  BY DEF ScenarioInv, ScenarioFields
<1>2. LostInv' /\ EarnedInv'
  BY DEF ScenarioInv, ScenarioFields, LostInv, EarnedInv, At
<1>3. HybridInv'
  BY DEF ScenarioInv, HybridInv
<1> QED  BY <1>1, <1>2, <1>3 DEF ScenarioInv

\* Every step of hybrid QA keeps it.
LEMMA HybridStepInv == ASSUME ScenarioInv, HybridStep PROVE ScenarioInv'
<1> USE DEF Became, At
<1>0. ScenarioFields /\ HybridInv
  BY DEF ScenarioInv
<1>1. ASSUME NEW from, from # "end", from # "verify", from # "clear",
    PhaseAFails(from) PROVE ScenarioInv'
  BY <1>0, <1>1, HybridMovesInv DEF PhaseAFails, ScenarioFields, HybridInv
<1>2. ASSUME NEW from, NEW to, from # "end", to # "end", from \in {"verify", "clear"}
    => to \in {"verify", "clear"},
             Hybrid(from, to)
      PROVE  ScenarioInv'
  BY <1>0, <1>2, HybridMovesInv DEF Hybrid, Pass, Go, ScenarioFields, HybridInv
<1>3. CASE HybridBegin
  <2>1. ASSUME NEW to \in {"inject", "scan"}, Go("hybrid", "begin", to),
      world' = [world EXCEPT !.up = Pool]
        PROVE  ScenarioInv'
    BY <1>0, <2>1, HybridMovesInv DEF Go, ScenarioFields, HybridInv
  <2> QED  BY <1>1, <1>3, <2>1, ScenarioEndInv DEF HybridBegin
<1>4. CASE InjectAuth
  BY <1>1, <1>2, <1>4 DEF InjectAuth
<1>5. CASE ScanViewport
  <2>1. ASSUME NEW d \in Pool, NEW scan, Became("hybrid", "scan", [call EXCEPT !.scans[d] = scan]),
      UNCHANGED world
        PROVE  ScenarioInv'
    BY <1>0, <2>1, HybridMovesInv DEF ScenarioFields, HybridInv
  <2> QED  BY <1>2, <1>5, <2>1 DEF ScanViewport
<1>6. CASE ClosePhaseA
  <2>1. CASE Go("hybrid", "close", "phase b") /\ world' = [world EXCEPT !.up = {}]
    BY <1>0, <2>1, HybridMovesInv DEF Go, ScenarioFields, HybridInv
  <2> QED  BY <1>1, <1>6, <2>1 DEF ClosePhaseA
<1>7. CASE BeginPhaseB
  <2>1. CASE /\ Became("hybrid", "phase b", [call EXCEPT !.at = "verify", !.failed = FALSE])
             /\ world' \in {world}
                \cup {[world EXCEPT !.temp = TRUE] : o \in call.opts \cap {"auth"}}
    <3>1. world' = world \/ world' = [world EXCEPT !.temp = TRUE]
      BY <2>1
    <3> QED  BY <1>0, <2>1, <3>1, HybridMovesInv DEF ScenarioFields, HybridInv
  <2> QED  BY <1>2, <1>7, <2>1 DEF BeginPhaseB
<1>8. CASE VerifyDevice
  <2>1. PICK d \in Pool, told \in {"confirmed", "false", "over"} :
          /\ told = "confirmed" => d \in world.bad
          /\ Became("hybrid", "verify", [call EXCEPT !.told[d] = told])
    BY <1>8 DEF VerifyDevice, ToVerify
  <2>2. world' = world \/ world' = [world EXCEPT !.temp = TRUE]
    BY <1>8 DEF VerifyDevice
  <2>3. /\ DOMAIN call' = DOMAIN call /\ call.tool = "hybrid" /\ call'.tool = "hybrid"
           /\ call.at = "verify"
        /\ call'.at = "verify" /\ call'.out = call.out /\ call'.ok = call.ok /\ call'.dev = call.dev
        /\ call'.told = [call.told EXCEPT ![d] = told]
    BY <1>0, <2>1 DEF ScenarioFields
  <2>4. DOMAIN world' = DOMAIN world /\ world'.lost = world.lost /\ world'.bad = world.bad
        /\ world'.temp \in BOOLEAN
    BY <1>0, <2>2 DEF ScenarioFields
  <2>5. DOMAIN call'.told = Pool
        /\ \A q \in Pool : call'.told[q] = "confirmed" => call.told[q] = "confirmed"
           \/ q \in world.bad
    BY <1>0, <2>1, <2>3 DEF ScenarioFields
  <2> QED  BY <2>3, <2>4, <2>5, HybridMovesInv
<1>9. CASE PhaseBEnds
  <2>1. CASE Became("hybrid", "verify", [call EXCEPT !.at = "clear", !.failed = TRUE])
      /\ UNCHANGED world
    BY <1>0, <2>1, HybridMovesInv DEF ScenarioFields, HybridInv
  <2> QED  BY <1>2, <1>9, <2>1 DEF PhaseBEnds
<1>10. CASE ClearTempAuth
  BY <1>0, <1>10, HybridMovesInv DEF ClearTempAuth, Go, ScenarioFields, HybridInv
<1>11. CASE HybridQA
  BY <1>11, ScenarioEndInv DEF HybridQA
<1> QED  BY <1>3, <1>4, <1>5, <1>6, <1>7, <1>8, <1>9, <1>10, <1>11 DEF HybridStep

\* Every step of them all keeps it.
LEMMA ScenarioStepInv == ASSUME ScenarioInv, PoolNext PROVE ScenarioInv'
BY PoolMovesInv, DevicesInv, RunCheckInv, ScenarioBeginInv, ExecuteStepInv, StepEndsInv,
    RunScenarioInv,
   AssertInv, CompareInv, HybridStepInv DEF PoolNext, PoolStep, ScenarioStep

----------------------------------------------------------------------------
(* Flutter. *)

\* The inductive invariant of the Flutter tools.
FlutterInv ==
  /\ {"tool", "opts", "at", "out", "told", "left", "tries", "saw"} \subseteq DOMAIN call
  /\ {"conn", "iso", "streams", "hears", "vm", "held", "mem", "for", "base", "moved", "build",
      "compiles"} \subseteq DOMAIN world
  \* a pause that is remembered
  /\ world.iso \in {0, 1, 2}
  /\ call.tool = "wait_pause" /\ "paused" \in world.mem =>
       \/ world.held = TRUE
       \/ call.at # "begin" /\ call.saw = 0
       \/ call.at = "begin" /\ call.saw = 0 /\ "debug" \in world.mem /\ world.for = 1
          /\ world.iso \in {0, 2}
  /\ call.out = "paused" => call.tool = "wait_pause" /\ (world.held = TRUE \/ call.saw = 0)
     /\ call.at = "end"
  \* what a connection evaluates
  /\ world.build \in {"debug", "profile"}
  /\ world.build = "debug" => world.compiles = TRUE
  /\ call.told = "evaluate" => world.compiles = TRUE
  /\ call.tool = TL => call.told \in {"none", "ok", "error"}
  \* what is left
  /\ "heap" \in world.hears => call.tool = "heap" /\ call.at \in {"listen", "request", "chunks"}
  /\ RB \in world.hears => RB \in world.mem \/ (call.tool = RB /\ call.at = "enable")
  /\ "recording" \in world.vm => call.tool = TL
     /\ (call.at \in {"record", "reset"} \/ call.left = TRUE)

\* It says that what they claim of the program is so, and that they leave nothing behind.
LEMMA FlutterInvClaims == FlutterInv => FlutterClaims /\ FlutterLeavesNothing
BY DEF FlutterInv, FlutterClaims, FlutterLeavesNothing, Ended, RB, TL

\* The invariant holds at the start.
LEMMA FlutterInitInv == FlutterInit => FlutterInv
<1> SUFFICES ASSUME FlutterInit PROVE FlutterInv
  OBVIOUS
<1> DEFINE locals == [told |-> "none", left |-> FALSE, tries |-> 0, saw |-> 0]
<1>1. PICK t \in DOMAIN FlutterOptions : \E o \in SUBSET FlutterOptions[t] : call = NewCall(t, o,
    locals)
  BY DEF FlutterInit, ToolCalls
<1>2. PICK o \in SUBSET FlutterOptions[t] : call = NewCall(t, o, locals)
  BY <1>1
<1>3. call = [tool |-> t, opts |-> o, at |-> "begin", out |-> "none", told |-> "none",
              left |-> FALSE, tries |-> 0, saw |-> 0]
  BY <1>2 DEF NewCall
<1>4. PICK how \in {"none", "attached", "restarted", "reattached"},
        streams \in SUBSET {"debug", "rebuilds", "logs"},
        paused, compiles \in BOOLEAN, build \in {"debug", "profile"} :
       /\ how = "none" => streams = {}
       /\ streams \subseteq CASE call.tool = "rebuilds" -> {"rebuilds"}
                              [] call.tool = "flutter_logs" -> {"logs"}
                              [] call.tool \in {"set_breakpoint", "wait_pause",
                                                "resume"} -> {"debug"}
                              [] OTHER -> {}
       /\ paused => "debug" \in streams
       /\ call.tool # "connect" => compiles /\ build = "debug"
       /\ build = "debug" => compiles
       /\ world = Attached(how, streams, paused, build, compiles)
  BY DEF FlutterInit
<1> DEFINE w == [conn |-> how # "none", iso |-> IF how \in {"none", "attached"} THEN 1 ELSE 2,
   streams |-> IF how \in {"attached", "restarted"} THEN streams ELSE {},
   hears |-> IF how \in {"attached", "restarted"} THEN streams ELSE {},
   vm |-> IF how = "attached" /\ paused THEN {"paused"} ELSE {},
   held |-> how = "attached" /\ paused,
   mem |-> streams \cup IF paused THEN {"paused"} ELSE {},
   for |-> IF "debug" \in streams THEN 1 ELSE 0, base |-> 0, moved |-> FALSE,
   build |-> build, compiles |-> compiles]
<1>5. world = w
  BY <1>4 DEF Attached
<1>6. /\ DOMAIN w = {"conn", "iso", "streams", "hears", "vm", "held", "mem", "for", "base",
                     "moved", "build", "compiles"}
      /\ w.iso = (IF how \in {"none", "attached"} THEN 1 ELSE 2)
      /\ w.hears \subseteq streams
      /\ w.vm \subseteq {"paused"}
      /\ w.mem = streams \cup (IF paused THEN {"paused"} ELSE {})
      /\ w.for = (IF "debug" \in streams THEN 1 ELSE 0)
      /\ w.build = build /\ w.compiles = compiles
  OBVIOUS
<1>7. how = "attached" /\ paused => w.held = TRUE
  OBVIOUS
<1> HIDE DEF locals, w
<1>8. "paused" \in w.mem => (how \in {"none", "attached"} => w.held = TRUE) /\ "debug" \in w.mem
    /\ w.for = 1
  BY <1>4, <1>6, <1>7
<1>9. call.told = "none" /\ call.out = "none" /\ call.at = "begin" /\ call.saw = 0
      /\ {"tool", "opts", "at", "out", "told", "left", "tries", "saw"} \subseteq DOMAIN call
  BY <1>3
<1>10. (build = "debug" => w.compiles = TRUE)
  <2>1. build = "debug" => compiles
    BY <1>4
  <2>2. w.compiles = compiles
    BY <1>6
  <2>3. compiles => w.compiles = TRUE
    BY <2>2
  <2> QED  BY <2>1, <2>3
<1>11. w.iso \in {0, 1, 2} /\ w.build \in {"debug", "profile"}
  BY <1>6
<1>12. "recording" \notin w.vm /\ "heap" \notin w.hears
  BY <1>6
<1>13. RB \in w.hears => RB \in w.mem
  BY <1>6 DEF RB
<1>14. "paused" \in w.mem => w.held = TRUE \/ (w.iso = 2 /\ "debug" \in w.mem /\ w.for = 1)
  BY <1>6, <1>8
<1>15. {"conn", "iso", "streams", "hears", "vm", "held", "mem", "for", "base", "moved", "build",
      "compiles"} \subseteq DOMAIN w
  BY <1>6
<1> QED
  <2>0. world = w
    BY <1>5
  <2>1. {"conn", "iso", "streams", "hears", "vm", "held", "mem", "for", "base", "moved", "build",
      "compiles"} \subseteq DOMAIN world
    BY <2>0, <1>15
  <2>2. call.tool = "wait_pause" /\ "paused" \in world.mem =>
       \/ world.held = TRUE
       \/ call.at # "begin" /\ call.saw = 0
       \/ call.at = "begin" /\ call.saw = 0 /\ "debug" \in world.mem /\ world.for = 1
          /\ world.iso \in {0, 2}
    BY <2>0, <1>9, <1>14
  <2>3. world.iso \in {0, 1, 2} /\ world.build \in {"debug", "profile"}
      /\ (world.build = "debug" => world.compiles = TRUE)
    BY <2>0, <1>10, <1>11, <1>4, <1>6
  <2>4. call.tool = TL => call.told \in {"none", "ok", "error"}
    BY <2>0, <1>9
  <2>5. /\ "heap" \in world.hears => call.tool = "heap"
           /\ call.at \in {"listen", "request", "chunks"}
        /\ RB \in world.hears => RB \in world.mem \/ (call.tool = RB /\ call.at = "enable")
        /\ "recording" \in world.vm => call.tool = TL
           /\ (call.at \in {"record", "reset"} \/ call.left = TRUE)
    BY <2>0, <1>12, <1>13 DEF RB
  <2> QED  BY <1>9, <2>1, <2>2, <2>3, <2>4, <2>5 DEF FlutterInv

\* What the tools' listeners change of the world: who listens, and what is remembered.
Touches(w, hears, mem) ==
  /\ DOMAIN w = DOMAIN world /\ w.hears = hears /\ w.mem = mem
  /\ w.iso = world.iso /\ w.held = world.held /\ w.vm = world.vm /\ w.for = world.for
  /\ w.build = world.build /\ w.compiles = world.compiles

\* What a listener that comes changes of the program.
LEMMA ListenersTouch ==
  ASSUME FlutterInv, NEW s
  PROVE  /\ Touches(world, world.hears, world.mem)
         /\ Touches(Listening(world, s), world.hears, world.mem)
         /\ Touches(Hearing(world, s), world.hears \cup {s}, world.mem \cup {s})
         /\ Touches([Hearing(world, s) EXCEPT !.streams = world.streams], world.hears \cup {s},
                    world.mem \cup {s})
         /\ Touches([Hearing(world, s) EXCEPT !.mem = world.mem], world.hears \cup {s}, world.mem)
         /\ Touches(Deaf(world, s), world.hears \ {s}, world.mem)
<1>1. Touches(world, world.hears, world.mem)
  BY DEF Touches
<1>2. Touches(Listening(world, s), world.hears, world.mem)
  BY DEF Touches, Listening, FlutterInv
<1>3. Touches(Hearing(world, s), world.hears \cup {s}, world.mem \cup {s})
  BY <1>2 DEF Touches, Hearing, FlutterInv, Listening
<1>4. Touches([Hearing(world, s) EXCEPT !.streams = world.streams], world.hears \cup {s},
              world.mem \cup {s})
  BY <1>3 DEF Touches, FlutterInv
<1>5. Touches([Hearing(world, s) EXCEPT !.mem = world.mem], world.hears \cup {s}, world.mem)
  BY <1>3 DEF Touches, FlutterInv
<1>6. Touches(Deaf(world, s), world.hears \ {s}, world.mem)
  BY DEF Touches, Deaf, FlutterInv
<1> QED  BY <1>1, <1>2, <1>3, <1>4, <1>5, <1>6

\* Every step of the Flutter tools keeps the invariant.
LEMMA FlutterStepInv ==
  ASSUME FlutterInv, FlutterNext PROVE FlutterInv'
<1> USE DEF FlutterInv, Became, At, Go, Pass, Answers, End, Throws, Act, Does, DoesNot, Request,
    OfIsolate,
            OfExtension, Hears, Begins, RB, TL, Opt
<1>1. CASE FlutterConnect
  <2>1. CASE ConnectDial
    BY <2>1, ZenonT(40) DEF ConnectDial
  <2>2. CASE Disclosure
    BY <2>2 DEF Disclosure, Modes, Says
  <2> QED  BY <1>1, <2>1, <2>2 DEF FlutterConnect
<1>2. CASE FlutterBuildMode
  BY <1>2 DEF FlutterBuildMode, Modes
<1>3. CASE FlutterLogs
  <2>1. CASE LogsListen
    <3>1. Touches(world', world.hears \cup {"logs"}, world.mem \cup {"logs"})
      BY <2>1, ListenersTouch DEF LogsListen
    <3>2. At("flutter_logs", "listen") /\ call' = [call EXCEPT !.at = "answer"]
      BY <2>1 DEF LogsListen
    <3> QED  BY <3>1, <3>2 DEF Touches
  <2>2. CASE Begins("flutter_logs", "listen") \/ Pass("flutter_logs", "listen", "answer")
    BY <2>2
  <2>3. ASSUME NEW out \in {"capturing", "cleared", "logs"}, End("flutter_logs", "answer", out)
        PROVE  FlutterInv'
    BY <2>3
  <2> QED  BY <1>3, <2>1, <2>2, <2>3 DEF FlutterLogs
<1>4. CASE FlutterTrackRebuilds
  <2>1. CASE StartTracking
    <3>1. CASE At(RB, "start") /\ call' = [call EXCEPT !.at = "enable"]
                /\ world' = [Hearing(world, RB) EXCEPT !.mem = world.mem]
      <4>1. Touches(world', world.hears \cup {RB}, world.mem)
        BY <3>1, ListenersTouch
      <4> QED  BY <3>1, <4>1 DEF Touches
    <3>2. CASE call.tool = RB /\ RB \notin world.mem /\ DoesNot("start", Listening(world, RB))
      <4>1. Touches(world', world.hears, world.mem)
        BY <3>2, ListenersTouch
      <4> QED  BY <3>2, <4>1 DEF Touches
    <3>3. CASE /\ Became(RB, "enable", [call EXCEPT !.told = "started", !.at = IF Opt("auto")
                                        THEN "timer" ELSE "end"])
               /\ world' = [world EXCEPT !.vm = @ \cup {"tracking"}, !.mem = @ \cup {RB}]
      BY <3>3
    <3>4. CASE Answers(RB, "enable", "error") /\ world' = Deaf(world, RB)
      <4>1. Touches(world', world.hears \ {RB}, world.mem)
        BY <3>4, ListenersTouch
      <4> QED  BY <3>4, <4>1 DEF Touches
    <3>5. CASE Answers(RB, "enable", "error")
        /\ world' = [Deaf(world, RB) EXCEPT !.vm = @ \cup {"tracking"}]
      BY <3>5 DEF Deaf
    <3>6. CASE End(RB, "start", "error")
      BY <3>6
    <3> QED  BY <2>1, <3>1, <3>2, <3>3, <3>4, <3>5, <3>6 DEF StartTracking
  <2>2. CASE StopTracking("stop") \/ StopTracking("timer")
    <3>1. ASSUME NEW vm, vm = world.vm
        \/ vm = world.vm \ {"tracking"}, Answers(RB, "disable", "stopped"),
                 world' = [Deaf(world, RB) EXCEPT !.vm = vm, !.mem = @ \ {RB}]
          PROVE  FlutterInv'
      BY <3>1 DEF Deaf
    <3>2. ASSUME NEW from, from # "enable",
                 End(RB, from, "noop") \/ Pass(RB, from, "disable")
          PROVE  FlutterInv'
      BY <3>2
    <3> QED  BY <2>2, <3>1, <3>2 DEF StopTracking
  <2> QED  BY <1>4, <2>1, <2>2 DEF FlutterTrackRebuilds
<1>5. ASSUME NEW tool, NEW to, tool # RB, tool # TL, tool # "heap", to # "begin", to # "end",
    EnsureDebug(tool, to)
      PROVE  FlutterInv'
  <2>1. CASE /\ call.tool = tool /\ call.at = "begin" /\ world' = Forgets(world)
             /\ \E at : at # "begin" /\ at # "end"
                /\ call' = [call EXCEPT !.saw = world.iso, !.at = at]
    <3>1. CASE "debug" \in world.mem /\ world.for # 0 /\ world.iso # 0 /\ world.for # world.iso
      <4>1. world' = [Deaf(world, "debug") EXCEPT !.mem = @ \ {"debug", "paused"}, !.for = 0]
        BY <2>1, <3>1 DEF Forgets
      <4> QED  BY <2>1, <4>1 DEF Deaf
    <3>2. CASE ~("debug" \in world.mem /\ world.for # 0 /\ world.iso # 0 /\ world.for # world.iso)
      <4>1. world' = world
        BY <2>1, <3>2 DEF Forgets
      <4> QED  BY <2>1, <3>2, <4>1
    <3> QED  BY <3>1, <3>2
  <2>2. CASE /\ At(tool, "subscribe") /\ call' = [call EXCEPT !.at = to]
             /\ world' = [Hearing(world, "debug") EXCEPT !.for = call.saw]
    BY <1>5, <2>2 DEF Hearing, Listening
  <2>3. CASE call.tool = tool /\ DoesNot("subscribe", Listening(world, "debug"))
    <3>1. Touches(world', world.hears, world.mem)
      BY <2>3, ListenersTouch
    <3> QED  BY <1>5, <2>3, <3>1 DEF Touches
  <2> QED  BY <1>5, <2>1, <2>2, <2>3 DEF EnsureDebug
<1>6. CASE FlutterSetBreakpoint
  BY <1>5, <1>6 DEF FlutterSetBreakpoint
<1>7. CASE FlutterWaitForPause
  <2>1. CASE End("wait_pause", "begin", "refused") \/ EnsureDebug("wait_pause", "poll")
    <3>1. CASE End("wait_pause", "begin", "refused")
      BY <3>1
    <3>2. CASE EnsureDebug("wait_pause", "poll")
      BY <1>5, <3>2
    <3> QED  BY <2>1, <3>1, <3>2
  <2>2. CASE "paused" \in world.mem /\ End("wait_pause", "poll", "paused")
    BY <2>2
  <2>3. CASE \/ UNCHANGED world /\ Became("wait_pause", "poll", [call EXCEPT !.tries = @ + 1])
             \/ End("wait_pause", "poll", "timeout")
    BY <2>3
  <2> QED  BY <1>7, <2>1, <2>2, <2>3 DEF FlutterWaitForPause
<1>8. CASE FlutterRemoveBreakpoint \/ FlutterGetStack
  BY <1>8 DEF FlutterRemoveBreakpoint, FlutterGetStack
<1>9. CASE FlutterResume
  <2>1. CASE Begins("resume", "resume") \/ (call.tool = "resume" /\ DoesNot("resume", world))
    BY <2>1
  <2>2. ASSUME NEW mem, mem = world.mem \/ mem = world.mem \ {"paused"}, call.tool = "resume",
               OfIsolate("resume", "resumed", [world EXCEPT !.vm = @ \ {"paused"}, !.mem = mem])
        PROVE  FlutterInv'
    <3>1. world' = world \/ world' = [world EXCEPT !.vm = @ \ {"paused"}, !.mem = mem]
      BY <2>2
    <3>2. \/ call' = [call EXCEPT !.at = "resumed"]
          \/ call' = [call EXCEPT !.at = "end", !.out = "error"]
      BY <2>2
    <3>3. call.tool = "resume" /\ call.at = "resume"
      BY <2>2
    <3> HIDE DEF OfIsolate
    <3>4. CASE world' = world
      BY <3>2, <3>3, <3>4
    <3>5. CASE world' = [world EXCEPT !.vm = @ \ {"paused"}, !.mem = mem]
      <4>1. RB \in mem <=> RB \in world.mem
        BY <2>2
      <4> QED  BY <3>2, <3>3, <3>5, <4>1
    <3> QED  BY <3>1, <3>4, <3>5
  <2>3. CASE Answers("resume", "resumed", "resumed")
      /\ world' = [world EXCEPT !.mem = @ \ {"paused"}]
    BY <2>3
  <2> QED  BY <1>9, <2>1, <2>2, <2>3 DEF FlutterResume
<1>10. CASE FlutterAllocationProfile
  BY <1>10 DEF FlutterAllocationProfile
<1>11. CASE FlutterHeapSnapshot
  <2>1. CASE Begins("heap", "collect") \/ End("heap", "write", "ok") \/ Throws("heap", {"write"})
             \/ Pass("heap", "request", "chunks")
    BY <2>1
  <2>2. CASE Act("heap", "collect", "listen", {[world EXCEPT !.hears = @ \cup {"heap"}]})
    BY <2>2
  <2>3. CASE Act("heap", "listen", "request", {Listening(world, "heap")})
    <3>1. Touches(world', world.hears, world.mem)
      BY <2>3, ListenersTouch
    <3> QED  BY <2>3, <3>1 DEF Touches
  <2>4. ASSUME NEW at, \/ Act("heap", at, "write", {Deaf(world, "heap")})
                       \/ Answers("heap", at, "error") /\ world' = Deaf(world, "heap")
        PROVE  FlutterInv'
    <3>1. Touches(Deaf(world, "heap"), world.hears \ {"heap"}, world.mem)
      BY ListenersTouch
    <3>2. world' = Deaf(world, "heap")
      BY <2>4
    <3>3. Touches(world', world.hears \ {"heap"}, world.mem)
      BY <3>1, <3>2 DEF Touches
    <3> QED  BY <2>4, <3>3 DEF Touches
  <2> QED  BY <1>11, <2>1, <2>2, <2>3, <2>4 DEF FlutterHeapSnapshot, CollectHeapSnapshot
<1>12. CASE FlutterCpuProfile
  BY <1>12 DEF FlutterCpuProfile
<1>13. CASE FlutterTimelineCapture
  <2>1. CASE Begins(TL, "set") \/ (call.tool = TL /\ Does("set", "record", Recording(TRUE)))
    BY <2>1 DEF Recording
  <2>2. CASE /\ Became(TL, "set", [call EXCEPT !.at = "end", !.out = "error", !.left = TRUE])
             /\ world' \in {world} \cup IF world.conn THEN {Recording(TRUE)} ELSE {}
    BY <2>2 DEF Recording
  <2>3. CASE \E out \in {"ok", "error"} :
               /\ Became(TL, "record", [call EXCEPT !.at = "reset", !.told = out])
               /\ UNCHANGED world
    BY <2>3
  <2>4. CASE world.conn /\ Answers(TL, "reset", call.told) /\ world' = Recording(FALSE)
    BY <2>4 DEF Recording
  <2>5. CASE /\ Became(TL, "reset", [call EXCEPT !.at = "end", !.out = call.told, !.left = TRUE])
             /\ world' \in {world} \cup IF world.conn THEN {Recording(FALSE)} ELSE {}
    BY <2>5 DEF Recording
  <2> QED  BY <1>13, <2>1, <2>2, <2>3, <2>4, <2>5 DEF FlutterTimelineCapture
<1>14. CASE FlutterWidgetAtPoint
  BY <1>14 DEF FlutterWidgetAtPoint, SelectWidgetAtPoint
<1>15. CASE FlutterEvaluate
  BY <1>15 DEF FlutterEvaluate, Evaluate
<1>16. CASE FlutterRootWidget
  BY <1>16 DEF FlutterRootWidget, RootWidgetSummaryTree
<1>17. CASE FlutterWidgetTree \/ FlutterListServiceExtensions \/ FlutterCallServiceExtension
    \/ FlutterGetRoute
  BY <1>17 DEF FlutterWidgetTree, FlutterListServiceExtensions, FlutterCallServiceExtension,
      FlutterGetRoute, Question
<1>18. CASE FlutterInspectSelection
  <2>1. CASE OfExtension("show", "ask", [world EXCEPT !.vm = @ \cup {"inspecting"}])
    <3>1. world' = world \/ world' = [world EXCEPT !.vm = @ \cup {"inspecting"}]
      BY <2>1
    <3>2. call.tool = "inspect_selection"
      BY <1>18 DEF FlutterInspectSelection
    <3>3. \/ call' = [call EXCEPT !.at = "ask"]
          \/ call' = [call EXCEPT !.at = "end", !.out = "error"]
      BY <2>1
    <3>4. call.at = "show"
      BY <2>1
    <3> HIDE DEF OfExtension
    <3>5. CASE world' = world
      BY <3>2, <3>3, <3>4, <3>5
    <3>6. CASE world' = [world EXCEPT !.vm = @ \cup {"inspecting"}]
      BY <3>2, <3>3, <3>4, <3>6
    <3> QED  BY <3>1, <3>5, <3>6
  <2>2. CASE \/ \E to \in {"show", "ask"} : Begins("inspect_selection", to)
             \/ OfExtension("ask", "got", world)
             \/ \E out \in {"ok", "empty"} : End("inspect_selection", "got", out)
    BY <1>18, <2>2 DEF FlutterInspectSelection
  <2> QED  BY <1>18, <2>1, <2>2 DEF FlutterInspectSelection
<1>19. CASE FlutterHotReload
  <2>1. CASE Begins("reload", "load") \/ End("reload", "got", "ok")
    BY <2>1
  <2>2. ASSUME NEW w, w = world \/ w = [world EXCEPT !.iso = 2, !.vm = @ \cap {"recording"}],
               OfIsolate("load", "got", w), call.tool = "reload"
        PROVE  FlutterInv'
    <3>1. world' = world \/ world' = [world EXCEPT !.iso = 2, !.vm = @ \cap {"recording"}]
      BY <2>2
    <3>2. call.tool = "reload" /\ call.at = "load"
      BY <2>2
    <3>3. \/ call' = [call EXCEPT !.at = "got"]
          \/ call' = [call EXCEPT !.at = "end", !.out = "error"]
      BY <2>2
    <3> HIDE DEF OfIsolate
    <3> QED  BY <3>1, <3>2, <3>3, ZenonT(40)
  <2> QED  BY <1>19, <2>1, <2>2 DEF FlutterHotReload
<1>20. CASE VmPauses
  BY <1>20 DEF VmPauses
<1>21. CASE VmMoves
  <2>1. ASSUME NEW streams, NEW conn,
      world' = [world EXCEPT !.moved = TRUE, !.conn = conn, !.streams = streams],
               UNCHANGED call
        PROVE  FlutterInv'
    BY <2>1
  <2>2. ASSUME NEW iso \in {world.iso, 2}, UNCHANGED call,
               world' = [world EXCEPT !.moved = TRUE, !.conn = TRUE, !.iso = iso, !.streams = {},
                         !.hears = {}]
        PROVE  FlutterInv'
    BY <2>2
  <2>3. ASSUME NEW iso \in {0, 2}, UNCHANGED call,
               world' = [world EXCEPT !.moved = TRUE, !.iso = iso, !.vm = @ \cap {"recording"}]
        PROVE  FlutterInv'
    BY <2>3
  <2> QED  BY <1>21, <2>1, <2>2, <2>3 DEF VmMoves
<1> QED  BY <1>1, <1>2, <1>3, <1>4, <1>6, <1>7, <1>8, <1>9, <1>10, <1>11, <1>12, <1>13, <1>14,
    <1>15, <1>16,
            <1>17, <1>18, <1>19, <1>20, <1>21 DEF FlutterNext, FlutterStep

----------------------------------------------------------------------------
(* QA checks, routes and the proxy. *)

\* The inductive invariant of the QA checks and the proxy.
QaInv ==
  /\ {"tool", "opts", "at", "out", "told", "left", "kept", "read", "tree",
      "list"} \subseteq DOMAIN call
  /\ {"dark", "was", "tree", "app", "server", "entry", "routed", "sockets",
      "logged"} \subseteq DOMAIN world
  /\ world.dark \in BOOLEAN /\ world.was \in BOOLEAN
  /\ call.at # "end" => call.out = "none"
  \* the tree that is judged is the one there is
  /\ call.told = "tree" \/ (call.tool = "semantics" /\ call.at \in {"context", "judge"}) =>
       call.tree = world.tree
  /\ call.told = "clean" => SelectorFindings(world.tree) = {}
  /\ call.told \in {"none", "tree", "no_tree", "clean", "added"}
  \* the audit
  /\ call.tool = AU =>
       /\ call.out = "passed" => TooSmall(world.tree) = {}
       /\ call.at = "begin" => call.kept = FALSE
       /\ call.at \in {"begin", "dark"} => world.dark = world.was
       /\ call.kept = TRUE => call.read = world.was
       /\ call.at \in {"judge", "end"} /\ call.kept = TRUE
          /\ call.left = FALSE => world.dark = world.was
       /\ call.left \in BOOLEAN /\ call.kept \in BOOLEAN /\ call.read \in BOOLEAN
       /\ call.at = "dark" => call.kept = FALSE
  \* the proxy
  /\ call.tool = "net_stop" =>
       /\ call.at = "route" => world.server = FALSE
       /\ call.out = "stopped" => world.server = FALSE /\ world.entry = FALSE
          /\ (world.routed = FALSE \/ call.left = TRUE)
  /\ call.out = "stopped" => call.tool = "net_stop"
  /\ IF call.tool = "proxied"
     THEN world.logged = IF call.out \in {"answered", "failed"} THEN 1 ELSE 0
     ELSE IF call.tool = "upgraded"
     THEN /\ call.out = "none" => world.logged = IF call.told = "added" THEN 1 ELSE 0
          /\ call.out = "failed" => world.logged = 1
          /\ call.out # "answered" /\ world.logged \in {0, 1}
     ELSE world.logged = 0

\* A tree without findings has a name for every element and none twice,
LEMMA CleanIsUnique ==
  ASSUME NEW tree, SelectorFindings(tree) = {}
  PROVE  \A n, m \in DOMAIN tree : tree[n].id # "none" /\ ~Same(tree, n, m, "id")
BY DEF SelectorFindings

\* and one without small targets has none.
LEMMA NoneIsSmall ==
  ASSUME NEW tree, TooSmall(tree) = {}
  PROVE  \A n \in DOMAIN tree : ~tree[n].small
BY DEF TooSmall

\* What QaClaims says of the tools but the list of routes.
LEMMA QaInvClaims == QaInv => (call.out # "routes" => QaClaims) /\ QaLeavesNothing
<1> SUFFICES ASSUME QaInv PROVE (call.out # "routes" => QaClaims) /\ QaLeavesNothing
  OBVIOUS
<1>1. call.told = "clean" =>
         \A n, m \in DOMAIN world.tree : world.tree[n].id # "none" /\ ~Same(world.tree, n, m, "id")
  BY CleanIsUnique DEF QaInv
<1>2. call.tool = AU /\ call.out = "passed" => \A n \in DOMAIN world.tree : ~world.tree[n].small
  BY NoneIsSmall DEF QaInv
<1>3. world.logged <= 1
    /\ (call.out \in {"answered", "failed"} /\ call.tool \in {"proxied", "upgraded"}
                             => world.logged = 1)
  BY DEF QaInv
<1>4. QaLeavesNothing
  <2>1. call.tool = AU /\ Ended /\ call.kept /\ ~call.left => world.dark = world.was
    BY DEF QaInv, Ended
  <2>2. call.out = "stopped" => ~world.server /\ ~world.entry /\ (world.routed => call.left)
    BY DEF QaInv
  <2> QED  BY <2>1, <2>2 DEF QaLeavesNothing
<1> QED  BY <1>1, <1>2, <1>3, <1>4 DEF QaClaims

\* The invariant holds at the start.
LEMMA QaInitInv == QaInit => QaInv
<1> SUFFICES ASSUME QaInit PROVE QaInv
  OBVIOUS
<1> DEFINE locals == [told |-> "none", left |-> FALSE, kept |-> FALSE, read |-> FALSE,
                      tree |-> <<>>, list |-> <<>>]
<1>0. /\ call \in ToolCalls(QaOptions, locals)
      /\ \E dark, proxy, open \in BOOLEAN, tree \in Trees, app \in Apps \cup {NoApp} :
           world = [dark |-> dark, was |-> dark, tree |-> tree, app |-> app, server |-> proxy,
                   entry |-> proxy, routed |-> proxy, sockets |-> IF open THEN {"socket"} ELSE {},
                   logged |-> 0]
  BY ZenonT(60) DEF QaInit
<1>1. PICK t \in DOMAIN QaOptions : \E o \in SUBSET QaOptions[t] : call = NewCall(t, o, locals)
  BY <1>0 DEF ToolCalls
<1>2. PICK o \in SUBSET QaOptions[t] : call = NewCall(t, o, locals)
  BY <1>1
<1>3. call = [tool |-> t, opts |-> o, at |-> "begin", out |-> "none", told |-> "none",
              left |-> FALSE, kept |-> FALSE,
              read |-> FALSE, tree |-> <<>>, list |-> <<>>]
  BY <1>2 DEF NewCall
<1> HIDE DEF locals
<1>4. PICK dark, proxy, open \in BOOLEAN, tree \in Trees, app \in Apps \cup {NoApp} :
         world = [dark |-> dark, was |-> dark, tree |-> tree, app |-> app, server |-> proxy,
                   entry |-> proxy, routed |-> proxy, sockets |-> IF open THEN {"socket"} ELSE {},
                   logged |-> 0]
  BY <1>0
<1>5. /\ {"dark", "was", "tree", "app", "server", "entry", "routed", "sockets",
          "logged"} \subseteq DOMAIN world
      /\ world.dark \in BOOLEAN /\ world.was = world.dark /\ world.logged = 0
  BY <1>4
<1> QED  BY <1>3, <1>5 DEF QaInv, AU

\* The appearance that is read, and whether it is the one there is.
AuditReads(read) ==
  call' = [call EXCEPT !.at = "light", !.read = read, !.kept = read = world.dark]

\* What reading the appearance makes of an audit, case by case.
LEMMA AuditReadsDark ==
  ASSUME world.dark \in BOOLEAN, \E read \in {world.dark, FALSE} : AuditReads(read)
  PROVE  \/ call' = [call EXCEPT !.at = "light", !.read = world.dark, !.kept = TRUE]
         \/ call' = [call EXCEPT !.at = "light", !.read = FALSE, !.kept = FALSE]
<1>1. PICK read \in {world.dark, FALSE} : AuditReads(read)
  OBVIOUS
<1>2. CASE read = world.dark
  <2>1. (read = world.dark) = TRUE
    BY <1>2
  <2> QED  BY <1>1, <1>2, <2>1 DEF AuditReads
<1>3. CASE read # world.dark
  <2>1. (read = world.dark) = FALSE
    BY <1>3
  <2>2. read = FALSE
    BY <1>1, <1>3
  <2> QED  BY <1>1, <2>2, <2>1 DEF AuditReads
<1> QED  BY <1>2, <1>3

\* Every step of the QA checks keeps the invariant.
LEMMA QaStepInv ==
  ASSUME QaInv, QaNext PROVE QaInv'
<1> USE DEF QaInv, Became, At, Go, Pass, Answers, End, Throws, Act, AU, Opt
<1>1. CASE QaFlutterTouchTargets
  BY <1>1 DEF QaFlutterTouchTargets, Reads
<1>2. CASE QaFlutterSemantics
  <2>1. CASE End("semantics", "begin", "refused") \/ Reads("semantics", "begin", "context")
    BY <2>1 DEF Reads
  <2>2. CASE Pass("semantics", "context", "judge")
    BY <2>2
  <2>3. ASSUME NEW out \in {"passed", "failed"}, NEW told,
               told = "none" \/ (told = "clean" /\ SelectorFindings(call.tree) = {}),
               Became("semantics", "judge", [call EXCEPT !.at = "end", !.out = out, !.told = told]),
               UNCHANGED world
        PROVE  QaInv'
    BY <2>3, ZenonT(40)
  <2> QED  BY <1>2, <2>1, <2>2, <2>3 DEF QaFlutterSemantics
<1>3. CASE QaFlutterFullAudit
  <2>1. CASE End(AU, "begin", "refused") \/ Pass(AU, "begin", "dark")
    BY <2>1
  <2>2. CASE AuditTree
    BY <2>2 DEF AuditTree
  <2>3. CASE CheckDarkMode
    <3> USE DEF Shown
    <3>1. CASE UNCHANGED world /\ At(AU, "dark")
        /\ \E read \in {world.dark, FALSE} : AuditReads(read)
      <4>1. \/ call' = [call EXCEPT !.at = "light", !.read = world.dark, !.kept = TRUE]
            \/ call' = [call EXCEPT !.at = "light", !.read = FALSE, !.kept = FALSE]
        BY <3>1, AuditReadsDark
      <4> QED  BY <3>1, <4>1
    <3>2. CASE Act(AU, "light", "dim", {Shown(FALSE)}) \/ Act(AU, "dim", "restore", {Shown(TRUE)})
      BY <3>2
    <3>3. CASE Act(AU, "restore", "judge", {Shown(call.read)})
      BY <3>3
    <3>4. ASSUME NEW at \in {"light", "dim", "restore"}, NEW dark \in BOOLEAN,
                 world' \in {world, Shown(dark)},
                     Became(AU, at, [call EXCEPT !.at = "judge", !.left = TRUE])
          PROVE  QaInv'
      BY <3>4
    <3>5. CASE \E turn \in {<<"light", FALSE>>, <<"dim", TRUE>>, <<"restore", call.read>>} :
                 /\ world' \in {world, Shown(turn[2])}
                 /\ Became(AU, turn[1], [call EXCEPT !.at = "judge", !.left = TRUE])
      <4>1. PICK turn \in {<<"light", FALSE>>, <<"dim", TRUE>>, <<"restore", call.read>>} :
                 /\ world' \in {world, Shown(turn[2])}
                 /\ Became(AU, turn[1], [call EXCEPT !.at = "judge", !.left = TRUE])
        BY <3>5
      <4>2. call.tool = AU /\ call.read \in BOOLEAN
        BY <4>1
      <4>3. turn[1] \in {"light", "dim", "restore"} /\ turn[2] \in BOOLEAN
        <5>1. CASE turn = <<"light", FALSE>>
          BY <5>1
        <5>2. CASE turn = <<"dim", TRUE>>
          BY <5>2
        <5>3. CASE turn = <<"restore", call.read>>
          BY <4>2, <5>3
        <5> QED  BY <5>1, <5>2, <5>3
      <4> QED  BY <3>4, <4>1, <4>3
    <3> QED  BY <2>3, <3>1, <3>2, <3>3, <3>5 DEF CheckDarkMode, AuditReads
  <2>4. CASE /\ call.told = "tree" /\ TooSmall(call.tree) = {} /\ End(AU, "judge", "passed")
    BY <2>4
  <2>5. CASE End(AU, "judge", "failed")
    BY <2>5
  <2> QED  BY <1>3, <2>1, <2>2, <2>3, <2>4, <2>5 DEF QaFlutterFullAudit
<1>4. CASE AppListRoutes
  BY <1>4 DEF AppListRoutes
<1>5. CASE NetStart
  BY <1>5 DEF NetStart
<1>6. CASE NetStop
  BY <1>6 DEF NetStop
<1>7. CASE NetLog \/ NetHar \/ NetThrottle
  BY <1>7 DEF NetLog, NetHar, NetThrottle
<1>8. CASE Proxied
  <2>1. CASE Answers("proxied", "sent", "failed") /\ world' = AddEntry
    BY <2>1 DEF AddEntry
  <2>2. CASE Answers("proxied", "body", "answered") /\ world' = AddEntry
    BY <2>2 DEF AddEntry
  <2>3. CASE \/ End("proxied", "begin", "ignored") \/ Pass("proxied", "begin", "sent")
             \/ Pass("proxied", "sent", "body") \/ End("proxied", "body", "cut")
    BY <2>3
  <2> QED  BY <1>8, <2>1, <2>2, <2>3 DEF Proxied
<1>9. CASE Upgraded
  <2>1. CASE End("upgraded", "begin", "destroyed") \/ Pass("upgraded", "begin", "tunnel")
    BY <2>1
  <2>2. CASE /\ call.told = "none" /\ world' = AddEntry
             /\ Became("upgraded", "tunnel", [call EXCEPT !.told = "added"])
    BY <2>2 DEF AddEntry
  <2>3. CASE /\ call.told = "none" /\ world' = AddEntry
             /\ Became("upgraded", "tunnel", [call EXCEPT !.at = "end", !.out = "failed"])
    BY <2>3 DEF AddEntry
  <2>4. CASE call.told = "added" /\ End("upgraded", "tunnel", "failed")
    BY <2>4
  <2>5. CASE End("upgraded", "tunnel", "closed")
    BY <2>5
  <2> QED  BY <1>9, <2>1, <2>2, <2>3, <2>4, <2>5 DEF Upgraded
<1>10. CASE ClientLeaves
  BY <1>10 DEF ClientLeaves
<1> QED  BY <1>1, <1>2, <1>3, <1>4, <1>5, <1>6, <1>7, <1>8, <1>9, <1>10 DEF QaNext, QaStep

----------------------------------------------------------------------------
(* The page in Safari. *)

\* The page: what has loaded is noted, and so is how the element is.
PageInv ==
  /\ {"doc", "state", "asked", "loaded", "el", "been", "spot", "turns", "hits", "value", "was",
      "jar",
      "stored", "file", "temp", "booted"} \subseteq DOMAIN world
  /\ world.doc \in {"first", "asked"} /\ world.state \in {"loading", "interactive", "complete"}
  /\ world.state # "loading" => <<world.doc, "interactive">> \in world.loaded
  /\ world.state = "complete" => <<world.doc, "complete">> \in world.loaded
  /\ world.el \in world.been /\ world.turns \in Nat
  /\ world.was \in {<<>>, << 0 >>} /\ world.jar \subseteq Cookies
  /\ world.booted \in {"none", "mine", "other"}

\* The call, and whose its answers are.
Claimed == {"loaded", "clicked", "pressed", "typed", "selected", "found", "cleared", "restored"}

\* The fields of a call on a page, and which tool gives which answer.
PageCallInv ==
  /\ {"tool", "opts", "at", "out", "sub", "ret", "saw", "spot", "n", "got", "told",
      "early"} \subseteq DOMAIN call
  /\ call.early \in BOOLEAN
  /\ call.at # "end" => call.out = "none"
  /\ call.out = "loaded" => call.tool = "navigate"
  /\ call.out \in {"clicked", "pressed"} => call.tool \in {"click", "long_press"}
  /\ call.out \in {"typed", "selected"} => call.tool \in {"type", "select_option"}
  /\ call.out = "found" => call.tool = "page_wait"
  /\ call.out = "cleared" => call.tool = "cookies_clear"
  /\ call.out = "restored" => call.tool = AR

\* A page said to be loaded was asked for and came.
LoadInv ==
  call.tool = "navigate" =>
    /\ call.at = "navigating" => call.ret = "done"
    /\ call.at = "done" \/ call.out = "loaded" =>
         <<call.saw, IF Opt("dom") THEN "interactive" ELSE "complete">> \in world.loaded

\* What is about to be pressed is what was found, unless the page turned.
PressInv ==
  call.tool \in {"click", "long_press"} /\ ~Opt("point") =>
    /\ call.at = "tap" \/ world.hits # {}
       \/ call.out \in {"clicked", "pressed"} => \E el \in world.been : el # "absent"
    /\ call.at = "tap" =>
         world.turns > 0 \/ call.spot = 0 \/ (world.el = "shown" /\ call.spot = world.spot)
    /\ call.out \in {"clicked", "pressed"} => "el" \in world.hits \/ world.turns > 0
       \/ call.spot = 0

\* What was typed so far.
Typed(n) == IF n = 0 THEN <<>> ELSE IF n = 1 THEN << 1 >> ELSE <<1, 2>>

\* What was typed so far is in the field.
TypeInv ==
  call.tool \in {"type", "select_option"} =>
    /\ call.n \in 0..2
    /\ call.tool = "select_option" => ~Opt("delay")
    /\ call.at = "begin" => call.n = 0
    /\ call.at = "set" => ~Opt("delay")
    /\ call.at = "chars" => Opt("delay")
    /\ call.at \in {"begin", "chars"}
       /\ "absent" \notin world.been => world.value = world.was \o Typed(call.n)
    /\ call.out \in {"typed", "selected"} /\ "absent" \notin world.been =>
         world.value = (IF Opt("delay") THEN world.was ELSE <<>>) \o <<1, 2>>

\* What was waited for has been there.
WaitInv ==
  call.out = "found" =>
    "shown" \in world.been \/ (~Opt("visible") /\ "hidden" \in world.been)

\* What is left to be cleared, as long as the site sets no cookie.
ClearInv ==
  call.tool = "cookies_clear" /\ world.turns = 0 =>
    /\ call.at = "delete" =>
         \/ call.told = "protocol" /\ world.jar \subseteq call.got
         \/ call.told = "script" /\ world.jar \subseteq call.got \cup {"http"}
    /\ call.out = "cleared" => world.jar \subseteq IF call.told = "protocol" THEN {}
       ELSE {"deep", "http"}

\* What of the profile is put back.
CookiesAreSet ==
  \/ call.at \in {"storage", "reload", "done"} \/ (call.at = "navigating" /\ call.ret = "done")
  \/ call.out = "restored"

\* Where the storage of a restored login is back.
StorageIsSet ==
  \/ call.at \in {"reload", "done"} \/ (call.at = "navigating" /\ call.ret = "done")
  \/ call.out = "restored"

\* The cookies and the storage of a restored login are the saved ones.
RestoreInv ==
  call.tool = AR =>
    /\ call.at = "navigating" => call.ret \in {"local", "done"}
    /\ call.told = "protocol" => call.got \subseteq world.jar
    /\ call.at \in {"begin", "read"} => call.got = {}
    /\ CookiesAreSet => Saved \subseteq call.got
    /\ call.at \in {"local", "set", "storage"} /\ call.early = FALSE => world.doc = "asked"
    /\ StorageIsSet /\ call.early = FALSE => "asked" \in world.stored

\* The inductive invariant of the tools on a page.
BrowserInv == PageInv /\ PageCallInv /\ LoadInv /\ PressInv /\ TypeInv /\ WaitInv /\ ClearInv
    /\ RestoreInv

\* It says that what they claim of the page is so.
LEMMA BrowserInvClaims == BrowserInv => BrowserClaims
<1> SUFFICES ASSUME BrowserInv PROVE BrowserClaims
  OBVIOUS
<1> USE DEF BrowserInv, PageCallInv
<1>1. call.out = "loaded" => <<call.saw, IF Opt("dom") THEN "interactive"
                               ELSE "complete">> \in world.loaded
  BY DEF LoadInv
<1>2. call.out \in {"clicked", "pressed"} /\ ~Opt("point") =>
         world.been # {"absent"} /\ ("el" \in world.hits \/ world.turns > 0 \/ call.spot = 0)
  BY DEF PressInv
<1>3. call.tool \in {"click", "long_press"} /\ world.been = {"absent"}
    /\ ~Opt("point") => world.hits = {}
  BY DEF PressInv
<1>4. call.out \in {"typed", "selected"} /\ "absent" \notin world.been =>
         world.value = (IF Opt("delay") THEN world.was ELSE <<>>) \o <<1, 2>>
  BY DEF TypeInv
<1>5. call.out = "found" => world.been \cap ({"shown"} \cup IF Opt("visible") THEN {}
                                             ELSE {"hidden"}) # {}
  BY DEF WaitInv
<1>6. call.out = "cleared" /\ world.turns = 0 =>
         world.jar \subseteq IF call.told = "protocol" THEN {} ELSE {"deep", "http"}
  BY DEF ClearInv
<1>7. call.out = "restored" =>
         /\ call.told = "protocol" => Saved \subseteq world.jar
         /\ ~call.early => "asked" \in world.stored
  BY DEF RestoreInv, CookiesAreSet, StorageIsSet
<1> QED  BY <1>1, <1>2, <1>3, <1>4, <1>5, <1>6, <1>7 DEF BrowserClaims

\* The invariant holds at the start.
LEMMA BrowserInitInv == BrowserInit => BrowserInv
<1> SUFFICES ASSUME BrowserInit PROVE BrowserInv
  OBVIOUS
<1> DEFINE locals ==
       [sub |-> "enable", ret |-> "none", saw |-> "none", spot |-> 0, n |-> 0, got |-> {},
        told |-> "none", early |-> FALSE]
<1>1. PICK t \in DOMAIN BrowserOptions : \E o \in SUBSET BrowserOptions[t] : call = NewCall(t, o,
    locals)
  BY DEF BrowserInit, ToolCalls
<1>2. PICK o \in SUBSET BrowserOptions[t] : call = NewCall(t, o, locals)
  BY <1>1
<1>3. call = [tool |-> t, opts |-> o, at |-> "begin", out |-> "none", sub |-> "enable",
              ret |-> "none",
              saw |-> "none", spot |-> 0, n |-> 0, got |-> {}, told |-> "none", early |-> FALSE]
  BY <1>2 DEF NewCall
<1> HIDE DEF locals
<1>4. PICK el \in {"absent", "hidden", "shown"}, spot \in 1..2, jar \in SUBSET Cookies,
        value \in {<<>>, << 0 >>}, file \in BOOLEAN, shot \in {"none", "mine", "other"} :
       /\ call.tool \notin OnElement => el = "absent"
       /\ el # "shown" => spot = 1
       /\ call.tool \notin {"type", "select_option"} => value = <<>>
       /\ call.tool \notin OnCookies => jar = {}
       /\ file => call.tool \in {"auth_save", "auth_restore", "auth_list"}
       /\ call.tool # "screenshot" => shot = "none"
       /\ world = [doc |-> "first", state |-> "complete", asked |-> FALSE,
                   loaded |-> {<<"first", "interactive">>, <<"first", "complete">>},
                   el |-> el, been |-> {el}, spot |-> spot, turns |-> 0, hits |-> {},
                       value |-> value,
                   was |-> value, jar |-> jar, stored |-> {}, file |-> file, temp |-> FALSE,
                   booted |-> shot]
  BY Zenon DEF BrowserInit
<1>5. PageInv /\ world.hits = {} /\ world.value = world.was
  BY <1>4 DEF PageInv
<1>6. PageCallInv /\ call.at = "begin" /\ call.out = "none" /\ call.n = 0 /\ call.got = {}
    /\ call.tool = t
      /\ call.opts = o
  BY <1>3 DEF PageCallInv
<1>7. LoadInv /\ PressInv /\ WaitInv /\ ClearInv
  BY <1>5, <1>6 DEF LoadInv, PressInv, WaitInv, ClearInv
<1>8. TypeInv
  <2>1. t = "select_option" => ~Opt("delay")
    BY <1>6 DEF BrowserOptions, Opt
  <2>2. world.was \o Typed(0) = world.was
    BY <1>5 DEF PageInv, Typed
  <2> QED  BY <1>5, <1>6, <2>1, <2>2 DEF TypeInv
<1>9. RestoreInv
  BY <1>6 DEF RestoreInv, CookiesAreSet, StorageIsSet
<1> QED  BY <1>5, <1>6, <1>7, <1>8, <1>9 DEF BrowserInv

\* What of the page the invariants of the tools speak of, where it stays.
LEMMA PageTurnsInv == ASSUME BrowserInv, PageTurns PROVE BrowserInv'
<1>1. CASE Commits \/ Loads
  <2>1. /\ DOMAIN world' = DOMAIN world /\ world.loaded \subseteq world'.loaded
           /\ world'.el = world.el
        /\ world'.been = world.been /\ world'.spot = world.spot /\ world'.turns = world.turns
        /\ world'.hits = world.hits /\ world'.value = world.value /\ world'.was = world.was
        /\ world'.jar = world.jar /\ world'.stored = world.stored /\ world'.booted = world.booted
        /\ (world.doc = "asked" => world'.doc = "asked")
    BY <1>1 DEF Commits, Loads, BrowserInv, PageInv
  <2>2. PageInv'
    <3>1. CASE Commits
      BY <3>1 DEF Commits, BrowserInv, PageInv
    <3>2. CASE Loads
      BY <3>2 DEF Loads, BrowserInv, PageInv
    <3> QED  BY <1>1, <3>1, <3>2
  <2>3. UNCHANGED call
    BY DEF PageTurns
  <2>4. PageCallInv' /\ LoadInv' /\ PressInv' /\ WaitInv' /\ ClearInv'
    BY <2>1, <2>3 DEF BrowserInv, PageCallInv, LoadInv, PressInv, WaitInv, ClearInv, Opt
  <2>5. TypeInv' /\ RestoreInv'
    BY <2>1, <2>3 DEF BrowserInv, TypeInv, RestoreInv, CookiesAreSet, StorageIsSet, Opt
  <2> QED  BY <2>2, <2>4, <2>5 DEF BrowserInv
<1>2. CASE ElementTurns
  <2>1. PICK el \in {"absent", "hidden", "shown"}, spot \in 1..2 :
       world' = [world EXCEPT !.el = el, !.been = @ \cup {el}, !.spot = spot, !.turns = @ + 1]
    BY <1>2 DEF ElementTurns
  <2>2. /\ DOMAIN world' = DOMAIN world /\ world'.loaded = world.loaded /\ world'.el = el
        /\ world'.been = world.been \cup {el} /\ world'.turns = world.turns + 1
        /\ world'.hits = world.hits /\ world'.value = world.value /\ world'.was = world.was
        /\ world'.jar = world.jar /\ world'.stored = world.stored /\ world'.booted = world.booted
        /\ world'.doc = world.doc /\ world'.state = world.state
    BY <2>1 DEF BrowserInv, PageInv
  <2>3. UNCHANGED call
    BY DEF PageTurns
  <2>4. PageInv'
    BY <2>2 DEF BrowserInv, PageInv
  <2>5. world'.turns > 0 /\ world'.turns # 0
    BY <2>2 DEF BrowserInv, PageInv
  <2>6. PageCallInv' /\ LoadInv' /\ PressInv' /\ WaitInv' /\ ClearInv'
    BY <2>2, <2>3, <2>5 DEF BrowserInv, PageCallInv, LoadInv, PressInv, WaitInv, ClearInv, Opt
  <2>7. TypeInv' /\ RestoreInv'
    BY <2>2, <2>3, ZenonT(40) DEF BrowserInv, TypeInv, RestoreInv, CookiesAreSet, StorageIsSet, Opt
  <2> QED  BY <2>4, <2>6, <2>7 DEF BrowserInv
<1>3. CASE CookieTurns
  <2>2. /\ DOMAIN world' = DOMAIN world /\ world'.loaded = world.loaded /\ world'.el = world.el
        /\ world'.been = world.been /\ world'.turns = world.turns + 1 /\ world'.spot = world.spot
        /\ world'.hits = world.hits /\ world'.value = world.value /\ world'.was = world.was
        /\ world'.jar = world.jar \cup {"plain"} /\ world'.stored = world.stored
        /\ world'.booted = world.booted /\ world'.doc = world.doc /\ world'.state = world.state
    BY <1>3 DEF CookieTurns, BrowserInv, PageInv
  <2>3. UNCHANGED call
    BY DEF PageTurns
  <2>4. PageInv'
    BY <2>2 DEF BrowserInv, PageInv, Cookies
  <2>5. world'.turns > 0 /\ world'.turns # 0
    BY <2>2 DEF BrowserInv, PageInv
  <2>6. PageCallInv' /\ LoadInv' /\ PressInv' /\ WaitInv' /\ ClearInv'
    BY <2>2, <2>3, <2>5 DEF BrowserInv, PageCallInv, LoadInv, PressInv, WaitInv, ClearInv, Opt
  <2>7. TypeInv' /\ RestoreInv'
    BY <2>2, <2>3, ZenonT(40) DEF BrowserInv, TypeInv, RestoreInv, CookiesAreSet, StorageIsSet, Opt
  <2> QED  BY <2>4, <2>6, <2>7 DEF BrowserInv
<1> QED  BY <1>1, <1>2, <1>3 DEF PageTurns

----------------------------------------------------------------------------
\* What of a call stays while its handler goes on.
PageKeeps ==
  /\ {"tool", "opts", "at", "out", "sub", "ret", "saw", "spot", "n", "got", "told",
      "early"} \subseteq DOMAIN call'
  /\ call'.tool = call.tool /\ call'.opts = call.opts /\ call'.sub = call.sub
     /\ call'.ret = call.ret
  /\ call'.saw = call.saw /\ call'.spot = call.spot /\ call'.n = call.n /\ call'.got = call.got
  /\ call'.told = call.told /\ call'.early = call.early

\* Going on leaves the fields of the call alone;
LEMMA PageGo ==
  ASSUME PageCallInv, NEW tool, NEW from, NEW to, Go(tool, from, to)
  PROVE  PageKeeps /\ call.tool = tool /\ call.at = from /\ call'.at = to /\ call'.out = call.out
BY DEF PageCallInv, Go, Became, At, PageKeeps

\* so does answering,
LEMMA PageAnswers ==
  ASSUME PageCallInv, NEW tool, NEW from, NEW out, Answers(tool, from, out)
  PROVE  PageKeeps /\ call.tool = tool /\ call.at = from /\ call'.at = "end" /\ call'.out = out
BY DEF PageCallInv, Answers, Became, At, PageKeeps

\* and throwing.
LEMMA PageThrows ==
  ASSUME PageCallInv, NEW tool, NEW labels, Throws(tool, labels)
  PROVE  PageKeeps /\ call.tool = tool /\ call.at \in labels /\ call'.at = "end"
      /\ call'.out = "error"
         /\ UNCHANGED world
BY PageAnswers DEF Throws, End

\* A call that has ended without a claim.
Unclaimed ==
  PageKeeps /\ call'.at = "end" /\ call'.out \notin Claimed

\* The tools about whose effects something is claimed.
Claiming == {"navigate", "click", "long_press", "type", "select_option", "page_wait",
             "cookies_clear", AR}

\* The other tools keep the invariant by claiming nothing.
LEMMA QuietPage ==
  ASSUME BrowserInv, call.tool \notin Claiming, PageInv', call'.tool = call.tool,
         {"tool", "opts", "at", "out", "sub", "ret", "saw", "spot", "n", "got", "told",
          "early"} \subseteq DOMAIN call',
         call'.early \in BOOLEAN, call'.at # "end" => call'.out = "none", call'.out \notin Claimed
  PROVE  BrowserInv'
<1>1. PageCallInv'
  BY DEF PageCallInv, Claimed
<1>2. LoadInv' /\ PressInv' /\ TypeInv' /\ WaitInv' /\ ClearInv' /\ RestoreInv'
  BY DEF LoadInv, PressInv, TypeInv, WaitInv, ClearInv, RestoreInv, Claiming, Claimed
<1> QED  BY <1>1, <1>2 DEF BrowserInv

\* A handler that gives up leaves the page, or pressed it.
LEMMA PageGivesUp ==
  ASSUME BrowserInv, Unclaimed, UNCHANGED world
  PROVE  BrowserInv'
<1> USE DEF Unclaimed, PageKeeps, Claimed
<1>1. PageInv' /\ PageCallInv'
  BY DEF BrowserInv, PageInv, PageCallInv
<1>2. LoadInv' /\ PressInv' /\ WaitInv' /\ ClearInv'
  BY DEF BrowserInv, LoadInv, PressInv, WaitInv, ClearInv, Opt
<1>3. TypeInv'
  BY DEF BrowserInv, TypeInv, Opt
<1>4. RestoreInv'
  BY DEF BrowserInv, RestoreInv, CookiesAreSet, StorageIsSet, Opt
<1> QED  BY <1>1, <1>2, <1>3, <1>4 DEF BrowserInv

\* A call that is refused or throws keeps the invariant.
LEMMA PageRefuses ==
  ASSUME BrowserInv, NEW tool, NEW labels, Refuses(tool) \/ Throws(tool, labels)
  PROVE  BrowserInv'
<1>1. Unclaimed /\ UNCHANGED world
  BY PageAnswers, PageThrows DEF Refuses, End, BrowserInv, Unclaimed, Claimed
<1> QED  BY <1>1, PageGivesUp

\* A script that claims nothing keeps it.
LEMMA OneScriptInv ==
  ASSUME BrowserInv, NEW tool, tool \notin Claiming, NEW from, NEW out, out \notin Claimed,
         PageScript(tool, from, out, world) \/ End(tool, from, out)
  PROVE  BrowserInv'
<1>1. Unclaimed /\ UNCHANGED world
  BY PageAnswers DEF PageScript, End, BrowserInv, Unclaimed, Claimed
<1> QED  BY <1>1, PageGivesUp

\* A tool that claims nothing goes on and keeps it.
LEMMA QuietGoes ==
  ASSUME BrowserInv, NEW tool, tool \notin Claiming, NEW from, NEW to, Go(tool, from, to),
      from # "end", to # "end",
         PageInv'
  PROVE  BrowserInv'
<1>1. PageKeeps /\ call.tool = tool /\ call.at = from /\ call'.at = to /\ call'.out = "none"
  BY PageGo DEF BrowserInv, PageCallInv
<1> QED  BY <1>1, QuietPage DEF BrowserInv, PageCallInv, PageKeeps, Claimed

\* Every step of the tools of one script keeps it.
LEMMA ScriptToolsInv ==
  ASSUME BrowserInv,
         Press \/ Scroll \/ PageSwipe \/ Blur \/ ReadPage \/ QueryDom \/ Javascript \/ PageInspect
             \/ AuthList
  PROVE  BrowserInv'
<1> USE PageRefuses, OneScriptInv DEF OneScript, Claiming, AR, Claimed
<1>1. CASE Press \/ Scroll \/ Blur \/ ReadPage
  BY <1>1 DEF Press, Scroll, Blur, ReadPage
<1>2. CASE QueryDom \/ Javascript \/ PageInspect \/ AuthList
  BY <1>2 DEF QueryDom, Javascript, PageInspect, AuthList
<1>3. CASE PageSwipe
  <2>1. CASE Pass("page_swipe", "begin", "swipe")
    <3>1. PageInv'
      BY <2>1 DEF Pass, BrowserInv, PageInv
    <3> QED  BY <2>1, <3>1, QuietGoes DEF Pass
  <2> QED  BY <1>3, <2>1 DEF PageSwipe
<1> QED  BY <1>1, <1>2, <1>3

\* A tool that claims nothing passes,
LEMMA QuietPass ==
  ASSUME BrowserInv, NEW tool, tool \notin Claiming, NEW from, NEW to, Pass(tool, from, to),
      from # "end", to # "end"
  PROVE  BrowserInv'
<1>1. PageInv'
  BY DEF Pass, BrowserInv, PageInv
<1> QED  BY <1>1, QuietGoes DEF Pass

\* Every step of the screenshot keeps it.
LEMMA ScreenshotInv == ASSUME BrowserInv, Screenshot PROVE BrowserInv'
<1> USE DEF Claiming, AR, Claimed
<1>1. CASE Refuses("screenshot") \/ Throws("screenshot", {"simctl"})
  BY <1>1, PageRefuses
<1>2. CASE Pass("screenshot", "begin", "viewport") \/ Pass("screenshot", "viewport", "snapshot")
  BY <1>2, QuietPass
<1>3. CASE \E at \in {"viewport", "snapshot"} : Pass("screenshot", at, "simctl")
  BY <1>3, QuietPass
<1>4. CASE End("screenshot", "snapshot", "page")
  BY <1>4, OneScriptInv
<1>5. CASE End("screenshot", "simctl", world.booted)
  <2>1. world.booted \notin Claimed
    BY DEF BrowserInv, PageInv
  <2> QED  BY <1>5, <2>1, OneScriptInv
<1> QED  BY <1>1, <1>2, <1>3, <1>4, <1>5 DEF Screenshot

\* What QuietPage asks of the call.
QuietCall ==
  /\ call.tool \notin Claiming /\ call'.tool = call.tool
  /\ {"tool", "opts", "at", "out", "sub", "ret", "saw", "spot", "n", "got", "told",
      "early"} \subseteq DOMAIN call'
  /\ call'.early \in BOOLEAN /\ (call'.at # "end" => call'.out = "none") /\ call'.out \notin Claimed

\* A page that does not change keeps its part of the invariant.
LEMMA PageStays == ASSUME BrowserInv, UNCHANGED world PROVE PageInv'
BY DEF BrowserInv, PageInv

\* and takes an answer, and keeps it.
LEMMA QuietGot ==
  ASSUME BrowserInv, NEW tool, tool \notin Claiming, NEW from, NEW to, Got(tool, from, to),
      from # "end", to # "end"
  PROVE  BrowserInv'
<1> USE DEF BrowserInv, PageCallInv
<1>1. PageInv'
  BY PageStays DEF Got
<1>2. CASE Became(tool, from, [call EXCEPT !.at = to, !.got = world.jar, !.told = "protocol"])
  <2>1. QuietCall
    BY <1>2 DEF QuietCall, Became, At, Claimed
  <2> QED  BY <1>1, <2>1, QuietPage DEF QuietCall
<1>3. CASE Became(tool, from,
                  [call EXCEPT !.at = to, !.got = world.jar \ {"http"}, !.told = "script"])
  <2>1. QuietCall
    BY <1>3 DEF QuietCall, Became, At, Claimed
  <2> QED  BY <1>1, <2>1, QuietPage DEF QuietCall
<1> QED  BY <1>2, <1>3 DEF Got

\* Every step of reading the cookies keeps it,
LEMMA CookiesGetInv == ASSUME BrowserInv, CookiesGet PROVE BrowserInv'
<1> USE DEF Claiming, AR, Claimed
<1>1. CASE Refuses("cookies_get") \/ Throws("cookies_get", {"begin"})
  BY <1>1, PageRefuses
<1>2. CASE Got("cookies_get", "begin", "read")
  BY <1>2, QuietGot
<1>3. CASE End("cookies_get", "read", "cookies")
  BY <1>3, OneScriptInv
<1> QED  BY <1>1, <1>2, <1>3 DEF CookiesGet

\* A cookie that was set, by the protocol or by a script.
LEMMA SetCookieGoes ==
  ASSUME BrowserInv, NEW tool, NEW to, SetCookies(tool, to)
  PROVE  \/ Throws(tool, {"set"})
         \/ call.got = Saved /\ Pass(tool, "set", to)
         \/ /\ PageInv' /\ call.tool = tool /\ call.at = "set"
            /\ {"tool", "opts", "at", "out", "sub", "ret", "saw", "spot", "n", "got", "told",
                "early"} \subseteq DOMAIN call'
            /\ call'.tool = call.tool /\ call'.opts = call.opts /\ call'.at = "set"
               /\ call'.out = call.out
            /\ call'.ret = call.ret /\ call'.early = call.early
            /\ world'.doc = world.doc /\ world'.stored = world.stored
            /\ call.got \subseteq call'.got
            /\ call'.told = "protocol" => call.told = "protocol" /\ \E c \in Saved :
                 call'.got = call.got \cup {c} /\ world'.jar = world.jar \cup {c}
<1> USE DEF BrowserInv, PageCallInv, PageInv, Became, At
<1>1. ASSUME NEW c \in Saved \ call.got, Became(tool, "set", [call EXCEPT !.got = @ \cup {c}]),
             world' = [world EXCEPT !.jar = @ \cup {c}]
      PROVE  /\ PageInv' /\ world'.doc = world.doc /\ world'.stored = world.stored
             /\ call'.got = call.got \cup {c} /\ world'.jar = world.jar \cup {c}
  BY <1>1 DEF Saved, Cookies
<1>2. ASSUME NEW c \in Saved \ call.got,
    Became(tool, "set", [call EXCEPT !.got = @ \cup {c}, !.told = "script"]),
             NEW jar \in {world.jar, world.jar \cup {"plain"}}, world' = [world EXCEPT !.jar = jar]
      PROVE  /\ PageInv' /\ world'.doc = world.doc /\ world'.stored = world.stored
             /\ call'.got = call.got \cup {c} /\ call'.told = "script"
  BY <1>2 DEF Saved, Cookies
<1>3. CASE Throws(tool, {"set"}) \/ (call.got = Saved /\ Pass(tool, "set", to))
  BY <1>3
<1>4. CASE \E c \in Saved \ call.got : /\ Became(tool, "set", [call EXCEPT !.got = @ \cup {c}])
                                        /\ world' = [world EXCEPT !.jar = @ \cup {c}]
  <2>1. PICK c \in Saved \ call.got : /\ Became(tool, "set", [call EXCEPT !.got = @ \cup {c}])
                                       /\ world' = [world EXCEPT !.jar = @ \cup {c}]
    BY <1>4
  <2>2. /\ PageInv' /\ world'.doc = world.doc /\ world'.stored = world.stored
        /\ call'.got = call.got \cup {c} /\ world'.jar = world.jar \cup {c}
    BY <1>1, <2>1
  <2>3. /\ call.tool = tool /\ call.at = "set"
        /\ {"tool", "opts", "at", "out", "sub", "ret", "saw", "spot", "n", "got", "told",
            "early"} \subseteq DOMAIN call'
        /\ call'.tool = call.tool /\ call'.opts = call.opts /\ call'.at = "set"
           /\ call'.out = call.out
        /\ call'.ret = call.ret /\ call'.early = call.early /\ call'.told = call.told
    BY <2>1
  <2> QED  BY <2>2, <2>3
<1>5. CASE \E c \in Saved \ call.got :
              /\ Became(tool, "set", [call EXCEPT !.got = @ \cup {c}, !.told = "script"])
              /\ \E jar \in {world.jar,
                             world.jar \cup {"plain"}} : world' = [world EXCEPT !.jar = jar]
  <2>1. PICK c \in Saved \ call.got :
              /\ Became(tool, "set", [call EXCEPT !.got = @ \cup {c}, !.told = "script"])
              /\ \E jar \in {world.jar,
                             world.jar \cup {"plain"}} : world' = [world EXCEPT !.jar = jar]
    BY <1>5
  <2>2. /\ PageInv' /\ world'.doc = world.doc /\ world'.stored = world.stored
        /\ call'.got = call.got \cup {c} /\ call'.told = "script"
    BY <1>2, <2>1
  <2>3. /\ call.tool = tool /\ call.at = "set"
        /\ {"tool", "opts", "at", "out", "sub", "ret", "saw", "spot", "n", "got", "told",
            "early"} \subseteq DOMAIN call'
        /\ call'.tool = call.tool /\ call'.opts = call.opts /\ call'.at = "set"
           /\ call'.out = call.out
        /\ call'.ret = call.ret /\ call'.early = call.early
    BY <2>1
  <2> QED  BY <2>2, <2>3
<1> QED  BY <1>3, <1>4, <1>5 DEF SetCookies

\* and of setting them.
LEMMA CookiesSetInv == ASSUME BrowserInv, CookiesSet PROVE BrowserInv'
<1> USE DEF Claiming, AR, Claimed
<1>1. CASE Refuses("cookies_set")
  BY <1>1, PageRefuses
<1>2. CASE Pass("cookies_set", "begin", "set")
  BY <1>2, QuietPass
<1>3. CASE End("cookies_set", "set_all", "cookies_set")
  BY <1>3, OneScriptInv
<1>4. CASE SetCookies("cookies_set", "set_all")
  <2>1. CASE Throws("cookies_set", {"set"})
    BY <2>1, PageRefuses
  <2>2. CASE Pass("cookies_set", "set", "set_all")
    BY <2>2, QuietPass
  <2>3. CASE ~Throws("cookies_set", {"set"}) /\ ~Pass("cookies_set", "set", "set_all")
    <3>1. /\ PageInv' /\ call.tool = "cookies_set" /\ call.at = "set"
          /\ {"tool", "opts", "at", "out", "sub", "ret", "saw", "spot", "n", "got", "told",
              "early"} \subseteq DOMAIN call'
          /\ call'.tool = call.tool /\ call'.at = "set" /\ call'.out = call.out
             /\ call'.early = call.early
      BY <1>4, <2>3, SetCookieGoes
    <3> QED  BY <3>1, QuietPage DEF BrowserInv, PageCallInv
  <2> QED  BY <2>1, <2>2, <2>3
<1> QED  BY <1>1, <1>2, <1>3, <1>4 DEF CookiesSet

\* Every step of saving a login keeps it.
LEMMA AuthSaveInv == ASSUME BrowserInv, AuthSave PROVE BrowserInv'
<1> USE DEF Claiming, AR, Claimed
<1>1. CASE \/ Refuses("auth_save") \/ Throws("auth_save", {"begin"})
              \/ Throws("auth_save", {"storage", "url"})
           \/ Throws("auth_save", {"open"})
  BY <1>1, PageRefuses
<1>2. CASE Got("auth_save", "begin", "select")
  BY <1>2, QuietGot
<1>3. CASE Pass("auth_save", "storage", "url") \/ Pass("auth_save", "url", "open")
    \/ Pass("auth_save", "write", "rename")
  BY <1>3, QuietPass
<1>4. CASE \E got \in SUBSET call.got : UNCHANGED world /\ Became("auth_save", "select",
              [call EXCEPT !.got = got, !.at = IF got = {} THEN "end" ELSE "storage",
                           !.out = IF got = {} THEN "no_cookies" ELSE @])
  <2>1. PICK got \in SUBSET call.got : UNCHANGED world /\ Became("auth_save", "select",
              [call EXCEPT !.got = got, !.at = IF got = {} THEN "end" ELSE "storage",
                           !.out = IF got = {} THEN "no_cookies" ELSE @])
    BY <1>4
  <2>2. PageInv'
    BY <2>1, PageStays
  <2>3. QuietCall
    <3>1. CASE got = {}
      BY <2>1, <3>1 DEF QuietCall, BrowserInv, PageCallInv, Became, At
    <3>2. CASE got # {}
      BY <2>1, <3>2 DEF QuietCall, BrowserInv, PageCallInv, Became, At
    <3> QED  BY <3>1, <3>2
  <2> QED  BY <2>2, <2>3, QuietPage DEF QuietCall
<1>5. CASE Act("auth_save", "open", "write", {[world EXCEPT !.temp = TRUE]})
  <2>1. PageInv'
    BY <1>5 DEF Act, BrowserInv, PageInv
  <2> QED  BY <1>5, <2>1, QuietGoes DEF Act
<1>6. CASE Answers("auth_save", "rename", "saved")
    /\ world' = [world EXCEPT !.temp = FALSE, !.file = TRUE]
  <2>1. PageInv'
    BY <1>6 DEF BrowserInv, PageInv
  <2>2. QuietCall
    BY <1>6, PageAnswers DEF QuietCall, PageKeeps, BrowserInv, PageCallInv
  <2> QED  BY <2>1, <2>2, QuietPage DEF QuietCall
<1>7. CASE \E at \in {"write", "rename"} :
              Answers("auth_save", at, "error") /\ world' \in {world, [world EXCEPT !.temp = FALSE]}
  <2>1. PageInv'
    BY <1>7 DEF BrowserInv, PageInv
  <2>2. QuietCall
    BY <1>7, PageAnswers DEF QuietCall, PageKeeps, BrowserInv, PageCallInv
  <2> QED  BY <2>1, <2>2, QuietPage DEF QuietCall
<1> QED  BY <1>1, <1>2, <1>3, <1>4, <1>5, <1>6, <1>7 DEF AuthSave, WriteProfile

----------------------------------------------------------------------------
\* A claiming tool keeps what is said of the other tools by not being one of them.
LEMMA OnlyItsOwn ==
  ASSUME PageInv', PageCallInv', NEW t, call'.tool = t,
         t = "navigate" => LoadInv',
         t \in {"click", "long_press"} => PressInv',
         t \in {"type", "select_option"} => TypeInv',
         t = "page_wait" => WaitInv',
         t = "cookies_clear" => ClearInv',
         t = AR => RestoreInv'
  PROVE  BrowserInv'
<1>1. LoadInv' /\ PressInv' /\ TypeInv' /\ ClearInv' /\ RestoreInv'
  BY DEF LoadInv, PressInv, TypeInv, ClearInv, RestoreInv
<1>2. WaitInv'
  BY DEF WaitInv, PageCallInv
<1> QED  BY <1>1, <1>2 DEF BrowserInv

\* Every step of a click and of a long press keeps it.
LEMMA LongPressInv ==
  ASSUME BrowserInv, Click \/ LongPress
  PROVE  BrowserInv'
<1> USE DEF AR
<1>1. CASE Refuses("click") \/ Refuses("long_press")
  BY <1>1, PageRefuses
<1>2. CASE Pass("click", "begin", IF Opt("point") THEN "tap" ELSE "find")
    \/ Pass("long_press", "begin", "find")
  <2>1. /\ PageKeeps /\ call'.tool \in {"click", "long_press"} /\ call.at = "begin"
           /\ call.out = "none"
        /\ call'.out = "none" /\ call'.at = IF call.tool = "click" /\ Opt("point") THEN "tap"
           ELSE "find"
    BY <1>2, PageGo DEF Pass, PageKeeps, BrowserInv, PageCallInv
  <2>2. UNCHANGED world
    BY <1>2 DEF Pass
  <2>3. PageInv' /\ PageCallInv'
    BY <2>1, <2>2, PageStays DEF PageKeeps, BrowserInv, PageCallInv
  <2>4. PressInv'
    BY <2>1, <2>2 DEF PageKeeps, BrowserInv, PressInv, Opt
  <2> QED  BY <2>1, <2>3, <2>4, OnlyItsOwn
<1>3. ASSUME NEW tool \in {"click", "long_press"}, Center(tool) PROVE BrowserInv'
  <2>1. CASE Throws(tool, {"find"})
    BY <2>1, PageRefuses
  <2>2. CASE world.el = "absent" /\ End(tool, "find", "error")
    BY <2>2, PageGivesUp, PageAnswers DEF End, Unclaimed, Claimed, BrowserInv
  <2>3. CASE /\ world.el # "absent" /\ UNCHANGED world
             /\ Became(tool, "find", [call EXCEPT !.at = "tap",
                                !.spot = IF world.el = "shown" THEN world.spot ELSE 0])
    <3>1. /\ call.tool = tool /\ call.at = "find" /\ call.out = "none" /\ call'.at = "tap"
             /\ call'.out = "none"
          /\ call'.tool = tool /\ call'.opts = call.opts
          /\ call'.spot = IF world.el = "shown" THEN world.spot ELSE 0
      BY <2>3 DEF Became, At, BrowserInv, PageCallInv
    <3>2. PageInv' /\ PageCallInv'
      BY <2>3, PageStays DEF Became, At, BrowserInv, PageCallInv
    <3>3. PressInv'
      BY <2>3, <3>1 DEF BrowserInv, PressInv, PageInv, Opt
    <3> QED  BY <3>1, <3>2, <3>3, OnlyItsOwn
  <2> QED  BY <1>3, <2>1, <2>2, <2>3 DEF Center
<1>4. ASSUME NEW tool \in {"click", "long_press"}, NEW out \in {"clicked", "pressed"},
    PageScript(tool, "tap", out, Pressed)
      PROVE  BrowserInv'
  <2>1. /\ PageKeeps /\ call.tool = tool /\ call'.tool = tool /\ call.at = "tap" /\ call'.at = "end"
        /\ call'.out \in {out, "error"} /\ (call'.out = out => world' = Pressed)
           /\ world' \in {world, Pressed}
    BY <1>4, PageAnswers DEF PageScript, PageKeeps, BrowserInv
  <2>2. PageInv'
    <3>1. CASE world' = world
      BY <3>1, PageStays
    <3>2. CASE world' = Pressed
      BY <3>2 DEF Pressed, BrowserInv, PageInv
    <3> QED  BY <2>1, <3>1, <3>2
  <2>3. PageCallInv'
    BY <2>1 DEF PageKeeps, BrowserInv, PageCallInv
  <2>4. /\ world'.been = world.been /\ world'.turns = world.turns
        /\ call'.out = out /\ world.el = "shown" /\ call.spot = world.spot => "el" \in world'.hits
    BY <2>1 DEF Pressed, BrowserInv, PageInv
  <2>5. ~Opt("point") => /\ \E el \in world.been : el # "absent"
                         /\ world.turns > 0 \/ call.spot = 0
                            \/ (world.el = "shown" /\ call.spot = world.spot)
    BY <2>1 DEF BrowserInv, PressInv
  <2>6. PressInv'
    BY <2>1, <2>4, <2>5 DEF PressInv, PageKeeps, Opt
  <2> QED  BY <2>1, <2>2, <2>3, <2>6, OnlyItsOwn
<1> QED  BY <1>1, <1>2, <1>3, <1>4 DEF Click, LongPress

\* Every step of waiting for an element keeps it.
LEMMA PageWaitInv == ASSUME BrowserInv, WaitFor PROVE BrowserInv'
<1> USE DEF AR
<1>1. CASE Refuses("page_wait") \/ Throws("page_wait", {"poll"})
  BY <1>1, PageRefuses
<1>2. CASE Pass("page_wait", "begin", "poll")
  <2>1. PageKeeps /\ call'.tool = "page_wait" /\ call'.at = "poll" /\ call'.out = "none"
      /\ UNCHANGED world
    BY <1>2, PageGo DEF Pass, PageKeeps, BrowserInv, PageCallInv
  <2>2. PageInv' /\ PageCallInv'
    BY <2>1, PageStays DEF PageKeeps, BrowserInv, PageCallInv
  <2> QED  BY <2>1, <2>2, OnlyItsOwn DEF WaitInv
<1>3. CASE /\ world.el = "shown" \/ (world.el = "hidden" /\ ~Opt("visible"))
           /\ End("page_wait", "poll", "found")
  <2>1. PageKeeps /\ call'.tool = "page_wait" /\ call'.at = "end" /\ call'.out = "found"
      /\ UNCHANGED world
    BY <1>3, PageAnswers DEF End, PageKeeps, BrowserInv, PageCallInv
  <2>2. PageInv' /\ PageCallInv'
    BY <2>1, PageStays DEF PageKeeps, BrowserInv, PageCallInv
  <2>3. WaitInv'
    BY <1>3, <2>1 DEF WaitInv, PageKeeps, Opt, BrowserInv, PageInv
  <2> QED  BY <2>1, <2>2, <2>3, OnlyItsOwn
<1> QED  BY <1>1, <1>2, <1>3 DEF WaitFor

\* Sequences with the same elements are the same.
LEMMA SameElements ==
  ASSUME NEW s \in Seq(Nat), NEW t \in Seq(Nat), Len(s) = Len(t), \A i \in 1..Len(s) : s[i] = t[i]
  PROVE  s = t
OBVIOUS

\* Appending to what is joined is appending to the second.
LEMMA AppendAssociates == ASSUME NEW s \in Seq(Nat), NEW t \in Seq(Nat),
    NEW n \in Nat PROVE Append(s \o t, n) = s \o Append(t, n)
<1>1. Append(s \o t, n) \in Seq(Nat) /\ s \o Append(t, n) \in Seq(Nat)
  OBVIOUS
<1>2. Len(Append(s \o t, n)) = Len(s \o Append(t, n))
  OBVIOUS
<1>3. \A i \in 1..Len(Append(s \o t, n)) : Append(s \o t, n)[i] = (s \o Append(t, n))[i]
  OBVIOUS
<1> QED BY <1>1, <1>2, <1>3, SameElements

\* What is typed of a text, character by character;
LEMMA TypedNext == Append(<< 1 >>, 2) = <<1, 2>> /\ Append(<<>>, 1) = << 1 >>
<1>1. Append(<< 1 >>, 2) \in Seq(Nat) /\ <<1, 2>> \in Seq(Nat)
  OBVIOUS
<1>3. Len(Append(<< 1 >>, 2)) = 2 /\ Len(<<1, 2>>) = 2
  OBVIOUS
<1>4. \A i \in 1..2 : Append(<< 1 >>, 2)[i] = <<1, 2>>[i]
  OBVIOUS
<1>5. Append(<< 1 >>, 2) = <<1, 2>>
 BY <1>1, <1>3, <1>4, SameElements
<1> QED BY <1>5

\* one more of them comes after what was there.
LEMMA Appended ==
  ASSUME NEW was \in {<<>>, << 0 >>}, NEW n \in {0, 1}
  PROVE  Append(was \o Typed(n), n + 1) = was \o Typed(n + 1)
<1>1. was \in Seq(Nat) /\ n + 1 \in Nat
  <2>1. <<>> \in Seq(Nat) /\ << 0 >> \in Seq(Nat)
    OBVIOUS
  <2>2. was \in Seq(Nat)
    BY <2>1, Zenon
  <2>3. n + 1 \in Nat
    OBVIOUS
  <2> QED  BY <2>2, <2>3
<1>2. Typed(n) \in Seq(Nat) /\ Append(Typed(n), n + 1) = Typed(n + 1)
  <2>1. CASE n = 0
    <3>1. Typed(n) = <<>> /\ Typed(n + 1) = << 1 >> /\ n + 1 = 1
      BY <2>1 DEF Typed
    <3> QED  BY <3>1, TypedNext
  <2>2. CASE n = 1
    <3>1. Typed(n) = << 1 >> /\ Typed(n + 1) = <<1, 2>> /\ n + 1 = 2
      BY <2>2 DEF Typed
    <3> QED  BY <3>1, TypedNext
  <2> QED  BY <2>1, <2>2
<1> QED  BY <1>1, <1>2, AppendAssociates

\* The field, after a script has put something into it or not.
LEMMA FieldInv ==
  ASSUME BrowserInv, NEW v, world' = [world EXCEPT !.value = IF world.el = "absent" THEN @ ELSE v]
  PROVE  /\ PageInv' /\ world'.been = world.been /\ world'.was = world.was
         /\ "absent" \notin world.been => world'.value = v
BY DEF BrowserInv, PageInv

\* Every step of typing and of choosing an option keeps the invariant.
LEMMA TypeToolsInv == ASSUME BrowserInv, Type \/ SelectOption PROVE BrowserInv'
<1> USE DEF AR
<1>1. CASE Refuses("type") \/ Refuses("select_option")
  BY <1>1, PageRefuses
<1>a. <<>> \o <<1, 2>> = <<1, 2>> /\ \A was \in {<<>>, << 0 >>} : was \o <<>> = was
  OBVIOUS
<1>2. CASE call.tool = "type" /\ Runs("begin", IF Opt("delay") THEN "chars" ELSE "set", world)
  <2>1. CASE Act("type", "begin", IF Opt("delay") THEN "chars" ELSE "set", {world})
    <3>1. /\ PageKeeps /\ call'.tool = "type" /\ call.at = "begin" /\ call'.out = "none"
             /\ UNCHANGED world
          /\ call'.at = (IF Opt("delay") THEN "chars" ELSE "set") /\ call.tool = "type"
      BY <2>1, PageGo DEF Act, PageKeeps, BrowserInv, PageCallInv
    <3>2. PageInv' /\ PageCallInv'
      BY <3>1, PageStays DEF PageKeeps, BrowserInv, PageCallInv
    <3>3. TypeInv'
      BY <3>1 DEF PageKeeps, BrowserInv, TypeInv, Opt
    <3> QED  BY <3>1, <3>2, <3>3, OnlyItsOwn
  <2>2. CASE Answers("type", "begin", "error") /\ world' \in {world, world}
    BY <2>2, PageAnswers, PageGivesUp DEF Unclaimed, Claimed, BrowserInv
  <2> QED  BY <1>2, <2>1, <2>2 DEF Runs
<1>3. ASSUME NEW tool \in {"type", "select_option"}, NEW from \in {"begin", "set"},
    NEW out \in {"typed", "selected"},
             tool = "type" => from = "set",
             PageScript(tool, from, out, SetValue)
      PROVE  BrowserInv'
  <2>1. /\ PageKeeps /\ call.tool = tool /\ call'.tool = tool /\ call.at = from /\ call'.at = "end"
        /\ call'.out \in {out, "error"} /\ (call'.out = out => world' = SetValue)
           /\ world' \in {world, SetValue}
    BY <1>3, PageAnswers DEF PageScript, PageKeeps, BrowserInv
  <2>2. PageInv'
    <3>1. CASE world' = world
      BY <3>1, PageStays
    <3>2. CASE world' = SetValue
      BY <3>2, FieldInv DEF SetValue
    <3> QED  BY <2>1, <3>1, <3>2
  <2>3. PageCallInv'
    BY <2>1 DEF PageKeeps, BrowserInv, PageCallInv
  <2>4. ~Opt("delay")
    BY <1>3, <2>1 DEF BrowserInv, TypeInv
  <2>5. call'.out = out /\ "absent" \notin world'.been => world'.value = <<1, 2>>
    BY <2>1, FieldInv DEF SetValue
  <2>6. TypeInv'
    BY <1>a, <2>1, <2>4, <2>5 DEF BrowserInv, TypeInv, PageKeeps, Opt
  <2> QED  BY <2>1, <2>2, <2>3, <2>6, OnlyItsOwn
<1>4. CASE call.tool = "type" /\ call.n < 2 /\ Became("type", "chars", [call EXCEPT !.n = @ + 1])
    /\ world' = AppendChar
  <2>1. /\ call.at = "chars" /\ call.n \in {0, 1} /\ Opt("delay")
    BY <1>4 DEF Became, At, BrowserInv, TypeInv
  <2>2. /\ call'.tool = "type" /\ call'.opts = call.opts /\ call'.at = "chars" /\ call'.out = "none"
        /\ call'.n = call.n + 1
    BY <1>4, <2>1 DEF Became, At, BrowserInv, PageCallInv
  <2>3. PageCallInv'
    BY <1>4, <2>1 DEF Became, At, BrowserInv, PageCallInv
  <2>4. /\ PageInv' /\ world'.been = world.been /\ world'.was = world.was
        /\ "absent" \notin world.been => world'.value = Append(world.value, call.n + 1)
    <3> DEFINE v == Append(world.value, call.n + 1)
    <3>1. world' = [world EXCEPT !.value = IF world.el = "absent" THEN @ ELSE v]
      BY <1>4 DEF AppendChar, BrowserInv, PageInv
    <3> HIDE DEF v
    <3>2. /\ PageInv' /\ world'.been = world.been /\ world'.was = world.was
          /\ "absent" \notin world.been => world'.value = v
      BY <3>1, FieldInv
    <3> QED  BY <3>2 DEF v
  <2>5. "absent" \notin world.been => world.value = world.was \o Typed(call.n)
    BY <1>4, <2>1 DEF BrowserInv, TypeInv
  <2>6. "absent" \notin world'.been => world'.value = world'.was \o Typed(call'.n)
    BY <2>1, <2>2, <2>4, <2>5, Appended DEF BrowserInv, PageInv
  <2>7. TypeInv'
    <3>1. call'.n \in 0..2
      BY <2>1, <2>2
    <3> QED  BY <2>1, <2>2, <2>6, <3>1 DEF TypeInv, Opt
  <2> QED  BY <2>2, <2>3, <2>4, <2>7, OnlyItsOwn
<1>5. CASE call.tool = "type" /\ Answers("type", "chars", "error") /\ world' \in {world, AppendChar}
  <2>1. /\ PageKeeps /\ call'.tool = "type" /\ call.tool = "type" /\ call.at = "chars"
           /\ call'.at = "end"
        /\ call'.out = "error"
    BY <1>5, PageAnswers DEF PageKeeps, BrowserInv
  <2>2. PageInv'
    <3>1. CASE world' = world
      BY <3>1, PageStays
    <3>2. CASE world' = AppendChar
      <4> DEFINE v == Append(world.value, call.n + 1)
      <4>1. world' = [world EXCEPT !.value = IF world.el = "absent" THEN @ ELSE v]
        BY <3>2 DEF AppendChar, BrowserInv, PageInv
      <4> HIDE DEF v
      <4> QED  BY <4>1, FieldInv
    <3> QED  BY <1>5, <3>1, <3>2
  <2>3. PageCallInv'
    BY <2>1 DEF PageKeeps, BrowserInv, PageCallInv
  <2>4. TypeInv'
    BY <2>1 DEF BrowserInv, TypeInv, PageKeeps, Opt
  <2> QED  BY <2>1, <2>2, <2>3, <2>4, OnlyItsOwn
<1>6. CASE call.n = 2 /\ End("type", "chars", "typed")
  <2>1. /\ PageKeeps /\ call'.tool = "type" /\ call.tool = "type" /\ call.at = "chars"
           /\ call'.at = "end"
        /\ call'.out = "typed" /\ UNCHANGED world
    BY <1>6, PageAnswers DEF PageKeeps, BrowserInv, End
  <2>2. PageInv' /\ PageCallInv'
    BY <2>1, PageStays DEF PageKeeps, BrowserInv, PageCallInv
  <2>3. Opt("delay") /\ ("absent" \notin world.been => world.value = world.was \o <<1, 2>>)
    BY <1>6, <2>1 DEF BrowserInv, TypeInv, Typed
  <2>4. TypeInv'
    BY <1>6, <2>1, <2>3 DEF BrowserInv, TypeInv, PageKeeps, Opt
  <2> QED  BY <2>1, <2>2, <2>4, OnlyItsOwn
<1> QED  BY <1>1, <1>2, <1>3, <1>4, <1>5, <1>6 DEF Type, SelectOption

\* What is left of the cookies, whatever told of them.
LEMMA CookiesClearInv == ASSUME BrowserInv, CookiesClear PROVE BrowserInv'
<1> USE DEF AR
<1>1. CASE Refuses("cookies_clear") \/ Throws("cookies_clear", {"script"})
  BY <1>1, PageRefuses
<1>2. CASE \/ Pass("cookies_clear", "begin", "clear") \/ Pass("cookies_clear", "clear", "script")
  <2>1. PageKeeps /\ call'.tool = "cookies_clear" /\ call'.at \in {"clear", "script"}
      /\ call'.out = "none"
        /\ UNCHANGED world
    BY <1>2, PageGo DEF Pass, PageKeeps, BrowserInv, PageCallInv
  <2>2. PageInv' /\ PageCallInv'
    BY <2>1, PageStays DEF PageKeeps, BrowserInv, PageCallInv
  <2> QED  BY <2>1, <2>2, OnlyItsOwn DEF ClearInv
<1>3. CASE Got("cookies_clear", "clear", "delete")
  <2>1. /\ call'.tool = "cookies_clear" /\ call'.at = "delete" /\ call'.out = "none"
           /\ UNCHANGED world
        /\ \/ call'.told = "protocol" /\ call'.got = world.jar
           \/ call'.told = "script" /\ call'.got = world.jar \ {"http"}
    BY <1>3 DEF Got, Became, At, BrowserInv, PageCallInv
  <2>2. PageInv' /\ PageCallInv'
    BY <1>3, PageStays DEF Got, Became, At, BrowserInv, PageCallInv
  <2>3. ClearInv'
    BY <2>1 DEF ClearInv
  <2> QED  BY <2>1, <2>2, <2>3, OnlyItsOwn
<1>4. CASE \E c \in call.got : /\ call.told = "protocol"
                               /\ Became("cookies_clear", "delete", [call EXCEPT !.got = @ \ {c}])
                               /\ world' = [world EXCEPT !.jar = @ \ {c}]
  <2>1. PICK c \in call.got : /\ call.told = "protocol"
                              /\ Became("cookies_clear", "delete", [call EXCEPT !.got = @ \ {c}])
                              /\ world' = [world EXCEPT !.jar = @ \ {c}]
    BY <1>4
  <2>2. /\ call.tool = "cookies_clear" /\ call'.tool = "cookies_clear" /\ call.at = "delete"
           /\ call'.at = "delete"
        /\ call'.out = "none" /\ call'.told = "protocol" /\ call'.got = call.got \ {c}
    BY <2>1 DEF Became, At, BrowserInv, PageCallInv
  <2>3. PageCallInv'
    BY <2>1 DEF Became, At, BrowserInv, PageCallInv
  <2>4. PageInv' /\ world'.turns = world.turns /\ world'.jar = world.jar \ {c}
    BY <2>1 DEF BrowserInv, PageInv
  <2>5. ClearInv'
    BY <2>1, <2>2, <2>4 DEF BrowserInv, ClearInv
  <2> QED  BY <2>2, <2>3, <2>4, <2>5, OnlyItsOwn
<1>5. CASE /\ call.got # {} /\ Go("cookies_clear", "delete", "script")
           /\ world' \in {world} \cup {[world EXCEPT !.jar = @ \ {c}] :
                                        c \in IF call.told = "protocol" THEN call.got ELSE {}}
  <2>1. PageKeeps /\ call'.tool = "cookies_clear" /\ call'.at = "script" /\ call'.out = "none"
    BY <1>5, PageGo DEF PageKeeps, BrowserInv, PageCallInv
  <2>2. PageInv'
    <3>1. CASE world' = world
      BY <3>1, PageStays
    <3>2. ASSUME NEW c, world' = [world EXCEPT !.jar = @ \ {c}] PROVE PageInv'
      BY <3>2 DEF BrowserInv, PageInv
    <3> QED  BY <1>5, <3>1, <3>2
  <2>3. PageCallInv'
    BY <2>1 DEF PageKeeps, BrowserInv, PageCallInv
  <2> QED  BY <2>1, <2>2, <2>3, OnlyItsOwn DEF ClearInv
<1>6. CASE call.got = {} /\ End("cookies_clear", "delete", "cleared")
  <2>1. PageKeeps /\ call.tool = "cookies_clear" /\ call'.tool = "cookies_clear"
      /\ call.at = "delete"
        /\ call'.at = "end" /\ call'.out = "cleared" /\ UNCHANGED world
    BY <1>6, PageAnswers DEF End, PageKeeps, BrowserInv, PageCallInv
  <2>2. PageInv' /\ PageCallInv'
    BY <2>1, PageStays DEF PageKeeps, BrowserInv, PageCallInv
  <2>3. ClearInv'
    BY <1>6, <2>1 DEF PageKeeps, BrowserInv, ClearInv
  <2> QED  BY <2>1, <2>2, <2>3, OnlyItsOwn
<1>7. CASE /\ Became("cookies_clear", "script",
                     [call EXCEPT !.at = "end", !.out = "cleared", !.told = "script"])
           /\ world' = [world EXCEPT !.jar = @ \ {"plain"}]
  <2>1. /\ call'.tool = "cookies_clear" /\ call'.at = "end" /\ call'.out = "cleared"
           /\ call'.told = "script"
    BY <1>7 DEF Became, At, BrowserInv, PageCallInv
  <2>2. PageCallInv'
    BY <1>7 DEF Became, At, BrowserInv, PageCallInv
  <2>3. PageInv' /\ world'.jar \subseteq {"deep", "http"}
    BY <1>7 DEF BrowserInv, PageInv, Cookies
  <2>4. ClearInv'
    BY <2>1, <2>3 DEF ClearInv
  <2> QED  BY <2>1, <2>2, <2>3, <2>4, OnlyItsOwn
<1> QED  BY <1>1, <1>2, <1>3, <1>4, <1>5, <1>6, <1>7 DEF CookiesClear, ClearCookies

----------------------------------------------------------------------------
\* The page on the way to where a tool has sent it.
LEMMA OnTheWay ==
  ASSUME BrowserInv, call.tool \in {"navigate", AR}, Navigate
  PROVE  BrowserInv'
<1> USE DEF AR
<1>1. ASSUME NEW from, NEW to, Sub(from, to),
             \/ UNCHANGED world
             \/ world' = [world EXCEPT !.asked = TRUE]
      PROVE  BrowserInv'
  <2>1. /\ call.at = "navigating" /\ call'.at = "navigating" /\ call'.out = "none"
           /\ call'.tool = call.tool
        /\ call'.opts = call.opts /\ call'.ret = call.ret /\ call'.got = call.got
           /\ call'.told = call.told
        /\ call'.early = call.early
    BY <1>1 DEF Sub, BrowserInv, PageCallInv
  <2>2. PageCallInv'
    BY <1>1 DEF Sub, BrowserInv, PageCallInv
  <2>3. PageInv' /\ world'.loaded = world.loaded /\ world'.jar = world.jar
      /\ world'.stored = world.stored
    BY <1>1 DEF BrowserInv, PageInv
  <2>4. LoadInv'
    BY <2>1, <2>3 DEF BrowserInv, LoadInv
  <2>5. RestoreInv'
    BY <2>1, <2>3 DEF BrowserInv, RestoreInv, CookiesAreSet, StorageIsSet
  <2> QED  BY <2>1, <2>2, <2>3, <2>4, <2>5, OnlyItsOwn
<1>2. ASSUME call.at = "navigating", call' = [call EXCEPT !.at = "end", !.out = "error"],
             \/ UNCHANGED world
             \/ world' = [world EXCEPT !.asked = TRUE]
      PROVE  BrowserInv'
  <2>1. /\ call'.at = "end" /\ call'.out = "error" /\ call'.tool = call.tool
        /\ call'.got = call.got /\ call'.told = call.told
    BY <1>2 DEF BrowserInv, PageCallInv
  <2>2. PageCallInv'
    BY <1>2 DEF BrowserInv, PageCallInv
  <2>3. PageInv' /\ world'.loaded = world.loaded /\ world'.jar = world.jar
      /\ world'.stored = world.stored
    BY <1>2 DEF BrowserInv, PageInv
  <2>4. LoadInv'
    BY <2>1 DEF LoadInv
  <2>5. RestoreInv'
    BY <2>1, <2>3 DEF BrowserInv, RestoreInv, CookiesAreSet, StorageIsSet
  <2> QED  BY <2>1, <2>2, <2>3, <2>4, <2>5, OnlyItsOwn
<1>3. ASSUME call.at = "navigating", Enough(world.state), UNCHANGED world,
             call' = [call EXCEPT !.at = call.ret, !.sub = "enable", !.saw = world.doc,
                                  !.early = @ \/ world.doc = "first"],
             call.ret \in {"done", "local"}
      PROVE  BrowserInv'
  <2> DEFINE E == call.early \/ world.doc = "first"
  <2>1. call' = [call EXCEPT !.at = call.ret, !.sub = "enable", !.saw = world.doc, !.early = E]
    BY <1>3, Zenon
  <2>2. E \in BOOLEAN /\ (E = FALSE => call.early = FALSE /\ world.doc = "asked")
    BY DEF BrowserInv, PageInv, PageCallInv
  <2> HIDE DEF E
  <2>3. /\ call'.at = call.ret /\ call'.out = "none" /\ call'.tool = call.tool
           /\ call'.opts = call.opts
        /\ call'.ret = call.ret /\ call'.got = call.got /\ call'.told = call.told
        /\ call'.early = E /\ call'.saw = world.doc
    BY <1>3, <2>1 DEF BrowserInv, PageCallInv
  <2>4. PageCallInv'
    BY <1>3, <2>1, <2>2 DEF BrowserInv, PageCallInv
  <2>5. PageInv'
    BY <1>3, PageStays
  <2>6. call.tool = "navigate" => LoadInv'
    <3>1. SUFFICES ASSUME call.tool = "navigate" PROVE LoadInv'
      OBVIOUS
    <3>2. call.ret = "done"
      BY <1>3, <3>1 DEF BrowserInv, LoadInv
    <3>3. <<world.doc, IF Opt("dom") THEN "interactive" ELSE "complete">> \in world.loaded
      BY <1>3, <3>2 DEF Enough, BrowserInv, PageInv
    <3> QED  BY <1>3, <2>3, <3>2, <3>3 DEF LoadInv, Opt
  <2>7. call.tool = AR => RestoreInv'
    <3>1. SUFFICES ASSUME call.tool = AR PROVE RestoreInv'
      OBVIOUS
    <3>2. call.told = "protocol" => call.got \subseteq world.jar
      BY <3>1 DEF BrowserInv, RestoreInv
    <3>3. call.ret = "done" => Saved \subseteq call.got
        /\ (call.early = FALSE => "asked" \in world.stored)
      BY <1>3, <3>1 DEF BrowserInv, RestoreInv, CookiesAreSet, StorageIsSet
    <3> QED  BY <1>3, <2>2, <2>3, <3>2, <3>3 DEF RestoreInv, CookiesAreSet, StorageIsSet
  <2> QED  BY <2>3, <2>4, <2>5, <2>6, <2>7, OnlyItsOwn
<1>4. call.at = "navigating" => call.ret \in {"done", "local"}
  BY DEF BrowserInv, LoadInv, RestoreInv
<1>5. CASE NavigateRead
  BY <1>2, <1>3, <1>4, <1>5 DEF NavigateRead
<1> QED  BY <1>1, <1>2, <1>5 DEF Navigate

\* Every step of navigating keeps it.
LEMMA NavigateToolInv == ASSUME BrowserInv, NavigateTool PROVE BrowserInv'
<1> USE DEF AR
<1>1. CASE Refuses("navigate") \/ Throws("navigate", {"begin"})
  BY <1>1, PageRefuses
<1>2. CASE Became("navigate", "begin", [call EXCEPT !.at = "navigating", !.ret = "done"])
    /\ UNCHANGED world
  <2>1. call'.tool = "navigate" /\ call'.at = "navigating" /\ call'.ret = "done"
      /\ call'.out = "none"
    BY <1>2 DEF Became, At, BrowserInv, PageCallInv
  <2>2. PageInv' /\ PageCallInv'
    BY <1>2, PageStays DEF Became, At, BrowserInv, PageCallInv
  <2> QED  BY <2>1, <2>2, OnlyItsOwn DEF LoadInv
<1>3. CASE call.tool = "navigate" /\ Navigate
  BY <1>3, OnTheWay
<1>4. CASE End("navigate", "done", "loaded")
  <2>1. PageKeeps /\ call.tool = "navigate" /\ call'.tool = "navigate" /\ call.at = "done"
      /\ call'.at = "end"
        /\ call'.out = "loaded" /\ UNCHANGED world
    BY <1>4, PageAnswers DEF End, PageKeeps, BrowserInv, PageCallInv
  <2>2. PageInv' /\ PageCallInv'
    BY <2>1, PageStays DEF PageKeeps, BrowserInv, PageCallInv
  <2>3. LoadInv'
    BY <2>1 DEF PageKeeps, BrowserInv, LoadInv, Opt
  <2> QED  BY <2>1, <2>2, <2>3, OnlyItsOwn
<1> QED  BY <1>1, <1>2, <1>3, <1>4 DEF NavigateTool

\* Every step of restoring a login keeps it.
LEMMA AuthRestoreInv == ASSUME BrowserInv, AuthRestore PROVE BrowserInv'
<1> USE DEF AR
<1>1. CASE Refuses(AR) \/ Throws(AR, {"read"})
  BY <1>1, PageRefuses
<1>2. ASSUME NEW from, NEW to, Pass(AR, from, to),
             \/ from = "begin" /\ to = "read"
             \/ from = "local" /\ to = "set"
             \/ from = "set" /\ to = "storage" /\ call.got = Saved
      PROVE  BrowserInv'
  <2>1. PageKeeps /\ call.tool = AR /\ call'.tool = AR /\ call.at = from /\ call'.at = to
      /\ call'.out = "none"
        /\ UNCHANGED world
    BY <1>2, PageGo DEF Pass, PageKeeps, BrowserInv, PageCallInv
  <2>2. PageInv' /\ PageCallInv'
    BY <1>2, <2>1, PageStays DEF PageKeeps, BrowserInv, PageCallInv
  <2>3. RestoreInv'
    BY <1>2, <2>1 DEF PageKeeps, BrowserInv, PageCallInv, RestoreInv, CookiesAreSet, StorageIsSet
  <2> QED  BY <2>1, <2>2, <2>3, OnlyItsOwn
<1>3. CASE /\ world.file /\ UNCHANGED world
           /\ Became(AR, "read", [call EXCEPT !.at = "navigating", !.ret = "local",
                                  !.told = "protocol"])
  <2>1. /\ call.tool = AR /\ call'.tool = AR /\ call.at = "read" /\ call'.at = "navigating"
           /\ call'.ret = "local"
        /\ call'.out = "none" /\ call'.got = call.got
    BY <1>3 DEF Became, At, BrowserInv, PageCallInv
  <2>2. PageInv' /\ PageCallInv'
    BY <1>3, PageStays DEF Became, At, BrowserInv, PageCallInv
  <2>3. call.got = {}
    BY <2>1 DEF BrowserInv, RestoreInv
  <2>4. RestoreInv'
    BY <2>1, <2>3 DEF RestoreInv, CookiesAreSet, StorageIsSet
  <2> QED  BY <2>1, <2>2, <2>4, OnlyItsOwn
<1>4. CASE call.tool = AR /\ Navigate
  BY <1>4, OnTheWay
<1>5. CASE SetCookies(AR, "storage")
  <2>1. CASE Throws(AR, {"set"})
    BY <2>1, PageRefuses
  <2>2. CASE call.got = Saved /\ Pass(AR, "set", "storage")
    BY <1>2, <2>2
  <2>3. CASE ~Throws(AR, {"set"}) /\ ~(call.got = Saved /\ Pass(AR, "set", "storage"))
    <3>1. /\ PageInv' /\ call.tool = AR /\ call.at = "set"
          /\ {"tool", "opts", "at", "out", "sub", "ret", "saw", "spot", "n", "got", "told",
              "early"} \subseteq DOMAIN call'
          /\ call'.tool = call.tool /\ call'.opts = call.opts /\ call'.at = "set"
             /\ call'.out = call.out
          /\ call'.ret = call.ret /\ call'.early = call.early
          /\ world'.doc = world.doc /\ world'.stored = world.stored
          /\ call.got \subseteq call'.got
          /\ call'.told = "protocol" => call.told = "protocol" /\ \E c \in Saved :
                 call'.got = call.got \cup {c} /\ world'.jar = world.jar \cup {c}
      BY <1>5, <2>3, SetCookieGoes
    <3>2. call.out = "none" /\ call.early \in BOOLEAN
      BY <3>1 DEF BrowserInv, PageCallInv
    <3>3. PageCallInv'
      BY <3>1, <3>2 DEF PageCallInv
    <3>4. call'.told = "protocol" => call'.got \subseteq world'.jar
      BY <3>1 DEF BrowserInv, RestoreInv
    <3>5. call.early = FALSE => world.doc = "asked"
      BY <3>1 DEF BrowserInv, RestoreInv
    <3>6. RestoreInv'
      BY <3>1, <3>2, <3>4, <3>5 DEF RestoreInv, CookiesAreSet, StorageIsSet
    <3> QED  BY <3>1, <3>3, <3>6, OnlyItsOwn
  <2> QED  BY <2>1, <2>2, <2>3
<1>6. CASE call.tool = AR /\ Runs("storage", "reload", Stores)
  <2>a. PageInv' /\ world'.jar = world.jar /\ world'.doc = world.doc
      /\ world'.stored \in {world.stored, world.stored \cup {world.doc}}
    <3>1. CASE world' = world
      BY <3>1, PageStays
    <3>2. CASE world' = Stores
      BY <3>2 DEF Stores, BrowserInv, PageInv
    <3> QED  BY <1>6, <3>1, <3>2 DEF Runs, Act
  <2>b. /\ call.told = "protocol" => call.got \subseteq world.jar
        /\ call.at = "storage" => Saved \subseteq call.got
           /\ (call.early = FALSE => world.doc = "asked")
    BY <1>6 DEF BrowserInv, RestoreInv, CookiesAreSet
  <2>1. CASE Act(AR, "storage", "reload", {Stores})
    <3>1. PageKeeps /\ call.at = "storage" /\ call'.tool = AR /\ call'.at = "reload"
        /\ call'.out = "none"
      BY <2>1, PageGo DEF Act, PageKeeps, BrowserInv, PageCallInv
    <3>2. PageCallInv'
      BY <3>1 DEF PageKeeps, BrowserInv, PageCallInv
    <3>3. world'.stored = world.stored \cup {world.doc}
      BY <2>1 DEF Act, Stores, BrowserInv, PageInv
    <3>4. RestoreInv'
      BY <2>a, <2>b, <3>1, <3>3 DEF PageKeeps, RestoreInv, CookiesAreSet, StorageIsSet
    <3> QED  BY <2>a, <3>1, <3>2, <3>4, OnlyItsOwn
  <2>2. CASE Answers(AR, "storage", "error")
    <3>1. PageKeeps /\ call'.tool = AR /\ call'.at = "end" /\ call'.out = "error"
      BY <2>2, PageAnswers DEF PageKeeps, BrowserInv, PageCallInv
    <3>2. PageCallInv'
      BY <3>1 DEF PageKeeps, BrowserInv, PageCallInv
    <3>4. RestoreInv'
      BY <2>a, <2>b, <3>1 DEF PageKeeps, RestoreInv, CookiesAreSet, StorageIsSet
    <3> QED  BY <2>a, <3>1, <3>2, <3>4, OnlyItsOwn
  <2> QED  BY <1>6, <2>1, <2>2 DEF Runs
<1>7. CASE UNCHANGED world
    /\ Became(AR, "reload", [call EXCEPT !.at = "navigating", !.ret = "done"])
  <2>1. /\ call.tool = AR /\ call'.tool = AR /\ call.at = "reload" /\ call'.at = "navigating"
           /\ call'.ret = "done"
        /\ call'.out = "none" /\ call'.got = call.got /\ call'.told = call.told
           /\ call'.early = call.early
    BY <1>7 DEF Became, At, BrowserInv, PageCallInv
  <2>2. PageInv' /\ PageCallInv'
    BY <1>7, PageStays DEF Became, At, BrowserInv, PageCallInv
  <2>3. RestoreInv'
    BY <1>7, <2>1 DEF BrowserInv, RestoreInv, CookiesAreSet, StorageIsSet
  <2> QED  BY <2>1, <2>2, <2>3, OnlyItsOwn
<1>8. CASE End(AR, "done", "restored")
  <2>1. PageKeeps /\ call.tool = AR /\ call'.tool = AR /\ call.at = "done" /\ call'.at = "end"
        /\ call'.out = "restored" /\ UNCHANGED world
    BY <1>8, PageAnswers DEF End, PageKeeps, BrowserInv, PageCallInv
  <2>2. PageInv' /\ PageCallInv'
    BY <2>1, PageStays DEF PageKeeps, BrowserInv, PageCallInv
  <2>3. RestoreInv'
    BY <2>1 DEF PageKeeps, BrowserInv, RestoreInv, CookiesAreSet, StorageIsSet
  <2> QED  BY <2>1, <2>2, <2>3, OnlyItsOwn
<1> QED  BY <1>1, <1>2, <1>3, <1>4, <1>5, <1>6, <1>7, <1>8 DEF AuthRestore

\* Every step of the tools on a page keeps it.
LEMMA BrowserStepInv == ASSUME BrowserInv, BrowserNext PROVE BrowserInv'
BY PageTurnsInv, NavigateToolInv, LongPressInv, TypeToolsInv, PageWaitInv, ScriptToolsInv,
    ScreenshotInv,
   CookiesGetInv, CookiesSetInv, CookiesClearInv, AuthSaveInv, AuthRestoreInv DEF BrowserNext,
       BrowserStep

----------------------------------------------------------------------------
(* Evidence. *)

\* The fields of a call that gathers evidence and of what it gathers.
EvidenceFields ==
  /\ {"tool", "opts", "at", "out", "tries", "kept", "gave", "got", "pick", "sect", "left",
      "was"} \subseteq DOMAIN call
  /\ {"bar", "files", "editor", "focus", "board", "pasting", "asks", "links", "moved", "opened",
      "reports", "gone", "lines", "works", "touched", "changes"} \subseteq DOMAIN world
  /\ DOMAIN call.sect = Sections
  /\ world.reports \subseteq {1, 2} /\ world.moved \in BOOLEAN
  /\ call.at # "end" => call.out = "none"

\* The status bar is overridden only for a picture that wants it, until it is given back.
PictureInv ==
  call.tool = SN =>
    /\ world.bar = TRUE => Opt("black")
    /\ world.bar = TRUE \/ world.bar = FALSE
    /\ call.at = "clear" => Opt("black")
    /\ call.at = "unlink" \/ call.out = "ok" => call.kept = TRUE \/ world.bar = FALSE

\* The clipboard is given back before the link is looked for, which is the one that is tapped.
NotesInv ==
  call.tool = NU =>
    /\ call.gave = TRUE => world.board = "user" /\ call.at \in {"link", "tap", "end"}
    /\ call.at # "end" => world.opened = {}
    /\ call.gave \in BOOLEAN
    /\ call.at = "tap" => call.pick = IF "exact" \in call.got THEN "exact" ELSE "host"
    /\ call.out = "ok" /\ world.moved = FALSE =>
         world.opened = IF "exact" \in call.got THEN {"exact"} ELSE {"host"}

\* The sections of a bundle.
BundleInv ==
  call.tool \in {"debug_bundle", TF} =>
    /\ call.at # "stat" /\ call.gave \in BOOLEAN
    /\ call.tool = TF /\ call.at = "end" => call.out = call.was
    /\ \/ \A s \in Sections : call.sect[s] = "none" /\ call.at # "bundle"
       \/ /\ \A s \in Sections : call.sect[s] = "skipped" <=> s \notin Included
          /\ \A s \in Sections : call.sect[s] # "none"
          /\ \A s \in {"shot", "axtree"} : call.sect[s] = "data" => s \in world.files
          /\ call.sect["shot"] = "stat" => "shot" \in world.files
          /\ call.at \in {"bundle", "end"}
          /\ call.at = "end" => \A s \in Sections : Settled(call.sect[s])
          /\ call.sect["crashes"] \in {"skipped", "go", "stat", "data"}
          /\ call.sect["crashes"] = "stat" => world.reports \ world.gone \subseteq call.got
             \cup call.left
          /\ call.sect["crashes"] = "data"
             /\ call.gave = FALSE => world.reports \ world.gone \subseteq call.got

\* The reports that are listed.
ReportsInv ==
  call.tool = CR =>
    /\ call.got \subseteq {1, 2} /\ (call.at = "begin" => call.got = {})
    /\ call.at = "stat" => world.reports \ world.gone \subseteq call.got
    /\ call.out = "ok" => \A r \in world.reports \ world.gone :
                            r \in call.got \/ (Opt("one") /\ \E q \in call.got : q > r)

\* The log that is read, and the probes.
LogInv ==
  call.tool = OU /\ call.out = "silence" => call.gave = FALSE /\ call.tries = world.lines

\* A diagnosis calls a device unusable when nothing works, and only then.
ProbeInv ==
  call.tool = DI =>
    /\ call.at = "probe" => call.left \subseteq {"simctl", "hid"}
       /\ call.got = ({"simctl", "hid"} \ call.left) \cap world.works
    /\ call.at = "begin" => call.got = {}
    /\ call.at = "end" => (call.out = "unusable" <=> {"simctl", "hid"} \cap world.works = {})

\* The inductive invariant of the tools that gather evidence.
EvidenceInv == EvidenceFields /\ PictureInv /\ NotesInv /\ BundleInv /\ ReportsInv /\ LogInv
    /\ ProbeInv

\* It says that the evidence is there, and what was said to be undone is.
LEMMA EvidenceInvTrue == EvidenceInv => EvidenceIsTrue /\ EvidenceIsUndone
<1> SUFFICES ASSUME EvidenceInv, Ended PROVE EvidenceIsTrue /\ EvidenceIsUndone
  BY DEF EvidenceIsTrue, EvidenceIsUndone
<1> USE DEF EvidenceInv, EvidenceFields, Ended
<1>1. call.tool = NU /\ call.out = "ok" /\ ~world.moved =>
         world.opened = IF "exact" \in call.got THEN {"exact"} ELSE {"host"}
  BY DEF NotesInv
<1>2. call.tool \in {"debug_bundle", TF} /\ (\E s \in Sections : call.sect[s] # "none") =>
         /\ \A s \in Sections : call.sect[s] = "skipped" <=> s \notin Included
         /\ \A s \in {"shot", "axtree"} : call.sect[s] = "data" => s \in world.files
         /\ "crashes" \in Included /\ ~call.gave => world.reports \ world.gone \subseteq call.got
  BY DEF BundleInv, Sections, Settled
<1>3. call.tool = TF => call.out = call.was
  BY DEF BundleInv
<1>4. call.tool = CR /\ call.out = "ok" =>
         \A r \in world.reports \ world.gone : r \in call.got
             \/ (Opt("one") /\ \E q \in call.got : q > r)
  BY DEF ReportsInv
<1>5. call.tool = OU /\ call.out = "silence" => ~call.gave /\ call.tries = world.lines
  BY DEF LogInv
<1>6. call.tool = DI => (call.out = "unusable" <=> {"simctl", "hid"} \cap world.works = {})
  BY DEF ProbeInv
<1>7. call.tool = SN /\ call.out = "ok" /\ ~call.kept => ~world.bar
  BY DEF PictureInv
<1>8. call.tool = NU /\ call.gave => world.board = "user"
  BY DEF NotesInv
<1> QED  BY <1>1, <1>2, <1>3, <1>4, <1>5, <1>6, <1>7, <1>8 DEF EvidenceIsTrue, EvidenceIsUndone

\* The invariant holds at the start.
LEMMA EvidenceInitInv == EvidenceInit => EvidenceInv
<1> SUFFICES ASSUME EvidenceInit PROVE EvidenceInv
  OBVIOUS
<1> DEFINE locals == [tries |-> 0, kept |-> FALSE, gave |-> FALSE, got |-> {},
                      pick |-> "none", sect |-> [s \in Sections |-> "none"], left |-> {},
                          was |-> "none"]
<1>0. call \in ToolCalls(EvidenceOptions, locals)
  BY DEF EvidenceInit
<1>1. PICK t \in DOMAIN EvidenceOptions : \E o \in SUBSET EvidenceOptions[t] : call = NewCall(t, o,
    locals)
  BY <1>0 DEF ToolCalls
<1>2. PICK o \in SUBSET EvidenceOptions[t] : call = NewCall(t, o, locals)
  BY <1>1
<1>3. call = [tool |-> t, opts |-> o, at |-> "begin", out |-> "none", tries |-> 0, kept |-> FALSE,
              gave |-> FALSE, got |-> {},
              pick |-> "none", sect |-> [s \in Sections |-> "none"], left |-> {}, was |-> "none"]
  BY <1>2 DEF NewCall
<1> HIDE DEF locals
<1>4. PICK links \in SUBSET {"host", "other"}, reports \in SUBSET Reports,
    works \in SUBSET {"simctl", "input", "hid"} :
       world = [bar |-> FALSE, files |-> {}, editor |-> FALSE, focus |-> FALSE, board |-> "user",
                   pasting |-> FALSE, asks |-> FALSE, links |-> links, moved |-> FALSE,
                       opened |-> {},
                   reports |-> reports, gone |-> {}, lines |-> 0, works |-> works,
                       touched |-> FALSE,
                   changes |-> 0]
  BY DEF EvidenceInit
<1>5. /\ {"tool", "opts", "at", "out", "tries", "kept", "gave", "got", "pick", "sect", "left",
          "was"} \subseteq DOMAIN call
      /\ call.at = "begin" /\ call.out = "none" /\ call.kept = FALSE /\ call.gave = FALSE
         /\ call.got = {}
      /\ call.sect = [s \in Sections |-> "none"] /\ call.left = {}
  BY <1>3
<1>6. /\ {"bar", "files", "editor", "focus", "board", "pasting", "asks", "links", "moved", "opened",
          "reports", "gone", "lines", "works", "touched", "changes"} \subseteq DOMAIN world
      /\ world.bar = FALSE /\ world.board = "user" /\ world.opened = {} /\ world.moved = FALSE
      /\ world.reports = reports
  BY <1>4
<1>7. world.reports \subseteq {1, 2}
  BY <1>6 DEF Reports
<1> QED  BY <1>5, <1>6, <1>7 DEF EvidenceInv, EvidenceFields, PictureInv, NotesInv, BundleInv,
    ReportsInv, LogInv, ProbeInv

\* Every step of a native screenshot keeps it,
LEMMA PictureStep ==
  ASSUME EvidenceInv, AppScreenshotNative PROVE EvidenceInv'
<1> USE DEF Became, At, Go, Pass, Answers, End, Throws, Act, SN, NU, CR, OU, DI, TF, Opt, Bar, File
<1>0. call.tool = SN /\ call'.tool = SN
  BY DEF AppScreenshotNative, ScreenshotMask, CaptureWithRetry, ScreenshotRead, ScreenshotUnlink,
      EvidenceInv, EvidenceFields
<1>1. EvidenceFields' /\ PictureInv'
  <2> USE <1>0 DEF EvidenceInv, EvidenceFields, PictureInv
  <2>1. CASE ScreenshotMask
    BY <2>1 DEF ScreenshotMask
  <2>2. CASE CaptureWithRetry
    BY <2>2 DEF CaptureWithRetry
  <2>3. CASE ScreenshotRead
    BY <2>3 DEF ScreenshotRead
  <2>4. CASE ScreenshotUnlink
    BY <2>4 DEF ScreenshotUnlink
  <2> QED  BY <2>1, <2>2, <2>3, <2>4 DEF AppScreenshotNative
<1> QED  BY <1>0, <1>1 DEF EvidenceInv, NotesInv, BundleInv, ReportsInv, LogInv, ProbeInv

\* of pasting a link into Notes and tapping it,
LEMMA NotesStep ==
  ASSUME EvidenceInv, AppNotesPasteAndTapUrl PROVE EvidenceInv'
<1> USE DEF Became, At, Go, Pass, Answers, End, Throws, Act, SN, NU, CR, OU, DI, TF, Opt
<1>0. call.tool = NU /\ call'.tool = NU
  BY DEF AppNotesPasteAndTapUrl, NotesLaunch, WaitForEditor, NotesFocus, SafeReadPasteboard,
      WritePasteboard, NotesChord,
         PollForPermissionDialog, TryPressPermissionButton, NotesReturn, WaitForDetectedLink,
             NotesTap, EvidenceInv, EvidenceFields
<1>1. EvidenceFields' /\ NotesInv'
  <2> USE <1>0 DEF EvidenceInv, EvidenceFields, NotesInv
  <2>1. CASE NotesLaunch \/ WaitForEditor \/ NotesFocus
    BY <2>1 DEF NotesLaunch, WaitForEditor, NotesFocus
  <2>2. CASE SafeReadPasteboard \/ WritePasteboard \/ NotesChord
    BY <2>2 DEF SafeReadPasteboard, WritePasteboard, NotesChord
  <2>3. CASE PollForPermissionDialog \/ TryPressPermissionButton
    BY <2>3 DEF PollForPermissionDialog, TryPressPermissionButton
  <2>4. CASE NotesReturn
    BY <2>4 DEF NotesReturn
  <2>5. CASE WaitForDetectedLink
    BY <2>5 DEF WaitForDetectedLink
  <2>6. CASE NotesTap
    <3>1. CASE world.moved = FALSE /\ Answers(NU, "tap", "ok")
        /\ world' = [world EXCEPT !.opened = @ \cup {call.pick}]
      BY <3>1
    <3>2. ASSUME NEW l, world.moved = TRUE, Answers(NU, "tap", "ok"),
        world' = [world EXCEPT !.opened = @ \cup {l}]
          PROVE  EvidenceFields' /\ NotesInv'
      BY <3>2
    <3>3. CASE End(NU, "tap", "error")
      BY <3>3
    <3> QED  BY <2>6, <3>1, <3>2, <3>3 DEF NotesTap
  <2> QED  BY <2>1, <2>2, <2>3, <2>4, <2>5, <2>6 DEF AppNotesPasteAndTapUrl
<1> QED  BY <1>0, <1>1 DEF EvidenceInv, PictureInv, BundleInv, ReportsInv, LogInv, ProbeInv

\* of listing crash reports,
LEMMA ReportsStep ==
  ASSUME EvidenceInv, AppCrashReports PROVE EvidenceInv'
<1> USE DEF Became, At, Go, Pass, Answers, End, Throws, Act, SN, NU, CR, OU, DI, TF, Opt
<1>0. call.tool = CR /\ call'.tool = CR
  BY DEF AppCrashReports, CrashReportsList, CrashReportsRead, EvidenceInv, EvidenceFields
<1>1. EvidenceFields' /\ ReportsInv'
  <2> USE <1>0 DEF EvidenceInv, EvidenceFields, ReportsInv
  <2>1. CASE CrashReportsList
    BY <2>1 DEF CrashReportsList
  <2>2. CASE CrashReportsRead
    BY <2>2 DEF CrashReportsRead
  <2>3. CASE Throws(CR, {"begin"})
    BY <2>3
  <2> QED  BY <2>1, <2>2, <2>3 DEF AppCrashReports
<1> QED  BY <1>0, <1>1 DEF EvidenceInv, PictureInv, NotesInv, BundleInv, LogInv, ProbeInv

\* What a read of the log finds.
LogRead(new) == [call EXCEPT !.tries = world.lines, !.gave = new]

\* of opening a URL and reading logs,
LEMMA LogStep ==
  ASSUME EvidenceInv, AppOpenUrl \/ AppLogs PROVE EvidenceInv'
<1> USE DEF Became, At, Go, Pass, Answers, End, Throws, Act, SN, NU, CR, OU, DI, TF, Opt
<1>0. (call.tool = OU \/ call.tool = "app_logs") /\ call'.tool = call.tool
  BY DEF AppOpenUrl, CaptureLogsWindow, AppLogs, EvidenceInv, EvidenceFields
<1>1. EvidenceFields' /\ LogInv'
  <2> USE <1>0 DEF EvidenceInv, EvidenceFields, LogInv
  <2>1. CASE CaptureLogsWindow
    <3>1. CASE world.lines > call.tries
      <4>1. (world.lines > call.tries) = TRUE
        BY <3>1
      <4> QED  BY <2>1, <4>1 DEF CaptureLogsWindow
    <3>2. CASE ~(world.lines > call.tries)
      <4>1. (world.lines > call.tries) = FALSE
        BY <3>2
      <4> QED  BY <2>1, <4>1 DEF CaptureLogsWindow
    <3> QED  BY <3>1, <3>2
  <2>2. CASE AppLogs
    BY <2>2 DEF AppLogs
  <2>3. CASE AppOpenUrl /\ ~CaptureLogsWindow
    BY <2>3 DEF AppOpenUrl
  <2> QED  BY <2>1, <2>2, <2>3 DEF AppOpenUrl
<1> QED  BY <1>0, <1>1 DEF EvidenceInv, PictureInv, NotesInv, BundleInv, ReportsInv, ProbeInv

\* of the diagnosis,
LEMMA ProbeStep ==
  ASSUME EvidenceInv, Diagnose PROVE EvidenceInv'
<1> USE DEF Became, At, Go, Pass, Answers, End, Throws, Act, SN, NU, CR, OU, DI, TF, Opt
<1>0. call.tool = DI /\ call'.tool = DI
  BY DEF Diagnose, ProbeSimctl, ProbeSimHid, EvidenceInv, EvidenceFields
<1>1. EvidenceFields' /\ ProbeInv'
  <2> USE <1>0 DEF EvidenceInv, EvidenceFields, ProbeInv
  <2>1. CASE UNCHANGED world
      /\ Became(DI, "begin", [call EXCEPT !.at = "probe", !.left = {"simctl", "hid"}])
    BY <2>1
  <2>2. CASE ProbeSimctl
    BY <2>2 DEF ProbeSimctl
  <2>3. CASE ProbeSimHid
    BY <2>3 DEF ProbeSimHid
  <2>4. CASE call.left = {} /\ End(DI, "probe", IF call.got # {} THEN "usable" ELSE "unusable")
    BY <2>4
  <2> QED  BY <2>1, <2>2, <2>3, <2>4 DEF Diagnose
<1> QED  BY <1>0, <1>1 DEF EvidenceInv, PictureInv, NotesInv, BundleInv, LogInv, ReportsInv

\* of the device on its own,
LEMMA TurnStep ==
  ASSUME EvidenceInv, EvidenceTurns PROVE EvidenceInv'
<1> USE DEF EvidenceInv, EvidenceFields
<1>0. UNCHANGED call
  BY DEF EvidenceTurns, EditorComes, NotesAsks, NotesPastes, NotesMoves, ReportsTurn, LineComes,
      OneChange
<1> DEFINE Kept == /\ {"bar", "files", "editor", "focus", "board", "pasting", "asks", "links",
                       "moved", "opened",
                        "reports", "gone", "lines", "works", "touched",
                            "changes"} \subseteq DOMAIN world'
                   /\ world'.bar = world.bar /\ world'.board = world.board
                      /\ world'.opened = world.opened
                   /\ world'.files = world.files /\ world'.works = world.works
                   /\ world'.moved = world.moved \/ (world.moved = FALSE /\ world'.moved = TRUE)
                   /\ world'.reports \subseteq {1, 2}
                   /\ world'.reports \ world'.gone \subseteq world.reports \ world.gone
<1>1. Kept
  <2>1. CASE EditorComes
    <3>1. world' = [[world EXCEPT !.editor = TRUE] EXCEPT !.changes = @ + 1]
      BY <2>1 DEF EditorComes, OneChange
    <3> QED  BY <3>1
  <2>2. CASE NotesAsks
    <3>1. world' = [[world EXCEPT !.asks = TRUE] EXCEPT !.changes = @ + 1]
      BY <2>2 DEF NotesAsks, OneChange
    <3> QED  BY <3>1
  <2>3. CASE NotesPastes
    BY <2>3, ZenonT(40) DEF NotesPastes
  <2>4. CASE NotesMoves
    BY <2>4, ZenonT(40) DEF NotesMoves, OneChange
  <2>5. CASE LineComes
    BY <2>5, ZenonT(40) DEF LineComes, OneChange
  <2>6. ASSUME NEW r \in {1, 2}, NEW reports,
               reports = world.reports \ {r} \/ reports = world.reports \cup {r},
               world' = [[world EXCEPT !.reports = reports,
                          !.gone = @ \cup {r}] EXCEPT !.changes = @ + 1]
        PROVE  Kept
    BY <2>6
  <2>7. CASE ReportsTurn
    <3>0. Reports = {1, 2}
      BY DEF Reports
    <3>1. PICK r \in {1, 2} :
             OneChange({IF r \in world.reports
                        THEN [world EXCEPT !.reports = @ \ {r}, !.gone = @ \cup {r}]
                        ELSE [world EXCEPT !.reports = @ \cup {r}, !.gone = @ \cup {r}]})
      BY <2>7, <3>0 DEF ReportsTurn
    <3>2. CASE r \in world.reports
      BY <2>6, <3>1, <3>2 DEF OneChange
    <3>3. CASE r \notin world.reports
      BY <2>6, <3>1, <3>3 DEF OneChange
    <3> QED  BY <3>2, <3>3
  <2> QED  BY <2>1, <2>2, <2>3, <2>4, <2>5, <2>7 DEF EvidenceTurns
<1>4. call.at = "end" => world'.lines = world.lines
  BY DEF EvidenceTurns, EditorComes, NotesAsks, NotesPastes, NotesMoves, ReportsTurn, LineComes,
      OneChange, Ended
<1>5. EvidenceFields' /\ PictureInv' /\ NotesInv'
  BY <1>0, <1>1 DEF PictureInv, NotesInv, Opt
<1>6. BundleInv' /\ ReportsInv'
  BY <1>0, <1>1 DEF BundleInv, ReportsInv, Opt, Included
<1>7. LogInv' /\ ProbeInv'
  BY <1>0, <1>1, <1>4 DEF LogInv, ProbeInv
<1> QED  BY <1>5, <1>6, <1>7

\* A step of one section.
LEMMA SectionStep ==
  ASSUME EvidenceInv, call.tool \in {"debug_bundle", TF},
         NEW s \in Sections, NEW from, NEW to, NEW w, Section(s, from, to, w), from # "none",
             to # "none",
         to # "skipped", from # "skipped",
         w = world \/ w = File(s),
         s = "crashes" => from = "stat" /\ to = "data" /\ call.left = {} /\ w = world,
         (s \in {"shot", "axtree"} /\ to = "data") \/ to = "stat" => s \in w.files
  PROVE  EvidenceInv'
<1> USE DEF EvidenceInv, EvidenceFields
<1>1. /\ DOMAIN call' = DOMAIN call /\ call'.tool = call.tool /\ call'.opts = call.opts
         /\ call'.at = "bundle"
      /\ call.at = "bundle" /\ call'.out = call.out /\ call'.gave = call.gave
         /\ call'.got = call.got
      /\ call'.left = call.left /\ call'.was = call.was
      /\ call'.sect = [call.sect EXCEPT ![s] = to] /\ call.sect[s] = from
  BY DEF Section
<1>2. /\ DOMAIN world' = DOMAIN world /\ world.files \subseteq world'.files
         /\ world'.reports = world.reports
      /\ world'.gone = world.gone /\ world'.moved = world.moved /\ world' = w
  BY DEF Section, File
<1>3. EvidenceFields'
  BY <1>1, <1>2
<1>4. /\ \A r \in Sections : call'.sect[r] = IF r = s THEN to ELSE call.sect[r]
      /\ call.sect[s] # "none"
  BY <1>1
<1>5. BundleInv'
  <2>1. /\ \A r \in Sections : call.sect[r] = "skipped" <=> r \notin Included
        /\ \A r \in Sections : call.sect[r] # "none"
        /\ \A r \in {"shot", "axtree"} : call.sect[r] = "data" => r \in world.files
        /\ call.sect["shot"] = "stat" => "shot" \in world.files
        /\ call.sect["crashes"] \in {"skipped", "go", "stat", "data"}
        /\ call.sect["crashes"] = "stat" => world.reports \ world.gone \subseteq call.got
           \cup call.left
        /\ call.sect["crashes"] = "data"
           /\ call.gave = FALSE => world.reports \ world.gone \subseteq call.got
    BY <1>1, <1>4 DEF BundleInv
  <2>2. Included' = Included
    BY <1>1 DEF Included
  <2>3. \A r \in Sections : call'.sect[r] = "skipped" <=> r \notin Included'
    <3>1. from # "skipped" /\ to # "skipped" /\ call.sect[s] = from
      BY <1>1
    <3> SUFFICES ASSUME NEW r \in Sections PROVE call'.sect[r] = "skipped" <=> r \notin Included
      BY <2>2
    <3>2. CASE r = s
      BY <1>4, <2>1, <3>1, <3>2
    <3>3. CASE r # s
      BY <1>4, <2>1, <3>3
    <3> QED  BY <3>2, <3>3
  <2>4. \A r \in Sections : call'.sect[r] # "none"
    BY <1>4, <2>1
  <2>5. /\ \A r \in {"shot", "axtree"} : call'.sect[r] = "data" => r \in world'.files
        /\ call'.sect["shot"] = "stat" => "shot" \in world'.files
    BY <1>2, <1>4, <2>1 DEF Sections
  <2>6. /\ call'.sect["crashes"] \in {"skipped", "go", "stat", "data"}
        /\ call'.sect["crashes"] = "stat" => world'.reports \ world'.gone \subseteq call'.got
           \cup call'.left
        /\ call'.sect["crashes"] = "data"
           /\ call'.gave = FALSE => world'.reports \ world'.gone \subseteq call'.got
    BY <1>1, <1>2, <1>4, <2>1 DEF Sections
  <2> QED  BY <1>1, <2>3, <2>4, <2>5, <2>6 DEF BundleInv
<1> QED  BY <1>1, <1>3, <1>5 DEF PictureInv, NotesInv, LogInv, ProbeInv, ReportsInv, SN, NU, TF,
    CR, OU, DI

\* and of collecting a debug bundle.
LEMMA BundleStep ==
  ASSUME EvidenceInv, DebugBundleCollect \/ WrapHandlerForBundle \/ MaybeAttachDebugBundle
  PROVE  EvidenceInv'
<1> USE DEF Became, At, Go, Pass, Answers, End, Throws, Act, SN, NU, CR, OU, DI, TF, Opt
<1>0. call.tool \in {"debug_bundle", TF} /\ call'.tool = call.tool
  BY DEF DebugBundleCollect, WrapHandlerForBundle, MaybeAttachDebugBundle, CollectDebugBundle,
      BundleBegin,
     CaptureScreenshot, CaptureAxTree, CaptureLogs, FindFreshCrashes, CaptureFlutterRoute,
         BundleEnd, Section,
     EvidenceInv, EvidenceFields
<1>1. SUFFICES EvidenceFields' /\ BundleInv'
  BY <1>0 DEF EvidenceInv, PictureInv, NotesInv, LogInv, ProbeInv, ReportsInv
<1>2. CASE CaptureScreenshot \/ CaptureAxTree \/ CaptureLogs \/ CaptureFlutterRoute
  <2>1. CASE CaptureScreenshot
    <3>1. CASE Section("shot", "go", "stat", File("shot"))
      <4>1. "shot" \in File("shot").files
        BY DEF File, EvidenceInv, EvidenceFields
      <4> QED  BY <1>0, <3>1, <4>1, SectionStep DEF EvidenceInv, Sections
    <3>2. ASSUME NEW w \in {world, File("shot")}, Section("shot", "go", "error", w)
          PROVE  EvidenceFields' /\ BundleInv'
      BY <1>0, <3>2, SectionStep DEF EvidenceInv, Sections
    <3>3. CASE Section("shot", "stat", "data", world)
      <4>1. "shot" \in world.files
        BY <1>0, <3>3 DEF EvidenceInv, BundleInv, Section, Sections
      <4> QED  BY <1>0, <3>3, <4>1, SectionStep DEF EvidenceInv, Sections
    <3>4. CASE Section("shot", "stat", "error", world)
      BY <1>0, <3>4, SectionStep DEF EvidenceInv, Sections
    <3> QED  BY <2>1, <3>1, <3>2, <3>3, <3>4 DEF CaptureScreenshot
  <2>2. CASE CaptureAxTree
    <3>1. CASE Section("axtree", "write", "data", File("axtree"))
      <4>1. "axtree" \in File("axtree").files
        BY DEF File, EvidenceInv, EvidenceFields
      <4> QED  BY <1>0, <3>1, <4>1, SectionStep DEF EvidenceInv, Sections
    <3>2. ASSUME NEW from \in {"go", "write"}, NEW to \in {"write", "error", "nofile"},
                 Section("axtree", from, to, world)
          PROVE  EvidenceFields' /\ BundleInv'
      BY <1>0, <3>2, SectionStep DEF EvidenceInv, Sections
    <3> QED  BY <2>2, <3>1, <3>2 DEF CaptureAxTree
  <2>3. CASE CaptureLogs
    BY <1>0, <2>3, SectionStep DEF CaptureLogs, EvidenceInv, Sections
  <2>4. CASE CaptureFlutterRoute
    BY <1>0, <2>4, SectionStep DEF CaptureFlutterRoute, EvidenceInv, Sections
  <2> QED  BY <1>2, <2>1, <2>2, <2>3, <2>4
<1>3. CASE FindFreshCrashes
  <2>1. CASE call.left = {} /\ Section("crashes", "stat", "data", world)
    BY <1>0, <2>1, SectionStep DEF EvidenceInv, Sections
  <2>2. CASE /\ call.at = "bundle" /\ call.sect["crashes"] = "go" /\ UNCHANGED world
             /\ \/ call' = [call EXCEPT !.sect["crashes"] = "stat", !.left = world.reports]
                \/ call' = [call EXCEPT !.sect["crashes"] = "data", !.gave = TRUE]
    <3>1. /\ \A r \in Sections : call.sect[r] = "skipped" <=> r \notin Included
          /\ \A r \in Sections : call.sect[r] # "none"
          /\ \A r \in {"shot", "axtree"} : call.sect[r] = "data" => r \in world.files
          /\ call.sect["shot"] = "stat" => "shot" \in world.files
      BY <1>0, <2>2 DEF EvidenceInv, BundleInv, Sections
    <3>2. ASSUME NEW to \in {"stat", "data"}, NEW rest, NEW gave \in BOOLEAN,
                 call' = [call EXCEPT !.sect["crashes"] = to, !.left = rest, !.gave = gave],
                 to = "stat" => rest = world.reports, to = "data" => gave = TRUE
          PROVE  EvidenceFields' /\ BundleInv'
      <4>1. /\ DOMAIN call' = DOMAIN call /\ call'.tool = call.tool /\ call'.opts = call.opts
               /\ call'.at = "bundle"
            /\ call'.out = call.out /\ call'.gave = gave /\ call'.got = call.got
               /\ call'.left = rest
            /\ call'.sect = [call.sect EXCEPT !["crashes"] = to] /\ UNCHANGED world
        BY <2>2, <3>2 DEF EvidenceInv, EvidenceFields
      <4>2. /\ \A r \in Sections : call'.sect[r] = IF r = "crashes" THEN to ELSE call.sect[r]
            /\ DOMAIN call'.sect = Sections
        BY <4>1 DEF EvidenceInv, EvidenceFields
      <4>3. EvidenceFields'
        BY <2>2, <4>1, <4>2 DEF EvidenceInv, EvidenceFields
      <4>4. Included' = Included
        BY <4>1 DEF Included
      <4>5. "crashes" \in Included
        BY <2>2, <3>1 DEF Sections
      <4>6. \A r \in Sections : call'.sect[r] = "skipped" <=> r \notin Included'
        BY <3>1, <4>2, <4>4, <4>5
      <4>7. \A r \in Sections : call'.sect[r] # "none"
        BY <3>1, <4>2
      <4>8. /\ \A r \in {"shot", "axtree"} : call'.sect[r] = "data" => r \in world'.files
            /\ call'.sect["shot"] = "stat" => "shot" \in world'.files
            /\ call'.sect["crashes"] = to
        BY <3>1, <4>1, <4>2 DEF Sections
      <4>9. BundleInv'
        BY <3>2, <4>1, <4>6, <4>7, <4>8 DEF BundleInv
      <4> QED  BY <4>3, <4>9
    <3>3. CASE call' = [call EXCEPT !.sect["crashes"] = "stat", !.left = world.reports]
      <4>1. call' = [call EXCEPT !.sect["crashes"] = "stat", !.left = world.reports,
                     !.gave = call.gave]
        BY <3>3
      <4>2. call.gave \in BOOLEAN
        BY <1>0 DEF EvidenceInv, BundleInv
      <4> QED  BY <3>2, <4>1, <4>2
    <3>4. CASE call' = [call EXCEPT !.sect["crashes"] = "data", !.gave = TRUE]
      <4>1. call' = [call EXCEPT !.sect["crashes"] = "data", !.left = call.left, !.gave = TRUE]
        BY <3>4
      <4> QED  BY <3>2, <4>1
    <3> QED  BY <2>2, <3>3, <3>4
  <2>3. ASSUME NEW r \in call.left, call.at = "bundle", call.sect["crashes"] = "stat",
      UNCHANGED world,
               call' = [call EXCEPT !.left = @ \ {r}, !.got = @ \cup ({r} \cap world.reports)]
        PROVE  EvidenceFields' /\ BundleInv'
    BY <1>0, <2>3 DEF EvidenceInv, EvidenceFields, BundleInv, Sections, Included, Settled
  <2> QED  BY <1>3, <2>1, <2>2, <2>3 DEF FindFreshCrashes
<1>4. CASE BundleBegin \/ BundleEnd
  <2>1. CASE /\ UNCHANGED world /\ call.at = "collect"
             /\ call' = [call EXCEPT !.at = "bundle",
                           !.sect = [s \in Sections |-> IF s \in Included THEN "go" ELSE "skipped"]]
    <3>1. /\ DOMAIN call' = DOMAIN call /\ call'.tool = call.tool /\ call'.opts = call.opts
             /\ call'.at = "bundle"
          /\ call'.out = call.out /\ call'.gave = call.gave
          /\ call'.sect = [s \in Sections |-> IF s \in Included THEN "go" ELSE "skipped"]
      BY <2>1 DEF EvidenceInv, EvidenceFields
    <3>2. \A s \in Sections : call'.sect[s] = IF s \in Included THEN "go" ELSE "skipped"
      BY <3>1
    <3>3. EvidenceFields'
      BY <2>1, <3>1 DEF EvidenceInv, EvidenceFields
    <3>4. Included' = Included
      BY <3>1 DEF Included
    <3>5. /\ \A s \in {"shot", "axtree"} : call'.sect[s] # "data"
          /\ call'.sect["shot"] # "stat" /\ call'.sect["crashes"] \in {"go", "skipped"}
      BY <3>2 DEF Sections
    <3>6. /\ \A s \in Sections : call'.sect[s] = "skipped" <=> s \notin Included'
          /\ \A s \in Sections : call'.sect[s] # "none"
      BY <3>2, <3>4
    <3>7. BundleInv'
      BY <1>0, <3>1, <3>5, <3>6 DEF EvidenceInv, BundleInv
    <3> QED  BY <3>3, <3>7
  <2>2. CASE End(call.tool, "collect", IF call.tool = "debug_bundle" THEN "error" ELSE call.was)
    BY <1>0, <2>2 DEF EvidenceInv, EvidenceFields, BundleInv, Sections, Included
  <2>3. CASE BundleEnd
    BY <1>0, <2>3 DEF EvidenceInv, EvidenceFields, BundleInv, Included, BundleEnd, Settled
  <2> QED  BY <1>4, <2>1, <2>2, <2>3 DEF BundleBegin
<1>5. CASE Pass("debug_bundle", "begin", "collect") \/ Pass(TF, "answered", "collect")
            \/ End(TF, "answered", call.was) \/ WrapHandlerForBundle
  BY <1>0, <1>5, ZenonT(40) DEF EvidenceInv, EvidenceFields, BundleInv, Sections, Included,
      Settled, WrapHandlerForBundle
<1> QED  BY <1>2, <1>3, <1>4, <1>5 DEF DebugBundleCollect, MaybeAttachDebugBundle,
    CollectDebugBundle

\* Every step of them all keeps it.
LEMMA EvidenceStepInv ==
  ASSUME EvidenceInv, EvidenceNext PROVE EvidenceInv'
BY PictureStep, NotesStep, BundleStep, ReportsStep, LogStep, ProbeStep, TurnStep DEF EvidenceNext,
    EvidenceStep

----------------------------------------------------------------------------
(* One call of any of the tools. *)

\* The tools of each module.
LEMMA Domains ==
  /\ DOMAIN TapOptions = {"tap_element", "tap", "double_tap", "swipe", "scroll"}
  /\ DOMAIN AlertOptions = {"handle_alert", "alert_handle"}
  /\ DOMAIN NavOptions = {"pop_until", "goto_screen", "dismiss_overlay", "dismiss_keyboard"}
  /\ DOMAIN ReadOptions =
       {"tree", "inspect", "query", "wait_for", "assert_element", "context", "state", "assert"}
  /\ DOMAIN SettingOptions =
       {"dark_mode", "orientation", "keyboard_overlap", "type_element", "type_text", "key_input",
        "debug_paint", "appearance", "rotate", "geolocation", "permission", "throttle"}
  /\ DOMAIN AppOptions =
       {"launch", "activate", "switch", "terminate", "reset", "deeplink", "command", "notify",
        "biometric", "otp", "save_native", "restore_native", "delete_native"}
  /\ DOMAIN ScenarioOptions = {"scenario", "assert_all", "compare", "hybrid"}
  /\ DOMAIN FlutterOptions =
       {"connect", "flutter_logs", "rebuilds", "set_breakpoint", "remove_breakpoint", "resume",
        "stack", "wait_pause", "allocation", "heap", "cpu", "timeline", "at_point", "evaluate",
        "inspect_selection", "root_widget", "widget_tree", "extensions", "extension",
        "build_mode", "route", "reload"}
  /\ DOMAIN QaOptions =
       {"audit", "semantics", "touch_targets", "list_routes", "net_start", "net_stop", "net_log",
        "net_har", "net_throttle", "proxied", "upgraded"}
  /\ DOMAIN BrowserOptions =
       {"navigate", "click", "long_press", "type", "select_option", "press", "page_scroll",
        "page_swipe", "blur", "page_wait", "screenshot", "read_page", "query_dom", "javascript",
        "page_inspect", "cookies_get", "cookies_set", "cookies_clear", "auth_save",
        "auth_restore", "auth_list"}
  /\ DOMAIN EvidenceOptions =
       {"screenshot_native", "notes_url", "debug_bundle", "tool_failure", "crash_reports",
        "app_logs", "open_url", "diagnose"}
BY DEF TapOptions, AlertOptions, NavOptions, ReadOptions, SettingOptions, AppOptions,
   ScenarioOptions, FlutterOptions, QaOptions, BrowserOptions, EvidenceOptions

\* The first module that has the tool.
Owner(t) ==
  IF t \in DOMAIN TapOptions THEN "tap" ELSE IF t \in DOMAIN AlertOptions THEN "alert"
  ELSE IF t \in DOMAIN NavOptions THEN "nav" ELSE IF t \in DOMAIN ReadOptions THEN "read"
  ELSE IF t \in DOMAIN SettingOptions THEN "setting" ELSE IF t \in DOMAIN AppOptions THEN "app"
  ELSE IF t \in DOMAIN ScenarioOptions THEN "scenario"
  ELSE IF t \in DOMAIN FlutterOptions THEN "flutter" ELSE IF t \in DOMAIN QaOptions THEN "qa"
  ELSE IF t \in DOMAIN BrowserOptions THEN "browser"
  ELSE IF t \in DOMAIN EvidenceOptions THEN "evidence" ELSE "none"

\* It is the only one.
LEMMA Owners ==
  ASSUME NEW t
  PROVE  /\ t \in DOMAIN TapOptions => Owner(t) = "tap"
         /\ t \in DOMAIN AlertOptions => Owner(t) = "alert"
         /\ t \in DOMAIN NavOptions => Owner(t) = "nav"
         /\ t \in DOMAIN ReadOptions => Owner(t) = "read"
         /\ t \in DOMAIN SettingOptions => Owner(t) = "setting"
         /\ t \in DOMAIN AppOptions => Owner(t) = "app"
         /\ t \in DOMAIN ScenarioOptions => Owner(t) = "scenario"
         /\ t \in DOMAIN FlutterOptions => Owner(t) = "flutter"
         /\ t \in DOMAIN QaOptions => Owner(t) = "qa"
         /\ t \in DOMAIN BrowserOptions => Owner(t) = "browser"
         /\ t \in DOMAIN EvidenceOptions => Owner(t) = "evidence"
<1> USE Domains DEF Owner
<1>1. t \in DOMAIN TapOptions => Owner(t) = "tap"
  OBVIOUS
<1>2. t \in DOMAIN AlertOptions => Owner(t) = "alert"
  OBVIOUS
<1>3. t \in DOMAIN NavOptions => Owner(t) = "nav"
  OBVIOUS
<1>4. t \in DOMAIN ReadOptions => Owner(t) = "read"
  OBVIOUS
<1>5. t \in DOMAIN SettingOptions => Owner(t) = "setting"
  OBVIOUS
<1>6. t \in DOMAIN AppOptions => Owner(t) = "app"
  OBVIOUS
<1>7. t \in DOMAIN ScenarioOptions => Owner(t) = "scenario"
  OBVIOUS
<1>8. t \in DOMAIN FlutterOptions => Owner(t) = "flutter"
  OBVIOUS
<1>9. t \in DOMAIN QaOptions => Owner(t) = "qa"
  OBVIOUS
<1>10. t \in DOMAIN BrowserOptions => Owner(t) = "browser"
  OBVIOUS
<1>11. t \in DOMAIN EvidenceOptions => Owner(t) = "evidence"
  OBVIOUS
<1> HIDE Domains DEF Owner
<1> QED  BY <1>1, <1>2, <1>3, <1>4, <1>5, <1>6, <1>7, <1>8, <1>9, <1>10, <1>11

\* Whatever module the called tool is of, its invariant holds.
ToolsInv ==
  /\ "tool" \in DOMAIN call
  /\ Of(TapOptions) => TapInv
  /\ Of(AlertOptions) => AlertInv
  /\ Of(NavOptions) => NavInv
  /\ Of(ReadOptions) => ReadInv
  /\ Of(SettingOptions) => SettingInv
  /\ Of(AppOptions) => AppInv /\ CodeInv
  /\ Of(ScenarioOptions) => ScenarioInv
  /\ Of(FlutterOptions) => FlutterInv
  /\ Of(QaOptions) => QaInv
  /\ Of(BrowserOptions) => BrowserInv
  /\ Of(EvidenceOptions) => EvidenceInv

\* A call is made of a tool of its module.
LEMMA NewCallIs ==
  ASSUME NEW options, NEW locals, "tool" \notin DOMAIN locals, call \in ToolCalls(options, locals)
  PROVE  "tool" \in DOMAIN call /\ Of(options)
<1>1. PICK t \in DOMAIN options : \E o \in SUBSET options[t] : call = NewCall(t, o, locals)
  BY DEF ToolCalls
<1>2. PICK o \in SUBSET options[t] : call = NewCall(t, o, locals)
  BY <1>1
<1> DEFINE frame == [tool |-> t, opts |-> o, at |-> "begin", out |-> "none"]
<1>3. "tool" \in DOMAIN frame /\ frame.tool = t
  OBVIOUS
<1>4. call = [f \in DOMAIN frame \cup DOMAIN locals |->
                IF f \in DOMAIN locals THEN locals[f] ELSE frame[f]]
  BY <1>2 DEF NewCall
<1> HIDE DEF frame
<1> QED  BY <1>3, <1>4 DEF Of

\* Each module's first call.
LEMMA ToolsInitInv == ToolsInit => ToolsInv
<1> SUFFICES ASSUME ToolsInit PROVE ToolsInv
  OBVIOUS
<1> USE Owners
<1>1. ASSUME TapInit PROVE ToolsInv
  <2>1. "tool" \in DOMAIN call /\ Of(TapOptions)
    BY <1>1, NewCallIs DEF TapInit
  <2> QED  BY <1>1, <2>1, TapInitInv DEF ToolsInv, Of
<1>2. ASSUME AlertInit PROVE ToolsInv
  <2>1. "tool" \in DOMAIN call /\ Of(AlertOptions)
    BY <1>2, NewCallIs DEF AlertInit
  <2> QED  BY <1>2, <2>1, AlertInitInv DEF ToolsInv, Of
<1>3. ASSUME NavInit PROVE ToolsInv
  <2>1. "tool" \in DOMAIN call /\ Of(NavOptions)
    BY <1>3, NewCallIs DEF NavInit
  <2> QED  BY <1>3, <2>1, NavInitInv DEF ToolsInv, Of
<1>4. ASSUME ReadInit PROVE ToolsInv
  <2>1. "tool" \in DOMAIN call /\ Of(ReadOptions)
    BY <1>4, NewCallIs DEF ReadInit
  <2> QED  BY <1>4, <2>1, ReadInitInv DEF ToolsInv, Of
<1>5. ASSUME SettingInit PROVE ToolsInv
  <2>1. "tool" \in DOMAIN call /\ Of(SettingOptions)
    BY <1>5, NewCallIs DEF SettingInit
  <2> QED  BY <1>5, <2>1, SettingInitInv DEF ToolsInv, Of
<1>6. ASSUME AppInit PROVE ToolsInv
  <2>1. "tool" \in DOMAIN call /\ Of(AppOptions)
    BY <1>6, NewCallIs DEF AppInit
  <2> QED  BY <1>6, <2>1, AppInitInv, CodeInitInv DEF ToolsInv, Of
<1>7. ASSUME ScenarioInit PROVE ToolsInv
  <2>1. "tool" \in DOMAIN call /\ Of(ScenarioOptions)
    BY <1>7, NewCallIs DEF ScenarioInit
  <2> QED  BY <1>7, <2>1, ScenarioInitInv DEF ToolsInv, Of
<1>8. ASSUME FlutterInit PROVE ToolsInv
  <2>1. "tool" \in DOMAIN call /\ Of(FlutterOptions)
    BY <1>8, NewCallIs DEF FlutterInit
  <2> QED  BY <1>8, <2>1, FlutterInitInv DEF ToolsInv, Of
<1>9. ASSUME QaInit PROVE ToolsInv
  <2>1. "tool" \in DOMAIN call /\ Of(QaOptions)
    BY <1>9, NewCallIs DEF QaInit
  <2> QED  BY <1>9, <2>1, QaInitInv DEF ToolsInv, Of
<1>10. ASSUME BrowserInit PROVE ToolsInv
  <2>1. "tool" \in DOMAIN call /\ Of(BrowserOptions)
    BY <1>10, NewCallIs DEF BrowserInit
  <2> QED  BY <1>10, <2>1, BrowserInitInv DEF ToolsInv, Of
<1>11. ASSUME EvidenceInit PROVE ToolsInv
  <2>1. "tool" \in DOMAIN call /\ Of(EvidenceOptions)
    BY <1>11, NewCallIs DEF EvidenceInit
  <2> QED  BY <1>11, <2>1, EvidenceInitInv DEF ToolsInv, Of
<1> HIDE Owners
<1> QED  BY <1>1, <1>2, <1>3, <1>4, <1>5, <1>6, <1>7, <1>8, <1>9, <1>10, <1>11 DEF ToolsInit

\* The tool of a call of the taps is in what is known of the call.
LEMMA TapKeepsTool == ASSUME TapInv, TapNext PROVE TapInv' /\ "tool" \in DOMAIN call'
    /\ Of(TapOptions)'
<1>1. TapInv'
  BY TapStepInv
<1>2. call'.tool \in {"tap_element", "tap", "double_tap", "swipe", "scroll"}
    /\ "tool" \in DOMAIN call'
  BY <1>1 DEF TapInv, TapCall
<1> QED  BY <1>1, <1>2, Domains DEF Of

\* So it is, or it stays, with the tools of an app.
LEMMA AppKeepsTool ==
  ASSUME AppInv, CodeInv, AppNext, Of(AppOptions)
  PROVE  AppInv' /\ CodeInv' /\ "tool" \in DOMAIN call' /\ Of(AppOptions)'
<1>1. AppInv' /\ CodeInv'
  BY AppStepInv, CodeStepInv
<1>2. CASE Profiled
  <2>1. ProfileInv'
    BY <1>2, ProfileStep
  <2>2. call'.tool \in Saving \cup Restoring /\ "tool" \in DOMAIN call'
    BY <2>1 DEF ProfileInv, ProfileTypes, ProfileCall
  <2> QED  BY <1>1, <2>2, Domains DEF Of, Saving, Restoring
<1>3. CASE ~Profiled
  BY <1>1, <1>3, ElseStep DEF SameTool, Of
<1> QED  BY <1>2, <1>3

\* Each module's next step.
LEMMA ToolsStepInv == ASSUME ToolsInv, ToolsNext PROVE ToolsInv'
<1>0. "tool" \in DOMAIN call
  BY DEF ToolsInv
<1> USE Owners
<1>1. CASE Of(TapOptions) /\ TapNext
  <2>1. TapInv' /\ "tool" \in DOMAIN call' /\ Of(TapOptions)'
    BY <1>1, TapKeepsTool DEF ToolsInv
  <2> QED  BY <2>1 DEF ToolsInv, Of
<1>2. CASE Of(AlertOptions) /\ AlertNext
  <2>1. AlertInv' /\ SameTool
    BY <1>0, <1>2, AlertStepInv, AlertSame DEF ToolsInv
  <2> QED  BY <1>2, <2>1 DEF ToolsInv, Of, SameTool
<1>3. CASE Of(NavOptions) /\ NavNext
  <2>1. NavInv' /\ SameTool
    BY <1>0, <1>3, NavStepInv, NavSame DEF ToolsInv
  <2> QED  BY <1>3, <2>1 DEF ToolsInv, Of, SameTool
<1>4. CASE Of(ReadOptions) /\ ReadNext
  <2>1. ReadInv' /\ SameTool
    BY <1>0, <1>4, ReadStepInv, ReadSame DEF ToolsInv
  <2> QED  BY <1>4, <2>1 DEF ToolsInv, Of, SameTool
<1>5. CASE Of(SettingOptions) /\ SettingNext
  <2>1. SettingInv' /\ SameTool
    BY <1>0, <1>5, SettingStepInv, SettingSame DEF ToolsInv
  <2> QED  BY <1>5, <2>1 DEF ToolsInv, Of, SameTool
<1>6. CASE Of(AppOptions) /\ AppNext
  <2>1. AppInv' /\ CodeInv' /\ "tool" \in DOMAIN call' /\ Of(AppOptions)'
    BY <1>6, AppKeepsTool DEF ToolsInv
  <2> QED  BY <2>1 DEF ToolsInv, Of
<1>7. CASE Of(ScenarioOptions) /\ PoolNext
  <2>1. ScenarioInv' /\ SameTool
    BY <1>0, <1>7, ScenarioStepInv, ScenarioSame DEF ToolsInv
  <2> QED  BY <1>7, <2>1 DEF ToolsInv, Of, SameTool
<1>8. CASE Of(FlutterOptions) /\ FlutterNext
  <2>1. FlutterInv' /\ SameTool
    BY <1>0, <1>8, FlutterStepInv, FlutterSame DEF ToolsInv
  <2> QED  BY <1>8, <2>1 DEF ToolsInv, Of, SameTool
<1>9. CASE Of(QaOptions) /\ QaNext
  <2>1. QaInv' /\ SameTool
    BY <1>0, <1>9, QaStepInv, QaSame DEF ToolsInv
  <2> QED  BY <1>9, <2>1 DEF ToolsInv, Of, SameTool
<1>10. CASE Of(BrowserOptions) /\ BrowserNext
  <2>1. BrowserInv' /\ SameTool
    BY <1>0, <1>10, BrowserStepInv, BrowserSame DEF ToolsInv
  <2> QED  BY <1>10, <2>1 DEF ToolsInv, Of, SameTool
<1>11. CASE Of(EvidenceOptions) /\ EvidenceNext
  <2>1. EvidenceInv' /\ SameTool
    BY <1>0, <1>11, EvidenceStepInv, EvidenceSame DEF ToolsInv
  <2> QED  BY <1>11, <2>1 DEF ToolsInv, Of, SameTool
<1> HIDE Owners
<1> QED  BY <1>1, <1>2, <1>3, <1>4, <1>5, <1>6, <1>7, <1>8, <1>9, <1>10, <1>11 DEF ToolsNext

\* Nothing of them changes when nothing changes.
LEMMA ToolsStutterInv == ASSUME ToolsInv, UNCHANGED tvars PROVE ToolsInv'
<1> USE DEF tvars, At, Opt
<1>1. TapInv => TapInv'
  BY TapStepInv
<1>2. AlertInv => AlertInv'
  <2>1. Buttons' = Buttons /\ Fingerprint' = Fingerprint
    BY DEF Buttons, Shows, Top, Fingerprint
  <2> QED  BY <2>1 DEF AlertInv
<1>3. NavInv => NavInv'
  BY DEF NavInv, Noted, NavScreen
<1>4. ReadInv => ReadInv'
  BY DEF ReadInv, ReadNoted, ReadCall, Reading
<1>5. SettingInv => SettingInv'
  BY DEF SettingInv
<1>6. AppInv /\ CodeInv => AppInv' /\ CodeInv'
  <2>1. AppInv => AppInv'
    BY AppStepInv
  <2>2. CodeInv => CodeInv'
    <3>1. CallFields => CallFields'
      BY DEF CallFields
    <3>2. PushInv => PushInv'
      BY <3>1 DEF PushInv
    <3>3. ASSUME NEW mail PROVE Carries(mail)' <=> Carries(mail)
      BY DEF Carries
    <3>4. OtpInv => OtpInv'
      BY <3>1, <3>3, Zenon DEF OtpInv
    <3> QED  BY <3>2, <3>4 DEF CodeInv
  <2> QED  BY <2>1, <2>2
<1>7. ScenarioInv => ScenarioInv'
  BY DEF ScenarioInv, ScenarioFields, LostInv, EarnedInv, HybridInv
<1>8. FlutterInv => FlutterInv'
  BY DEF FlutterInv
<1>9. QaInv => QaInv'
  BY DEF QaInv
<1>10. BrowserInv => BrowserInv'
  BY DEF BrowserInv, PageInv, PageCallInv, LoadInv, PressInv, TypeInv, WaitInv, ClearInv,
      RestoreInv,
     CookiesAreSet, StorageIsSet
<1>11. EvidenceInv => EvidenceInv'
  BY DEF EvidenceInv, EvidenceFields, PictureInv, NotesInv, BundleInv, ReportsInv, LogInv,
      ProbeInv, Included
<1>12. ("tool" \in DOMAIN call)' /\ \A options : Of(options)' => Of(options)
  BY DEF ToolsInv, Of
<1> QED
  BY <1>1, <1>2, <1>3, <1>4, <1>5, <1>6, <1>7, <1>8, <1>9, <1>10, <1>11, <1>12 DEF ToolsInv

\* What a module's invariant says of its own tools, nothing says of the others.
LEMMA ToolsInvClaims ==
  ToolsInv => (call.out # "routes" => ClaimsAreTrue) /\ SaidIsUndone /\ StateIsNotLost
      /\ RefusedIsUntouched
<1> SUFFICES ASSUME ToolsInv
             PROVE  /\ call.out # "routes" => ClaimsAreTrue
                    /\ SaidIsUndone /\ StateIsNotLost /\ RefusedIsUntouched
  OBVIOUS
<1>1. VerifiedSawChange /\ BackgroundingIsReported /\ RefusedIsUntouched
  <2>1. CASE Of(TapOptions)
    BY <2>1 DEF ToolsInv, TapInv, TapTouched, TapSwiped, TapSaw, TapAway, VerifiedSawChange,
       RefusedIsUntouched
  <2>2. CASE ~Of(TapOptions)
    BY <2>2, Domains DEF Of, VerifiedSawChange, BackgroundingIsReported, RefusedIsUntouched,
        Tapping, At
  <2> QED  BY <2>1, <2>2
<1>2. CountedHadAnEffect
  <2>1. CASE Of(AlertOptions)
    BY <2>1, AlertInvCounts DEF ToolsInv
  <2>2. CASE ~Of(AlertOptions)
    BY <2>2, Domains DEF Of, CountedHadAnEffect, HA
  <2> QED  BY <2>1, <2>2
<1>3. NavClaimsAreTrue
  <2>1. CASE Of(NavOptions)
    BY <2>1, NavInvClaims DEF ToolsInv
  <2>2. CASE ~Of(NavOptions)
    BY <2>2, Domains DEF Of, NavClaimsAreTrue, PU, GS, DO, At
  <2> QED  BY <2>1, <2>2
<1>4. PresenceIsTrue /\ StableWasObserved
  <2>1. CASE Of(ReadOptions)
    BY <2>1, ReadInvClaims DEF ToolsInv
  <2>2. CASE ~Of(ReadOptions)
    BY <2>2, Domains DEF Of, PresenceIsTrue, StableWasObserved, Reading, At
  <2> QED  BY <2>1, <2>2
<1>5. BorrowedIsReturned
  <2>1. CASE Of(SettingOptions)
    BY <2>1, SettingInvUndone DEF ToolsInv
  <2>2. CASE ~Of(SettingOptions)
    BY <2>2 DEF Of, BorrowedIsReturned, Setting
  <2> QED  BY <2>1, <2>2
<1>6. StateIsNotLost /\ CodeIsNewest
  <2>1. CASE Of(AppOptions)
    BY <2>1, AppInvKeeps, CodeInvNewest DEF ToolsInv
  <2>2. CASE ~Of(AppOptions)
    <3>1. /\ call.tool \notin {"otp", "notify", "reset"}
          /\ ~Profiled
      BY <2>2, Domains DEF Of, Profiled, Saving, Restoring
    <3>2. StateIsNotLost
      BY <3>1, AppInvKeeps DEF AppInv, ToolsInv
    <3> QED  BY <3>1, <3>2 DEF CodeIsNewest
  <2> QED  BY <2>1, <2>2
<1>7. VerdictsAreEarned /\ HybridCleansUp
  <2>1. CASE Of(ScenarioOptions)
    BY <2>1, ScenarioInvClaims DEF ToolsInv
  <2>2. CASE ~Of(ScenarioOptions)
    BY <2>2, Domains DEF Of, VerdictsAreEarned, HybridCleansUp, At
  <2> QED  BY <2>1, <2>2
<1>8. FlutterClaims /\ FlutterLeavesNothing
  <2>1. CASE Of(FlutterOptions)
    BY <2>1, FlutterInvClaims DEF ToolsInv
  <2>2. CASE ~Of(FlutterOptions)
    BY <2>2 DEF Of, FlutterClaims, FlutterLeavesNothing, Flutter
  <2> QED  BY <2>1, <2>2
<1>9. (call.out # "routes" => QaClaims) /\ QaLeavesNothing
  <2>1. CASE Of(QaOptions)
    BY <2>1, QaInvClaims DEF ToolsInv
  <2>2. CASE ~Of(QaOptions)
    BY <2>2 DEF Of, QaClaims, QaLeavesNothing, Qa
  <2> QED  BY <2>1, <2>2
<1>10. BrowserClaims
  <2>1. CASE Of(BrowserOptions)
    BY <2>1, BrowserInvClaims DEF ToolsInv
  <2>2. CASE ~Of(BrowserOptions)
    BY <2>2 DEF Of, BrowserClaims, Browser
  <2> QED  BY <2>1, <2>2
<1>11. EvidenceIsTrue /\ EvidenceIsUndone
  <2>1. CASE Of(EvidenceOptions)
    BY <2>1, EvidenceInvTrue DEF ToolsInv
  <2>2. CASE ~Of(EvidenceOptions)
    BY <2>2, Domains DEF Of, EvidenceIsTrue, EvidenceIsUndone, NU, TF, CR, OU, DI, SN
  <2> QED  BY <2>1, <2>2
<1>12. call.out # "routes" => ClaimsAreTrue
  BY <1>1, <1>2, <1>3, <1>4, <1>6, <1>7, <1>8, <1>9, <1>10, <1>11 DEF ClaimsAreTrue
<1>13. SaidIsUndone
  BY <1>5, <1>8, <1>9, <1>11 DEF SaidIsUndone
<1> QED  BY <1>1, <1>6, <1>12, <1>13

\* The invariant of all tools, whichever is called.
LEMMA ToolsKeepInv == ToolsSpec => []ToolsInv
<1>1. ToolsInv /\ [ToolsNext]_tvars => ToolsInv'
  BY ToolsStepInv, ToolsStutterInv
<1> QED  BY ToolsInitInv, <1>1, PTL DEF ToolsSpec

\* A tap that answers that it refused, because the context or the element is not what was
\* asked for, has sent nothing to the device (app-tap-element.ts, app-tap.ts).
THEOREM RefusalTouchesNothing == ToolsSpec => []RefusedIsUntouched
BY ToolsKeepInv, ToolsInvClaims, PTL

\* What an app has kept is not lost by keeping it, whichever step fails (app-reset.ts,
\* auth-native.ts): a reset that was asked to keeps the container before it destroys it, a
\* restore that is answered as one is whole, and a device that was taken down is given back.
THEOREM StateIsKept == ToolsSpec => []StateIsNotLost
BY ToolsKeepInv, ToolsInvClaims, PTL

\* What a tool says it did or saw is so, for every tool but the route map: a verified tap
\* changed the screen, a counted alert was pressed, a verdict was earned, a page said to be
\* loaded came, a code is of the newest mail.
THEOREM ClaimsHold == ToolsSpec => [](call.out # "routes" => ClaimsAreTrue)
BY ToolsKeepInv, ToolsInvClaims, PTL

\* What a tool says it gave back it did: appearance, clipboard, keyboard, overlays, the
\* listeners in the Flutter VM, the HTTP proxy.
THEOREM WhatIsSaidUndoneIs == ToolsSpec => []SaidIsUndone
BY ToolsKeepInv, ToolsInvClaims, PTL
=============================================================================
