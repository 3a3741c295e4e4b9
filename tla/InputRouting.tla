----------------------------- MODULE InputRouting -----------------------------
(***************************************************************************)
(* How an input finds its way to a device: the tiers of the resolver, what *)
(* it keeps of its probes between calls, and what each backend then sends. *)
(* Calls share the resolver and run from one await to the next; whatever   *)
(* is sent by a command may fail before or after the device has taken it.  *)
(***************************************************************************)
EXTENDS Naturals

CONSTANTS
  Inputs,     \* the calls
  MaxTurns    \* bound: how often the surroundings of the calls change

ASSUME InputAssumption == MaxTurns \in Nat

VARIABLES
  env,    \* the variables of the environment, and whether the bridge is installed
  around, \* what changes by itself: the app's VM, simctl, Safari, the front app
  turns,  \* changes so far
  found,  \* the resolver's caches: pointer, hid, simctl
  vm,     \* the Flutter client: connected, the resolver's cache, the resolution
  ask     \* the calls

ivars == <<env, around, turns, found, vm, ask>>

NoInput == [at |-> "idle", op |-> "tap", plain |-> 0, kind |-> "none", got |-> 0,
            raced |-> FALSE]

InputInit ==
  /\ env \in [pointer : BOOLEAN, focus : BOOLEAN, headless : BOOLEAN, bridge : BOOLEAN]
  /\ around \in [app : {"none", "plain", "eval"}, simctl : BOOLEAN,
                 safari : {"none", "off", "on"}, front : {TRUE}]
  /\ turns = 0
  /\ found = [pointer |-> "unprobed", hid |-> "unprobed", simctl |-> "unknown"]
  /\ vm = [on |-> FALSE, cache |-> "none", at |-> "no", late |-> FALSE]
  /\ ask = [c \in Inputs |-> NoInput]

AskAt(c, label) == ask[c].at = label
AskEnds(c, how) == ask' = [ask EXCEPT ![c].at = how]
\* The call throws.
Fails(c) == ask' = [ask EXCEPT ![c] = NoInput]
\* The input arrives, and the call goes on to `label`.
Arrives(c, label) == ask' = [ask EXCEPT ![c].got = @ + 1, ![c].at = label]

----------------------------------------------------------------------------
(* getInputBackend() *)

\* Mutant of GetInputBackend: a detection under way is not awaited.
GetInputBackendAtOnce(c, f, from) ==
  LET Await(label, g) ==
        /\ found' = g
        /\ ask' = [ask EXCEPT ![c].at = label, ![c].raced = @ \/ f.hid = "probing"]
      Use(kind) ==
        /\ found' = f
        /\ ask' = [ask EXCEPT ![c].at = "send", ![c].kind = kind,
                              ![c].raced = @ \/ f.hid = "probing"]
  IN IF from = 1 /\ env.pointer /\ f.pointer = "unprobed"
       THEN Await("pointer", [f EXCEPT !.pointer = "probing"])
     ELSE IF from = 1 /\ env.pointer /\ f.pointer = "here" THEN Use("pointer")
     ELSE IF from <= 2 /\ f.hid = "unprobed" THEN Await("hid", [f EXCEPT !.hid = "probing"])
     ELSE IF from <= 2 /\ f.hid = "here" THEN Use("simhid")
     ELSE IF from <= 3 /\ f.simctl = "unknown"
       THEN Await("detect", [f EXCEPT !.simctl = "detecting"])
     ELSE IF from <= 4 /\ f.simctl = "yes" THEN Use("simctl")
     ELSE IF from <= 4 /\ around.safari = "on" THEN Use("webkit")
     ELSE IF from <= 4 /\ around.safari = "off" THEN Await("reconnect", f)
     ELSE IF env.headless \/ ~env.focus THEN Await("unavailable", f)
     ELSE Use("applescript")

\* The first tier that is there, from tier `from` on; f is what has been found by
\* now.  A call that comes while another one probes for the bridge goes on as if
\* there were none; the detection of simctl's input is awaited by all.
GetInputBackend(c, f, from) ==
  LET Await(label, g) ==
        /\ found' = g
        /\ ask' = [ask EXCEPT ![c].at = label, ![c].raced = @ \/ f.hid = "probing"]
      Use(kind) ==
        /\ found' = f
        /\ ask' = [ask EXCEPT ![c].at = "send", ![c].kind = kind,
                              ![c].raced = @ \/ f.hid = "probing"]
  IN IF from = 1 /\ env.pointer /\ f.pointer = "unprobed"
       THEN Await("pointer", [f EXCEPT !.pointer = "probing"])
     ELSE IF from = 1 /\ env.pointer /\ f.pointer = "here" THEN Use("pointer")
     ELSE IF from <= 2 /\ f.hid = "unprobed" THEN Await("hid", [f EXCEPT !.hid = "probing"])
     ELSE IF from <= 2 /\ f.hid = "here" THEN Use("simhid")
     ELSE IF from <= 3 /\ f.simctl \in {"unknown", "detecting"}
       THEN Await("detect", [f EXCEPT !.simctl = "detecting"])
     ELSE IF from <= 4 /\ f.simctl = "yes" THEN Use("simctl")
     ELSE IF from <= 4 /\ around.safari = "on" THEN Use("webkit")
     ELSE IF from <= 4 /\ around.safari = "off" THEN Await("reconnect", f)
     ELSE IF env.headless \/ ~env.focus THEN Await("unavailable", f)
     ELSE Use("applescript")

\* A probe for the bridge, and for the bridge as a pointer service, finds the file
\* or does not.
Here == IF env.bridge THEN "here" ELSE "none"
PointerProbed(c) ==
  /\ AskAt(c, "pointer") /\ GetInputBackend(c, [found EXCEPT !.pointer = Here], 1)
  /\ UNCHANGED <<env, around, turns, vm>>
HidProbed(c) ==
  /\ AskAt(c, "hid") /\ GetInputBackend(c, [found EXCEPT !.hid = Here], 2)
  /\ UNCHANGED <<env, around, turns, vm>>

\* A command that fails, or is too slow, is taken for a simctl without input.
ProbeSimctlInput ==
  /\ found.simctl = "detecting"
  /\ \/ found' = [found EXCEPT !.simctl = IF around.simctl THEN "yes" ELSE "no"]
        /\ UNCHANGED turns
     \/ found' = [found EXCEPT !.simctl = "no"] /\ turns < MaxTurns /\ turns' = turns + 1
  /\ UNCHANGED <<env, around, vm, ask>>
Detected(c) ==
  /\ AskAt(c, "detect") /\ found.simctl \in {"yes", "no"} /\ GetInputBackend(c, found, 4)
  /\ UNCHANGED <<env, around, turns, vm>>

TryReconnectWebKit(c) ==
  /\ AskAt(c, "reconnect")
  /\ \/ /\ around.safari # "none" /\ around' = [around EXCEPT !.safari = "on"]
        /\ ask' = [ask EXCEPT ![c].at = "send", ![c].kind = "webkit"] /\ UNCHANGED found
     \/ GetInputBackend(c, found, 5) /\ UNCHANGED around
  /\ UNCHANGED <<env, turns, vm>>

----------------------------------------------------------------------------
(* The Flutter tier: one resolution for all calls that ask meanwhile. *)

ResolveFlutter(c) ==
  /\ AskAt(c, "idle") /\ ask' = [ask EXCEPT ![c].at = "flutter"]
  /\ vm' = [vm EXCEPT !.at = IF @ = "no" THEN "look" ELSE @]
  /\ UNCHANGED <<env, around, turns, found>>

\* The resolution ends; v is the client by then.
Resolves(v, client) ==
  /\ vm' = [v EXCEPT !.at = "no"]
  /\ ask' = [c \in Inputs |->
               IF AskAt(c, "flutter")
               THEN [ask[c] EXCEPT !.at = IF client THEN "send" ELSE "tiers",
                                   !.kind = IF client THEN "flutter" ELSE "none"]
               ELSE ask[c]]

\* A client that has compiled once is used as long as it is connected; a failure
\* is remembered for a while.
FlutterCache ==
  /\ vm.at = "look"
  /\ \/ vm.cache = "client" /\ vm.on /\ Resolves(vm, TRUE)
     \/ vm.cache = "negative" /\ Resolves(vm, FALSE)
     \/ /\ vm.cache # "negative" /\ ~(vm.cache = "client" /\ vm.on)
        /\ vm' = [vm EXCEPT !.at = IF vm.on THEN "probe" ELSE "connect"] /\ UNCHANGED ask
  /\ UNCHANGED <<env, around, turns, found>>

\* The attempt that takes too long goes on by itself.
FlutterConnect ==
  /\ vm.at = "connect"
  /\ \/ around.app # "none" /\ vm' = [vm EXCEPT !.on = TRUE, !.at = "probe"] /\ UNCHANGED ask
     \/ \E late \in BOOLEAN : Resolves([vm EXCEPT !.cache = "negative", !.late = late], FALSE)
  /\ UNCHANGED <<env, around, turns, found>>
LateConnect ==
  /\ vm.late /\ vm' = [vm EXCEPT !.late = FALSE, !.on = around.app # "none"]
  /\ UNCHANGED <<env, around, turns, found, ask>>

\* probeEvaluateCompile(): a trivial expression is evaluated; an error of the compiler is
\* told from any other. It does not throw.
ProbeEvaluateCompile(answer) ==
  CASE answer = "available" -> around.app = "eval" /\ vm.on
    [] answer = "compile-error-113" -> around.app = "plain"
    [] answer = "other" -> TRUE

\* A client whose VM compiles nothing is thrown away, whoever uses it, and so is one that
\* does not answer.
FlutterProbe ==
  /\ vm.at = "probe"
  /\ \/ ProbeEvaluateCompile("available") /\ Resolves([vm EXCEPT !.cache = "client"], TRUE)
     \/ \E reason \in {"compile-error-113", "other"} :
          /\ ProbeEvaluateCompile(reason)
          /\ Resolves([vm EXCEPT !.on = FALSE, !.cache = "negative"], FALSE)
  /\ UNCHANGED <<env, around, turns, found>>
NegativeExpires ==
  /\ vm.cache = "negative" /\ vm' = [vm EXCEPT !.cache = "none"]
  /\ UNCHANGED <<env, around, turns, found, ask>>

AsksTiers(c) ==
  /\ AskAt(c, "tiers") /\ GetInputBackend(c, found, 1) /\ UNCHANGED <<env, around, turns, vm>>

----------------------------------------------------------------------------
(* What is sent.  A call of a tool sends one of these; a text has two           *)
(* characters, of which those from `plain` on have no key.                      *)

ChoosesInput(c) ==
  /\ AskAt(c, "send")
  /\ \E op \in {"tap", "swipe", "type", "key"}, plain \in {1, 2} :
       /\ plain = 1 => op = "type"
       /\ ask' = [ask EXCEPT ![c].at = op, ![c].op = op, ![c].plain = plain]
  /\ UNCHANGED <<env, around, turns, found, vm>>

\* One command: it is taken and answered, or fails (the device may have taken it).
Sent(c, next) == Arrives(c, next) \/ Fails(c)
By(c, kind) == ask[c].kind = kind /\ ask[c].at = ask[c].op

\* resolveLibId(): the library an expression needs is asked for once, and may be missing.
ResolveLibId == vm.on /\ around.app = "eval"
\* evalOrThrow(): what the expression does, unless the VM is gone or it throws in Dart.
EvalOrThrow(c, op, effect) ==
  /\ By(c, "flutter") /\ ask[c].op = op
  /\ (ResolveLibId /\ effect) \/ Fails(c)
  /\ UNCHANGED <<env, around, turns, found, vm>>
\* Without a view nothing is pressed or moved, and without a field that has the focus no
\* text is entered, without an error; a key goes to the keyboard in any case.
FlutterTaps(c) == EvalOrThrow(c, "tap", Sent(c, "ok") \/ AskEnds(c, "ok"))
FlutterSwipes(c) == EvalOrThrow(c, "swipe", Sent(c, "ok") \/ AskEnds(c, "ok"))
FlutterTypes(c) == EvalOrThrow(c, "type", Sent(c, "ok") \/ AskEnds(c, "ok"))
FlutterDispatchesKey(c) == EvalOrThrow(c, "key", Sent(c, "ok"))
FlutterSends(c) == FlutterTaps(c) \/ FlutterSwipes(c) \/ FlutterTypes(c) \/ FlutterDispatchesKey(c)

\* The text goes character by character, each by a command of its own.
SimHidTypes(c) ==
  /\ ask[c].kind \in {"simhid", "pointer"} /\ AskAt(c, "type")
  /\ \/ ask[c].got = 2 /\ AskEnds(c, "ok")
     \/ ask[c].got = ask[c].plain /\ ask[c].plain < 2 /\ Fails(c)
     \/ ask[c].got < ask[c].plain /\ Sent(c, "type")
  /\ UNCHANGED <<env, around, turns, found, vm>>
SimHidRuns(c) ==
  /\ By(c, "simhid") \/ (By(c, "pointer") /\ ask[c].op # "tap")
  /\ ask[c].op # "type" /\ Sent(c, "ok")
  /\ UNCHANGED <<env, around, turns, found, vm>>
RunTapPs(c) ==
  /\ By(c, "pointer") /\ ask[c].op = "tap" /\ Sent(c, "ok")
  /\ UNCHANGED <<env, around, turns, found, vm>>

\* A swipe that fails is sent again, with its duration.
SimctlSends(c) ==
  /\ \/ By(c, "simctl")
        /\ \/ ask[c].op # "swipe" /\ Sent(c, "ok")
           \/ ask[c].op = "swipe" /\ (Arrives(c, "ok") \/ Arrives(c, "again") \/ AskEnds(c, "again"))
     \/ AskAt(c, "again") /\ Sent(c, "ok")
  /\ UNCHANGED <<env, around, turns, found, vm>>

\* A text for which no field has the focus is dropped.
WebKitSends(c) ==
  /\ By(c, "webkit")
  /\ \/ around.safari = "on" /\ (Sent(c, "ok") \/ (ask[c].op = "type" /\ AskEnds(c, "ok")))
     \/ Fails(c)
  /\ UNCHANGED <<env, around, turns, found, vm>>

\* The Simulator is brought to the front when it is not there; then the origin of
\* the window is asked for; the event goes to the app in front by then.
ActivateSimulator(c) ==
  /\ By(c, "applescript")
  /\ \/ around' = [around EXCEPT !.front = TRUE] /\ ask' = [ask EXCEPT ![c].at = "aim"]
     \/ Fails(c) /\ UNCHANGED around
  /\ UNCHANGED <<env, turns, found, vm>>
ContentOrigin(c) ==
  /\ AskAt(c, "aim") /\ ask' = [ask EXCEPT ![c].at = "event"]
  /\ UNCHANGED <<env, around, turns, found, vm>>
ScriptedEvent(c) ==
  /\ AskAt(c, "event")
  /\ \/ around.front /\ Sent(c, "ok")
     \/ ~around.front /\ (AskEnds(c, "ok") \/ Fails(c))
  /\ UNCHANGED <<env, around, turns, found, vm>>

InputAnswered(c) ==
  /\ ask[c].at \in {"ok", "unavailable"} /\ ask' = [ask EXCEPT ![c] = NoInput]
  /\ UNCHANGED <<env, around, turns, found, vm>>

\* The app is started, built anew or ended, Safari goes, another app comes in front.
SurroundingsChange ==
  /\ turns < MaxTurns /\ turns' = turns + 1
  /\ \/ \E app \in {"none", "plain", "eval"} :
          around' = [around EXCEPT !.app = app] /\ vm' = [vm EXCEPT !.on = FALSE]
     \/ \E safari \in {"off", "on"} :
          around' = [around EXCEPT !.safari = safari] /\ UNCHANGED vm
     \/ around' = [around EXCEPT !.front = FALSE] /\ UNCHANGED vm
  /\ UNCHANGED <<env, found, ask>>

----------------------------------------------------------------------------
\* The probes for the bridge await nothing outside: they end before anything else
\* comes in, other calls that are as far excepted.
Probing == \E c \in Inputs : ask[c].at \in {"pointer", "hid"}
Probes(c) == AsksTiers(c) \/ PointerProbed(c) \/ HidProbed(c)
InputStep(c) ==
  \/ ResolveFlutter(c) \/ Detected(c) \/ TryReconnectWebKit(c)
  \/ ChoosesInput(c) \/ FlutterSends(c) \/ SimHidTypes(c) \/ SimHidRuns(c) \/ RunTapPs(c)
  \/ SimctlSends(c) \/ WebKitSends(c)
  \/ ActivateSimulator(c) \/ ContentOrigin(c) \/ ScriptedEvent(c) \/ InputAnswered(c)

InputNext ==
  \/ \E c \in Inputs : Probes(c)
  \/ /\ ~Probing
     /\ \/ \E c \in Inputs : InputStep(c)
        \/ ProbeSimctlInput \/ FlutterCache \/ FlutterConnect \/ LateConnect \/ FlutterProbe
        \/ NegativeExpires \/ SurroundingsChange

InputSpec == InputInit /\ [][InputNext]_ivars

----------------------------------------------------------------------------
Lower == {"simctl", "webkit", "applescript"}
Lowest == {"webkit", "applescript"}

(***************************************************************************)
(* The tiers keep their order over every interleaving of calls: a call     *)
(* that met no other one probing never goes below a bridge that is there,  *)
(* and none goes below simctl unless its detection has failed; the tier    *)
(* that takes the focus is used only when it was asked for.  And an input  *)
(* that a command has confirmed has arrived, all of it.                    *)
(***************************************************************************)
InputIsRouted ==
  \A c \in Inputs :
    LET given == ask[c].kind IN
    /\ (given \in Lower \/ AskAt(c, "unavailable")) /\ ~ask[c].raced => ~env.bridge
    /\ given \in Lowest \/ AskAt(c, "unavailable") => found.simctl = "no"
    /\ given = "applescript" => env.focus /\ ~env.headless
    /\ AskAt(c, "ok") /\ given \in {"simhid", "pointer", "simctl"} =>
         ask[c].got >= IF ask[c].op = "type" /\ given # "simctl" THEN 2 ELSE 1
===============================================================================
