----------------------------- MODULE AlertTools -----------------------------
(***************************************************************************)
(* The tools that answer system alerts: app_handle_alert, with its tiers   *)
(* (accessibility scan, AppleScript, keyboard, permission reset) and its   *)
(* loop over stacked alerts, and app_alert_handle, which presses a button  *)
(* by its label and escalates to keys when it sees no effect.              *)
(*                                                                         *)
(* Alerts are a stack; the one on top shows. Its button is at a path which *)
(* another alert's button may have as well. The app beneath may show a     *)
(* button that looks like an alert's, and a key goes to the alert, or else *)
(* to the app.                                                             *)
(***************************************************************************)
EXTENDS ToolCall

CONSTANTS
  MaxAlerts,    \* bound: alerts waiting at the start
  MaxStacked    \* maxStackedAlerts of app_handle_alert

Paths == 1..2     \* where the button of an alert may be
LurePath == 0     \* the app's own button of that name
NoPath == -1

AlertOptions ==
  [handle_alert |-> {"all", "keys", "reset", "dryRun"}, alert_handle |-> {"labels"}]

AlertInit ==
  /\ world \in [alerts : UNION {[1..n -> Paths] : n \in 0..MaxAlerts}, lure : BOOLEAN,
               closing : {FALSE}, gone : {0}, came : {0}, touched : {0},
               reset : {FALSE}]
  /\ call \in ToolCalls(AlertOptions, [path |-> NoPath, base |-> 0, count |-> 0, round |-> 0,
                                   strategy |-> "none"])

----------------------------------------------------------------------------
(* The screen. *)

Top == Head(world.alerts)
Shows == world.alerts # <<>>

\* An alert whose button acted closes a while later.
AlertCloses ==
  /\ world.closing
  /\ world' = [world EXCEPT !.alerts = Tail(@), !.closing = FALSE, !.gone = @ + 1]
  /\ UNCHANGED call

\* Another alert comes on top of the one that shows.
AlertComes ==
  /\ world.came = 0 /\ ~world.closing /\ ~Ended
  /\ \E p \in Paths : world' = [world EXCEPT !.alerts = <<p>> \o @, !.came = 1]
  /\ UNCHANGED call

\* findAlertCandidates: the buttons with a label of the corpus, of the alert on top
\* or of the app beneath; which comes first depends on where they are.
Buttons == (IF Shows THEN {Top} ELSE {}) \cup (IF world.lure THEN {LurePath} ELSE {})

\* What a press at a path does: the top alert closes, the app's own button acts
\* and is taken away, or nothing.
PressedAt(path) ==
  {world} \cup
  (IF path \notin Buttons THEN {}
   ELSE IF path = LurePath THEN {[world EXCEPT !.lure = FALSE, !.touched = @ + 1]}
   ELSE {[world EXCEPT !.closing = TRUE]})

\* A key answers the alert with its default, or lands in the app.
Keyed == IF Shows THEN {world, [world EXCEPT !.closing = TRUE]}
         ELSE {[world EXCEPT !.touched = @ + 1]}

----------------------------------------------------------------------------
(* app_handle_alert *)

HA == "handle_alert"

HandleBegin == Throws(HA, {"begin"}) \/ Pass(HA, "begin", "scan")

\* tryAxScan reads the tree and presses the first candidate. Whatever goes wrong
\* is "no candidate" to the caller, although a press may have acted by then.
Scan ==
  \/ /\ \E path \in Buttons :
          Became(HA, "scan", [call EXCEPT !.at = "scanPress", !.path = path])
     /\ UNCHANGED world
  \/ Pass(HA, "scan", "script")                          \* none, or no tree
  \/ \E to \in {"poll", "script"} : Act(HA, "scanPress", to, PressedAt(call.path))

\* A tier that dismissed an alert looks for more when asked to.
Counts(from, strategy) ==
  Became(HA, from, [call EXCEPT !.count = 1, !.strategy = strategy,
                                !.at = IF Opt("all") THEN "stack" ELSE "counted"])

\* pollForDismissal: the path is no candidate's any more, or the time is up.
Poll ==
  \/ call.path \notin Buttons /\ Counts("poll", "ax-scan") /\ UNCHANGED world
  \/ call.path \in Buttons /\ Pass(HA, "poll", "counted")

\* dismissStackedAlerts: as long as a candidate shows up, press it and count it
\* once it is gone; any doubt ends the loop.
Stack ==
  \/ /\ call.round < MaxStacked
     /\ \E path \in Buttons :
          Became(HA, "stack", [call EXCEPT !.at = "stackPress", !.path = path, !.round = @ + 1])
     /\ UNCHANGED world
  \/ Pass(HA, "stack", "counted")
  \/ \E to \in {"stackPoll", "counted"} : Act(HA, "stackPress", to, PressedAt(call.path))
  \/ /\ call.path \notin Buttons
     /\ Became(HA, "stackPoll", [call EXCEPT !.at = "stack", !.count = @ + 1])
     /\ UNCHANGED world
  \/ call.path \in Buttons /\ Pass(HA, "stackPoll", "counted")

\* finalize: the answer; probeAxRecovered only adds to it.
Finalize == End(HA, "counted", IF call.count > 0 THEN "dismissed" ELSE "kept")

\* tryAppleScript clicks a button with one of the labels, or fails.
Script ==
  \/ /\ Shows /\ Counts("script", "applescript-sheet")
     /\ world' = [world EXCEPT !.closing = TRUE]
  \/ Pass(HA, "script", IF Opt("keys") THEN "keys" ELSE "fallback")

\* tryKeyboardFallback counts as soon as the key is sent.
Keys ==
  \/ Counts("keys", "keyboard-fallback") /\ world' \in Keyed
  \/ Pass(HA, "keys", "fallback")

\* The permission reset: of the one service the texts name, unless a dry run.
Reset ==
  \/ End(HA, "fallback", "kept")
  \/ Opt("reset") /\ ~Opt("dryRun")
     /\ Answers(HA, "fallback", "dismissed")
     /\ world' = [world EXCEPT !.reset = TRUE]

HandleAlert == HandleBegin \/ Scan \/ Poll \/ Stack \/ Finalize \/ Script \/ Keys \/ Reset

----------------------------------------------------------------------------
(* app_alert_handle *)

AH == "alert_handle"

\* verifyAlertEffect: the fingerprints tell these apart.
Fingerprint == world.gone + world.came + world.touched
Changed == Fingerprint # call.base

PressBegin ==
  \/ End(AH, "begin", "kept")                              \* no button, no label
  \/ Throws(AH, {"begin"})
  \/ /\ Opt("labels") /\ UNCHANGED world
     /\ \E path \in Buttons :
          Became(AH, "begin", [call EXCEPT !.at = "press", !.path = path, !.base = Fingerprint])
  \/ ~Opt("labels") /\ Pass(AH, "begin", "key")

\* The labelled button: a press that is not ok or throws ends the call.
PressButton ==
  \/ Act(AH, "press", "check", PressedAt(call.path))
  \/ Answers(AH, "press", "error") /\ world' \in PressedAt(call.path)

\* Polls for a change.
CheckButton ==
  \/ Changed /\ End(AH, "check", "dismissed")
  \/ ~Changed /\ Pass(AH, "check", "return")
  \/ Throws(AH, {"check"})

\* Without a change Return and then Escape are sent, and looked at once each;
\* what fails on the way leaves the call without an effect.
Escalate ==
  \/ Act(AH, "return", "checkReturn", Keyed)
  \/ Act(AH, "escape", "checkEscape", Keyed)
  \/ Changed /\ \E at \in {"checkReturn", "checkEscape"} : End(AH, at, "dismissed")
  \/ ~Changed /\ Pass(AH, "checkReturn", "escape")
  \/ \E at \in {"return", "checkReturn", "escape", "checkEscape"} : End(AH, at, "kept")

\* Without labels: one key, whatever shows.
PlainKey ==
  \/ Answers(AH, "key", "dismissed") /\ world' \in Keyed
  \/ Throws(AH, {"key"})

AlertHandle == PressBegin \/ PressButton \/ CheckButton \/ Escalate \/ PlainKey

----------------------------------------------------------------------------
AlertStep == HandleAlert \/ AlertHandle
AlertNext == AlertStep \/ AlertCloses \/ AlertComes

(***************************************************************************)
(* Every dismissal the accessibility scan counts is an alert that went     *)
(* away, or one that another alert covered, or a button of the app that    *)
(* acted: none is counted for a press without an effect.                   *)
(***************************************************************************)
CountedHadAnEffect ==
  call.tool = HA /\ call.strategy = "ax-scan" =>
    call.count <= world.gone + world.came + world.touched

=============================================================================
