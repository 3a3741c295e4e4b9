------------------------------ MODULE TapTools ------------------------------
(***************************************************************************)
(* The tools that touch the screen of a device: app_tap_element, app_tap,  *)
(* app_double_tap, app_swipe_native and app_scroll_native, with what they  *)
(* share: bringing the target app to the front and telling which surface   *)
(* the accessibility (AX) tree shows, and the settle wait after an input.  *)
(* One call runs against a device whose app reacts late, changes by itself *)
(* or leaves the screen at any await.                                      *)
(*                                                                         *)
(* The tree is abstracted to what the tools tell apart: its fingerprint    *)
(* (ui counts the changes), whose it is (front), and the page: the wanted  *)
(* element is on page 0; its path and its place name another element on    *)
(* page 1.                                                                 *)
(***************************************************************************)
EXTENDS ToolCall

CONSTANTS
  MaxUi,    \* bound: how often the screen changes
  NoTree    \* no fingerprint: the tree was not read, or is not usable

\* What a caller may ask of each tool.
TapOptions ==
  [tap_element |-> {"bundle", "long", "noPress", "scroll", "settle"},
   tap |-> {"bundle", "long", "raw", "lenient", "reactivate"},
   double_tap |-> {}, swipe |-> {}, scroll |-> {}]

TapInit ==
  /\ world \in [front : {"app", "home"}, page : {0}, ui : {0}, due : {FALSE},
               shown : BOOLEAN, acts : {0}, wrong : {0}]
  /\ call \in ToolCalls(TapOptions, [base |-> NoTree, sent |-> 0, swiped |-> FALSE,
                                 front |-> "unknown", after |-> "unknown"])

----------------------------------------------------------------------------
(* The device. *)

Changes(front, page) == [world EXCEPT !.ui = @ + 1, !.front = front, !.page = page]

\* The app shows what an input did, possibly by another page or by leaving.
React ==
  /\ world.due /\ world.ui < MaxUi
  /\ \E front \in {world.front, "home"}, page \in 0..1 :
       world' = [Changes(front, page) EXCEPT !.due = FALSE]
  /\ UNCHANGED call

\* The screen changes by itself.
Drift ==
  /\ world.ui < MaxUi /\ ~Ended
  /\ \E front \in {world.front, "home"}, page \in 0..1 : world' = Changes(front, page)
  /\ UNCHANGED call

\* classifyNativeContext: whose surface a tree read now shows.
Surface == world.front

\* An input acts on the wanted element, when it is there, or on something else.
Wanted == Surface = "app" /\ world.page = 0
Hit == IF Wanted THEN [world EXCEPT !.acts = @ + 1, !.due = TRUE]
                 ELSE [world EXCEPT !.wrong = 1, !.due = TRUE]

\* AXPress of the element the path names now. An answer of ok comes after it
\* acted; any other answer, and the end of its 15 s, leave that open.
PressOk(tool, to) ==
  /\ Became(tool, "press", [call EXCEPT !.at = to, !.sent = @ + 1])
  /\ world' = Hit
PressNotOk(tool, to) ==
  /\ Became(tool, "press", [call EXCEPT !.at = to, !.sent = @ + 1])
  /\ world' \in {world, Hit}

\* An input at a point may also get lost.
Sends(tool, from, to) ==
  /\ Became(tool, from, [call EXCEPT !.at = to, !.sent = @ + 1])
  /\ world' \in {world, Hit}

\* A fingerprint to compare with, when the tree can be read and is full.
Baselines == {world.ui, NoTree}
SawChange == call.base # NoTree /\ world.ui # call.base
SawNothing == call.base # NoTree /\ world.ui = call.base

----------------------------------------------------------------------------
(* app_tap_element *)

TE == "tap_element"

\* activateAndClassify: launch the app, wait for its semantics (the answer is
\* not looked at), read the tree and tell whose it is, twice at most.
Launches(tool, from, to) ==
  /\ Go(tool, from, to)
  /\ \E front \in {world.front, "app"} : world' = [world EXCEPT !.front = front]

TapContext ==
  \/ Launches(TE, "launch", "classify")
  \/ Launches(TE, "launchAgain", "classifyAgain")
  \/ /\ UNCHANGED world
     /\ \/ Surface = "app" /\ Go(TE, "classify", "query")
        \/ Surface # "app" /\ Go(TE, "classify", "launchAgain")
        \/ Surface = "app" /\ Go(TE, "classifyAgain", "query")
  \/ Surface # "app" /\ End(TE, "classifyAgain", "refused")
  \/ Throws(TE, {"launch", "launchAgain", "classify", "classifyAgain"})

\* The checks of the arguments, then the context or the semantics.
TapBegin ==
  \/ End(TE, "begin", "refused")
  \/ /\ UNCHANGED world
     /\ Go(TE, "begin", IF Opt("bundle") THEN "launch" ELSE "query")

\* Polls the query, then its relaxed forms, until the element is there or the
\* time is up.
TapQuery ==
  \/ Wanted /\ Go(TE, "query", "found") /\ UNCHANGED world
  \/ ~Wanted /\ End(TE, "query", "refused")
  \/ Throws(TE, {"query"})

\* The swipes of autoScroll, in one step: until the element shows, one fails (having
\* moved the screen or not) or the attempts are used up. The app may react to them.
Scrolls ==
  /\ Opt("scroll") /\ ~world.shown
  /\ Became(TE, "found", [call EXCEPT !.at = "scrolled", !.swiped = TRUE])
  /\ \E shown, due \in BOOLEAN : world' = [world EXCEPT !.shown = shown, !.due = @ \/ due]

\* An element that does not show is refused (without autoScroll, when no backend for
\* it was found, and after its swipes), and one whose frame is not of numbers.
TapScroll ==
  \/ Scrolls
  \/ call.at \in {"found", "scrolled"} /\ End(TE, call.at, "refused")
  \/ /\ call.at \in {"found", "scrolled"} /\ world.shown
     /\ Go(TE, call.at, IF call.opts \cap {"long", "noPress"} = {}
                        THEN "press" ELSE "baseline")
     /\ UNCHANGED world

\* tryPress: a bridge that cannot run and one that is late count as no press,
\* other errors are thrown.
TapPress ==
  \/ PressOk(TE, "before")
  \/ PressNotOk(TE, "baseline")
  \/ Throws(TE, {"press"})

\* The press answered ok: two trees are read after it, and compared.
TapPressEffect ==
  /\ UNCHANGED world
  /\ \/ \E base \in Baselines :
          Became(TE, "before", [call EXCEPT !.at = "compare", !.base = base])
     \/ SawChange /\ Go(TE, "compare", "verified")
     \/ \E base \in {call.base, NoTree} :  \* unchanged, or a tree was not read
          Became(TE, "compare", [call EXCEPT !.at = "baseline", !.base = base])

\* The tap at the element's centre, and the tree to compare with.
TapBaseline ==
  /\ UNCHANGED world
  /\ IF Opt("bundle") /\ call.base = NoTree
     THEN \E base \in Baselines :
            Became(TE, "baseline", [call EXCEPT !.at = "tap", !.base = base])
     ELSE Go(TE, "baseline", "tap")

TapTap ==
  \/ Sends(TE, "tap", IF Opt("bundle") \/ call.base # NoTree
                      THEN "verify" ELSE "tapped")
  \/ Throws(TE, {"tap"})

\* Mutant of TapVerify: no visible effect is answered like a refusal.
TapVerifyRefuses ==
  \/ SawChange /\ Go(TE, "verify", "verified") /\ UNCHANGED world
  \/ SawNothing /\ End(TE, "verify", "refused")
  \/ Go(TE, "verify", "tapped") /\ UNCHANGED world

\* verifyCoordinateTapEffect polls until the tree differs, a read fails or the
\* time is up.
TapVerify ==
  \/ SawChange /\ Go(TE, "verify", "verified") /\ UNCHANGED world
  \/ SawNothing /\ End(TE, "verify", "denied")
  \/ Go(TE, "verify", "tapped") /\ UNCHANGED world

\* waitForSettle polls the caller's own condition until it has held long enough,
\* too many polls have failed, or the time is up; without a query it throws.
WaitForSettle(tool, at) ==
  \/ End(tool, at, at)
  \/ End(tool, at, "unsettled")
  \/ Throws(tool, {at})

TapSettle(at) ==
  IF Opt("settle") THEN WaitForSettle(TE, at) ELSE End(TE, at, at)

AppTapElement ==
  \/ TapBegin \/ TapContext \/ TapQuery \/ TapScroll \/ TapPress \/ TapPressEffect
  \/ TapBaseline \/ TapTap \/ TapVerify \/ TapSettle("tapped") \/ TapSettle("verified")

----------------------------------------------------------------------------
(* app_tap *)

\* Activates the semantics and reads the tree; anything that fails leaves none.
PointBegin ==
  /\ UNCHANGED world
  /\ \/ End("tap", "begin", "refused")
     \/ Throws("tap", {"begin"})
     \/ \E base \in Baselines :
          Became("tap", "begin", [call EXCEPT !.at = "bounds", !.base = base,
            !.front = IF base = NoTree THEN "unknown" ELSE Surface])

\* A point outside of the device is refused unless a button of the tree is near.
PointBounds ==
  \/ call.base # NoTree /\ End("tap", "bounds", "refused")
  \/ /\ call.base # NoTree /\ ~Opt("raw")
     /\ Go("tap", "bounds", IF Opt("long") THEN "tap" ELSE "press")
     /\ UNCHANGED world
  \/ Go("tap", "bounds", "tap") /\ UNCHANGED world

\* A press that is refused, fails or throws is followed by a tap at its place.
PointPress ==
  \/ PressOk("tap", "verify")
  \/ PressNotOk("tap", "tap")

PointTap == Sends("tap", "tap", "verify") \/ Throws("tap", {"tap"})

\* verifyCoordinateTapEffect, with whose screen its last tree showed.
PointVerify ==
  /\ UNCHANGED world
  /\ \/ SawChange /\ Became("tap", "verify",
                       [call EXCEPT !.at = "verified", !.after = Surface])
     \/ SawNothing /\ Became("tap", "verify",
                        [call EXCEPT !.at = "denied", !.after = Surface])
     \/ \E after \in {"unknown"} \cup (IF SawNothing THEN {Surface} ELSE {}) :
          Became("tap", "verify", [call EXCEPT !.at = "tapped", !.after = after])

\* The input took the app off the screen: it is launched again when asked, and
\* the call fails unless the caller allowed that.
Backgrounded == call.front = "app" /\ call.after = "home"
Relaunch == {"reactivate", "bundle"} \subseteq call.opts
PointAnswer(at) ==
  LET answer == IF Backgrounded /\ ~Opt("lenient") THEN "backgrounded" ELSE at
  IN \/ ~(Backgrounded /\ Relaunch) /\ End("tap", at, answer)
     \/ /\ Backgrounded /\ Relaunch
        /\ Answers("tap", at, answer)
        /\ \E front \in {world.front, "app"} : world' = [world EXCEPT !.front = front]

AppTap ==
  \/ PointBegin \/ PointBounds \/ PointPress \/ PointTap \/ PointVerify
  \/ \E at \in {"verified", "denied", "tapped"} : PointAnswer(at)

----------------------------------------------------------------------------
(* app_double_tap, app_swipe_native, app_scroll_native *)

AppDoubleTap ==
  \/ End("double_tap", "begin", "refused")
  \/ Sends("double_tap", "begin", "second")
  \/ Sends("double_tap", "second", "tapped")
  \/ End("double_tap", "tapped", "tapped")
  \/ Throws("double_tap", {"begin", "second"})

\* The swipe moves what is shown; the probe of the context only adds a warning.
Swipe(tool) ==
  /\ Became(tool, "begin", [call EXCEPT !.at = "sent", !.sent = @ + 1])
  /\ \E shown \in BOOLEAN : world' = [world EXCEPT !.shown = shown]

AppSwipeNative ==
  \/ End("swipe", "begin", "refused")
  \/ Swipe("swipe")
  \/ End("swipe", "sent", "tapped")
  \/ Throws("swipe", {"begin"})

AppScrollNative ==
  \/ End("scroll", "begin", "refused")
  \/ Swipe("scroll")
  \/ End("scroll", "sent", "tapped")
  \/ Throws("scroll", {"begin"})

----------------------------------------------------------------------------
TapStep == AppTapElement \/ AppTap \/ AppDoubleTap \/ AppSwipeNative \/ AppScrollNative
TapNext == TapStep \/ React \/ Drift

----------------------------------------------------------------------------
Tapping == call.tool \in DOMAIN TapOptions

(***************************************************************************)
(* A tool of this module that refuses has pressed and tapped nothing:      *)
(* whatever it may answer after such an input says that there was one. It  *)
(* has not moved the screen either, but for a tap with autoScroll that     *)
(* could not swipe its element to where it can be tapped.                  *)
(***************************************************************************)
RefusedIsUntouched ==
  Tapping /\ call.out = "refused" =>
    /\ call.sent = 0 /\ world.acts + world.wrong = 0
    /\ call.swiped => call.tool = TE /\ Opt("scroll")

(***************************************************************************)
(* An effect is only called verified when the screen has changed since a   *)
(* tree that could be read, and an input was sent.                         *)
(***************************************************************************)
VerifiedSawChange ==
  Tapping /\ call.out = "verified" =>
    call.sent > 0 /\ call.base # NoTree /\ world.ui > call.base

(***************************************************************************)
(* A tap that took the app off the screen is a failure for a caller who    *)
(* did not allow it, also when the app could be brought back since.        *)
(***************************************************************************)
BackgroundingIsReported ==
  /\ At("tap", "end") /\ ~Opt("lenient")
  /\ call.front = "app" /\ call.after = "home"
  => call.out \in {"backgrounded", "error"}

=============================================================================
