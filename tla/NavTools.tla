------------------------------ MODULE NavTools ------------------------------
(***************************************************************************)
(* The tools that move between the screens of an app: app_pop_until, over  *)
(* the Flutter VM or by native back gestures, app_goto_screen with the     *)
(* navigation it runs (already there, deep link, native fallback), and     *)
(* app_dismiss_overlay and app_dismiss_keyboard.                           *)
(*                                                                         *)
(* The app is a stack of pages, of which depth is on top, under an overlay *)
(* or not; gestures and links take effect late or never. A postcondition   *)
(* is a query of the accessibility tree, which another page may answer as  *)
(* well, a route name, which only the target page has, or both.            *)
(***************************************************************************)
EXTENDS ToolCall

CONSTANTS
  MaxDepth,       \* bound: pages above the first one
  MaxAttempts     \* maxAttempts of app_pop_until, maxNativeAttempts of app_goto_screen

NavOptions ==
  [pop_until |-> {"count", "two", "force", "ax", "route"},
   goto_screen |-> {"ax", "route", "fallback"},
   dismiss_overlay |-> {"dialog", "gesture", "gone", "lenient"},
   dismiss_keyboard |-> {}]

Pages == 0..MaxDepth

\* seen and bare: whether the target page was on the screen since the call began,
\* and whether there was no overlay.
Sees(w) == [w EXCEPT !.seen = @ \/ w.depth = w.target, !.bare = @ \/ ~w.overlay]

NavInit ==
  /\ call \in ToolCalls(NavOptions, [kinds |-> {}, phase |-> "none", met |-> FALSE,
                                 tried |-> 0, sent |-> 0])
  /\ \E w \in [depth : Pages, target : Pages, alike : Pages, overlay : BOOLEAN, vm : BOOLEAN,
               pops : {0}, link : {FALSE}, drifts : {0}, seen : {FALSE}, bare : {FALSE}] :
       /\ ~Opt("ax") => w.alike = 0            \* what no tool looks at is not varied
       /\ call.tool \in {"dismiss_overlay", "dismiss_keyboard"} => w.target = 0 /\ w.vm
       /\ call.tool = "goto_screen" => ~w.overlay
       /\ world = Sees(w)

----------------------------------------------------------------------------
(* The app. *)

Popped(w, n) == Sees([w EXCEPT !.depth = IF w.depth > n THEN w.depth - n ELSE 0])

\* A back gesture takes away the overlay, or else the page on top.
GestureLands ==
  /\ world.pops > 0
  /\ LET w == [world EXCEPT !.pops = @ - 1]
     IN world' = IF w.overlay THEN Sees([w EXCEPT !.overlay = FALSE]) ELSE Popped(w, 1)
  /\ UNCHANGED call

\* The app opens a page for the link.
LinkOpens ==
  /\ world.link
  /\ \E page \in Pages : world' = Sees([world EXCEPT !.depth = page, !.link = FALSE])
  /\ UNCHANGED call

\* Pages and overlays come and go by themselves, and the VM connection is lost.
NavDrifts ==
  /\ ~Ended /\ world.drifts = 0
  /\ \/ \E page \in Pages : world' = Sees([world EXCEPT !.depth = page, !.drifts = 1])
     \/ world' = Sees([world EXCEPT !.overlay = ~@, !.drifts = 1])
     \/ world' = [world EXCEPT !.vm = FALSE, !.drifts = 1]
  /\ UNCHANGED call

\* An input that will show an effect, or is lost.
Gestured == {world, [world EXCEPT !.pops = @ + 1]}

\* What a query of the tree and a look at the current route find now.
AxHolds == world.depth \in {world.target, world.alike}
RouteHolds == world.vm /\ world.depth = world.target
Asked == call.opts \cap {"ax", "route"}

----------------------------------------------------------------------------
(* app_pop_until *)

PU == "pop_until"
Sent(tool, from, to, effects) ==
  /\ Became(tool, from, [call EXCEPT !.at = to, !.sent = @ + 1])
  /\ world' \in effects

\* What the native ladder can verify: without the VM no route.
NativePost == IF world.vm THEN Asked ELSE Asked \ {"route"}

PopBegin ==
  \/ End(PU, "begin", "refused")
  \/ world.vm /\ ~Opt("force") /\ Pass(PU, "begin", "evaluate")
  \/ /\ ~world.vm \/ Opt("force")
     /\ IF ~Opt("count") /\ NativePost = {} THEN End(PU, "begin", "refused")
        ELSE Became(PU, "begin", [call EXCEPT !.at = "backend", !.kinds = NativePost])
             /\ UNCHANGED world

\* The expression pops count pages or until the target, else to the first page.
PopTarget ==
  IF Opt("count") THEN Popped(world, IF Opt("two") THEN 2 ELSE 1)
  ELSE IF world.target <= world.depth THEN Popped(world, world.depth - world.target)
  ELSE Popped(world, world.depth)

\* It is evaluated in the app, at once; an error may come after it was.
PopEvaluates ==
  \/ Answers(PU, "evaluate", "error") /\ world' \in {world, PopTarget}
  \/ /\ world.vm /\ world' = PopTarget
     /\ Became(PU, "evaluate",
          [call EXCEPT !.at = IF Asked = {} THEN "popped" ELSE "verify", !.kinds = Asked])

\* A route is all that is verified where one is given.
PopVerified == IF "route" \in call.kinds THEN RouteHolds ELSE AxHolds

\* Mutant of PopVerify: the query is enough where there is one.
PopVerifyByQuery ==
  \/ Asked = {} /\ End(PU, "popped", "ok")
  \/ (IF "ax" \in call.kinds THEN AxHolds ELSE RouteHolds) /\ End(PU, "verify", "ok")
  \/ End(PU, "verify", "unverified")

\* Polls until it holds or the time is up.
PopVerify ==
  \/ Asked = {} /\ End(PU, "popped", "ok")
  \/ PopVerified /\ End(PU, "verify", "ok")
  \/ End(PU, "verify", "unverified")

\* runNativeFallback: one gesture per attempt, then the postcondition.
StepCap == IF Opt("count") /\ ~Opt("two") THEN 1 ELSE MaxAttempts
CountAsked == IF Opt("two") THEN 2 ELSE 1

PopBackend == End(PU, "backend", "refused") \/ Pass(PU, "backend", "back")

\* dispatchNativeBack: tap the back button if one is found, else swipe from the
\* edge, and send Escape when the swipe fails.
PopBack ==
  \/ Sent(PU, "back", "sent", Gestured)                      \* the button, the swipe
  \/ Act(PU, "back", "escape", Gestured)                     \* the swipe failed
  \/ Sent(PU, "escape", "sent", Gestured)
  \/ \E at \in {"back", "escape"} : Pass(PU, at, "exhausted")  \* so did all

PopNativeVerify ==
  \/ call.kinds # {} /\ PopVerified /\ End(PU, "sent", "ok")
  \/ /\ Became(PU, "sent", [call EXCEPT !.tried = @ + 1,
                              !.at = IF call.tried + 1 < StepCap THEN "back" ELSE "exhausted"])
     /\ UNCHANGED world

PopExhausted ==
  End(PU, "exhausted",
      IF Opt("count") /\ Asked = {} /\ call.sent >= CountAsked THEN "ok" ELSE "unverified")

PopUntil ==
  \/ PopBegin \/ PopEvaluates \/ PopVerify \/ PopBackend \/ PopBack
  \/ PopNativeVerify \/ PopExhausted

----------------------------------------------------------------------------
(* app_goto_screen *)

GS == "goto_screen"

\* What one poll or another until the deadline may say.
May(holds) == {FALSE, holds}

GotoBegin ==
  \/ End(GS, "begin", "refused")
  \/ /\ Asked # {} /\ UNCHANGED world
     /\ Became(GS, "begin", [call EXCEPT !.at = "query", !.phase = "already", !.kinds = Asked])

\* verifyPostcondition waits for the query, and then for the route in any case.
GotoQuery ==
  /\ UNCHANGED world
  /\ \E met \in IF "ax" \in call.kinds THEN May(AxHolds) ELSE {TRUE} :
       Became(GS, "query", [call EXCEPT !.at = "route", !.met = met])

\* postconditionMet: what was asked for, all of it.
PostMet(route) == call.met /\ route

\* What is tried next where the target was not found, and what is answered else.
GotoNext == [already |-> "link", opened |-> "native", native |-> "native"]
GotoFound == [already |-> "already", opened |-> "navigated", native |-> "navigated"]

GotoRoute ==
  \E route \in IF "route" \in call.kinds THEN May(RouteHolds) ELSE {TRUE} :
    IF PostMet(route) THEN End(GS, "route", GotoFound[call.phase])
    ELSE Pass(GS, "route", GotoNext[call.phase])

\* A route alone is looked at once more; then the link is opened, and verified
\* unless that failed.
GotoLink ==
  \/ call.kinds = {"route"} /\ RouteHolds /\ End(GS, "link", "already")
  \/ /\ Became(GS, "link", [call EXCEPT !.at = "query", !.phase = "opened", !.sent = @ + 1])
     /\ world' \in {world, [world EXCEPT !.link = TRUE]}
  \/ Act(GS, "link", "native", {world, [world EXCEPT !.link = TRUE]})

\* tryNativeFallback: for each of the queries, press what it finds, tap it when
\* the press is not ok, and verify; what throws ends the turn, no match does too.
GotoNative ==
  \/ ~Opt("fallback") /\ End(GS, "native", "failed")
  \/ call.tried >= MaxAttempts /\ End(GS, "native", "failed")
  \/ /\ Opt("fallback") /\ call.tried < MaxAttempts
     /\ \/ /\ \E to \in {"query", "tap"} :
               Became(GS, "native", [call EXCEPT !.at = to, !.phase = "native",
                                                 !.tried = @ + 1, !.sent = @ + 1])
          /\ world' \in {world, [world EXCEPT !.link = TRUE]}
        \/ Became(GS, "native", [call EXCEPT !.tried = @ + 1]) /\ UNCHANGED world
  \/ \E to \in {"query", "native"} : Act(GS, "tap", to, {world, [world EXCEPT !.link = TRUE]})
  \/ Throws(GS, {"native"})                                 \* no input backend

GotoScreen == GotoBegin \/ GotoQuery \/ GotoRoute \/ GotoLink \/ GotoNative

----------------------------------------------------------------------------
(* app_dismiss_overlay, app_dismiss_keyboard *)

DO == "dismiss_overlay"
DK == "dismiss_keyboard"

OverlayBegin ==
  \/ End(DO, "begin", "refused")
  \/ Throws(DO, {"begin"})                                  \* no input backend
  \/ Pass(DO, "begin", IF Opt("gesture") THEN "swipe" ELSE "escape")

\* Escape, a tap beside the overlay and a swipe: one gesture for a sheet or a
\* drawer, two for a dialog, all three else, whatever the first ones did. Only
\* the last one of a given mode may fail the call.
OverlayGestures ==
  \/ Act(DO, "escape", "scrim", Gestured)
  \/ Act(DO, "scrim", IF Opt("dialog") THEN "sent" ELSE "swipe", Gestured)
  \/ Act(DO, "swipe", "sent", Gestured)
  \/ Opt("dialog") /\ Throws(DO, {"scrim"})
  \/ Opt("gesture") /\ Throws(DO, {"swipe"})

\* Without a query it is dismissed; else the tree is polled until it is gone, and
\* only a strict caller gets an error when it is not.
OverlayVerify ==
  \/ (Opt("gone") => ~world.overlay) /\ End(DO, "sent", "dismissed")
  \/ Opt("gone") /\ End(DO, "sent", IF Opt("lenient") THEN "kept" ELSE "error")

DismissOverlay == OverlayBegin \/ OverlayGestures \/ OverlayVerify

\* Escape, and a tap near the top when it cannot be sent.
DismissKeyboard ==
  \/ End(DK, "begin", "refused")
  \/ Throws(DK, {"begin"})
  \/ \E at \in {"begin", "tap"} : Answers(DK, at, "dismissed") /\ world' \in Gestured
  \/ Act(DK, "begin", "tap", Gestured)
  \/ End(DK, "tap", "error")

----------------------------------------------------------------------------
NavStep == PopUntil \/ GotoScreen \/ DismissOverlay \/ DismissKeyboard
NavNext == NavStep \/ GestureLands \/ LinkOpens \/ NavDrifts

(***************************************************************************)
(* An answer that claims to have reached a route tells the truth: the      *)
(* target was on the screen during the call; and an overlay that is said   *)
(* to be gone was away during the call.                                    *)
(***************************************************************************)
NavClaimsAreTrue ==
  /\ (/\ call.tool \in {PU, GS} /\ call.out \in {"ok", "already", "navigated"}
      /\ "route" \in call.kinds) => world.seen
  /\ At(DO, "end") /\ call.out = "dismissed" /\ Opt("gone") => world.bare

=============================================================================
