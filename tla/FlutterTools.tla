---------------------------- MODULE FlutterTools ----------------------------
(***************************************************************************)
(* The tools that talk to the Dart VM of a Flutter app through the one     *)
(* client of its device: flutter_connect, the log, rebuild, breakpoint,    *)
(* memory and profiling tools, and the ones that ask one question. What    *)
(* these tools remember of the VM (that a stream is listened to, that a    *)
(* tracker runs, that the program is paused) outlives a call, and neither  *)
(* a new connection nor a new isolate asks them to forget it.              *)
(***************************************************************************)
EXTENDS ToolCall

CONSTANT MaxWaits   \* bound: polls of flutter_wait_for_pause

FlutterOptions ==
  [connect |-> {"url"}, flutter_logs |-> {"start", "clear"}, rebuilds |-> {"start", "stop", "auto"},
   set_breakpoint |-> {}, remove_breakpoint |-> {}, resume |-> {}, stack |-> {}, wait_pause |-> {},
   allocation |-> {"diff"}, heap |-> {}, cpu |-> {}, timeline |-> {}, at_point |-> {},
   evaluate |-> {"frame"}, inspect_selection |-> {"show"}, root_widget |-> {}, widget_tree |-> {},
   extensions |-> {}, extension |-> {}, build_mode |-> {}, route |-> {}, reload |-> {"restart"}]

\* How the device is found: never connected, attached, with a new isolate after a
\* hot restart (the streams and listeners stay), or after a new flutter_connect,
\* which drops them. mem is what the tools remember, for is the isolate whose pauses
\* they listen for. (A flutter_connect that finds the same isolate leaves a pause
\* which ended meanwhile in mem: none is left here.)
Attached(how, streams, paused, build, compiles) ==
  [conn |-> how # "none", iso |-> IF how \in {"none", "attached"} THEN 1 ELSE 2,
   streams |-> IF how \in {"attached", "restarted"} THEN streams ELSE {},
   hears |-> IF how \in {"attached", "restarted"} THEN streams ELSE {},
   vm |-> IF how = "attached" /\ paused THEN {"paused"} ELSE {},
   held |-> how = "attached" /\ paused,
   mem |-> streams \cup IF paused THEN {"paused"} ELSE {},
   for |-> IF "debug" \in streams THEN 1 ELSE 0, base |-> 0, moved |-> FALSE,
   build |-> build, compiles |-> compiles]

FlutterInit ==
  /\ call \in ToolCalls(FlutterOptions, [told |-> "none", left |-> FALSE, tries |-> 0, saw |-> 0])
  /\ call.opts \notin {{"start", "clear"}, {"start", "stop"}, {"start", "stop", "auto"},
                       {"auto"}, {"stop", "auto"}}
  /\ \E how \in {"none", "attached", "restarted", "reattached"},
        streams \in SUBSET {"debug", "rebuilds", "logs"},
        paused, compiles \in BOOLEAN, build \in {"debug", "profile"} :
       /\ how = "none" => streams = {}
       /\ streams \subseteq CASE call.tool = "rebuilds" -> {"rebuilds"}
                              [] call.tool = "flutter_logs" -> {"logs"}
                              [] call.tool \in {"set_breakpoint", "wait_pause", "resume"} -> {"debug"}
                              [] OTHER -> {}
       /\ paused => "debug" \in streams
       /\ call.tool # "connect" => compiles /\ build = "debug"
       /\ build = "debug" => compiles                   \* the JIT
       /\ world = Attached(how, streams, paused, build, compiles)

----------------------------------------------------------------------------
(* The VM. *)

Hears(s) == s \in world.streams \cap world.hears

\* The program stops at a breakpoint, and the listener keeps it when it is there.
VmPauses ==
  /\ call.tool \in {"wait_pause", "resume", "set_breakpoint"} /\ ~Ended
  /\ world.conn /\ "paused" \notin world.vm
  /\ world' = [world EXCEPT !.vm = @ \cup {"paused"}, !.held = TRUE,
                            !.mem = IF Hears("debug") THEN @ \cup {"paused"} ELSE @]
  /\ UNCHANGED call

\* Once during a call the connection is lost; or comes back by itself, with what
\* was listened to as far as that works; or another flutter_connect replaces it; or
\* a hot restart brings a new isolate, maybe not there yet.
VmMoves ==
  /\ ~Ended /\ ~world.moved /\ UNCHANGED call
  /\ \/ world' = [world EXCEPT !.moved = TRUE, !.conn = FALSE, !.streams = {}]
     \/ \E streams \in SUBSET world.streams :
          world' = [world EXCEPT !.moved = TRUE, !.conn = TRUE, !.streams = streams]
     \/ \E iso \in {world.iso, 2} :
          world' = [world EXCEPT !.moved = TRUE, !.conn = TRUE, !.iso = iso, !.streams = {},
                                 !.hears = {}]
     \/ \E iso \in {0, 2} :
          world.conn /\ world' = [world EXCEPT !.moved = TRUE, !.iso = iso, !.vm = @ \cap {"recording"}]

\* A request: what comes back, or an error; one that ran out of its time may have
\* taken. One about an isolate needs its id.
Does(from, to, new) == world.conn /\ Act(call.tool, from, to, {new})
DoesNot(from, new) ==
  /\ Answers(call.tool, from, "error") /\ world' \in {world} \cup IF world.conn THEN {new} ELSE {}
Request(from, to, new) == Does(from, to, new) \/ DoesNot(from, new)
OfIsolate(from, to, new) ==
  \/ world.iso # 0 /\ Request(from, to, new)
  \/ world.iso = 0 /\ DoesNot(from, world)

\* callServiceExtension: what the app itself offers to be asked, of the main isolate.
OfExtension(from, to, new) == OfIsolate(from, to, new)

\* streamListen: the VM refuses a stream it has been asked for on this connection.
Listening(w, s) == [w EXCEPT !.streams = @ \cup {s}]
Hearing(w, s) == [Listening(w, s) EXCEPT !.hears = @ \cup {s}, !.mem = @ \cup {s}]
Deaf(w, s) == [w EXCEPT !.hears = @ \ {s}]

\* Every tool but flutter_connect and flutter_build_mode asks for a connection first.
Begins(tool, to) ==
  \/ End(tool, "begin", "refused")
  \/ world.conn /\ Pass(tool, "begin", to)

----------------------------------------------------------------------------
(* flutter_connect and flutter_build_mode. *)

\* The URLs that are known are probed; the connection there is is closed; the new
\* one is dialled, at a URL that was given or is looked for.
ConnectDial ==
  \/ End("connect", "begin", "refused")
  \/ Pass("connect", "begin", "close")
  \/ ~world.conn /\ Pass("connect", "close", "dial")
  \/ /\ world.conn
     /\ Act("connect", "close", "dial", {[world EXCEPT !.conn = FALSE, !.streams = {}, !.hears = {}]})
  \/ \E iso \in {0, world.iso} :
       Act("connect", "dial", "mode", {[world EXCEPT !.conn = TRUE, !.iso = iso]})
  \/ End("connect", "dial", "error")

\* detectBuildMode: the extensions of the isolate, or else what the simulator's log
\* says about a VM service.
Modes ==
  IF ~world.conn THEN {"unknown", "release"}
  ELSE {"unknown"} \cup IF world.iso # 0 THEN {world.build} ELSE {}

Says(from, what) ==
  /\ Became("connect", from, [call EXCEPT !.at = "end", !.out = "connected", !.told = what])
  /\ UNCHANGED world

\* computeBuildModeDisclosure: a debug build evaluates, of the others it is tried.
Disclosure ==
  \/ "debug" \in Modes /\ Says("mode", "evaluate")
  \/ Modes \ {"debug"} # {} /\ Pass("connect", "mode", "evaluate")
  \/ world.conn /\ world.iso # 0 /\ world.compiles /\ Says("evaluate", "evaluate")
  \/ Says("evaluate", "none")

FlutterConnect == ConnectDial \/ Disclosure

FlutterBuildMode ==
  \/ End("build_mode", "begin", "refused")
  \/ \E mode \in Modes : End("build_mode", "begin", mode)

----------------------------------------------------------------------------
(* flutter_logs *)

\* Both streams are asked for the first time, which may fail unheard of; the
\* listeners and that there are any stay for good.
LogsListen ==
  /\ "logs" \notin world.mem
  /\ Act("flutter_logs", "listen", "answer",
         {Hearing(world, "logs"), [Hearing(world, "logs") EXCEPT !.streams = world.streams]})

FlutterLogs ==
  \/ Begins("flutter_logs", "listen")
  \/ LogsListen
  \/ "logs" \in world.mem /\ Pass("flutter_logs", "listen", "answer")
  \/ \E out \in {"capturing", "cleared", "logs"} :
       /\ out = IF Opt("start") THEN "capturing" ELSE IF Opt("clear") THEN "cleared" ELSE "logs"
       /\ End("flutter_logs", "answer", out)

----------------------------------------------------------------------------
(* flutter_track_rebuilds *)

RB == "rebuilds"

\* The stream, then the listener, then the extension, without which the listener is
\* taken back; what is remembered is remembered last.
StartTracking ==
  \/ RB \in world.mem /\ End(RB, "start", "error")
  \/ /\ RB \notin world.mem \cup world.streams /\ world.conn
     /\ Act(RB, "start", "enable", {[Hearing(world, RB) EXCEPT !.mem = world.mem]})
  \/ RB \notin world.mem /\ DoesNot("start", Listening(world, RB)) /\ call.tool = RB
  \/ /\ world.conn /\ world.iso # 0
     /\ Became(RB, "enable", [call EXCEPT !.told = "started", !.at = IF Opt("auto") THEN "timer" ELSE "end"])
     /\ world' = [world EXCEPT !.vm = @ \cup {"tracking"}, !.mem = @ \cup {RB}]
  \/ /\ Answers(RB, "enable", "error")
     /\ world' \in {Deaf(world, RB), [Deaf(world, RB) EXCEPT !.vm = @ \cup {"tracking"}]}

\* The app is asked to stop; whether it did or not, the tracker is gone.
StopTracking(from) ==
  \/ RB \notin world.mem /\ End(RB, from, "noop")
  \/ RB \in world.mem /\ Pass(RB, from, "disable")
  \/ /\ Answers(RB, "disable", "stopped")
     /\ \E vm \in {world.vm} \cup IF world.conn THEN {world.vm \ {"tracking"}} ELSE {} :
          world' = [Deaf(world, RB) EXCEPT !.vm = vm, !.mem = @ \ {RB}]

FlutterTrackRebuilds ==
  \/ Begins(RB, IF Opt("start") THEN "start" ELSE IF Opt("stop") THEN "stop" ELSE "report")
  \/ StartTracking \/ StopTracking("stop") \/ StopTracking("timer")
  \/ End(RB, "report", IF RB \in world.mem THEN "report" ELSE "error")

----------------------------------------------------------------------------
(* Breakpoints *)

\* Another isolate than the one that was listened to: the listener and the pause go.
Forgets(w) ==
  IF "debug" \in w.mem /\ w.for # 0 /\ w.iso # 0 /\ w.for # w.iso
  THEN [Deaf(w, "debug") EXCEPT !.mem = @ \ {"debug", "paused"}, !.for = 0] ELSE w

\* ensureDebugSubscription; the isolate is the one there was before the stream was
\* asked for.
EnsureDebug(tool, to) ==
  LET w == Forgets(world)
  IN \/ /\ world.conn /\ At(tool, "begin") /\ world' = w
        /\ call' = [call EXCEPT !.saw = world.iso,
                                !.at = IF "debug" \in w.mem THEN to ELSE "subscribe"]
     \/ /\ world.conn /\ "debug" \notin world.streams
        /\ Act(tool, "subscribe", to, {[Hearing(world, "debug") EXCEPT !.for = call.saw]})
     \/ call.tool = tool /\ DoesNot("subscribe", Listening(world, "debug"))

FlutterSetBreakpoint ==
  \/ End("set_breakpoint", "begin", "refused") \/ EnsureDebug("set_breakpoint", "add")
  \/ call.tool = "set_breakpoint" /\ OfIsolate("add", "added", world)
  \/ End("set_breakpoint", "added", "set")

FlutterRemoveBreakpoint ==
  \/ Begins("remove_breakpoint", "remove")
  \/ call.tool = "remove_breakpoint" /\ OfIsolate("remove", "removed", world)
  \/ End("remove_breakpoint", "removed", "removed")

\* The VM tells of the resume while the answer is on its way; what is remembered is
\* cleared again when that is there.
FlutterResume ==
  \/ Begins("resume", "resume")
  \/ /\ call.tool = "resume"
     /\ \/ /\ "paused" \in world.vm
           /\ OfIsolate("resume", "resumed",
                        [world EXCEPT !.vm = @ \ {"paused"},
                                      !.mem = IF Hears("debug") THEN @ \ {"paused"} ELSE @])
        \/ "paused" \notin world.vm /\ DoesNot("resume", world)
  \/ Answers("resume", "resumed", "resumed") /\ world' = [world EXCEPT !.mem = @ \ {"paused"}]

FlutterGetStack ==
  \/ Begins("stack", "ask")
  \/ call.tool = "stack" /\ OfIsolate("ask", "frames", world)
  \/ End("stack", "frames", "frames")

\* What is remembered is looked at again and again.
FlutterWaitForPause ==
  \/ End("wait_pause", "begin", "refused") \/ EnsureDebug("wait_pause", "poll")
  \/ "paused" \in world.mem /\ End("wait_pause", "poll", "paused")
  \/ /\ "paused" \notin world.mem /\ call.tries < MaxWaits /\ UNCHANGED world
     /\ Became("wait_pause", "poll", [call EXCEPT !.tries = @ + 1])
  \/ "paused" \notin world.mem /\ End("wait_pause", "poll", "timeout")

----------------------------------------------------------------------------
(* Memory, CPU and the timeline *)

\* A diff is against what the last call kept, of whatever isolate that was.
FlutterAllocationProfile ==
  \/ Begins("allocation", "ask")
  \/ call.tool = "allocation" /\ OfIsolate("ask", "keep", world)
  \/ /\ Became("allocation", "keep", [call EXCEPT !.at = "end", !.saw = world.base,
          !.out = IF Opt("diff") /\ world.base # 0 THEN "diff" ELSE "snapshot"])
     /\ world' = [world EXCEPT !.base = world.iso]

\* collectHeapSnapshot: the listener is there before the stream is asked for; the
\* last chunk, an error or the timer end it, and each takes the listener away.
CollectHeapSnapshot ==
  \/ Act("heap", "collect", "listen", {[world EXCEPT !.hears = @ \cup {"heap"}]})
  \/ world.conn /\ "heap" \notin world.streams /\ Act("heap", "listen", "request", {Listening(world, "heap")})
  \/ world.conn /\ world.iso # 0 /\ Pass("heap", "request", "chunks")
  \/ Hears("heap") /\ \E at \in {"request", "chunks"} : Act("heap", at, "write", {Deaf(world, "heap")})
  \/ \E at \in {"listen", "request", "chunks"} :
       Answers("heap", at, "error") /\ world' = Deaf(world, "heap")

FlutterHeapSnapshot ==
  \/ Begins("heap", "collect") \/ CollectHeapSnapshot
  \/ End("heap", "write", "ok") \/ Throws("heap", {"write"})

FlutterCpuProfile ==
  \/ Begins("cpu", "sample")
  \/ call.tool = "cpu" /\ OfIsolate("sample", "samples", world)
  \/ End("cpu", "samples", "ok")

\* The flags are set for a while and reset in a finally clause; left is a set or a
\* reset that failed, which nobody tries again.
TL == "timeline"
Recording(on) == [world EXCEPT !.vm = IF on THEN @ \cup {"recording"} ELSE @ \ {"recording"}]
FlutterTimelineCapture ==
  \/ Begins(TL, "set")
  \/ call.tool = TL /\ Does("set", "record", Recording(TRUE))
  \/ /\ Became(TL, "set", [call EXCEPT !.at = "end", !.out = "error", !.left = TRUE])
     /\ world' \in {world} \cup IF world.conn THEN {Recording(TRUE)} ELSE {}
  \/ \E out \in {"ok", "error"} : \* the sleep, the timeline and the file
       /\ Became(TL, "record", [call EXCEPT !.at = "reset", !.told = out])
       /\ UNCHANGED world
  \/ /\ world.conn /\ Answers(TL, "reset", call.told) /\ world' = Recording(FALSE)
  \/ /\ Became(TL, "reset", [call EXCEPT !.at = "end", !.out = call.told, !.left = TRUE])
     /\ world' \in {world} \cup IF world.conn THEN {Recording(FALSE)} ELSE {}

----------------------------------------------------------------------------
(* The tools that ask. *)

\* selectWidgetAtPoint: the inspector's library is looked for in the isolate, which may
\* not have it; an expression of it makes the hit test and selects what it hits; and
\* what is selected is asked for.
SelectWidgetAtPoint ==
  \/ OfIsolate("library", "hit", world) \/ DoesNot("library", world)
  \/ OfIsolate("hit", "look", world)
  \/ End("at_point", "look", "nothing") \/ Pass("at_point", "look", "selection")
  \/ OfExtension("selection", "parents", world)

\* flutter_widget_at_point: the metrics, the selection of what is hit, and its parents,
\* which are left out when they fail.
FlutterWidgetAtPoint ==
  /\ call.tool = "at_point"
  /\ \/ Begins("at_point", "metrics") \/ OfIsolate("metrics", "bounds", world)
     \/ End("at_point", "bounds", "outside") \/ Pass("at_point", "bounds", "library")
     \/ SelectWidgetAtPoint
     \/ \E out \in {"nothing", "widget"} : End("at_point", "parents", out)

Question(tool, answers) ==
  \/ Begins(tool, "ask")
  \/ call.tool = tool /\ OfExtension("ask", "got", world)
  \/ \E out \in answers : End(tool, "got", out)

\* evaluate(): the root library of the isolate is asked for, then the expression is
\* evaluated in it; an isolate that was replaced in between cannot.
Evaluate ==
  \/ /\ world.conn /\ world.iso # 0 /\ UNCHANGED world
     /\ Became("evaluate", "root", [call EXCEPT !.at = "compile", !.saw = world.iso])
  \/ DoesNot("root", world)
  \/ world.iso = call.saw /\ OfIsolate("compile", "got", world)
  \/ world.iso # call.saw /\ DoesNot("compile", world)

\* In a stack frame, one request.
FlutterEvaluate ==
  /\ call.tool = "evaluate"
  /\ \/ Begins("evaluate", IF Opt("frame") THEN "frame" ELSE "root")
     \/ OfIsolate("frame", "got", world) \/ Evaluate \/ End("evaluate", "got", "ok")

\* getRootWidgetSummaryTree(): with previews, which an old Flutter is not asked for;
\* whatever that fails of, the tree without is asked for.
RootWidgetSummaryTree ==
  \/ OfExtension("previews", "got", world) \/ Pass("root_widget", "previews", "summary")
  \/ OfExtension("summary", "got", world)
FlutterRootWidget ==
  /\ call.tool = "root_widget"
  /\ \/ \E to \in {"previews", "summary"} : Begins("root_widget", to)
     \/ RootWidgetSummaryTree \/ End("root_widget", "got", "ok")
FlutterWidgetTree == Question("widget_tree", {"ok"})
FlutterListServiceExtensions == Question("extensions", {"ok"})
FlutterCallServiceExtension == Question("extension", {"ok"})

\* What the app says about its route may be that it knows none.
FlutterGetRoute == Question("route", {"route", "unknown"})

\* The inspector is put over the app first, when that is asked for.
FlutterInspectSelection ==
  /\ call.tool = "inspect_selection"
  /\ \/ Begins("inspect_selection", IF Opt("show") THEN "show" ELSE "ask")
     \/ OfExtension("show", "ask", [world EXCEPT !.vm = @ \cup {"inspecting"}])
     \/ OfExtension("ask", "got", world)
     \/ \E out \in {"ok", "empty"} : End("inspect_selection", "got", out)

\* A restart leaves another isolate.
FlutterHotReload ==
  /\ call.tool = "reload"
  /\ \/ Begins("reload", "load")
     \/ OfIsolate("load", "got", IF Opt("restart")
                                 THEN [world EXCEPT !.iso = 2, !.vm = @ \cap {"recording"}] ELSE world)
     \/ End("reload", "got", "ok")

----------------------------------------------------------------------------
FlutterStep ==
  \/ FlutterConnect \/ FlutterBuildMode \/ FlutterLogs \/ FlutterTrackRebuilds
  \/ FlutterSetBreakpoint \/ FlutterRemoveBreakpoint \/ FlutterResume \/ FlutterGetStack
  \/ FlutterWaitForPause \/ FlutterAllocationProfile \/ FlutterHeapSnapshot \/ FlutterCpuProfile
  \/ FlutterTimelineCapture \/ FlutterWidgetAtPoint \/ FlutterEvaluate \/ FlutterRootWidget
  \/ FlutterWidgetTree \/ FlutterListServiceExtensions \/ FlutterCallServiceExtension
  \/ FlutterGetRoute \/ FlutterInspectSelection \/ FlutterHotReload
FlutterNext == FlutterStep \/ VmPauses \/ VmMoves

Flutter == call.tool \in DOMAIN FlutterOptions

(***************************************************************************)
(* A program flutter_wait_for_pause calls paused was paused when the call  *)
(* came or since, even when what is remembered is of an isolate that is    *)
(* gone (but not when the next one is not known yet, saw = 0: then the old *)
(* pause is told); and flutter_connect says that expressions can be        *)
(* evaluated only of a VM that can.                                        *)
(***************************************************************************)
FlutterClaims ==
  Flutter =>
    /\ call.out = "paused" => world.held \/ call.saw = 0
    /\ call.told = "evaluate" => world.compiles

(***************************************************************************)
(* Nothing listens for a tool that is over: no listener of a snapshot, and *)
(* none of rebuilds without the tracker that can be stopped; and the VM    *)
(* records its timeline only if setting or resetting that failed.          *)
(***************************************************************************)
FlutterLeavesNothing ==
  Flutter /\ Ended =>
    /\ "heap" \notin world.hears
    /\ "rebuilds" \in world.hears => "rebuilds" \in world.mem
    /\ "recording" \in world.vm => call.left
=============================================================================
