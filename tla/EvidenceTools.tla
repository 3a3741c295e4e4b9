----------------------------- MODULE EvidenceTools -----------------------------
(***************************************************************************)
(* The tools that gather evidence of what a device shows and logs: pictures *)
(* of its screen, crash reports, logs, the bundle of them all that also    *)
(* goes along with the error of a tool, the report on the backends; and    *)
(* the tool that has Notes turn a URL into a link and taps it.             *)
(***************************************************************************)
EXTENDS ToolCall

CONSTANT MaxChanges   \* bound: what the device and the host do by themselves

Sections == {"shot", "axtree", "syslog", "crashes", "route"}

\* tool_failure is a tool that failed, or did not, and has the bundle attached.
EvidenceOptions ==
  [screenshot_native |-> {"black"}, notes_url |-> {"leave"}, debug_bundle |-> Sections,
   tool_failure |-> {"collect"}, crash_reports |-> {"one"}, app_logs |-> {},
   open_url |-> {"capture"}, diagnose |-> {}]

Reports == 1..2   \* crash reports; the second is the newer one

\* bar: the status bar is overridden; links: what the note shows, and opened what was
\* tapped; reports and lines: crash reports and log lines there are.
EvidenceInit ==
  /\ call \in ToolCalls(EvidenceOptions, [tries |-> 0, kept |-> FALSE, gave |-> FALSE, got |-> {},
                          pick |-> "none", sect |-> [s \in Sections |-> "none"], left |-> {}, was |-> "none"])
  /\ \E links \in SUBSET {"host", "other"}, reports \in SUBSET Reports, works \in SUBSET {"simctl", "input", "hid"} :
       /\ links # {} => call.tool = "notes_url"
       /\ reports # {} => call.tool \in {"debug_bundle", "crash_reports"}
       /\ works # {} => call.tool = "diagnose"
       /\ world = [bar |-> FALSE, files |-> {}, editor |-> FALSE, focus |-> FALSE, board |-> "user",
                   pasting |-> FALSE, asks |-> FALSE, links |-> links, moved |-> FALSE, opened |-> {},
                   reports |-> reports, gone |-> {}, lines |-> 0, works |-> works, touched |-> FALSE,
                   changes |-> 0]

----------------------------------------------------------------------------
(* What happens by itself. *)

OneChange(w) ==
  /\ ~Ended /\ world.changes < MaxChanges
  /\ world' \in {[v EXCEPT !.changes = @ + 1] : v \in w} /\ UNCHANGED call

\* Notes comes to its editor, asks for permission to paste, pastes what is on the
\* clipboard by then, and lays its elements out anew.
EditorComes == call.at = "editor" /\ ~world.editor /\ OneChange({[world EXCEPT !.editor = TRUE]})
NotesAsks == world.pasting /\ ~world.asks /\ OneChange({[world EXCEPT !.asks = TRUE]})
NotesPastes ==
  /\ world.pasting /\ UNCHANGED call
  /\ world' = [world EXCEPT !.pasting = FALSE, !.asks = FALSE,
                            !.links = IF world.board = "url" THEN @ \cup {"exact"} ELSE @]
NotesMoves == call.at = "tap" /\ ~world.moved /\ OneChange({[world EXCEPT !.moved = TRUE]})

\* A crash report is written, or deleted, while they are looked at.
ReportsTurn ==
  /\ call.tool \in {"debug_bundle", "crash_reports"}
  /\ call.at = "stat" \/ call.sect["crashes"] \in {"go", "stat"}
  /\ world.gone = {}
  /\ \E r \in Reports :
       OneChange({IF r \in world.reports THEN [world EXCEPT !.reports = @ \ {r}, !.gone = @ \cup {r}]
                ELSE [world EXCEPT !.reports = @ \cup {r}, !.gone = @ \cup {r}]})

LineComes == call.tool = "open_url" /\ call.at = "logs" /\ OneChange({[world EXCEPT !.lines = @ + 1]})

EvidenceTurns == EditorComes \/ NotesAsks \/ NotesPastes \/ NotesMoves \/ ReportsTurn \/ LineComes

----------------------------------------------------------------------------
(* app_screenshot_native *)

SN == "screenshot_native"
Bar(b) == [world EXCEPT !.bar = b]
File(f) == [world EXCEPT !.files = @ \cup {f}]

\* The status bar is overridden, if that works.
ScreenshotMask ==
  \/ End(SN, "begin", "refused")
  \/ ~Opt("black") /\ Pass(SN, "begin", "capture")
  \/ Opt("black") /\ Act(SN, "begin", "capture", {world, Bar(TRUE)})

\* An error that says the screen was not ready is tried again, twice.
CaptureWithRetry ==
  \/ Act(SN, "capture", "read", {File("shot")})
  \/ call.tries < 2 /\ UNCHANGED world /\ Became(SN, "capture", [call EXCEPT !.tries = @ + 1])
  \/ Act(SN, "capture", "failing", {world, File("shot")})

\* The picture is read, then the status bar is given back; the file is deleted at any
\* end. An error goes past the status bar.
ScreenshotRead ==
  \/ Pass(SN, "read", IF Opt("black") THEN "clear" ELSE "unlink")
  \/ Pass(SN, "read", "failing")
  \/ Act(SN, "clear", "unlink", {Bar(FALSE)})
  \/ Became(SN, "clear", [call EXCEPT !.at = "unlink", !.kept = TRUE]) /\ world' \in {world, Bar(FALSE)}

ScreenshotUnlink ==
  /\ world' \in {[world EXCEPT !.files = {}], world}
  /\ \/ Answers(SN, "unlink", "ok") \/ Answers(SN, "failing", "error")

AppScreenshotNative == ScreenshotMask \/ CaptureWithRetry \/ ScreenshotRead \/ ScreenshotUnlink

----------------------------------------------------------------------------
(* app_notes_paste_and_tap_url *)

NU == "notes_url"

NotesLaunch == End(NU, "begin", "refused") \/ End(NU, "begin", "error") \/ Pass(NU, "begin", "editor")

WaitForEditor ==
  \/ world.editor /\ Pass(NU, "editor", "focus")
  \/ End(NU, "editor", "error")

\* Whether the press focuses the editor is not asked.
NotesFocus == Act(NU, "focus", "borrow", {world, [world EXCEPT !.focus = TRUE]})

SafeReadPasteboard ==
  \/ End(NU, "borrow", "error")                          \* no bridge for the keys
  \/ ~Opt("leave") /\ UNCHANGED world /\ Became(NU, "borrow", [call EXCEPT !.at = "write", !.kept = TRUE])
  \/ Pass(NU, "borrow", "write")                         \* not asked for, or not readable

\* The URL, and Cmd+V; what fails is thrown, and the clipboard stays.
WritePasteboard ==
  \/ Act(NU, "write", "chord", {[world EXCEPT !.board = "url"]})
  \/ Answers(NU, "write", "error") /\ world' \in {world, [world EXCEPT !.board = "url"]}
NotesChord ==
  \/ Act(NU, "chord", "dialog", {[world EXCEPT !.pasting = world.focus]})
  \/ Answers(NU, "chord", "error") /\ world' \in {world, [world EXCEPT !.pasting = world.focus]}

PollForPermissionDialog ==
  \/ world.asks /\ Pass(NU, "dialog", "allow")
  \/ Pass(NU, "dialog", "return")
TryPressPermissionButton ==
  \/ world.asks /\ Act(NU, "allow", "return", {[world EXCEPT !.asks = FALSE]})
  \/ Pass(NU, "allow", "return")

NotesReturn ==
  \/ /\ call.kept /\ Became(NU, "return", [call EXCEPT !.at = "link", !.gave = TRUE])
     /\ world' = [world EXCEPT !.board = "user"]
  \/ call.kept /\ Act(NU, "return", "link", {world, [world EXCEPT !.board = "user"]})
  \/ ~call.kept /\ Pass(NU, "return", "link")

\* A link that has the whole URL, or else one of its host; no other.
WaitForDetectedLink ==
  \/ /\ UNCHANGED world
     /\ \E l \in {"exact", "host"} \cap world.links :
          /\ l = "host" => "exact" \notin world.links
          /\ Became(NU, "link", [call EXCEPT !.at = "tap", !.pick = l, !.got = world.links])
  \/ End(NU, "link", "error")

\* The press goes by the path, which may name another link by now.
NotesTap ==
  \/ /\ Answers(NU, "tap", "ok")
     /\ \E l \in IF world.moved THEN world.links ELSE {call.pick} : world' = [world EXCEPT !.opened = @ \cup {l}]
  \/ End(NU, "tap", "error")

AppNotesPasteAndTapUrl ==
  \/ NotesLaunch \/ WaitForEditor \/ NotesFocus \/ SafeReadPasteboard \/ WritePasteboard \/ NotesChord
  \/ PollForPermissionDialog \/ TryPressPermissionButton \/ NotesReturn \/ WaitForDetectedLink \/ NotesTap

----------------------------------------------------------------------------
(* The bundle: its sections are gathered at once, and none fails the others. *)

Section(s, from, to, new) ==
  /\ call.at = "bundle" /\ call.sect[s] = from
  /\ call' = [call EXCEPT !.sect[s] = to] /\ world' = new
Settled(how) == how \in {"skipped", "data", "nofile", "error"}

CaptureScreenshot ==
  \/ Section("shot", "go", "stat", File("shot"))
  \/ \E w \in {world, File("shot")} : Section("shot", "go", "error", w)
  \/ \E to \in {"data", "error"} : Section("shot", "stat", to, world)

\* The summary is told though the tree cannot be written.
CaptureAxTree ==
  \/ \E to \in {"write", "error"} : Section("axtree", "go", to, world)
  \/ Section("axtree", "write", "data", File("axtree"))
  \/ Section("axtree", "write", "nofile", world)

\* The file is named whether or not it could be written.
CaptureLogs ==
  \/ \E to \in {"write", "error"} : Section("syslog", "go", to, world)
  \/ Section("syslog", "write", "data", world)

\* A directory that cannot be read has no reports.
FindFreshCrashes ==
  /\ call.at = "bundle"
  /\ \/ /\ call.sect["crashes"] = "go" /\ UNCHANGED world
        /\ \/ call' = [call EXCEPT !.sect["crashes"] = "stat", !.left = world.reports]
           \/ call' = [call EXCEPT !.sect["crashes"] = "data", !.gave = TRUE]
     \/ \E r \in call.left :
          /\ call.sect["crashes"] = "stat" /\ UNCHANGED world
          /\ \A q \in call.left : r <= q
          /\ call' = [call EXCEPT !.left = @ \ {r}, !.got = @ \cup ({r} \cap world.reports)]
     \/ call.left = {} /\ Section("crashes", "stat", "data", world)

CaptureFlutterRoute == \E to \in {"data", "error"} : Section("route", "go", to, world)

\* No device, no directory; else every section that is wanted. A tool that failed takes
\* what it gets.
Included == IF call.tool = "debug_bundle" THEN call.opts ELSE Sections
BundleBegin ==
  \/ /\ UNCHANGED world
     /\ Became(call.tool, "collect", [call EXCEPT !.at = "bundle",
                 !.sect = [s \in Sections |-> IF s \in Included THEN "go" ELSE "skipped"]])
  \/ End(call.tool, "collect", IF call.tool = "debug_bundle" THEN "error" ELSE call.was)
BundleEnd ==
  /\ \A s \in Sections : Settled(call.sect[s])
  /\ End(call.tool, "bundle", IF call.tool = "debug_bundle" THEN "ok" ELSE call.was)
CollectDebugBundle ==
  BundleBegin \/ CaptureScreenshot \/ CaptureAxTree \/ CaptureLogs \/ FindFreshCrashes
    \/ CaptureFlutterRoute \/ BundleEnd

DebugBundleCollect == call.tool = "debug_bundle" /\ (Pass("debug_bundle", "begin", "collect") \/ CollectDebugBundle)

\* An answer without an error goes out as it is, and so does an error that is not
\* recoverable, or for which no bundle is asked.
TF == "tool_failure"
WrapHandlerForBundle ==
  \E was \in {"ok", "error"} :
    UNCHANGED world /\ Became(TF, "begin", [call EXCEPT !.at = "answered", !.was = was])
MaybeAttachDebugBundle ==
  /\ call.tool = TF
  /\ \/ End(TF, "answered", call.was)
     \/ Opt("collect") /\ call.was = "error" /\ Pass(TF, "answered", "collect")
     \/ CollectDebugBundle

----------------------------------------------------------------------------
(* app_crash_reports, app_logs and app_open_url *)

CR == "crash_reports"

\* A report that is gone by the time it is looked at fails the call; one that cannot be
\* read then is listed all the same.
CrashReportsList ==
  \/ End(CR, "begin", "refused")
  \/ world.reports = {} /\ End(CR, "begin", "nothing")
  \/ UNCHANGED world /\ Became(CR, "begin", [call EXCEPT !.at = "stat", !.left = world.reports, !.got = world.reports])
  \/ \E r \in call.left \cap world.reports : UNCHANGED world /\ Became(CR, "stat", [call EXCEPT !.left = @ \ {r}])
  \/ call.left \ world.reports # {} /\ End(CR, "stat", "error")
\* The newest first, as many as are asked for.
CrashReportsRead ==
  /\ call.left = {} /\ UNCHANGED world
  /\ Became(CR, "stat", [call EXCEPT !.at = "end", !.out = "ok",
       !.got = IF Opt("one") THEN {r \in @ : \A q \in @ : q <= r} ELSE @])
AppCrashReports == CrashReportsList \/ CrashReportsRead \/ Throws(CR, {"begin"})

\* The output of the log command, as JSON or by lines.
AppLogs == \E out \in {"refused", "error", "ok"} : End("app_logs", "begin", out)

OU == "open_url"

\* The log is read from before the URL was opened, over and over, until nothing new has
\* come for a while, or for too long; a read that fails ends that, not the call.
CaptureLogsWindow ==
  LET new == world.lines > call.tries
      read == [call EXCEPT !.tries = world.lines, !.gave = new]
  IN /\ UNCHANGED world
     /\ \/ Became(OU, "logs", read)
        \/ Became(OU, "logs", [read EXCEPT !.at = "end", !.out = "late"])
        \/ ~new /\ Became(OU, "logs", [read EXCEPT !.at = "end", !.out = "silence"])
        \/ Became(OU, "logs", [call EXCEPT !.at = "end", !.out = "unlogged"])

AppOpenUrl ==
  \/ End(OU, "begin", "error")
  \/ Opt("capture") /\ Pass(OU, "begin", "logs")
  \/ ~Opt("capture") /\ End(OU, "begin", "ok")
  \/ CaptureLogsWindow

----------------------------------------------------------------------------
(* diagnose: two probes at once. *)

DI == "diagnose"

\* Whether `simctl io input' is there is asked by a tap on the booted device; the status
\* the answer is compared with is never set, so that it is always there.
ProbeSimctl ==
  /\ At(DI, "probe") /\ "simctl" \in call.left
  /\ call' = [call EXCEPT !.left = @ \ {"simctl"}, !.got = @ \cup ({"simctl"} \cap world.works)]
  /\ world' = [world EXCEPT !.touched = {"simctl", "input"} \subseteq world.works]
ProbeSimHid ==
  /\ At(DI, "probe") /\ "hid" \in call.left /\ UNCHANGED world
  /\ call' = [call EXCEPT !.left = @ \ {"hid"}, !.got = @ \cup ({"hid"} \cap world.works)]
Diagnose ==
  \/ UNCHANGED world /\ Became(DI, "begin", [call EXCEPT !.at = "probe", !.left = {"simctl", "hid"}])
  \/ ProbeSimctl \/ ProbeSimHid
  \/ call.left = {} /\ End(DI, "probe", IF call.got # {} THEN "usable" ELSE "unusable")

----------------------------------------------------------------------------
EvidenceStep ==
  \/ AppScreenshotNative \/ AppNotesPasteAndTapUrl \/ DebugBundleCollect
  \/ WrapHandlerForBundle \/ MaybeAttachDebugBundle
  \/ AppCrashReports \/ AppLogs \/ AppOpenUrl \/ Diagnose
EvidenceNext == EvidenceStep \/ EvidenceTurns

(***************************************************************************)
(* A URL that Notes is said to have opened is one of its note that has the *)
(* URL's host, and the URL itself if the note showed it, unless the note   *)
(* was laid out anew in between. Each section of a bundle was wanted and   *)
(* tells what it got, whatever became of the others, a picture and a tree  *)
(* that it names were written, and no report that was there all along is   *)
(* missing, unless their directory could not be read; an error stays an    *)
(* error, and a success a success. Reports are listed by their age. A log  *)
(* is called silent when it was read to its end and the last read brought  *)
(* nothing new. A device that diagnose calls unusable is.                  *)
(***************************************************************************)
EvidenceIsTrue ==
  Ended =>
    /\ call.tool = NU /\ call.out = "ok" /\ ~world.moved =>
         world.opened = IF "exact" \in call.got THEN {"exact"} ELSE {"host"}
    /\ call.tool \in {"debug_bundle", TF} /\ (\E s \in Sections : call.sect[s] # "none") =>
         /\ \A s \in Sections : call.sect[s] = "skipped" <=> s \notin Included
         /\ \A s \in {"shot", "axtree"} : call.sect[s] = "data" => s \in world.files
         /\ "crashes" \in Included /\ ~call.gave => world.reports \ world.gone \subseteq call.got
    /\ call.tool = TF => call.out = call.was
    /\ call.tool = CR /\ call.out = "ok" =>
         \A r \in world.reports \ world.gone : r \in call.got \/ (Opt("one") /\ \E q \in call.got : q > r)
    /\ call.tool = OU /\ call.out = "silence" => ~call.gave /\ call.tries = world.lines
    /\ call.tool = DI => (call.out = "unusable" <=> {"simctl", "hid"} \cap world.works = {})

(***************************************************************************)
(* After a picture was taken the status bar is as it was, unless the       *)
(* command that gives it back failed; and the user's clipboard is back     *)
(* after the URL was tapped, if it could be read and written.              *)
(***************************************************************************)
EvidenceIsUndone ==
  Ended =>
    /\ call.tool = SN /\ call.out = "ok" /\ ~call.kept => ~world.bar
    /\ call.tool = NU /\ call.gave => world.board = "user"
=============================================================================
