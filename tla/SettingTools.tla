---------------------------- MODULE SettingTools ----------------------------
(***************************************************************************)
(* The tools that borrow or change a setting of a device or of a page: the *)
(* checks of dark mode, of orientation and of the keyboard, which switch   *)
(* the device over, look, and switch it back; app_type_element with its    *)
(* paste, which borrows the clipboard; and the ones that only set.         *)
(***************************************************************************)
EXTENDS ToolCall

CONSTANT MaxFields   \* bound: input fields of the app

SettingOptions ==
  [dark_mode |-> {}, orientation |-> {}, keyboard_overlap |-> {},
   type_element |-> {"paste", "leave", "accept", "noVerify", "settle"},
   type_text |-> {}, key_input |-> {},
   debug_paint |-> {"all_off", "enable"}, appearance |-> {"dark", "light"}, rotate |-> {"right"},
   geolocation |-> {}, permission |-> {}, throttle |-> {"none"}]

\* dark and wide: the appearance and the orientation; board: whose text is on the
\* clipboard; field: what the app pasted or was typed; paste: a paste the app has
\* still to do; paint: overlays that show; mock: a script of ours is in the page.
SettingInit ==
  /\ call \in ToolCalls(SettingOptions, [read |-> "none", kept |-> FALSE, left |-> FALSE,
                                     tries |-> 0, told |-> "none"])
  /\ call.opts # {"dark", "light"}
  /\ call.tool = "type_element" /\ ~Opt("paste") => call.opts \cap {"leave", "accept"} = {}
  /\ \E dark, wide \in BOOLEAN, paint \in SUBSET {"size", "baseline"}, board \in {"user", "none"} :
       /\ dark => call.tool \in {"dark_mode", "appearance"}      \* vary what the tool looks at
       /\ wide => call.tool \in {"orientation", "rotate"}
       /\ paint # {} => call.tool = "debug_paint"
       /\ board = "none" => call.tool = "type_element" /\ Opt("paste")
       /\ world = [dark |-> dark, wide |-> wide, paint |-> paint, board |-> board,
                   was |-> [dark |-> dark, wide |-> wide], field |-> {}, paste |-> FALSE,
                   up |-> FALSE, mock |-> FALSE, copied |-> FALSE]

----------------------------------------------------------------------------
(* The device. *)

\* The app does the paste with what is on the clipboard by then.
PasteLands ==
  /\ world.paste
  /\ world' = [world EXCEPT !.paste = FALSE, !.field = @ \cup {world.board}]
  /\ UNCHANGED call

\* The user copies something while the tool runs.
UserCopies ==
  /\ call.tool = "type_element" /\ Opt("paste") /\ ~Ended /\ ~world.copied
  /\ world' = [world EXCEPT !.board = "user", !.copied = TRUE]
  /\ UNCHANGED call

\* A command of simctl that sets something takes, or fails; one that ran out of its
\* time may have taken as well.
Sets(from, to, new) == Act(call.tool, from, to, {new})
Fails(from, to, new) == Act(call.tool, from, to, {world, new})
Dark(b) == [world EXCEPT !.dark = b]
Wide(b) == [world EXCEPT !.wide = b]

----------------------------------------------------------------------------
(* The checks that switch the device over. *)

DM == "dark_mode"

\* A current appearance that cannot be read is taken for light.
DarkBegin ==
  \/ End(DM, "begin", "error")
  \/ /\ UNCHANGED world
     /\ \E read \in {world.dark, FALSE} :
          Became(DM, "begin", [call EXCEPT !.at = "light", !.read = IF read THEN "dark" ELSE "light",
                                           !.kept = read = world.dark])

\* Light, a picture and the tree; dark, a picture and the tree; and back.
DarkLook(set, dark, look, next) ==
  \/ Sets(set, look, Dark(dark))
  \/ Fails(set, "undo", Dark(dark))
  \/ Pass(DM, look, next)
  \/ Pass(DM, look, "undo")

\* Back to what was read; after an error once more, and if that fails it is left.
DarkRestore ==
  \/ Sets("restore", "judge", Dark(call.read = "dark"))
  \/ Fails("restore", "undo", Dark(call.read = "dark"))
  \/ Sets("undo", "failed", Dark(call.read = "dark"))
  \/ /\ Became(DM, "undo", [call EXCEPT !.at = "failed", !.left = TRUE])
     /\ world' \in {world, Dark(call.read = "dark")}

QaDarkMode ==
  \/ DarkBegin
  \/ DarkLook("light", FALSE, "lit", "dark") \/ DarkLook("dark", TRUE, "dim", "restore")
  \/ DarkRestore
  \/ \E out \in {"passed", "failed"} : End(DM, "judge", out)
  \/ End(DM, "failed", "error")

\* The tree as it is, landscape, the tree again, and portrait.
OR == "orientation"
QaOrientation ==
  /\ call.tool = OR
  /\ \/ End(OR, "begin", "error")
     \/ Pass(OR, "begin", "turn")                       \* the first tree
     \/ Sets("turn", "look", Wide(TRUE))
     \/ Answers(OR, "turn", "error") /\ world' \in {world, Wide(TRUE)}
     \/ End(OR, "look", "error")
     \/ Pass(OR, "look", "back")                        \* the second
     \/ Sets("back", "judge", Wide(FALSE))
     \/ Answers(OR, "back", "error") /\ world' \in {world, Wide(FALSE)}
     \/ \E out \in {"passed", "failed"} : End(OR, "judge", out)

\* Taps each field, reads the tree, and sends Escape, found again or not.
KO == "keyboard_overlap"
QaKeyboardOverlap ==
  /\ call.tool = KO
  /\ \/ End(KO, "begin", "error")
     \/ Pass(KO, "begin", "field")
     \/ /\ call.tries < MaxFields
        /\ \/ Became(KO, "field", [call EXCEPT !.at = "look", !.tries = @ + 1])
              /\ world' = [world EXCEPT !.up = TRUE]
           \/ Answers(KO, "field", "error") /\ world' \in {world, [world EXCEPT !.up = TRUE]}
     \/ Pass(KO, "look", "escape") \/ End(KO, "look", "error")
     \/ Sets("escape", "field", [world EXCEPT !.up = FALSE])
     \/ Answers(KO, "escape", "error") /\ world' \in {world, [world EXCEPT !.up = FALSE]}
     \/ \E out \in {"passed", "failed"} : End(KO, "field", out)

----------------------------------------------------------------------------
(* Typing. *)

TY == "type_element"

\* The arguments; the element, waited for; a hidden one is refused.
TypeBegin ==
  \/ End(TY, "begin", "refused")
  \/ Pass(TY, "begin", "query")
  \/ End(TY, "query", "refused") \/ End(TY, "query", "error")
  \/ Pass(TY, "query", "focus")

\* AXPress focuses the element, or a tap does.
TypeFocus ==
  \/ Pass(TY, "focus", IF Opt("paste") THEN "borrow" ELSE "type")
  \/ End(TY, "focus", "error")

\* typeText sends the keys; what fails in between has typed a part. The value of
\* the field is read back when that can be done.
TypeKeys ==
  \/ Sets("type", "readback", [world EXCEPT !.field = @ \cup {"text"}])
  \/ Sets("type", "readback", [world EXCEPT !.field = @ \cup {"part"}])   \* keys got lost
  \/ Answers(TY, "type", "error") /\ world' \in {world, [world EXCEPT !.field = @ \cup {"part"}]}

\* verifyTypedText: what cannot be read is unknown; a mismatch is an error in the end.
VerifyTypedText ==
  \/ ~Opt("noVerify") /\ "text" \notin world.field /\ UNCHANGED world
     /\ Became(TY, "readback", [call EXCEPT !.at = "settle", !.told = "mismatch"])
  \/ (Opt("noVerify") \/ "text" \in world.field) /\ Pass(TY, "readback", "settle")
  \/ Pass(TY, "readback", "settle")                        \* not readable

\* typeViaPasteboard: what is on the clipboard is kept, when it can be read.
PasteBorrow ==
  /\ UNCHANGED world
  /\ \/ Became(TY, "borrow", [call EXCEPT !.at = "write", !.read = world.board,
                                          !.kept = ~Opt("leave")])
     \/ Go(TY, "borrow", "write")
  \/ End(TY, "borrow", "error")                         \* no bridge for the keys

\* The text, Cmd+V, and a look for the dialog that asks for permission. What fails
\* before the end is thrown, and the clipboard is not given back.
PasteType ==
  \/ Sets("write", "chord", [world EXCEPT !.board = "text"])
  \/ Answers(TY, "write", "error") /\ world' \in {world, [world EXCEPT !.board = "text"]}
  \/ Sets("chord", "dialog", [world EXCEPT !.paste = TRUE])
  \/ Answers(TY, "chord", "error") /\ world' \in {world, [world EXCEPT !.paste = TRUE]}
  \/ Pass(TY, "dialog", "return")
  \/ Opt("accept") /\ Pass(TY, "dialog", "allowed")     \* the button was pressed
  \/ Pass(TY, "allowed", "return")

\* Mutant of PasteReturn: the clipboard is called restored before it is written.
PasteReturnHopes ==
  \/ call.kept /\ Became(TY, "return", [call EXCEPT !.at = "check", !.told = "restored"])
     /\ world' \in {world, [world EXCEPT !.board = call.read]}
  \/ ~call.kept /\ Pass(TY, "return", "check")

\* The clipboard is given back; whether that worked is told.
PasteReturn ==
  \/ call.kept /\ Became(TY, "return", [call EXCEPT !.at = "check", !.told = "restored"])
     /\ world' = [world EXCEPT !.board = call.read]
  \/ call.kept /\ Fails("return", "check", [world EXCEPT !.board = call.read])
  \/ ~call.kept /\ Pass(TY, "return", "check")

\* assertPasteApplied throws when the value is readable and lacks the text.
PasteCheck ==
  \/ ~Opt("noVerify") /\ "text" \notin world.field /\ End(TY, "check", "mismatch")
  \/ Pass(TY, "check", "settle")

TypeSettle ==
  \/ End(TY, "settle", IF call.told = "mismatch" THEN "mismatch" ELSE "typed")
  \/ Opt("settle") /\ \E out \in {"unsettled", "error"} : End(TY, "settle", out)

AppTypeElement ==
  /\ call.tool = TY
  /\ \/ TypeBegin \/ TypeFocus \/ TypeKeys \/ VerifyTypedText
     \/ PasteBorrow \/ PasteType \/ PasteReturn \/ PasteCheck \/ TypeSettle

\* app_type_text and app_key_input send their keys to whatever has the focus.
AppTypeText ==
  \/ End("type_text", "begin", "refused")
  \/ Answers("type_text", "begin", "typed") /\ world' = [world EXCEPT !.field = {"text"}]
  \/ Answers("type_text", "begin", "error") /\ world' \in {world, [world EXCEPT !.field = {"part"}]}

AppKeyInput ==
  \/ End("key_input", "begin", "refused")
  \/ Answers("key_input", "begin", "typed") /\ world' = [world EXCEPT !.field = {"key"}]
  \/ Answers("key_input", "begin", "error") /\ world' \in {world, [world EXCEPT !.field = {"key"}]}

----------------------------------------------------------------------------
(* The ones that only set. *)

\* all_off sends every reset at once and tells how many failed.
FlutterDebugPaint ==
  \/ End("debug_paint", "begin", "error")
  \/ /\ Opt("all_off")
     /\ \E reset \in SUBSET {"size", "baseline"} :
          /\ Answers("debug_paint", "begin", IF reset = {"size", "baseline"} THEN "ok" ELSE "partial")
          /\ world' = [world EXCEPT !.paint = @ \ reset]
  \/ /\ ~Opt("all_off") /\ Answers("debug_paint", "begin", "ok")
     /\ world' = [world EXCEPT !.paint = IF Opt("enable") THEN @ \cup {"size"} ELSE @ \ {"size"}]

\* A mode that is given is set; else the current one is read and the other one set.
AppearanceToggle ==
  \/ End("appearance", "begin", "error")
  \/ /\ call.opts # {} /\ Answers("appearance", "begin", "ok") /\ world' = Dark(Opt("dark"))
  \/ /\ call.opts = {} /\ UNCHANGED world
     /\ Became("appearance", "begin", [call EXCEPT !.at = "toggle",
                                                   !.read = IF world.dark THEN "dark" ELSE "light"])
  \/ Answers("appearance", "toggle", "ok") /\ world' = Dark(call.read = "light")
  \/ End("appearance", "toggle", "error")

\* simctl, then the menu of the Simulator; the orientation is told as wished either way.
DeviceRotate ==
  \/ End("rotate", "begin", "error")
  \/ Pass("rotate", "begin", "turn")
  \/ Answers("rotate", "turn", "ok") /\ world' = Wide(TRUE)
  \/ Fails("turn", "menu", Wide(TRUE)) /\ call.tool = "rotate"
  \/ Answers("rotate", "menu", "ok") /\ world' \in {Wide(b) : b \in BOOLEAN}
  \/ Answers("rotate", "menu", "failed") /\ world' \in {world, Wide(TRUE)}

\* The script runs in the page, and is asked for on every later load, if that works.
Mocks(tool) ==
  \/ Sets("begin", "keep", [world EXCEPT !.mock = TRUE]) /\ call.tool = tool
  \/ End(tool, "begin", "error")
  \/ End(tool, "keep", "ok")
MockGeolocation == Mocks("geolocation") \/ End("geolocation", "begin", "refused")
MockPermission == Mocks("permission") \/ End("permission", "begin", "refused")

NetworkThrottle ==
  \/ \E out \in {"refused", "error"} : End("throttle", "begin", out)
  \/ Answers("throttle", "begin", "ok") /\ world' = [world EXCEPT !.mock = ~Opt("none")]

----------------------------------------------------------------------------
SettingStep ==
  \/ QaDarkMode \/ QaOrientation \/ QaKeyboardOverlap \/ AppTypeElement \/ AppTypeText
  \/ AppKeyInput \/ FlutterDebugPaint \/ AppearanceToggle \/ DeviceRotate \/ MockGeolocation
  \/ MockPermission \/ NetworkThrottle
SettingNext == SettingStep \/ PasteLands \/ UserCopies

Setting == call.tool \in DOMAIN SettingOptions

(***************************************************************************)
(* What a tool says it gave back or turned off, it did: dark mode that was *)
(* read and is not left on by a second failure, the clipboard that is      *)
(* called restored, the keyboard and landscape after a verdict, and the    *)
(* overlays after an all_off which is not partial.                         *)
(***************************************************************************)
BorrowedIsReturned ==
  Setting /\ Ended =>
    /\ call.tool = DM /\ call.kept /\ ~call.left => world.dark = world.was.dark
    /\ call.told = "restored" => world.board # "text"
    /\ call.out \in {"passed", "failed"} => ~world.up /\ (call.tool = OR => ~world.wide)
    /\ call.tool = "debug_paint" /\ Opt("all_off") /\ call.out = "ok" => world.paint = {}

=============================================================================
