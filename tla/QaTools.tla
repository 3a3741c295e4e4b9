------------------------------ MODULE QaTools ------------------------------
(***************************************************************************)
(* The tools that look an app over: the checks of its touch targets and    *)
(* its semantics, the audit that runs both beside a check of dark mode,    *)
(* the URL schemes its Info.plist declares, and the HTTP proxy of          *)
(* flutter_network with the requests that go through it.                   *)
(***************************************************************************)
EXTENDS ToolCall, SequencesExt

CONSTANT MaxNodes   \* bound: elements of the accessibility tree

\* proxied and upgraded are not tools but what the app sends through the proxy.
QaOptions ==
  [audit |-> {}, semantics |-> {"quality"}, touch_targets |-> {}, list_routes |-> {},
   net_start |-> {}, net_stop |-> {}, net_log |-> {}, net_har |-> {}, net_throttle |-> {},
   proxied |-> {}, upgraded |-> {}]

Trees == UNION {[1..n -> [small : BOOLEAN, label : {"none", "label"}, id : {"none", "id"}]] :
                n \in 0..MaxNodes}

\* An Info.plist, as far as its keys, arrays, dicts and strings go: the URL types,
\* each with its schemes, and the schemes the app asks for, in either order.
Plist(types, asks, typesFirst) ==
  LET Array(x) == IF x = <<"empty">> THEN <<"<array/>">> ELSE <<"<array>">> \o x \o <<"</array>">>
      Type(t) == <<"<dict>", "Schemes">> \o Array(t) \o <<"</dict>">>
      T == <<"Types">> \o Array(FlattenSeq([i \in DOMAIN types |-> Type(types[i])]))
      A == <<"Queries">> \o Array(asks)
  IN IF typesFirst THEN T \o A ELSE A \o T

NoApp == [types |-> <<>>, asks |-> <<>>, plist |-> <<>>]
Apps ==
  {[types |-> types, asks |-> asks, plist |-> Plist(types, asks, first)] :
     types \in {<<>>, <<<<"a">>>>, <<<<"empty">>>>, <<<<"a", "b">>, <<"c">>>>, <<<<>>, <<"b">>>>},
     asks \in {<<>>, <<"empty">>, <<"q">>, <<"q", "r">>}, first \in BOOLEAN}

\* dark: the appearance; server: the proxy listens; entry: it is remembered;
\* routed: the device sends its requests there; sockets: upgraded connections of the
\* app that are open; logged: how often the request has been written down.
QaInit ==
  /\ \E dark, proxy, open \in BOOLEAN, tree \in Trees, app \in Apps \cup {NoApp} :
       /\ call \in ToolCalls(QaOptions, [told |-> "none", left |-> FALSE, kept |-> FALSE,
                                         read |-> FALSE, tree |-> <<>>, list |-> <<>>])
       /\ dark => call.tool = "audit"
       /\ tree # <<>> => call.tool \in {"audit", "semantics", "touch_targets"}
       /\ (app # NoApp) = (call.tool = "list_routes")
       /\ proxy => call.tool \notin {"audit", "semantics", "touch_targets", "list_routes"}
       /\ open => call.tool = "net_stop" /\ proxy
       /\ world = [dark |-> dark, was |-> dark, tree |-> tree, app |-> app, server |-> proxy,
                   entry |-> proxy, routed |-> proxy, sockets |-> IF open THEN {"socket"} ELSE {},
                   logged |-> 0]

\* An open connection is closed by the app, if it ever is.
ClientLeaves ==
  /\ world.sockets # {} /\ world' = [world EXCEPT !.sockets = {}] /\ UNCHANGED call

----------------------------------------------------------------------------
(* What is judged: interactive, visible elements. *)

\* checkTouchTargets and findViolations
TooSmall(tree) == {n \in DOMAIN tree : tree[n].small}

\* analyzeSemantics and checkSemantics: an element is counted by its label.
Unlabelled(tree) == {n \in DOMAIN tree : tree[n].label = "none"}

Same(tree, n, m, of) == n # m /\ tree[n][of] = tree[m][of] /\ tree[n][of] # "none"

\* analyzeSelectorQuality: an element without an identifier, or one that shares its
\* identifier or its label with another.
SelectorFindings(tree) ==
  {n \in DOMAIN tree :
     \/ tree[n].id = "none"
     \/ \E m \in DOMAIN tree : Same(tree, n, m, "id") \/ Same(tree, n, m, "label")}

\* The tree that is read, and what is thrown when it cannot be.
Reads(tool, from, to) ==
  \/ Became(tool, from, [call EXCEPT !.at = to, !.tree = world.tree]) /\ UNCHANGED world
  \/ Throws(tool, {from})

QaFlutterTouchTargets ==
  \/ End("touch_targets", "begin", "refused") \/ Reads("touch_targets", "begin", "judge")
  \/ End("touch_targets", "judge", IF TooSmall(call.tree) = {} THEN "passed" ELSE "failed")

\* The coverage that is asked for may be met with elements left out; then what the
\* Flutter VM knows is added, if there is one and it answers.
QaFlutterSemantics ==
  \/ End("semantics", "begin", "refused") \/ Reads("semantics", "begin", "context")
  \/ Pass("semantics", "context", "judge")
  \/ \E out \in {"passed"} \cup IF Unlabelled(call.tree) = {} THEN {} ELSE {"failed"} :
       /\ Became("semantics", "judge",
                 [call EXCEPT !.at = "end", !.out = out,
                    !.told = IF Opt("quality") /\ SelectorFindings(call.tree) = {} THEN "clean" ELSE "none"])
       /\ UNCHANGED world

AU == "audit"
Shown(dark) == [world EXCEPT !.dark = dark]

\* checkDarkMode: what cannot be read is taken for light; what fails on the way is
\* thrown, with the appearance as it is by then.
CheckDarkMode ==
  \/ /\ UNCHANGED world
     /\ \E read \in {world.dark, FALSE} :
          Became(AU, "dark", [call EXCEPT !.at = "light", !.read = read, !.kept = read = world.dark])
  \/ Act(AU, "light", "dim", {Shown(FALSE)})
  \/ Act(AU, "dim", "restore", {Shown(TRUE)})
  \/ Act(AU, "restore", "judge", {Shown(call.read)})
  \/ \E step \in {<<"light", FALSE>>, <<"dim", TRUE>>, <<"restore", call.read>>} :
       /\ world' \in {world, Shown(step[2])}
       /\ Became(AU, step[1], [call EXCEPT !.at = "judge", !.left = TRUE])

\* The tree is read beside the check of dark mode, at any point of it; a failure of
\* either is a detector that did not pass.
AuditTree ==
  \E at \in {"dark", "light", "dim", "restore", "judge"}, told \in {"tree", "no_tree"} :
    /\ call.told = "none" /\ UNCHANGED world
    /\ Became(AU, at, [call EXCEPT !.told = told, !.tree = world.tree])

QaFlutterFullAudit ==
  \/ End(AU, "begin", "refused") \/ Pass(AU, "begin", "dark")
  \/ AuditTree \/ CheckDarkMode
  \/ call.told = "tree" /\ ~call.left /\ TooSmall(call.tree) = {} /\ End(AU, "judge", "passed")
  \/ call.told \in {"tree", "no_tree"} /\ End(AU, "judge", "failed")

----------------------------------------------------------------------------
(* app_list_routes *)

\* indexOf, from a position on: 0 when there is none.
IndexOf(x, token, from) ==
  LET at == {i \in from..Len(x) : x[i] = token}
  IN IF at = {} THEN 0 ELSE CHOOSE i \in at : \A j \in at : i <= j

\* The tag that closes the one before position i.
Closing(x, open, close, from) ==
  LET depth[i \in (from - 1)..Len(x)] ==
        IF i < from THEN 1
        ELSE depth[i - 1] + (IF x[i] = open THEN 1 ELSE IF x[i] = close THEN -1 ELSE 0)
      at == {i \in from..Len(x) : depth[i] = 0}
  IN IF at = {} THEN 0 ELSE CHOOSE i \in at : \A j \in at : i <= j

\* extractArrayBlock: what is in the first <array> after the key, be it the key's or
\* not; <array/> is neither opened nor closed.
ArrayBlock(x, key) ==
  LET k == IndexOf(x, key, 1)
      a == IF k = 0 THEN 0 ELSE IndexOf(x, "<array>", k)
      z == IF a = 0 THEN 0 ELSE Closing(x, "<array>", "</array>", a + 1)
  IN IF z = 0 THEN <<>> ELSE SubSeq(x, a + 1, z - 1)

\* extractTopLevelDicts
TopLevelDicts(x) ==
  LET dicts[i \in 1..(Len(x) + 2)] ==
        LET a == IF i > Len(x) THEN 0 ELSE IndexOf(x, "<dict>", i)
            z == IF a = 0 THEN 0 ELSE Closing(x, "<dict>", "</dict>", a + 1)
        IN IF z = 0 THEN <<>> ELSE <<SubSeq(x, a + 1, z - 1)>> \o dicts[z + 1]
  IN dicts[1]

\* extractStringArrayKey
Strings(x, key) ==
  SelectSeq(ArrayBlock(x, key), LAMBDA t : t \notin {"<array>", "</array>", "<array/>", "<dict>", "</dict>",
                                                    "Types", "Queries", "Schemes"})

\* parseInfoPlist
InfoPlist(x) ==
  LET dicts == TopLevelDicts(ArrayBlock(x, "Types"))
  IN [types |-> [i \in DOMAIN dicts |-> Strings(dicts[i], "Schemes")], asks |-> Strings(x, "Queries")]

\* The app's directory, its Info.plist as XML, and what it says.
AppListRoutes ==
  \/ End("list_routes", "begin", "refused")
  \/ Pass("list_routes", "begin", "container")
  \/ Pass("list_routes", "container", "plist") \/ Throws("list_routes", {"container", "plist"})
  \/ /\ UNCHANGED world
     /\ Became("list_routes", "plist",
               [call EXCEPT !.at = "end", !.out = "routes", !.list = InfoPlist(world.app.plist)])

----------------------------------------------------------------------------
(* flutter_network *)

\* The server listens, is remembered, and the device is told of it, if it can be.
NetStart ==
  \/ End("net_start", "begin", "refused")
  \/ world.entry /\ End("net_start", "begin", "error")
  \/ ~world.entry /\ Pass("net_start", "begin", "listen")
  \/ Throws("net_start", {"listen"})                       \* the port is taken
  \/ Act("net_start", "listen", "route", {[world EXCEPT !.server = TRUE, !.entry = TRUE]})
  \/ /\ Answers("net_start", "route", "started")
     /\ world' \in {world, [world EXCEPT !.routed = TRUE]}

\* close() calls back when the last connection is gone, and nothing ends those that
\* were upgraded; then the device is told, and the proxy forgotten.
NetStop ==
  \/ ~world.entry /\ End("net_stop", "begin", "not_running")
  \/ world.entry /\ Pass("net_stop", "begin", "clients")
  \/ world.sockets = {} /\ Act("net_stop", "clients", "route", {[world EXCEPT !.server = FALSE]})
  \/ Answers("net_stop", "route", "stopped") /\ world' = [world EXCEPT !.routed = FALSE, !.entry = FALSE]
  \/ /\ Became("net_stop", "route", [call EXCEPT !.at = "end", !.out = "stopped", !.left = TRUE])
     /\ world' = [world EXCEPT !.entry = FALSE]

NetLog == End("net_log", "begin", IF world.entry THEN "log" ELSE "not_running")
NetHar == End("net_har", "begin", IF world.entry THEN "har" ELSE "not_running")
NetThrottle ==
  \/ End("net_throttle", "begin", IF world.entry THEN "updated" ELSE "not_running")
  \/ Throws("net_throttle", {"begin"})

\* addEntry
AddEntry == [world EXCEPT !.logged = @ + 1]

\* A request: sent on, answered and written down at the end of the answer, or failed
\* and written down then. An answer that breaks off is not written down.
Proxied ==
  \/ ~world.entry /\ End("proxied", "begin", "ignored")
  \/ world.entry /\ Pass("proxied", "begin", "sent")
  \/ Answers("proxied", "sent", "failed") /\ world' = AddEntry
  \/ Pass("proxied", "sent", "body")
  \/ Answers("proxied", "body", "answered") /\ world' = AddEntry
  \/ End("proxied", "body", "cut")

\* An upgrade: written down with the first data that comes back, or with the error of
\* either side when there has been none; told is entryAdded.
Upgraded ==
  \/ ~world.entry /\ End("upgraded", "begin", "destroyed")
  \/ world.entry /\ Pass("upgraded", "begin", "tunnel")
  \/ /\ call.told = "none" /\ world' = AddEntry
     /\ Became("upgraded", "tunnel", [call EXCEPT !.told = "added"])
  \/ /\ call.told = "none" /\ world' = AddEntry
     /\ Became("upgraded", "tunnel", [call EXCEPT !.at = "end", !.out = "failed"])
  \/ call.told = "added" /\ End("upgraded", "tunnel", "failed")
  \/ End("upgraded", "tunnel", "closed")

----------------------------------------------------------------------------
QaStep ==
  \/ QaFlutterTouchTargets \/ QaFlutterSemantics \/ QaFlutterFullAudit \/ AppListRoutes
  \/ NetStart \/ NetStop \/ NetLog \/ NetHar \/ NetThrottle \/ Proxied \/ Upgraded
QaNext == QaStep \/ ClientLeaves

Qa == call.tool \in DOMAIN QaOptions

\* What an Info.plist declares, an empty element read as an empty array.
Declared(x) == IF x = <<"empty">> THEN <<>> ELSE x

(***************************************************************************)
(* What these tools find is so: an app whose selectors are called clean    *)
(* has an identifier of its own on every element; an audit that passed     *)
(* agrees with the check of touch targets; the schemes that are listed are *)
(* the declared ones (but where the app asks for an <array/>: then the     *)
(* next array of the file is taken for it); and a request that went        *)
(* through the proxy is written down once.                                 *)
(***************************************************************************)
QaClaims ==
  Qa =>
    /\ call.told = "clean" =>
         \A n, m \in DOMAIN world.tree : world.tree[n].id # "none" /\ ~Same(world.tree, n, m, "id")
    /\ call.tool = AU /\ call.out = "passed" => \A n \in DOMAIN world.tree : ~world.tree[n].small
    /\ call.out = "routes" =>
         /\ call.list.types = [i \in DOMAIN world.app.types |-> Declared(world.app.types[i])]
         /\ world.app.asks # <<"empty">> => call.list.asks = world.app.asks
    /\ world.logged <= 1 /\ (call.out \in {"answered", "failed"} /\ call.tool \in {"proxied", "upgraded"}
                             => world.logged = 1)

(***************************************************************************)
(* The audit gives the appearance back when none of its steps failed and   *)
(* it could be read; a proxy that is called stopped neither listens nor is *)
(* remembered, nor has it the device's requests but when taking them back  *)
(* failed.                                                                 *)
(***************************************************************************)
QaLeavesNothing ==
  Qa /\ Ended =>
    /\ call.tool = AU /\ call.kept /\ ~call.left => world.dark = world.was
    /\ call.out = "stopped" => ~world.server /\ ~world.entry /\ (world.routed => call.left)
=============================================================================
