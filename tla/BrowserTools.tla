---------------------------- MODULE BrowserTools ----------------------------
(***************************************************************************)
(* The tools that work on the page in Safari: they navigate, press, type,  *)
(* wait and look, through the commands of BrowserCommands, each of which   *)
(* is one or more scripts or requests to the page; and those that keep its *)
(* cookies and its storage. The page goes on by itself between them.       *)
(***************************************************************************)
EXTENDS ToolCall

CONSTANT MaxTurns   \* bound: what the page does by itself during a call

BrowserOptions ==
  [navigate |-> {"dom"}, click |-> {"point"}, long_press |-> {}, type |-> {"delay"},
   select_option |-> {}, press |-> {}, page_scroll |-> {}, page_swipe |-> {}, blur |-> {},
   page_wait |-> {"visible"}, screenshot |-> {}, read_page |-> {}, query_dom |-> {},
   javascript |-> {}, page_inspect |-> {}, cookies_get |-> {}, cookies_set |-> {},
   cookies_clear |-> {}, auth_save |-> {}, auth_restore |-> {}, auth_list |-> {}]

\* The tools that look at an element, and those that are about cookies.
OnElement == {"click", "long_press", "type", "select_option", "page_wait"}
OnCookies == {"cookies_get", "cookies_set", "cookies_clear", "auth_save", "auth_restore"}

\* plain: a cookie scripts can read and expire; deep: one with a domain or a path of
\* its own, which they read only; http: one they do not see.
Cookies == {"plain", "deep", "http"}
Saved == {"plain", "http"}

\* doc: the document that is there, the first or the one that was asked for; loaded:
\* the documents that have got so far; been: how the element has been; hits: what
\* was pressed; stored: the documents whose storage got the saved items.
BrowserInit ==
  /\ call \in ToolCalls(BrowserOptions,
       [sub |-> "enable", ret |-> "none", saw |-> "none", spot |-> 0, n |-> 0, got |-> {},
        told |-> "none", early |-> FALSE])
  /\ \E el \in {"absent", "hidden", "shown"}, spot \in 1..2, jar \in SUBSET Cookies,
        value \in {<<>>, <<0>>}, file \in BOOLEAN, shot \in {"none", "mine", "other"} :
       /\ call.tool \notin OnElement => el = "absent"
       /\ el # "shown" => spot = 1
       /\ call.tool \notin {"type", "select_option"} => value = <<>>
       /\ call.tool \notin OnCookies => jar = {}
       /\ file => call.tool \in {"auth_save", "auth_restore", "auth_list"}
       /\ call.tool # "screenshot" => shot = "none"
       /\ world = [doc |-> "first", state |-> "complete", asked |-> FALSE,
                   loaded |-> {<<"first", "interactive">>, <<"first", "complete">>},
                   el |-> el, been |-> {el}, spot |-> spot, turns |-> 0, hits |-> {}, value |-> value,
                   was |-> value, jar |-> jar, stored |-> {}, file |-> file, temp |-> FALSE,
                   booted |-> shot]

----------------------------------------------------------------------------
(* The page. *)

\* The document that was asked for replaces the other one, at last; and loads.
Commits ==
  /\ world.asked
  /\ world' = [world EXCEPT !.asked = FALSE, !.doc = "asked", !.state = "loading"]
Loads ==
  \E next \in CASE world.state = "loading" -> {"interactive"}
                [] world.state = "interactive" -> {"complete"}
                [] OTHER -> {} :
    world' = [world EXCEPT !.state = next, !.loaded = @ \cup {<<world.doc, next>>}]

\* The element comes, goes, hides or moves; the site sets a cookie.
ElementTurns ==
  /\ call.tool \in OnElement
  /\ \E el \in {"absent", "hidden", "shown"}, spot \in 1..2 :
       world' = [world EXCEPT !.el = el, !.been = @ \cup {el}, !.spot = spot, !.turns = @ + 1]
CookieTurns ==
  /\ call.tool \in OnCookies
  /\ world' = [world EXCEPT !.jar = @ \cup {"plain"}, !.turns = @ + 1]

PageTurns ==
  /\ ~Ended /\ UNCHANGED call
  /\ Commits \/ Loads \/ (world.turns < MaxTurns /\ (ElementTurns \/ CookieTurns))

----------------------------------------------------------------------------
(* Scripts and requests *)

Refuses(tool) == End(tool, "begin", "refused")

\* evaluate and send: they have their effect and return, or throw, maybe after it.
Runs(from, to, effect) ==
  \/ Act(call.tool, from, to, {effect})
  \/ Answers(call.tool, from, "error") /\ world' \in {world, effect}
PageScript(tool, from, out, effect) ==
  /\ call.tool = tool
  /\ \/ Answers(tool, from, out) /\ world' = effect
     \/ Answers(tool, from, "error") /\ world' \in {world, effect}

\* A tool that runs one script, which changes nothing here.
OneScript(tool) == Refuses(tool) \/ PageScript(tool, "begin", "ok", world)

----------------------------------------------------------------------------
(* navigate, as a part of a call: sub is how far it is, ret what follows. *)

Enough(state) ==
  state = "complete" \/ (state = "interactive" /\ (Opt("dom") \/ call.ret = "local"))

Sub(from, to) == call.at = "navigating" /\ call.sub = from /\ call' = [call EXCEPT !.sub = to]

\* The state, the URL and the status are read at once, of the document that is there,
\* be it the old one; a read that fails is a state that is not enough.
NavigateRead ==
  /\ call.at = "navigating" /\ call.sub = "read" /\ UNCHANGED world
  /\ \/ Enough(world.state) /\ call' = [call EXCEPT !.at = call.ret, !.sub = "enable",
                                           !.saw = world.doc, !.early = @ \/ world.doc = "first"]
     \/ call' = [call EXCEPT !.at = "end", !.out = "error"]

\* The domains are enabled, the page is asked to go, by request or by script; its
\* state is polled, whatever a poll throws, until it is enough or the time is over.
Navigate ==
  \/ UNCHANGED world /\ Sub("enable", "go")
  \/ Sub("go", "poll") /\ world' = [world EXCEPT !.asked = TRUE]
  \/ /\ call.at = "navigating" /\ call.sub \in {"enable", "go"}
     /\ call' = [call EXCEPT !.at = "end", !.out = "error"]
     /\ world' \in {world} \cup IF call.sub = "go" THEN {[world EXCEPT !.asked = TRUE]} ELSE {}
  \/ UNCHANGED world /\ Sub("poll", "read")
  \/ NavigateRead

NavigateTool ==
  \/ Refuses("navigate") \/ Throws("navigate", {"begin"})
  \/ /\ Became("navigate", "begin", [call EXCEPT !.at = "navigating", !.ret = "done"])
     /\ UNCHANGED world
  \/ call.tool = "navigate" /\ Navigate
  \/ End("navigate", "done", "loaded")

----------------------------------------------------------------------------
(* Elements *)

\* getElementCenter: a hidden element has its centre at the corner of the page.
Center(tool) ==
  \/ Throws(tool, {"find"})
  \/ world.el = "absent" /\ End(tool, "find", "error")
  \/ /\ world.el # "absent" /\ UNCHANGED world
     /\ Became(tool, "find", [call EXCEPT !.at = "tap",
                                !.spot = IF world.el = "shown" THEN world.spot ELSE 0])

\* What is at the place is pressed, whatever it is by now.
Pressed ==
  [world EXCEPT !.hits = @ \cup {IF world.el = "shown" /\ call.spot = world.spot THEN "el" ELSE "other"}]

Click ==
  \/ Refuses("click")
  \/ Pass("click", "begin", IF Opt("point") THEN "tap" ELSE "find")
  \/ Center("click") \/ PageScript("click", "tap", "clicked", Pressed)

LongPress ==
  \/ Refuses("long_press") \/ Pass("long_press", "begin", "find")
  \/ Center("long_press") \/ PageScript("long_press", "tap", "pressed", Pressed)

\* What the scripts do to the value, if the element is there.
SetValue == [world EXCEPT !.value = IF world.el = "absent" THEN @ ELSE <<1, 2>>]
AppendChar == [world EXCEPT !.value = IF world.el = "absent" THEN @ ELSE Append(@, call.n + 1)]

\* The element gets the focus; its value is set, or a character at a time is added to
\* what is there.
Type ==
  \/ Refuses("type")
  \/ call.tool = "type" /\ Runs("begin", IF Opt("delay") THEN "chars" ELSE "set", world)
  \/ PageScript("type", "set", "typed", SetValue)
  \/ /\ call.tool = "type" /\ call.n < 2
     /\ \/ Became("type", "chars", [call EXCEPT !.n = @ + 1]) /\ world' = AppendChar
        \/ Answers("type", "chars", "error") /\ world' \in {world, AppendChar}
  \/ call.n = 2 /\ End("type", "chars", "typed")

SelectOption == Refuses("select_option") \/ PageScript("select_option", "begin", "selected", SetValue)

\* waitFor: an element that is there, or visible, when it is looked for.
WaitFor ==
  \/ Refuses("page_wait") \/ Pass("page_wait", "begin", "poll") \/ Throws("page_wait", {"poll"})
  \/ /\ world.el = "shown" \/ (world.el = "hidden" /\ ~Opt("visible"))
     /\ End("page_wait", "poll", "found")

Press == OneScript("press")
Scroll == OneScript("page_scroll")
PageSwipe == Refuses("page_swipe") \/ Pass("page_swipe", "begin", "swipe") \/ Throws("page_swipe", {"begin"})
  \/ PageScript("page_swipe", "swipe", "ok", world)
Blur == OneScript("blur")
ReadPage == OneScript("read_page")
QueryDom == OneScript("query_dom")
Javascript == OneScript("javascript")
PageInspect == OneScript("page_inspect")

\* The page's own picture, or else one of the first simulator that is booted.
Screenshot ==
  \/ Refuses("screenshot")
  \/ Pass("screenshot", "begin", "viewport") \/ Pass("screenshot", "viewport", "snapshot")
  \/ End("screenshot", "snapshot", "page")
  \/ \E at \in {"viewport", "snapshot"} : Pass("screenshot", at, "simctl")
  \/ Throws("screenshot", {"simctl"})
  \/ world.booted # "none" /\ End("screenshot", "simctl", world.booted)

----------------------------------------------------------------------------
(* Cookies *)

\* getCookies: what the protocol tells, or else what a script sees; by tells which.
Got(tool, from, to) ==
  /\ UNCHANGED world
  /\ \/ Became(tool, from, [call EXCEPT !.at = to, !.got = world.jar, !.told = "protocol"])
     \/ Became(tool, from, [call EXCEPT !.at = to, !.got = world.jar \ {"http"}, !.told = "script"])

CookiesGet ==
  \/ Refuses("cookies_get") \/ Got("cookies_get", "begin", "read") \/ Throws("cookies_get", {"begin"})
  \/ End("cookies_get", "read", "cookies")

\* setCookies, one after the other: by the protocol, or by a script, which makes an
\* http cookie one that can be read, or is refused by the page.
SetCookies(tool, to) ==
  \/ \E c \in Saved \ call.got :
       \/ /\ Became(tool, "set", [call EXCEPT !.got = @ \cup {c}])
          /\ world' = [world EXCEPT !.jar = @ \cup {c}]
       \/ /\ Became(tool, "set", [call EXCEPT !.got = @ \cup {c}, !.told = "script"])
          /\ \E jar \in {world.jar, world.jar \cup {"plain"}} : world' = [world EXCEPT !.jar = jar]
  \/ Throws(tool, {"set"})
  \/ call.got = Saved /\ Pass(tool, "set", to)

CookiesSet ==
  \/ Refuses("cookies_set") \/ Pass("cookies_set", "begin", "set")
  \/ SetCookies("cookies_set", "set_all") \/ End("cookies_set", "set_all", "cookies_set")

\* clearCookies: one by one by the protocol; cookies a script read have no host, and
\* then, or after a failure, a script expires those it can. None to be seen is done.
ClearCookies ==
  \/ Got("cookies_clear", "clear", "delete")
  \/ Pass("cookies_clear", "clear", "script")
  \/ \E c \in call.got : /\ call.told = "protocol"
                         /\ Became("cookies_clear", "delete", [call EXCEPT !.got = @ \ {c}])
                         /\ world' = [world EXCEPT !.jar = @ \ {c}]
  \/ call.got # {} /\ Go("cookies_clear", "delete", "script")
     /\ world' \in {world} \cup {[world EXCEPT !.jar = @ \ {c}] : c \in IF call.told = "protocol" THEN call.got ELSE {}}
  \/ call.got = {} /\ End("cookies_clear", "delete", "cleared")
  \/ /\ Became("cookies_clear", "script", [call EXCEPT !.at = "end", !.out = "cleared", !.told = "script"])
     /\ world' = [world EXCEPT !.jar = @ \ {"plain"}]
  \/ Throws("cookies_clear", {"script"})

CookiesClear == Refuses("cookies_clear") \/ Pass("cookies_clear", "begin", "clear") \/ ClearCookies

----------------------------------------------------------------------------
(* Profiles of a site's cookies and storage *)

\* atomicWriteProfile: a file of its own is written, and takes the profile's place.
WriteProfile ==
  \/ Act("auth_save", "open", "write", {[world EXCEPT !.temp = TRUE]}) \/ Throws("auth_save", {"open"})
  \/ Pass("auth_save", "write", "rename")
  \/ Answers("auth_save", "rename", "saved") /\ world' = [world EXCEPT !.temp = FALSE, !.file = TRUE]
  \/ \E at \in {"write", "rename"} :
       Answers("auth_save", at, "error") /\ world' \in {world, [world EXCEPT !.temp = FALSE]}

\* The cookies of the site, both storages and the URL are read one after the other.
AuthSave ==
  \/ Refuses("auth_save") \/ Got("auth_save", "begin", "select") \/ Throws("auth_save", {"begin"})
  \/ \E got \in SUBSET call.got : UNCHANGED world /\ Became("auth_save", "select",
       [call EXCEPT !.got = got, !.at = IF got = {} THEN "end" ELSE "storage",
                    !.out = IF got = {} THEN "no_cookies" ELSE @])
  \/ Pass("auth_save", "storage", "url") \/ Pass("auth_save", "url", "open")
  \/ Throws("auth_save", {"storage", "url"})
  \/ WriteProfile

AR == "auth_restore"
Stores == [world EXCEPT !.stored = @ \cup {world.doc}]

\* The site is navigated to, gets its cookies and its storage, and is loaded again.
AuthRestore ==
  \/ Refuses(AR)
  \/ Pass(AR, "begin", "read") \/ Throws(AR, {"read"})
  \/ /\ world.file /\ UNCHANGED world
     /\ Became(AR, "read", [call EXCEPT !.at = "navigating", !.ret = "local", !.told = "protocol"])
  \/ call.tool = AR /\ Navigate
  \/ Pass(AR, "local", "set") \/ SetCookies(AR, "storage")
  \/ call.tool = AR /\ Runs("storage", "reload", Stores)
  \/ UNCHANGED world /\ Became(AR, "reload", [call EXCEPT !.at = "navigating", !.ret = "done"])
  \/ End(AR, "done", "restored")

AuthList == End("auth_list", "begin", "profiles")

----------------------------------------------------------------------------
BrowserStep ==
  \/ NavigateTool \/ Click \/ LongPress \/ Type \/ SelectOption \/ WaitFor \/ Press \/ Scroll
  \/ PageSwipe \/ Blur \/ ReadPage \/ QueryDom \/ Javascript \/ PageInspect \/ Screenshot
  \/ CookiesGet \/ CookiesSet \/ CookiesClear \/ AuthSave \/ AuthRestore \/ AuthList
BrowserNext == BrowserStep \/ PageTurns

Browser == call.tool \in DOMAIN BrowserOptions

(***************************************************************************)
(* What the tools of the page claim is so. A document that is called       *)
(* loaded, with its URL, had loaded (though it may still be the old one);  *)
(* a click that found its element pressed it, unless the page turned       *)
(* meanwhile or the element was hidden; what was typed is what the field   *)
(* holds when the element stayed; an element that was waited for was       *)
(* there; cleared cookies are gone but for those no script can expire,     *)
(* when a script had to do it; and a profile is restored on the site it    *)
(* was saved from if that had been reached before. A click that did not    *)
(* find its element pressed nothing.                                       *)
(***************************************************************************)
BrowserClaims ==
  Browser =>
    /\ call.out = "loaded" => <<call.saw, IF Opt("dom") THEN "interactive" ELSE "complete">> \in world.loaded
    /\ call.out \in {"clicked", "pressed"} /\ ~Opt("point") =>
         world.been # {"absent"} /\ ("el" \in world.hits \/ world.turns > 0 \/ call.spot = 0)
    /\ call.tool \in {"click", "long_press"} /\ world.been = {"absent"} /\ ~Opt("point") => world.hits = {}
    /\ call.out \in {"typed", "selected"} /\ "absent" \notin world.been =>
         world.value = (IF Opt("delay") THEN world.was ELSE <<>>) \o <<1, 2>>
    /\ call.out = "found" => world.been \cap ({"shown"} \cup IF Opt("visible") THEN {} ELSE {"hidden"}) # {}
    /\ call.out = "cleared" /\ world.turns = 0 =>
         world.jar \subseteq IF call.told = "protocol" THEN {} ELSE {"deep", "http"}
    /\ call.out = "restored" =>
         /\ call.told = "protocol" => Saved \subseteq world.jar
         /\ ~call.early => "asked" \in world.stored
=============================================================================
