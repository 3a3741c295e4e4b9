------------------------------- MODULE TabPool -------------------------------
(***************************************************************************)
(* The tabs of one device: qa_session_create opens one in Safari, finds    *)
(* it among the targets and connects to it; qa_session_destroy closes it;  *)
(* the shutdown of the device closes them all and forgets the pool. Calls  *)
(* run at once, each from one await to the next.                           *)
(***************************************************************************)
EXTENDS FiniteSets, Naturals

CONSTANTS
  Tabbers,    \* the calls; the tab which a call opens bears its name
  MaxTabs,    \* maxTabs
  MaxPools    \* bound: pools of the device

ASSUME TabAssumption == MaxTabs \in Nat \ {0} /\ MaxPools \in Nat \ {0}

VARIABLES
  safari,   \* the tabs that are open in Safari
  pool,     \* the device's pool, 0 when there is none
  tabs,     \* the tabs each pool knows, with the call that is connected to them
  links,    \* the calls whose connections are open
  listed,   \* the QA sessions, which bear the name of the call that opened them
  tab       \* the calls

tabvars == <<safari, pool, tabs, links, listed, tab>>

NoTab == [at |-> "idle", pool |-> 0, before |-> {}, took |-> {}, of |-> {}, shut |-> {}, rest |-> {},
          then |-> "done"]
Pools == 1..MaxPools

TabInit ==
  /\ safari = {} /\ pool = 0 /\ tabs = [p \in Pools |-> {}] /\ links = {} /\ listed = {}
  /\ tab = [c \in Tabbers |-> NoTab]

TabAt(c, label) == tab[c].at = label
TabGoes(c, label) == tab' = [tab EXCEPT ![c].at = label]

----------------------------------------------------------------------------
(* openSession and openTab *)

\* getTabPool, and the limit, which counts the tabs that are open already.
OpenBegin(c) ==
  LET new == {p \in Pools : tabs[p] = {} /\ \A d \in Tabbers : tab[d].pool # p}
      p == IF pool # 0 THEN pool ELSE CHOOSE q \in new : TRUE
  IN /\ TabAt(c, "idle") /\ (pool # 0 \/ new # {})
     /\ pool' = p /\ UNCHANGED <<safari, tabs, links, listed>>
     /\ tab' = [tab EXCEPT ![c].pool = p,
                           ![c].at = IF Cardinality(tabs[p]) >= MaxTabs THEN "failed" ELSE "targets"]

OpenTargets(c) ==
  /\ TabAt(c, "targets") /\ UNCHANGED <<safari, pool, tabs, links, listed>>
  /\ tab' = [tab EXCEPT ![c].at = "url", ![c].before = safari]

OpenUrl(c) ==
  /\ TabAt(c, "url") /\ TabGoes(c, "poll")
  /\ safari' = safari \cup {c} /\ UNCHANGED <<pool, tabs, links, listed>>

\* waitForNewTarget: any tab that was not there before, be it another call's.
OpenPoll(c) ==
  /\ TabAt(c, "poll") /\ UNCHANGED <<safari, pool, tabs, links, listed>>
  /\ \E t \in safari \ tab[c].before :
       tab' = [tab EXCEPT ![c].at = "connect", ![c].took = {t}]

\* The connection, the entry in the pool, which replaces one of the same tab, and the
\* session.
OpenConnect(c) ==
  /\ TabAt(c, "connect") /\ TabGoes(c, "open") /\ UNCHANGED <<safari, pool>>
  /\ links' = links \cup {c}
  /\ tabs' = [tabs EXCEPT ![tab[c].pool] =
                {x \in @ : x.target \notin tab[c].took} \cup [target : tab[c].took, link : {c}]]
  /\ listed' = listed \cup {c}

\* Each await may throw; openurl also when the tab is there. Nothing is taken back.
OpenFails(c) ==
  /\ tab[c].at \in {"targets", "url", "poll", "connect"} /\ TabGoes(c, "failed")
  /\ safari' \in {safari} \cup IF TabAt(c, "url") THEN {safari \cup {c}} ELSE {}
  /\ UNCHANGED <<pool, tabs, links, listed>>

----------------------------------------------------------------------------
(* closeSession, closeTab and disposeDevice *)

\* A session of the list is to be closed by c: its tab leaves the pool at once; when
\* the device's pool does not know it, only the session goes.
CloseSession(c, s, then, rest) ==
  LET mine == IF pool = 0 THEN {} ELSE {x \in tabs[pool] : x.target \in tab[s].took}
  IN /\ UNCHANGED <<safari, pool, links>>
     /\ IF s \in listed /\ mine # {}
        THEN /\ tabs' = [tabs EXCEPT ![pool] = @ \ mine] /\ UNCHANGED listed
             /\ tab' = [tab EXCEPT ![c].at = "window", ![c].of = {s}, ![c].shut = mine,
                                   ![c].then = then, ![c].rest = rest]
        ELSE /\ listed' = listed \ {s} /\ UNCHANGED tabs
             /\ tab' = [tab EXCEPT ![c].at = then, ![c].rest = rest]

DestroySession(c) == TabAt(c, "idle") /\ \E s \in Tabbers \ {c} : CloseSession(c, s, "done", {})

\* window.close(), heeded or not; then the connection is closed, whatever it says, and
\* the session is removed.
CloseWindow(c) ==
  /\ TabAt(c, "window") /\ TabGoes(c, "disconnect")
  /\ safari' \in {safari, safari \ {x.target : x \in tab[c].shut}}
  /\ UNCHANGED <<pool, tabs, links, listed>>

\* Mutant of CloseTab: the connection is left open.
CloseTabOnly(c) ==
  /\ TabAt(c, "disconnect") /\ UNCHANGED <<safari, pool, tabs, links>>
  /\ listed' = listed \ tab[c].of
  /\ tab' = [tab EXCEPT ![c].at = tab[c].then, ![c].of = {}, ![c].shut = {}]

CloseTab(c) ==
  /\ TabAt(c, "disconnect") /\ UNCHANGED <<safari, pool, tabs>>
  /\ links' = links \ {x.link : x \in tab[c].shut}
  /\ listed' = listed \ tab[c].of
  /\ tab' = [tab EXCEPT ![c].at = tab[c].then, ![c].of = {}, ![c].shut = {}]

\* disposeDevice: the sessions there are, one after the other; then the tabs the pool
\* has by then; then the pool is forgotten.
Dispose(c) ==
  /\ TabAt(c, "idle") /\ UNCHANGED <<safari, pool, tabs, links, listed>>
  /\ tab' = [tab EXCEPT ![c].at = "sessions", ![c].rest = listed]

DisposeSession(c) ==
  /\ TabAt(c, "sessions")
  /\ \E s \in tab[c].rest : CloseSession(c, s, "sessions", tab[c].rest \ {s})

CloseAll(c) ==
  /\ TabAt(c, "sessions") /\ tab[c].rest = {} /\ UNCHANGED <<safari, pool, tabs, links, listed>>
  /\ tab' = [tab EXCEPT ![c].at = IF pool = 0 THEN "done" ELSE "tabs", ![c].pool = pool,
                        ![c].rest = IF pool = 0 THEN {} ELSE {x.target : x \in tabs[pool]}]

CloseNext(c) ==
  LET p == tab[c].pool
  IN /\ TabAt(c, "tabs") /\ UNCHANGED <<safari, links, listed>>
     /\ \/ \E t \in tab[c].rest :
             LET mine == {x \in tabs[p] : x.target = t}
             IN /\ tabs' = [tabs EXCEPT ![p] = @ \ mine] /\ UNCHANGED pool
                /\ tab' = [tab EXCEPT ![c].rest = @ \ {t}, ![c].shut = mine, ![c].then = "tabs",
                                      ![c].at = IF mine = {} THEN "tabs" ELSE "window"]
        \/ /\ tab[c].rest = {} /\ UNCHANGED tabs
           /\ pool' = 0 /\ TabGoes(c, "done")

TabNext ==
  \E c \in Tabbers :
    \/ OpenBegin(c) \/ OpenTargets(c) \/ OpenUrl(c) \/ OpenPoll(c) \/ OpenConnect(c) \/ OpenFails(c)
    \/ DestroySession(c) \/ CloseWindow(c) \/ CloseTab(c)
    \/ Dispose(c) \/ DisposeSession(c) \/ CloseAll(c) \/ CloseNext(c)

----------------------------------------------------------------------------
\* Two calls that opened tabs at once may have taken the same one.
Shares(c) == \E d \in Tabbers \ {c} : tab[d].took \cap tab[c].took # {}

\* The tabs of the pool are being closed, without the sessions they belong to.
Emptied(p) == \E c \in Tabbers : tab[c].pool = p /\ (TabAt(c, "tabs") \/ tab[c].then = "tabs")

\* The tab is being closed, by a call that took it out of its pool.
Closing(s) == \E c \in Tabbers : \E x \in tab[c].shut : x.link = s

(***************************************************************************)
(* The tabs of a device are not lost. A connection that is open is that of *)
(* a tab some pool knows, or a call is closing it; a session that is       *)
(* listed has its tab, connected, in the device's pool, or is being        *)
(* closed; and a tab in the device's pool has its session. Two calls that  *)
(* took the same tab are not so lucky; nor is one whose tab came up when   *)
(* the device was being disposed of.                                       *)
(***************************************************************************)
TabsAreHeld ==
  \A s \in Tabbers :
    ~Shares(s) =>
      /\ s \in links => Closing(s) \/ \E p \in Pools : \E x \in tabs[p] : x.link = s
      /\ s \in listed =>
           \/ Closing(s)
           \/ tab[s].pool # pool \/ Emptied(pool)
           \/ s \in links /\ [target |-> CHOOSE t \in tab[s].took : TRUE, link |-> s] \in tabs[pool]
      /\ pool # 0 /\ (\E x \in tabs[pool] : x.link = s) => s \in listed
=============================================================================
