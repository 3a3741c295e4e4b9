------------------------------ MODULE McpServer ------------------------------
(***************************************************************************)
(* The server over HTTP: messages of several sessions are handled at once, *)
(* from one await to the next.  What their calls share is modelled with    *)
(* them: the one connection of a device, which tools set, replace and take *)
(* back; the page that connection is on; the interceptor each session has; *)
(* and the rules in the pages, which are whatever was written there last.  *)
(* The writes of one client go over one socket, in order.                  *)
(***************************************************************************)
EXTENDS Naturals, Sequences, FiniteSets

CONSTANTS
  Msgs,        \* the messages that can be in flight at once
  Clients,     \* the ids a client may send in mcp-session-id
  Pages,       \* the pages (targets) of the device
  MaxMsgs,     \* bound: messages in one behaviour
  MaxBackends  \* bound: WebKit clients that other tools make for the device

ASSUME McpAssumption == MaxMsgs \in Nat /\ MaxBackends \in Nat /\ Clients # {}

VARIABLES
  sessions,  \* HTTPTransport.sessions
  msg,       \* what each message is doing
  sent,      \* messages so far
  backend,   \* SessionManager.connections of the device: a client, or 0
  backends,  \* WebKit clients made so far
  rules,     \* interceptorsByKey: what each session's interceptor holds
  on,        \* the page the connection is on
  wire,      \* evaluate() requests on their way to the page they were sent to
  page,      \* what they have made of each page
  disturbed  \* a write has failed or the page was loaded again (bound: once), or
             \* the connection or its page has changed under rules or writes

pageVars == <<on, wire, page, disturbed>>
mvars == <<sessions, msg, sent, backend, backends, rules, pageVars>>

Tools == {"rule", "clear", "offline", "online", "connect", "webviews"}
Nothing == [on |-> FALSE, rules |-> 0, offline |-> FALSE]
NoMsg == [at |-> "idle"]
MAt(m, label) == msg[m].at = label
Turns(m, label) == msg' = [msg EXCEPT ![m].at = label]
Handled(m) == Turns(m, "handled")

McpInit ==
  /\ sessions = {}
  /\ msg = [m \in Msgs |-> NoMsg] /\ sent = 0
  /\ backend = 0 /\ backends = 0
  /\ rules = [s \in Clients |-> Nothing]
  /\ on \in Pages /\ wire = <<>> /\ page = [p \in Pages |-> Nothing] /\ disturbed = FALSE

----------------------------------------------------------------------------
(* Requests. *)

\* A POST with one message or a batch of several; what is refused (the origin,
\* the token, the size, the body) never becomes a message.  `initialize` without
\* an id starts a session; other ids are taken as they come, ended ones included.
HandlePost ==
  /\ \E batch \in SUBSET {m \in Msgs : MAt(m, "idle")}, s \in Clients :
       /\ batch # {} /\ sent + Cardinality(batch) <= MaxMsgs
       /\ sent' = sent + Cardinality(batch)
       /\ \E what \in [batch -> {"initialize", "tools/call"}] :
            /\ msg' = [m \in Msgs |-> IF m \in batch
                         THEN [at |-> what[m], sess |-> s, batch |-> batch, tool |-> "none",
                               own |-> 0, fresh |-> FALSE]
                         ELSE msg[m]]
            /\ sessions' = IF \E m \in batch : what[m] = "initialize"
                           THEN sessions \cup {s} ELSE sessions
  /\ UNCHANGED <<backend, backends, rules, pageVars>>

\* The response of a POST waits for all its messages.
Respond ==
  /\ \E m \in Msgs :
       /\ MAt(m, "handled") /\ \A n \in msg[m].batch : MAt(n, "handled")
       /\ msg' = [n \in Msgs |-> IF n \in msg[m].batch THEN NoMsg ELSE msg[n]]
  /\ UNCHANGED <<sessions, sent, backend, backends, rules, pageVars>>

\* The session's interceptor is forgotten; the pages are left as they are.
HandleDelete ==
  /\ \E s \in sessions :
       /\ sessions' = sessions \ {s}
       /\ rules' = [rules EXCEPT ![s] = Nothing]
       /\ disturbed' = (disturbed \/ rules[s] # Nothing)
  /\ UNCHANGED <<msg, sent, backend, backends, on, wire, page>>

----------------------------------------------------------------------------
(* tools/call. *)

HandleInitialize(m) ==
  /\ MAt(m, "initialize") /\ Handled(m)
  /\ UNCHANGED <<sessions, sent, backend, backends, rules, pageVars>>

\* A call without a name, of no tool or of one that HTTP may not use is answered.
HandleToolsCall(m) ==
  /\ MAt(m, "tools/call")
  /\ \/ Handled(m)
     \/ \E t \in Tools : msg' = [msg EXCEPT ![m].at = "begin", ![m].tool = t]
  /\ UNCHANGED <<sessions, sent, backend, backends, rules, pageVars>>

----------------------------------------------------------------------------
(* network_intercept and network_offline. *)

Starts(m, tools) == MAt(m, "begin") /\ msg[m].tool \in tools

NotConnected(m) ==
  /\ Starts(m, {"rule", "clear", "offline", "online"}) /\ backend = 0 /\ Handled(m)
  /\ UNCHANGED <<sessions, sent, backend, backends, rules, pageVars>>

\* Mutant of Sends: what the interceptor held before is sent.
SendsEarlier(m, held) ==
  /\ rules' = [rules EXCEPT ![msg[m].sess] = held]
  /\ wire' = Append(wire, [by |-> m, to |-> on, held |-> rules[msg[m].sess]])
  /\ Turns(m, "evaluate")
  /\ UNCHANGED <<sessions, sent, backend, backends, on, page, disturbed>>

\* inject() and disable() send what the interceptor holds at that moment.
Sends(m, held) ==
  /\ rules' = [rules EXCEPT ![msg[m].sess] = held]
  /\ wire' = Append(wire, [by |-> m, to |-> on, held |-> held])
  /\ Turns(m, "evaluate")
  /\ UNCHANGED <<sessions, sent, backend, backends, on, page, disturbed>>

AddRule(m) ==
  LET held == rules[msg[m].sess] IN
  /\ Starts(m, {"rule"}) /\ backend # 0
  /\ Sends(m, [held EXCEPT !.on = TRUE, !.rules = @ + 1])

Disable(m) == Starts(m, {"clear"}) /\ backend # 0 /\ Sends(m, Nothing)

SetOffline(m) ==
  LET held == rules[msg[m].sess] IN
  /\ backend # 0
  /\ \/ Starts(m, {"offline"}) /\ Sends(m, [held EXCEPT !.on = TRUE, !.offline = TRUE])
     \/ /\ Starts(m, {"online"}) /\ held.on
        /\ Sends(m, IF held.rules = 0 THEN Nothing ELSE [held EXCEPT !.offline = FALSE])
     \/ /\ Starts(m, {"online"}) /\ ~held.on /\ Handled(m)
        /\ UNCHANGED <<sessions, sent, backend, backends, rules, pageVars>>

\* The page has run the oldest request, or it is rejected: before or after it ran.
Evaluated ==
  /\ wire # <<>> /\ wire' = Tail(wire) /\ Handled(Head(wire).by)
  /\ LET done == [page EXCEPT ![Head(wire).to] = Head(wire).held] IN
     \/ page' = done /\ UNCHANGED disturbed
     \/ ~disturbed /\ disturbed' = TRUE /\ page' \in {page, done}
  /\ UNCHANGED <<sessions, sent, backend, backends, on, rules>>

\* A navigation wipes what was injected; nothing injects it again.
PageLoads ==
  /\ ~disturbed /\ page[on] # Nothing /\ page' = [page EXCEPT ![on] = Nothing] /\ disturbed' = TRUE
  /\ UNCHANGED <<sessions, msg, sent, backend, backends, on, rules, wire>>

----------------------------------------------------------------------------
(* set_active_context and app_webview_connect. *)

\* The connection is client c, on page p. What another client or another page was told
\* is not told again, and writes on their way may be lost, or come after later ones.
Joins(c, p) ==
  /\ backend' = c /\ on' = p
  /\ disturbed' = \/ disturbed
                  \/ <<c, p>> # <<backend, on>> /\ (wire # <<>> \/ \E s \in Clients : rules[s] # Nothing)
Stays == Joins(backend, on)
Connects(c) == \E p \in Pages : Joins(c, p) /\ (c = backend => p = on)

\* A call that finds no client makes one and registers it before it has tried it.
FindClient(m) ==
  /\ Starts(m, {"connect", "webviews"})
  /\ \E c \in ({backend} \ {0}) \cup {c \in {backends + 1} : backend = 0} :
       /\ Connects(c) /\ backends' = IF c > backends THEN c ELSE backends
       /\ msg' = [msg EXCEPT ![m].at = "list", ![m].own = c, ![m].fresh = backend = 0]
  /\ UNCHANGED <<sessions, sent, rules, wire, page>>

\* set_active_context: the client it began with is connected to the page that was
\* chosen from the list, and when that page answers it is registered again. A failure
\* to list leaves everything as it is; one to connect may come after the move.
ActiveContext(m) ==
  /\ \/ MAt(m, "list") /\ msg[m].tool = "connect" /\ Handled(m) /\ Stays
     \/ /\ MAt(m, "list") /\ msg[m].tool = "connect" /\ Turns(m, "join")
        /\ \E p \in Pages : Joins(backend, p) /\ (msg[m].own # backend => p = on)
     \/ MAt(m, "join") /\ Handled(m) /\ (Stays \/ Connects(msg[m].own))
  /\ UNCHANGED <<sessions, sent, backends, rules, wire, page>>

\* app_webview_connect: when the targets cannot be listed, a call that has made
\* a client takes back the connection of the device.
Webviews(m) ==
  /\ MAt(m, "list") /\ msg[m].tool = "webviews" /\ Handled(m)
  /\ Stays \/ (msg[m].fresh /\ Connects(0))
  /\ UNCHANGED <<sessions, sent, backends, rules, wire, page>>

\* device_boot and the pool connect the device, device_shutdown takes it away; a
\* client that has lost its socket may find another page.
DeviceComesOrGoes ==
  /\ \/ Connects(0) /\ UNCHANGED backends
     \/ backend # 0 /\ (\E p \in Pages : Joins(backend, p)) /\ UNCHANGED backends
     \/ backends < MaxBackends /\ Connects(backends + 1) /\ backends' = backends + 1
  /\ UNCHANGED <<sessions, msg, sent, rules, wire, page>>

----------------------------------------------------------------------------
Handle(m) ==
  \/ HandleInitialize(m) \/ HandleToolsCall(m)
  \/ NotConnected(m) \/ AddRule(m) \/ Disable(m) \/ SetOffline(m)
  \/ FindClient(m) \/ ActiveContext(m) \/ Webviews(m)

McpNext ==
  \/ \E m \in Msgs : Handle(m)
  \/ Respond \/ Evaluated \/ HandlePost \/ HandleDelete
  \/ PageLoads \/ DeviceComesOrGoes

McpSpec == McpInit /\ [][McpNext]_mvars

----------------------------------------------------------------------------
(***************************************************************************)
(* Between calls the page that the connection is on does what one of the   *)
(* interceptors holds: a call that was answered has not been undone by an  *)
(* earlier one still on its way.  Which of two sessions' rules are in      *)
(* force is not promised; and a page that was loaded again, a write that   *)
(* failed, a session that ended with rules set, and a connection that is   *)
(* new or was moved to another page leave the two apart (nothing injects   *)
(* again).                                                                 *)
(***************************************************************************)
PageFollowsRules ==
  (\A m \in Msgs : MAt(m, "idle")) /\ ~disturbed => \E s \in Clients : page[on] = rules[s]
=============================================================================
