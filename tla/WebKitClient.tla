----------------------------- MODULE WebKitClient -----------------------------
(***************************************************************************)
(* One WebKit client (src/src/webkit/client.ts) with its transport         *)
(* (protocol-transport.ts) and its page targets (target-session.ts):       *)
(* connecting, requests and their timers, the heartbeat, reconnecting.     *)
(*                                                                         *)
(* A step is one event (a socket, a timer, a message, a call) or one       *)
(* continuation after an await.  A rejected promise is seen by whoever     *)
(* awaits it in a later step.                                              *)
(***************************************************************************)
EXTENDS Naturals, FiniteSets

CONSTANTS
  Users,        \* callers of the client, one call each at a time
  Loops,        \* room for runs of handleDisconnect()
  Targets,      \* pages of Safari
  Domains,      \* protocol domains
  MaxSockets,   \* bound: sockets ever made
  MaxAttempts,  \* DEFAULT_RECONNECT_MAX_ATTEMPTS
  Retries,      \* options.retries of connect()
  Threshold,    \* heartbeatFailureThreshold
  None          \* no target, no domain, no caller

VARIABLES
  sock,         \* socket -> how far it is; "gone" has closed or lost its listeners
  ws,           \* transport: the current socket, 0 for null
  up,           \* transport: _connected
  reply,        \* request -> its promise; "waiting" has an entry in innerPending
  known,        \* session: knownTargets
  active,       \* session: activeTargetId
  globalDomains,\* session: globalEnabledDomains
  pageDomains,  \* session: enabledDomainsPerTarget
  waiter,       \* session: whose connect() targetReadyResolve belongs to
  ready,        \* session: whether it has been called
  announced,    \* session: targets whose domains are being enabled
  connected,    \* client: connected
  intervals,    \* client: heartbeats that run, by the socket they began with
  timer,        \* client: heartbeatTimer, 0 for null
  fails,        \* client: heartbeatFailures
  reconnecting, \* client: reconnecting
  job           \* callers and reconnect loops: what each is waiting for

transportVars == <<sock, ws, up, reply>>
domainVars    == <<globalDomains, pageDomains>>
readyVars     == <<waiter, ready>>
pageVars      == <<known, active, announced>>
sessionVars   == <<pageVars, domainVars, readyVars>>
beatVars      == <<connected, intervals, timer, fails>>
clientVars    == <<beatVars, reconnecting, job>>
vars          == <<transportVars, sessionVars, clientVars>>

ASSUME ClientAssumption ==
  /\ MaxSockets \in Nat /\ MaxAttempts \in Nat \ {0} /\ Retries \in Nat
  /\ Threshold \in Nat \ {0} /\ Loops # {}
  /\ Users \cap Loops = {} /\ None \notin Users \cup Loops \cup Targets \cup Domains

-----------------------------------------------------------------------------
Sockets  == 1..MaxSockets
Jobs     == Users \cup Loops
JobAsk(j)     == <<"job", j, None>>
Probe(s)      == <<"probe", s, None>>
PageAsk(t, d) == <<"page", t, d>>
Requests ==
  {JobAsk(j) : j \in Jobs} \cup {Probe(s) : s \in Sockets}
    \cup {PageAsk(t, d) : t \in Targets, d \in Domains}

\* A caller or a loop: where it awaits, the attempts it has left, its socket, the
\* domains it has still to enable, and the domain and page of its request.
Places  == {"idle", "pause", "list", "dial", "target", "enable", "wait", "error",
            "hung"}
JobType == [at : Places, left : Nat, sock : Sockets \cup {0}, todo : SUBSET Domains,
            domain : Domains \cup {None}, page : Targets \cup {None}]
Idle    == [at |-> "idle", left |-> 0, sock |-> 0, todo |-> {}, domain |-> None, page |-> None]

Init ==
  /\ sock = [s \in Sockets |-> "new"] /\ ws = 0 /\ up = FALSE
  /\ reply = [q \in Requests |-> "idle"]
  /\ known = {} /\ active = None
  /\ globalDomains = {} /\ pageDomains = [t \in Targets |-> {}]
  /\ waiter = None /\ ready = FALSE /\ announced = {}
  /\ connected = FALSE /\ intervals = {} /\ timer = 0 /\ fails = 0
  /\ reconnecting = FALSE
  /\ job = [j \in Jobs |-> Idle]

-----------------------------------------------------------------------------
(* The transport. *)

IsOpen == ws # 0 /\ sock[ws] = "open"
Heard  == \E s \in Sockets : sock[s] = "open"

\* sendToTarget(): without an open socket or a target it rejects at once.
Sent(q, target) ==
  [reply EXCEPT ![q] = IF IsOpen /\ target # None THEN "waiting" ELSE "failed"]

\* clearPendingRequests(): whoever waits is rejected.
Rejected(replies) ==
  [q \in Requests |-> IF replies[q] = "waiting" THEN "failed" ELSE replies[q]]

\* disconnect(): the current socket is closed and is not heard any more.
Shut(socks) == IF ws = 0 THEN socks ELSE [socks EXCEPT ![ws] = "gone"]

\* An answer comes: a result, an error, or an error in place of the ack.
Answer(q) ==
  /\ reply[q] = "waiting" /\ Heard
  /\ \E r \in {"ok", "failed"} : reply' = [reply EXCEPT ![q] = r]
  /\ UNCHANGED <<sock, ws, up, sessionVars, clientVars>>

\* None comes in time.
TimeOut(q) ==
  /\ reply[q] = "waiting"
  /\ reply' = [reply EXCEPT ![q] = "failed"]
  /\ UNCHANGED <<sock, ws, up, sessionVars, clientVars>>

-----------------------------------------------------------------------------
(* Losing the connection. *)

\* An attempt of a caller or a loop has failed: it goes on after a pause, or was the
\* last one.
Failed(j) ==
  [job EXCEPT ![j] = IF @.left > 0 THEN [Idle EXCEPT !.at = "pause", !.left = job[j].left - 1]
                                   ELSE Idle]

\* Mutant of GivesUp: the last failure does not take reconnecting back.
GivesUpNever(j) == FALSE

GivesUp(j) == j \in Loops /\ job[j].left = 0

\* j awaits no page any more: whether one comes makes no difference.
Unheeded(j) ==
  /\ waiter' = IF waiter = j THEN None ELSE waiter
  /\ ready' = (ready /\ waiter # j)

Fail(j) ==
  /\ job' = Failed(j)
  /\ reconnecting' = (reconnecting /\ ~ GivesUp(j))
  /\ Unheeded(j)

NewLoop == CHOOSE l \in Loops : job[l] = Idle
LoopBegun == [Idle EXCEPT !.at = "pause", !.left = MaxAttempts - 1]

\* handleDisconnect() up to its first pause: socks and jobs are what the event that
\* led to it has made of sock and job.
StartReconnect(socks, jobs) ==
  /\ sock' = Shut(socks) /\ ws' = 0 /\ up' = FALSE
  /\ known' = {} /\ active' = None
  /\ UNCHANGED <<announced, domainVars, readyVars>>
  /\ connected' = FALSE
  /\ intervals' = intervals \ {timer} /\ timer' = 0
  /\ reconnecting' = TRUE
  /\ job' = [jobs EXCEPT ![NewLoop] = LoopBegun]

\* Mutant of CloseEvent: the requests that wait are left to their timers.
CloseEventSilent(s, jobs) ==
  LET socks == [sock EXCEPT ![s] = "gone"]
  IN  /\ UNCHANGED reply
      /\ IF connected /\ ~ reconnecting
         THEN StartReconnect(socks, jobs) /\ UNCHANGED fails
         ELSE /\ sock' = socks /\ up' = FALSE /\ job' = jobs
              /\ UNCHANGED <<ws, sessionVars, beatVars, reconnecting>>

\* The transport's 'close' event for socket s, and the client's answer to it.
CloseEvent(s, jobs) ==
  LET socks == [sock EXCEPT ![s] = "gone"]
  IN  /\ reply' = Rejected(reply)
      /\ IF connected /\ ~ reconnecting
         THEN StartReconnect(socks, jobs) /\ UNCHANGED fails
         ELSE /\ sock' = socks /\ up' = FALSE /\ job' = jobs
              /\ UNCHANGED <<ws, sessionVars, beatVars, reconnecting>>

SocketClosed(s) ==
  /\ sock[s] = "open"
  /\ CloseEvent(s, job)

-----------------------------------------------------------------------------
(* Connecting. *)

\* connect(), and connectToUrl(), which skips the list of targets.
Connect(u) ==
  /\ job[u] = Idle
  /\ job' = [job EXCEPT ![u] = [@ EXCEPT !.at = "list", !.left = Retries]]
  /\ UNCHANGED <<transportVars, sessionVars, beatVars, reconnecting>>

\* The pause before an attempt is over.
Resume(j) ==
  /\ job[j].at = "pause"
  /\ job' = [job EXCEPT ![j].at = "list"]
  /\ UNCHANGED <<transportVars, sessionVars, beatVars, reconnecting>>

\* listTargets() fails or finds nothing.
NoTargets(j) ==
  /\ job[j].at = "list"
  /\ Fail(j)
  /\ UNCHANGED <<transportVars, pageVars, domainVars, beatVars>>

\* It finds a target: connectToTarget() makes a socket.
Dial(j, s) ==
  /\ job[j].at = "list"
  /\ sock[s] = "new" /\ \A r \in Sockets : sock[r] = "new" => s <= r
  /\ sock' = [sock EXCEPT ![s] = "opening"]
  /\ active' = None /\ waiter' = j /\ ready' = FALSE
  /\ job' = [job EXCEPT ![j] = [@ EXCEPT !.at = "dial", !.sock = s]]
  /\ UNCHANGED <<ws, up, reply, known, domainVars, announced, beatVars, reconnecting>>

\* The caller or loop that awaits socket s, if it still does.
Dialers(s) == {j \in Jobs : job[j].at = "dial" /\ job[j].sock = s}

\* The socket opens, late perhaps, and becomes the transport's.  If somebody awaits
\* it, the client is connected and starts a heartbeat.
Opened(s) ==
  /\ sock[s] = "opening"
  /\ sock' = [sock EXCEPT ![s] = "open"]
  /\ ws' = s /\ up' = TRUE
  /\ IF Dialers(s) = {} THEN UNCHANGED <<beatVars, job>>
     ELSE /\ connected' = TRUE /\ fails' = 0
          /\ intervals' = intervals \cup {s} /\ timer' = s
          /\ job' = [j \in Jobs |-> IF j \in Dialers(s) THEN [job[j] EXCEPT !.at = "target", !.sock = 0]
                                    ELSE job[j]]
  /\ UNCHANGED <<reply, sessionVars, reconnecting>>

\* The socket cannot be opened: 'error', which stops the timer of the attempt and
\* fails it only when the transport is not connected, and then 'close'.
Refused(s) ==
  /\ sock[s] = "opening"
  /\ CloseEvent(s, [j \in Jobs |-> IF j \notin Dialers(s) THEN job[j]
                                   ELSE [job[j] EXCEPT !.at = IF up THEN "hung" ELSE "error",
                                                       !.sock = 0]])

\* The attempt sees the error.
DialError(j) ==
  /\ job[j].at = "error"
  /\ Fail(j)
  /\ UNCHANGED <<transportVars, pageVars, domainVars, beatVars>>

DialTimeOut(j) ==
  /\ job[j].at = "dial"
  /\ Fail(j)
  /\ UNCHANGED <<transportVars, pageVars, domainVars, beatVars>>

-----------------------------------------------------------------------------
(* Pages. *)

\* targetCreated: the domains enabled before are enabled for the page.
\* Bound: a page is not announced again before that is over.
TargetCreated(t) ==
  /\ Heard /\ t \notin announced
  /\ known' = known \cup {t}
  /\ active' = IF active = None THEN t ELSE active
  /\ announced' = announced \cup {t}
  /\ reply' = [q \in Requests |->
                 IF \E d \in globalDomains \cup pageDomains[t] : q = PageAsk(t, d)
                 THEN IF IsOpen THEN "waiting" ELSE "failed"
                 ELSE reply[q]]
  /\ UNCHANGED <<sock, ws, up, domainVars, waiter, ready, clientVars>>

\* All of them are answered, successfully or not: targetReadyResolve().
PageReady(t) ==
  /\ t \in announced
  /\ \A d \in Domains : reply[PageAsk(t, d)] # "waiting"
  /\ announced' = announced \ {t}
  /\ reply' = [q \in Requests |->
                 IF \E d \in Domains : q = PageAsk(t, d) THEN "idle" ELSE reply[q]]
  /\ ready' = (waiter # None)
  /\ UNCHANGED <<sock, ws, up, known, active, domainVars, waiter, clientVars>>

\* targetDestroyed: another page becomes the active one.
TargetDestroyed(t) ==
  /\ Heard /\ t \in known
  /\ known' = known \ {t}
  /\ pageDomains' = [pageDomains EXCEPT ![t] = {}]
  /\ IF active # t THEN UNCHANGED active
     ELSE active' \in (IF known = {t} THEN {None} ELSE known \ {t})
  /\ UNCHANGED <<transportVars, announced, globalDomains, readyVars, clientVars>>

SetActive(t) ==
  /\ t \in known
  /\ active' = t
  /\ UNCHANGED <<transportVars, known, announced, domainVars, readyVars, clientVars>>

\* A page is there: connect() has succeeded.  A reconnect loop takes the domains
\* down to enable them again.
TargetFound(j) ==
  /\ job[j].at = "target" /\ waiter = j /\ ready
  /\ IF j \in Users
     THEN job' = [job EXCEPT ![j] = Idle] /\ UNCHANGED domainVars
     ELSE /\ job' = [job EXCEPT ![j] = [@ EXCEPT !.at = "enable", !.todo = globalDomains]]
          /\ globalDomains' = {} /\ pageDomains' = [t \in Targets |-> {}]
  /\ Unheeded(j)
  /\ UNCHANGED <<transportVars, pageVars, beatVars, reconnecting>>

TargetTimeOut(j) ==
  /\ job[j].at = "target" /\ ~ (waiter = j /\ ready)
  /\ Fail(j)
  /\ UNCHANGED <<transportVars, pageVars, domainVars, beatVars>>

-----------------------------------------------------------------------------
(* Enabling domains. *)

\* A job sends its request and awaits the answer.
Ask(j, domain, page, target) ==
  /\ job' = [job EXCEPT ![j] = [@ EXCEPT !.at = "wait", !.domain = domain, !.page = page]]
  /\ reply' = Sent(JobAsk(j), target)
  /\ UNCHANGED <<sock, ws, up, sessionVars, beatVars, reconnecting>>

\* send(), with which every browser command ends.
Send(u) == job[u] = Idle /\ Ask(u, None, None, active)

EnableDomain(u, d) ==
  job[u] = Idle /\ d \notin globalDomains /\ Ask(u, d, None, active)

EnableDomainForTarget(u, d, t) ==
  job[u] = Idle /\ d \notin pageDomains[t] /\ Ask(u, d, t, t)

\* A reconnect loop enables the next domain.
EnableAgain(l, d) ==
  /\ job[l].at = "enable" /\ d \in job[l].todo
  /\ IF d \in globalDomains
     THEN /\ job' = [job EXCEPT ![l].todo = @ \ {d}]
          /\ UNCHANGED <<transportVars, sessionVars, beatVars, reconnecting>>
     ELSE Ask(l, d, None, active)

\* The answer: what is enabled is written down.
Enabled(j) ==
  /\ job[j].at = "wait" /\ reply[JobAsk(j)] = "ok"
  /\ reply' = [reply EXCEPT ![JobAsk(j)] = "idle"]
  /\ LET new  == {job[j].domain} \ {None}
         t    == job[j].page
         next == [job[j] EXCEPT !.at = "enable", !.domain = None, !.todo = @ \ new]
     IN  /\ globalDomains' = IF t = None THEN globalDomains \cup new ELSE globalDomains
         /\ pageDomains' = IF t = None THEN pageDomains
                           ELSE [pageDomains EXCEPT ![t] = @ \cup new]
         /\ job' = [job EXCEPT ![j] = IF j \in Users THEN Idle ELSE next]
  /\ UNCHANGED <<sock, ws, up, pageVars, readyVars, beatVars, reconnecting>>

NotEnabled(j) ==
  /\ job[j].at = "wait" /\ reply[JobAsk(j)] = "failed"
  /\ reply' = [reply EXCEPT ![JobAsk(j)] = "idle"]
  /\ Fail(j)
  /\ UNCHANGED <<sock, ws, up, pageVars, domainVars, beatVars>>

\* The loop has enabled them all: 'reconnected'.
Reconnected(l) ==
  /\ job[l].at = "enable" /\ job[l].todo = {}
  /\ job' = [job EXCEPT ![l] = Idle]
  /\ reconnecting' = FALSE
  /\ UNCHANGED <<transportVars, sessionVars, beatVars>>

-----------------------------------------------------------------------------
(* The heartbeat, and disconnect(). *)

\* Mutant of Beat: no probe without an open socket.
BeatOpen(s) ==
  /\ s \in intervals /\ reply[Probe(s)] = "idle" /\ IsOpen
  /\ reply' = Sent(Probe(s), active)
  /\ UNCHANGED <<sock, ws, up, sessionVars, clientVars>>

\* An interval sends its probe; the interval is longer than the probe's timeout.
Beat(s) ==
  /\ s \in intervals /\ reply[Probe(s)] = "idle"
  /\ reply' = Sent(Probe(s), active)
  /\ UNCHANGED <<sock, ws, up, sessionVars, clientVars>>

Alive(s) ==
  /\ reply[Probe(s)] = "ok"
  /\ reply' = [reply EXCEPT ![Probe(s)] = "idle"]
  /\ fails' = 0
  /\ UNCHANGED <<sock, ws, up, sessionVars, connected, intervals, timer, reconnecting, job>>

\* Mutant of Missed: a loop that runs is not asked after.
MissedAlways(s) ==
  /\ reply[Probe(s)] = "failed"
  /\ LET replies == [reply EXCEPT ![Probe(s)] = "idle"]
     IN  IF fails + 1 < Threshold
         THEN /\ fails' = fails + 1 /\ reply' = replies
              /\ UNCHANGED <<sock, ws, up, sessionVars, connected, intervals, timer,
                             reconnecting, job>>
         ELSE fails' = 0 /\ reply' = Rejected(replies) /\ StartReconnect(sock, job)

\* A probe has failed: the Threshold-th in a row tears the connection down.
Missed(s) ==
  /\ reply[Probe(s)] = "failed"
  /\ LET replies == [reply EXCEPT ![Probe(s)] = "idle"]
     IN  IF fails + 1 < Threshold
         THEN /\ fails' = fails + 1 /\ reply' = replies
              /\ UNCHANGED <<sock, ws, up, sessionVars, connected, intervals, timer,
                             reconnecting, job>>
         ELSE /\ fails' = 0
              /\ IF reconnecting
                 THEN /\ reply' = replies
                      /\ UNCHANGED <<sock, ws, up, sessionVars, connected, intervals, timer,
                                     reconnecting, job>>
                 ELSE reply' = Rejected(replies) /\ StartReconnect(sock, job)

\* Mutant of Disconnect: connected is not taken back.
DisconnectOnly ==
  /\ intervals' = intervals \ {timer} /\ timer' = 0
  /\ reply' = Rejected(reply)
  /\ sock' = Shut(sock) /\ ws' = 0 /\ up' = FALSE
  /\ known' = {} /\ active' = None
  /\ globalDomains' = {} /\ pageDomains' = [t \in Targets |-> {}]
  /\ waiter' = IF ready THEN waiter ELSE None
  /\ UNCHANGED <<connected, ready, announced, fails, reconnecting, job>>

\* disconnect(); a reconnect loop goes on.
Disconnect ==
  /\ intervals' = intervals \ {timer} /\ timer' = 0 /\ connected' = FALSE
  /\ reply' = Rejected(reply)
  /\ sock' = Shut(sock) /\ ws' = 0 /\ up' = FALSE
  /\ known' = {} /\ active' = None
  /\ globalDomains' = {} /\ pageDomains' = [t \in Targets |-> {}]
  /\ waiter' = IF ready THEN waiter ELSE None
  /\ UNCHANGED <<ready, announced, fails, reconnecting, job>>
-----------------------------------------------------------------------------
\* What a caller or a loop does next once it has what it waits for.
JobStep(j) ==
  \/ Resume(j) \/ DialError(j) \/ DialTimeOut(j) \/ TargetFound(j) \/ TargetTimeOut(j)
  \/ Enabled(j) \/ NotEnabled(j)

LoopStep(l) == (\E d \in Domains : EnableAgain(l, d)) \/ Reconnected(l)

ListStep(j) == NoTargets(j) \/ \E s \in Sockets : Dial(j, s)

UserStep(u) ==
  \/ Connect(u) \/ Send(u)
  \/ \E d \in Domains : EnableDomain(u, d) \/ \E t \in Targets : EnableDomainForTarget(u, d, t)

SocketStep(s) == SocketClosed(s) \/ Opened(s) \/ Refused(s)

BeatStep(s) == Beat(s) \/ Alive(s) \/ Missed(s)

PageStep(t) == TargetCreated(t) \/ TargetDestroyed(t) \/ SetActive(t)

Next ==
  \/ \E j \in Jobs : JobStep(j) \/ ListStep(j)
  \/ \E l \in Loops : LoopStep(l)
  \/ \E u \in Users : UserStep(u)
  \/ \E s \in Sockets : SocketStep(s) \/ BeatStep(s)
  \/ \E t \in Targets : PageStep(t) \/ PageReady(t)
  \/ \E q \in Requests : Answer(q) \/ TimeOut(q)
  \/ Disconnect

Spec == Init /\ [][Next]_vars

\* Timers fire and continuations run.  Safari and the proxy owe nothing: a socket may
\* stay in its handshake, and the list of targets, which has no timeout, may never come.
FairSpec ==
  /\ Spec
  /\ \A j \in Jobs : WF_vars(JobStep(j))
  /\ \A l \in Loops : WF_vars(LoopStep(l))
  /\ \A s \in Sockets : WF_vars(BeatStep(s))
  /\ \A t \in Targets : WF_vars(PageReady(t))
  /\ \A q \in Requests : WF_vars(TimeOut(q))

-----------------------------------------------------------------------------
(* Properties *)

\* Sockets, requests, targets, the heartbeat and the jobs keep their shape.
TypeOK ==
  /\ sock \in [Sockets -> {"new", "opening", "open", "gone"}] /\ ws \in Sockets \cup {0}
  /\ up \in BOOLEAN
  /\ reply \in [Requests -> {"idle", "waiting", "ok", "failed"}]
  /\ known \subseteq Targets /\ active \in Targets \cup {None}
  /\ globalDomains \subseteq Domains /\ pageDomains \in [Targets -> SUBSET Domains]
  /\ waiter \in Jobs \cup {None} /\ ready \in BOOLEAN /\ announced \subseteq Targets
  /\ connected \in BOOLEAN /\ intervals \subseteq Sockets /\ timer \in Sockets \cup {0}
  /\ fails \in 0..Threshold - 1
  /\ reconnecting \in BOOLEAN /\ job \in [Jobs -> JobType]

\* Whatever closes, fails or times out, the client reconnects in one loop at a time,
\* and says so as long as that loop runs (client.ts:360-362, 415 and 423).
OneLoop ==
  /\ reconnecting <=> \E l \in Loops : job[l] # Idle
  /\ \A k, l \in Loops : job[k] # Idle /\ job[l] # Idle => k = l

\* The page that commands go to is one that Safari has and has not destroyed
\* (target-session.ts:101-111, 140-145 and 215-230).
ActiveIsKnown == active # None => active \in known

\* No request waits for its timer when there is no socket left to answer it
\* (protocol-transport.ts:170-172).
NobodyWaitsInVain == (\E q \in Requests : reply[q] = "waiting") => Heard

\* While the client takes itself for connected, the heartbeat that disconnect() would
\* stop is running (client.ts:536-537).
WatchedWhileConnected == connected => timer # 0 /\ timer \in intervals

\* A client that takes itself for connected when its socket has gone finds out.
LossIsNoticed == connected /\ ~ IsOpen ~> reconnecting \/ ~ connected \/ IsOpen

\* A reconnect loop ends, unless the list of targets does not come or an attempt hangs
\* because the error of its socket was not passed on (protocol-transport.ts:176-183).
LoopsEnd ==
  reconnecting ~> ~ reconnecting \/ \E l \in Loops : job[l].at \in {"list", "hung"}

\* handleDisconnect() never leaves the client stuck with reconnecting = true
\* (client.ts:367-369), but for a list of targets that does not come.
ReconnectEnds ==
  reconnecting ~> ~ reconnecting \/ \E l \in Loops : job[l].at = "list"
=============================================================================
