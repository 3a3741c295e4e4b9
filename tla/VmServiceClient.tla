--------------------------- MODULE VmServiceClient ---------------------------
(***************************************************************************)
(* The Flutter VM service client of one device                             *)
(* (src/src/flutter/vm-service-client.ts) on top of that device's circuit  *)
(* breaker, which it asks before a request and tells the outcome, and      *)
(* which the crash watcher trips and resets.                               *)
(*                                                                         *)
(* An action is an event (a socket, a timer, a message, a call) or the     *)
(* continuation of a settled promise.  Continuations are microtasks: all   *)
(* of them run before the next event, which Quiet says.  A job is a call   *)
(* of connect() or callMethod() by a tool, or a run of attemptReconnect(); *)
(* it awaits one request at a time, so a request is named after its job.   *)
(***************************************************************************)
EXTENDS CircuitBreaker

CONSTANTS
  Users,              \* callers of the client, one call each at a time
  Loops,              \* room for runs of attemptReconnect()
  MaxSockets,         \* bound: sockets ever made
  ReconnectAttempts,  \* reconnectMaxAttempts
  Beat                \* the heartbeat's getVersion request

ASSUME ClientConstants ==
  /\ Ops = Users \cup Loops /\ Users \cap Loops = {} /\ Beat \notin Ops
  /\ MaxSockets \in Nat \ {0} /\ ReconnectAttempts \in Nat \ {0}

VARIABLES
  sock,          \* socket -> how far it is; the close event of "closing" is to come
  ws,            \* the current socket, 0 for null
  session,       \* the state object: none yet, connected ("up") or not ("down")
  wantOpen,
  reconnecting,
  beating,       \* heartbeatTimer is set
  reply,         \* request -> its promise; "waiting" has an entry in pending
  job            \* job -> the await it is at, the socket it opens, its attempt

breakerVars == vars
clientVars == <<sock, ws, session, wantOpen, reconnecting, beating, reply, job>>
allVars == <<breakerVars, clientVars>>

Sockets == 1..MaxSockets
Requests == Ops \cup {Beat}

Idle == [at |-> "idle", socket |-> 0, try |-> 0]

ClientInit ==
  /\ Init
  /\ sock = [s \in Sockets |-> "new"] /\ ws = 0
  /\ session = "none"
  /\ wantOpen = FALSE /\ reconnecting = FALSE /\ beating = FALSE
  /\ reply = [q \in Requests |-> "idle"]
  /\ job = [j \in Ops |-> Idle]

IsConnected == ws # 0 /\ sock[ws] = "open"

\* No continuation is left to run.
Quiet ==
  /\ \A q \in Requests : reply[q] # "failed"
  /\ \A j \in Ops : job[j].at \notin {"opened", "refused"}

At(j, place) == [job EXCEPT ![j] = [at |-> place, socket |-> 0, try |-> job[j].try]]

-----------------------------------------------------------------------------
(* Requests. *)

\* callMethod() throws at once: no connection, or the breaker is not available.
\* Before the first connection there is no device id, and no breaker is asked.
Refused ==
  \/ ~ IsConnected
  \/ session # "none" /\ ~ (AvailableClosed \/ AvailableCooled \/ AvailableProbe)

\* callMethod() sends its request and sets its timer.
Send(j, place) ==
  /\ IsConnected
  /\ \/ session = "none" /\ UNCHANGED breakerVars
     \/ session # "none" /\ (BeginClosed(j) \/ BeginCooled(j) \/ BeginProbe(j))
  /\ reply' = [reply EXCEPT ![j] = "waiting"]
  /\ job' = At(j, place)

\* Mutant of Report: failures are not told.
ReportSuccess(j, outcome) ==
  \/ op[j] = "idle" /\ UNCHANGED breakerVars
  \/ outcome = "ok" /\ Succeed(j)
  \/ outcome = "failed" /\ op' = Settled(j)
     /\ UNCHANGED <<state, failureCount, age, attempts>>

\* The then-callbacks of callMethod(): the outcome goes to the breaker that was asked.
Report(j, outcome) ==
  \/ op[j] = "idle" /\ UNCHANGED breakerVars
  \/ outcome = "ok" /\ Succeed(j)
  \/ outcome = "failed" /\ Fail(j)

\* Mutant of Rejected: what is pending is left to its timers.
RejectedLater == reply

\* Mutant of Rejected: pending is cleared, and nobody is told.
RejectedCleared == [q \in Requests |-> IF reply[q] = "waiting" THEN "idle" ELSE reply[q]]

\* What is pending is rejected; what follows from it comes when this event is over.
Rejected == [q \in Requests |-> IF reply[q] = "waiting" THEN "failed" ELSE reply[q]]

Dropped(q) == [reply EXCEPT ![q] = "idle"]

-----------------------------------------------------------------------------
(* Sockets. *)

\* attemptReconnect() starts when the client is to be open and no other run is under
\* way; jobs is what the jobs are by then.
AttemptReconnect(jobs) ==
  \/ /\ wantOpen /\ ~ reconnecting
     /\ reconnecting' = TRUE /\ beating' = FALSE
     /\ \E l \in Loops :
          /\ jobs[l] = Idle
          /\ job' = [jobs EXCEPT ![l] = [at |-> "sleep", socket |-> 0, try |-> 1]]
  \/ /\ ~ wantOpen \/ reconnecting
     /\ job' = jobs
     /\ UNCHANGED <<reconnecting, beating>>

\* The jobs after the connectWebSocket() that waits for s has settled.
Dialled(s, place) ==
  [j \in Ops |-> IF job[j].at = "dial" /\ job[j].socket = s
                 THEN [at |-> place, socket |-> 0, try |-> job[j].try] ELSE job[j]]

\* A socket opens, perhaps after its connect timer has fired.
Open(s) ==
  /\ Quiet /\ sock[s] = "opening"
  /\ sock' = [sock EXCEPT ![s] = "open"]
  /\ job' = Dialled(s, "opened")
  /\ UNCHANGED <<breakerVars, ws, session, wantOpen, reconnecting, beating, reply>>

\* A socket is lost, refused, or closed on request: its error and close events, which
\* concern the client whether or not it is the current socket.
Close(s) ==
  /\ Quiet /\ sock[s] \in {"opening", "open", "closing"}
  /\ sock' = [sock EXCEPT ![s] = "gone"]
  /\ session' = IF session = "up" THEN "down" ELSE session
  /\ reply' = Rejected
  /\ AttemptReconnect(Dialled(s, "refused"))
  /\ UNCHANGED <<breakerVars, ws, wantOpen>>

Closed(s) == sock[s] = "closing" /\ Close(s)

DialTimeOut(j) ==
  /\ Quiet /\ job[j].at = "dial"
  /\ job' = At(j, "refused")
  /\ UNCHANGED <<breakerVars, sock, ws, session, wantOpen, reconnecting, beating, reply>>

\* close() and terminate() of the current socket; the close event comes later.
Hung == IF ws # 0 /\ sock[ws] \in {"opening", "open"}
        THEN [sock EXCEPT ![ws] = "closing"] ELSE sock

-----------------------------------------------------------------------------
(* connect() and attemptReconnect(). *)

\* A tool connects a client that is not connected.
Connect(u) ==
  /\ Quiet /\ ~ IsConnected /\ job[u] = Idle
  /\ wantOpen' = TRUE
  /\ job' = At(u, "discover")
  /\ UNCHANGED <<breakerVars, sock, ws, session, reconnecting, beating, reply>>

\* Mutant of ConnectFails: the last attempt leaves its flag behind.
ConnectFailsKeepsFlag(j) ==
  /\ job' = [job EXCEPT ![j] =
               IF j \in Loops /\ job[j].try < ReconnectAttempts
               THEN [at |-> "sleep", socket |-> 0, try |-> job[j].try + 1] ELSE Idle]
  /\ UNCHANGED reconnecting

\* connect() throws: its caller is told, or the run sleeps and tries again, or gives up.
ConnectFails(j) ==
  \/ /\ j \in Users
     /\ job' = [job EXCEPT ![j] = Idle]
     /\ UNCHANGED reconnecting
  \/ /\ j \in Loops /\ job[j].try < ReconnectAttempts
     /\ job' = [job EXCEPT ![j] = [at |-> "sleep", socket |-> 0, try |-> job[j].try + 1]]
     /\ UNCHANGED reconnecting
  \/ /\ j \in Loops /\ job[j].try = ReconnectAttempts
     /\ job' = [job EXCEPT ![j] = Idle]
     /\ reconnecting' = FALSE

\* connect() returns, the heartbeat begins anew, and a run of attemptReconnect() ends.
ConnectEnds(j) ==
  /\ beating' = TRUE
  /\ reconnecting' = (reconnecting /\ j \notin Loops)
  /\ job' = [job EXCEPT ![j] = Idle]

\* Discovery finds no URL in time, or a socket is made.
Discover(j) ==
  /\ Quiet /\ job[j].at = "discover"
  /\ \/ ConnectFails(j) /\ UNCHANGED <<sock, ws>>
     \/ \E s \in Sockets :
          /\ sock[s] = "new" /\ \A r \in Sockets : r < s => sock[r] # "new"
          /\ sock' = [sock EXCEPT ![s] = "opening"] /\ ws' = s
          /\ job' = [job EXCEPT ![j] = [at |-> "dial", socket |-> s, try |-> job[j].try]]
          /\ UNCHANGED reconnecting
  /\ UNCHANGED <<breakerVars, session, wantOpen, beating, reply>>

NotOpened(j) ==
  /\ job[j].at = "refused"
  /\ ConnectFails(j)
  /\ UNCHANGED <<breakerVars, sock, ws, session, wantOpen, beating, reply>>

\* getVM(), which asks the breaker once there has been a session.
GetVM(j) ==
  /\ job[j].at = "opened"
  /\ \/ Send(j, "vm") /\ UNCHANGED reconnecting
     \/ Refused /\ ConnectFails(j) /\ UNCHANGED <<breakerVars, reply>>
  /\ UNCHANGED <<sock, ws, session, wantOpen, beating>>

NoVM(j) ==
  /\ job[j].at = "vm"
  /\ Report(j, "failed")
  /\ reply' = Dropped(j)
  /\ ConnectFails(j)
  /\ UNCHANGED <<sock, ws, session, wantOpen, beating>>

\* A streamListen() of connect(), which bypasses the breaker, or the end of connect().
Listen(j) ==
  \/ /\ IsConnected
     /\ reply' = [reply EXCEPT ![j] = "waiting"]
     /\ job' = At(j, "listen")
     /\ UNCHANGED <<reconnecting, beating>>
  \/ /\ ~ IsConnected
     /\ reply' = Dropped(j)
     /\ ConnectEnds(j)

\* The session is there, whatever has become of its socket; connect() subscribes.
GotVM(j) ==
  /\ job[j].at = "vm"
  /\ Report(j, "ok")
  /\ session' = "up"
  /\ Listen(j)
  /\ UNCHANGED <<sock, ws, wantOpen>>

\* A subscription has succeeded or failed, connect() goes on: to the streams that
\* callers had subscribed to (one stands for all of them), or to its end.
Listened(j) ==
  /\ job[j].at \in {"listen", "replay"}
  /\ \/ /\ job[j].at = "listen" /\ IsConnected
        /\ reply' = [reply EXCEPT ![j] = "waiting"]
        /\ job' = At(j, "replay")
        /\ UNCHANGED <<reconnecting, beating>>
     \/ /\ reply' = Dropped(j)
        /\ ConnectEnds(j)
  /\ UNCHANGED <<breakerVars, sock, ws, session, wantOpen>>

\* The delay of an attempt is over.
Wake(l) ==
  /\ Quiet /\ job[l].at = "sleep"
  /\ \/ ~ wantOpen /\ job' = [job EXCEPT ![l] = Idle] /\ reconnecting' = FALSE
     \/ wantOpen /\ job' = At(l, "discover") /\ UNCHANGED reconnecting
  /\ UNCHANGED <<breakerVars, sock, ws, session, wantOpen, beating, reply>>

-----------------------------------------------------------------------------
(* The heartbeat, calls of tools, disconnect(). *)

Heartbeat ==
  /\ Quiet /\ beating /\ IsConnected /\ reply[Beat] = "idle"
  /\ reply' = [reply EXCEPT ![Beat] = "waiting"]
  /\ UNCHANGED <<breakerVars, sock, ws, session, wantOpen, reconnecting, beating, job>>

\* A heartbeat that fails terminates the socket and reconnects.
BeatFails ==
  /\ reply' = Dropped(Beat)
  /\ \/ /\ wantOpen /\ ~ reconnecting
        /\ sock' = Hung
        /\ AttemptReconnect(job)
     \/ /\ ~ wantOpen \/ reconnecting
        /\ UNCHANGED <<sock, reconnecting, beating, job>>
  /\ UNCHANGED <<breakerVars, ws, session, wantOpen>>

\* A tool calls a method; a refusal changes nothing.
Call(u) ==
  /\ Quiet /\ job[u] = Idle
  /\ Send(u, "call")
  /\ UNCHANGED <<sock, ws, session, wantOpen, reconnecting, beating>>

CallSettles(u, outcome) ==
  /\ job[u].at = "call"
  /\ Report(u, outcome)
  /\ reply' = Dropped(u)
  /\ job' = [job EXCEPT ![u] = Idle]
  /\ UNCHANGED <<sock, ws, session, wantOpen, reconnecting, beating>>

\* A request that succeeds, or fails, and what comes of it.
Succeeds(q) ==
  \/ q = Beat /\ reply' = Dropped(Beat)
              /\ UNCHANGED <<breakerVars, sock, ws, session, wantOpen, reconnecting,
                             beating, job>>
  \/ q \in Ops /\ (CallSettles(q, "ok") \/ GotVM(q) \/ Listened(q))

Fails(q) ==
  \/ q = Beat /\ BeatFails
  \/ q \in Ops /\ (CallSettles(q, "failed") \/ NoVM(q) \/ Listened(q))

\* A response or an error response comes.
Answer(q) ==
  /\ Quiet /\ reply[q] = "waiting"
  /\ \E s \in Sockets : sock[s] = "open"
  /\ Succeeds(q) \/ Fails(q)

TimeOut(q) == Quiet /\ reply[q] = "waiting" /\ Fails(q)

\* The continuation of a request that a close or disconnect() has rejected.
Resume(q) == reply[q] = "failed" /\ Fails(q)

\* disconnect(): what is pending is rejected, the socket closed, the state marked;
\* a run of attemptReconnect() under way is only told by wantOpen, when it wakes.
Disconnected ==
  /\ wantOpen' = FALSE /\ reconnecting' = FALSE /\ beating' = FALSE
  /\ reply' = IF ws # 0 THEN Rejected ELSE reply
  /\ sock' = Hung /\ ws' = 0
  /\ session' = IF session = "up" THEN "down" ELSE session
  /\ UNCHANGED job

Disconnect == Quiet /\ Disconnected /\ UNCHANGED breakerVars

\* The crash watcher finds the device down: the breaker trips, and the client of a
\* device of the pool is disconnected (and replaced, when somebody asks for it again,
\* by one in its first state; the model goes on with the old one).
Crash == Quiet /\ Trip /\ (Disconnected \/ UNCHANGED clientVars)

\* ... and has booted and reconnected it.
Recovered == Quiet /\ Reset /\ UNCHANGED clientVars

Time == Quiet /\ Tick /\ UNCHANGED clientVars

-----------------------------------------------------------------------------
JobStep(j) ==
  Discover(j) \/ DialTimeOut(j) \/ NotOpened(j) \/ GetVM(j)

ClientNext ==
  \/ \E u \in Users : Connect(u) \/ Call(u)
  \/ \E l \in Loops : Wake(l)
  \/ \E j \in Ops : JobStep(j)
  \/ \E q \in Requests : Answer(q) \/ TimeOut(q) \/ Resume(q)
  \/ \E s \in Sockets : Open(s) \/ Close(s)
  \/ Heartbeat
  \/ Disconnect \/ Crash \/ Recovered \/ Time

ClientSpec == ClientInit /\ [][ClientNext]_allVars

\* Timers fire, discovery has a time limit, continuations run, and a socket that is
\* closed on request reports it.  The service, the network and the tools owe nothing.
ClientFairness ==
  /\ \A j \in Ops : WF_allVars(JobStep(j))
  /\ \A l \in Loops : WF_allVars(Wake(l))
  /\ \A q \in Requests : WF_allVars(TimeOut(q)) /\ WF_allVars(Resume(q))
  /\ \A s \in Sockets : WF_allVars(Closed(s))

ClientFairSpec == ClientSpec /\ ClientFairness

-----------------------------------------------------------------------------
(* Properties *)

Places ==
  {"idle", "sleep", "discover", "dial", "opened", "refused", "vm", "listen", "replay", "call"}

\* Sockets, requests and jobs keep their shape, and so does the breaker.
ClientTypeOK ==
  /\ TypeOK
  /\ sock \in [Sockets -> {"new", "opening", "open", "closing", "gone"}]
  /\ ws \in 0..MaxSockets
  /\ session \in {"none", "up", "down"}
  /\ wantOpen \in BOOLEAN /\ reconnecting \in BOOLEAN /\ beating \in BOOLEAN
  /\ reply \in [Requests -> {"idle", "waiting", "failed"}]
  /\ job \in [Ops -> [at : Places, socket : 0..MaxSockets, try : 0..ReconnectAttempts]]

\* The breaker will hear of whatever it has let through: the request it belongs to still
\* waits, or its failure is being passed on. An answer, a time limit, a socket that closes,
\* disconnect() and a crash meet in any order, and none may drop the request in silence.
ReportsAreOwed ==
  \A j \in Ops : op[j] # "idle" => job[j].at \in {"vm", "call"} /\ reply[j] # "idle"

\* No request waits for its timer alone when every socket has closed.
WaitsAreHeard ==
  (\E q \in Requests : reply[q] = "waiting") =>
    \E s \in Sockets : sock[s] \in {"open", "closing"}

\* A session that says it is connected is watched: its heartbeat runs, a connect() or
\* attemptReconnect() that will start it is under way, or a close event is to come.
Watched ==
  session = "up" =>
    \/ beating
    \/ \E j \in Ops : job[j].at \notin {"idle", "call"}
    \/ \E s \in Sockets : sock[s] = "closing"

\* Every connect() and callMethod() returns or throws, and attemptReconnect() ends.
CallsSettle ==
  /\ \A u \in Users : job[u] # Idle ~> job[u] = Idle
  /\ reconnecting ~> ~ reconnecting
=============================================================================
