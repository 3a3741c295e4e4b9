--------------------------- MODULE DeviceSession ---------------------------
(***************************************************************************)
(* device_boot and device_shutdown of one device, and what they set up and *)
(* take down: the simulator itself, its entry in the session manager, its  *)
(* WebInspector proxy and the WebKit connection through it. The proxy is a *)
(* process that can die at any moment and is restarted by a timer; the     *)
(* proxy manager hands out one proxy per device and forgets it when it has *)
(* been stopped. Calls run at once, from one await to the next.            *)
(***************************************************************************)
EXTENDS Integers, Sequences, FiniteSets, TLC

CONSTANTS
  Bookers,      \* the calls that can be in flight at once
  MaxBookings,  \* bound: calls
  MaxRestarts,  \* RESTART_MAX_ATTEMPTS
  MaxCrashes    \* bound: proxy processes that die by themselves

ASSUME DeviceSessionAssumption ==
  {MaxBookings, MaxRestarts, MaxCrashes} \subseteq Nat

VARIABLES
  dev,       \* the state simctl tells: "Shutdown", "Booted" or "ShuttingDown"
  erased,    \* simctl has erased it
  known,     \* the session manager has the simulator
  conn,      \* the proxy the session manager's connection goes through, or 0
  proxies,   \* every WebInspectorProxy made
  managed,   \* the one the manager has for the device, or 0
  pending,   \* the one whose first start is awaited, or 0
  reserved,  \* its port is reserved
  book,      \* what each caller's call is doing
  booked, crashed

dvars == <<dev, erased, known, conn, proxies, managed, pending, reserved, book, booked, crashed>>
device == <<dev, erased>>
session == <<known, conn>>
manager == <<managed, pending, reserved>>
counts == <<booked, crashed>>

Free == [at |-> "free", tool |-> "boot", again |-> FALSE, of |-> 0]
\* Of a proxy: handle is its process field, killed that its process got a signal.
New == [alive |-> FALSE, handle |-> FALSE, killed |-> FALSE, running |-> FALSE, reuse |-> FALSE,
        stop |-> FALSE, timer |-> FALSE, tries |-> 0, first |-> "probing", again |-> "no"]
ProxyIds == DOMAIN proxies
Alive == {i \in ProxyIds : proxies[i].alive}

DeviceInit ==
  /\ dev \in {"Shutdown", "Booted"} /\ erased = FALSE /\ known \in BOOLEAN /\ conn = 0
  /\ proxies = <<>> /\ managed = 0 /\ pending = 0 /\ reserved = FALSE
  /\ book = [b \in Bookers |-> Free] /\ booked = 0 /\ crashed = 0

BAt(b, label) == book[b].at = label
Hop(b, from, to) == BAt(b, from) /\ book' = [book EXCEPT ![b].at = to]
Over(b, from) == BAt(b, from) /\ book' = [book EXCEPT ![b] = Free]

----------------------------------------------------------------------------
(* WebInspectorProxy: its first start, which the manager awaits, and the starts *)
(* of its restart timer.                                                        *)

\* Who waits for a first start goes on: with the proxy, or to what is managed then.
Woken(i, ok) ==
  [b \in Bookers |->
     IF BAt(b, "started")
     THEN [book[b] EXCEPT !.at = IF ok THEN "target" ELSE "answer", !.of = i]
     ELSE IF BAt(b, "awaitStart") THEN [book[b] EXCEPT !.at = "entry"] ELSE book[b]]

\* Mutant of Settles: only a start that succeeds wakes those who wait to stop it.
SettlesForStarters(i, ok) ==
  /\ pending' = 0 /\ managed' = IF ok THEN i ELSE managed
  /\ reserved' = (ok /\ reserved)
  /\ book' = [b \in Bookers |->
       IF BAt(b, "awaitStart") /\ ~ok THEN book[b] ELSE Woken(i, ok)[b]]

\* The first start has settled: a failed one gives its port back.
Settles(i, ok) ==
  /\ pending' = 0 /\ managed' = IF ok THEN i ELSE managed
  /\ reserved' = (ok /\ reserved)
  /\ book' = Woken(i, ok)

\* A restart that failed is scheduled again, up to a limit.
Rescheduled(p) ==
  IF p.stop \/ p.timer \/ p.tries >= MaxRestarts THEN p
  ELSE [p EXCEPT !.timer = TRUE, !.tries = @ + 1]

\* A proxy that has let go of its process, which may go on running.
LetGo(p) == [p EXCEPT !.running = FALSE, !.reuse = FALSE, !.handle = FALSE]

\* Mutant of Forget: the proxy stays managed.
ForgetPortOnly == reserved' = FALSE /\ UNCHANGED <<managed, pending>>
\* A stop that is over forgets the port, and what is managed by then.
Forget == reserved' = FALSE /\ managed' = 0 /\ UNCHANGED pending
AfterStop(b) == IF book[b].tool = "boot" THEN "get" ELSE "check"
Stopping(b, i) == BAt(b, "stopping") /\ book[b].of = i

\* The process of i has ended: every stop that still waits for it is over.
Stopped(i) ==
  IF \E b \in Bookers : Stopping(b, i)
  THEN /\ Forget
       /\ book' = [b \in Bookers |->
            IF Stopping(b, i) THEN [book[b] EXCEPT !.at = AfterStop(b)] ELSE book[b]]
  ELSE UNCHANGED <<manager, book>>

\* Start i, of the given kind, ends with proxy p.
Done(i, kind, p, ok) ==
  /\ proxies' = [proxies EXCEPT ![i] =
       LET q == [p EXCEPT ![kind] = "no"] IN IF ok \/ kind = "first" THEN q ELSE Rescheduled(q)]
  /\ IF kind = "first" THEN Settles(i, ok) ELSE UNCHANGED <<manager, book>>

\* The port is looked at, and the socket of the device is waited for. A proxy
\* that listens there already is used, unless it is in the way.
StartProbe(i, kind) ==
  /\ proxies[i][kind] = "probing"
  /\ LET p == proxies[i] IN
     \/ Alive # {} /\ Done(i, kind, [p EXCEPT !.running = TRUE, !.reuse = TRUE], TRUE)
     \/ Done(i, kind, p, FALSE)
     \/ /\ Alive = {} /\ dev = "Booted"
        /\ proxies' = [proxies EXCEPT ![i] =
             [p EXCEPT !.alive = TRUE, !.handle = TRUE, !.killed = FALSE, !.running = TRUE,
                       !.reuse = FALSE, ![kind] = "spawned"]]
        /\ UNCHANGED <<manager, book>>
  /\ UNCHANGED <<device, session, counts>>

\* The port answers, or not in time: a process that other sessions use is let go
\* of, and one that nobody uses is killed and waited for.
StartReady(i, kind) ==
  /\ proxies[i][kind] = "spawned"
  /\ LET p == proxies[i] IN
     \/ Alive # {} /\ Done(i, kind, p, TRUE)
     \/ Done(i, kind, LetGo(p), FALSE)
     \/ /\ p.handle /\ UNCHANGED <<manager, book>>
        /\ proxies' = [proxies EXCEPT ![i] = [p EXCEPT !.killed = TRUE, ![kind] = "tearing"]]
  /\ UNCHANGED <<device, session, counts>>

\* It does not end in time: the start fails without waiting any longer.
TearTimeout(i, kind) ==
  /\ proxies[i][kind] = "tearing"
  /\ Done(i, kind, [proxies[i] EXCEPT !.running = FALSE, !.handle = FALSE], FALSE)
  /\ UNCHANGED <<device, session, counts>>

\* The process ends, killed or by itself. Starts and stops that wait for it are
\* over; what ran and was not let go of is started again.
Torn(i, kind) == proxies[i][kind] = "tearing"
ProxyExit(i) ==
  /\ proxies[i].alive
  /\ IF proxies[i].killed THEN UNCHANGED crashed ELSE crashed < MaxCrashes /\ crashed' = crashed + 1
  /\ LET p == proxies[i]
         q == [p EXCEPT !.alive = FALSE, !.handle = FALSE, !.running = FALSE,
                        !.first = IF Torn(i, "first") THEN "no" ELSE @,
                        !.again = IF Torn(i, "again") THEN "no" ELSE @]
         again == Torn(i, "again") \/ (p.running /\ ~p.reuse /\ ~Torn(i, "first"))
     IN proxies' = [proxies EXCEPT ![i] = IF again THEN Rescheduled(q) ELSE q]
  /\ IF Torn(i, "first") THEN Settles(i, FALSE) ELSE Stopped(i)
  /\ UNCHANGED <<device, session, booked>>

\* The timer starts the proxy again; a start takes the request to stop back.
RestartTimer(i) ==
  /\ proxies[i].timer
  /\ LET p == [proxies[i] EXCEPT !.timer = FALSE]
     IN proxies' = [proxies EXCEPT ![i] = IF p.running THEN p
                      ELSE [p EXCEPT !.stop = FALSE, !.again = "probing"]]
  /\ UNCHANGED <<device, session, manager, book, counts>>

ProxyStep(i) ==
  \/ \E kind \in {"first", "again"} :
       StartProbe(i, kind) \/ StartReady(i, kind) \/ TearTimeout(i, kind)
  \/ proxies[i].killed /\ ProxyExit(i)

----------------------------------------------------------------------------
(* The proxy manager. *)

\* getProxyForDevice: the proxy there is, the start there is, or a new start.
GetProxy(b) ==
  /\ BAt(b, "get")
  /\ \/ /\ managed # 0 /\ UNCHANGED <<proxies, manager>>
        /\ book' = [book EXCEPT ![b].at = "target", ![b].of = managed]
     \/ managed = 0 /\ pending # 0 /\ Hop(b, "get", "started") /\ UNCHANGED <<proxies, manager>>
     \/ /\ managed = 0 /\ pending = 0
        /\ proxies' = Append(proxies, New)
        /\ pending' = Len(proxies) + 1 /\ reserved' = TRUE /\ UNCHANGED managed
        /\ Hop(b, "get", "started")
  /\ UNCHANGED <<device, session, counts>>

\* stopProxyForDevice waits once for a first start, then stops what is managed: a
\* proxy without a process of its own, or whose process others use, is done with
\* at once; any other process is killed and waited for.
StopProxy(b) ==
  /\ \/ pending # 0 /\ Hop(b, "stop", "awaitStart") /\ UNCHANGED <<proxies, manager>>
     \/ /\ BAt(b, "entry") \/ (BAt(b, "stop") /\ pending = 0)
        /\ managed = 0 /\ UNCHANGED <<proxies, manager>>
        /\ book' = [book EXCEPT ![b].at = AfterStop(b)]
     \/ /\ BAt(b, "entry") \/ (BAt(b, "stop") /\ pending = 0)
        /\ managed # 0
        /\ LET p == [proxies[managed] EXCEPT !.stop = TRUE, !.timer = FALSE]
           IN \/ /\ proxies' = [proxies EXCEPT ![managed] = LetGo(p)] /\ Forget
                 /\ book' = [book EXCEPT ![b].at = AfterStop(b)]
              \/ /\ p.handle /\ ~p.reuse
                 /\ proxies' = [proxies EXCEPT ![managed] = [p EXCEPT !.killed = TRUE]]
                 /\ book' = [book EXCEPT ![b].at = "stopping", ![b].of = managed]
                 /\ UNCHANGED manager
  /\ UNCHANGED <<device, session, counts>>

\* The process does not end in time: this stop, and no other one, is over.
StopTimeout(b) ==
  /\ BAt(b, "stopping")
  /\ proxies' = [proxies EXCEPT ![book[b].of] = [@ EXCEPT !.running = FALSE, !.handle = FALSE]]
  /\ Forget /\ book' = [book EXCEPT ![b].at = AfterStop(b)]
  /\ UNCHANGED <<device, session, counts>>

----------------------------------------------------------------------------
(* device_boot *)

Rest == UNCHANGED <<proxies, manager, counts>>

Book(b) ==
  /\ BAt(b, "free") /\ booked < MaxBookings /\ booked' = booked + 1
  /\ \E tool \in {"boot", "shutdown"} :
       book' = [book EXCEPT ![b] = [at |-> "list", tool |-> tool, again |-> FALSE, of |-> 0]]
  /\ UNCHANGED <<device, session, proxies, manager, crashed>>

\* A device that is booted and has a running proxy and a connection is left as
\* it is; one that would be too many is refused.
BootList(b) ==
  /\ BAt(b, "list") /\ book[b].tool = "boot"
  /\ \/ dev = "Booted" /\ conn # 0 /\ managed # 0 /\ proxies[managed].running /\ Over(b, "list")
     \/ dev # "Booted" /\ Over(b, "list")
     \/ /\ ~(dev = "Booted" /\ conn # 0 /\ managed # 0 /\ proxies[managed].running)
        /\ Hop(b, "list", "boot")
  /\ UNCHANGED <<device, session>> /\ Rest

\* simctl boots the device, and the state is polled; or it throws, with the
\* device possibly booted. The session manager gets its entry.
Boot(b) ==
  \/ /\ dev # "ShuttingDown" /\ Hop(b, "boot", "get")
     /\ dev' = "Booted" /\ known' = TRUE /\ UNCHANGED <<erased, conn>> /\ Rest
  \/ /\ dev # "Booted" /\ Over(b, "boot")
     /\ dev' \in {dev} \cup (IF dev = "Shutdown" THEN {"Booted"} ELSE {})
     /\ UNCHANGED <<erased, session>> /\ Rest

\* An older connection is dropped before a new one is tried. A failure stops the
\* proxy and tries once more with another.
Connect(b) ==
  \/ Hop(b, "target", "connect") /\ conn' = 0 /\ UNCHANGED <<device, known>> /\ Rest
  \/ /\ Alive # {} /\ dev = "Booted" /\ Over(b, "connect")
     /\ conn' = book[b].of /\ UNCHANGED <<device, known>> /\ Rest
  \/ /\ BAt(b, "connect") /\ ~book[b].again
     /\ book' = [book EXCEPT ![b].at = "stop", ![b].again = TRUE]
     /\ UNCHANGED <<device, session>> /\ Rest
  \/ BAt(b, "connect") /\ book[b].again /\ Over(b, "connect") /\ UNCHANGED <<device, session>> /\ Rest
  \/ Over(b, "answer") /\ UNCHANGED <<device, session>> /\ Rest

DeviceBoot(b) == BootList(b) \/ Boot(b) \/ Connect(b)

----------------------------------------------------------------------------
(* device_shutdown *)

\* Tabs and connection are closed, then the session forgets the device.
LeaveSession(b) ==
  \/ /\ BAt(b, "list") /\ book[b].tool = "shutdown"
     /\ (Hop(b, "list", "leave") \/ Over(b, "list")) /\ UNCHANGED <<device, session>> /\ Rest
  \/ /\ Hop(b, "leave", "stop") /\ known' = FALSE /\ conn' = 0 /\ UNCHANGED device /\ Rest

\* lifecycle.shutdown: ask, poll until it is down or the time is up, ask again,
\* look again, and erase.
GoDown(b) ==
  \/ dev = "Shutdown" /\ Over(b, "check") /\ UNCHANGED device
  \/ dev # "Shutdown" /\ Hop(b, "check", "ask") /\ UNCHANGED device
  \/ /\ Hop(b, "ask", "poll") /\ UNCHANGED erased
     /\ dev' \in {dev} \cup (IF dev = "Booted" THEN {"ShuttingDown"} ELSE {})
  \/ dev = "Shutdown" /\ Over(b, "poll") /\ UNCHANGED device
  \/ dev # "Shutdown" /\ Hop(b, "poll", "retry") /\ UNCHANGED device
  \/ /\ dev = "Booted" /\ Hop(b, "retry", "look") /\ dev' = "ShuttingDown" /\ UNCHANGED erased
  \/ Hop(b, "retry", "erase") /\ UNCHANGED device
  \/ dev = "Shutdown" /\ Over(b, "look") /\ UNCHANGED device
  \/ dev # "Shutdown" /\ Hop(b, "look", "erase") /\ UNCHANGED device

\* simctl erases a device that is down, and no other.
Erase(b) ==
  /\ Over(b, "erase")
  /\ \/ dev = "Shutdown" /\ erased' = TRUE /\ UNCHANGED dev
     \/ dev # "Shutdown" /\ UNCHANGED device

DeviceShutdown(b) ==
  \/ LeaveSession(b)
  \/ (GoDown(b) \/ Erase(b)) /\ UNCHANGED session /\ Rest

\* The device gets down; its proxy keeps running.
ShutDown ==
  /\ dev = "ShuttingDown" /\ dev' = "Shutdown"
  /\ UNCHANGED <<erased, session, proxies, manager, book, counts>>

----------------------------------------------------------------------------
BookStep(b) == GetProxy(b) \/ StopProxy(b) \/ StopTimeout(b) \/ DeviceBoot(b) \/ DeviceShutdown(b)
DeviceNext ==
  \/ \E b \in Bookers : Book(b) \/ BookStep(b)
  \/ \E i \in ProxyIds : ProxyStep(i) \/ ProxyExit(i) \/ RestartTimer(i)
  \/ ShutDown
DeviceSpec ==
  /\ DeviceInit /\ [][DeviceNext]_dvars
  /\ \A b \in Bookers : WF_dvars(BookStep(b))
  /\ WF_dvars(\E i \in ProxyIds : ProxyStep(i))

----------------------------------------------------------------------------
(***************************************************************************)
(* No interleaving of starts, stops, crashes and failures leaks a port:    *)
(* one that is reserved has a proxy that starts or is managed.             *)
(***************************************************************************)
NoPortLeaks == reserved => managed # 0 \/ pending # 0

(***************************************************************************)
(* A port is given up while a proxy still starts or is managed only by a   *)
(* stop that another stop of the same proxy has overtaken.                 *)
(***************************************************************************)
Overtaken(b) == BAt(b, "stopping") /\ book[b].of # managed
PortStep ==
  reserved /\ ~reserved' /\ (managed' # 0 \/ pending' # 0)
    => \E b \in Bookers : Overtaken(b) /\ ~BAt(b, "stopping")'

(***************************************************************************)
(* So the manager's book of ports follows its proxies: a port is reserved  *)
(* only while one starts or is managed, and not given up before, whatever  *)
(* boots, restarts, crashes and timeouts interleave, but for the overtaken *)
(* stop.                                                                   *)
(***************************************************************************)
PortFollowsProxy == [][PortStep /\ NoPortLeaks']_dvars

(***************************************************************************)
(* Every call comes back, also the ones that wait for a proxy which        *)
(* another call starts or stops.                                           *)
(***************************************************************************)
BookersReturn == \A b \in Bookers : (book[b].at = "list") ~> (book[b] = Free)

=============================================================================
