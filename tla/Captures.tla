------------------------------- MODULE Captures -------------------------------
(***************************************************************************)
(* What is recorded while something else goes on: the logs of a page,      *)
(* which several sessions ask for by the same tool; its network traffic,   *)
(* as HAR; and the video of a device's screen. Calls run at once, and what *)
(* they started goes on between them.                                      *)
(***************************************************************************)
EXTENDS FiniteSets, Naturals, Sequences

CONSTANTS
  Loggers,        \* the MCP sessions that ask for a log
  MaxCollectors,  \* MAX_SESSION_COLLECTORS
  MaxBuffer,      \* maxSize of a buffer
  MaxEvents,      \* bound: events of the pages
  MaxEntries,     \* maxEntries of a HAR capture
  Filmers,        \* calls of app_record_video
  MaxStarts       \* bound: HAR captures, or videos

ASSUME CaptureAssumption ==
  {MaxCollectors, MaxBuffer, MaxEvents, MaxEntries, MaxStarts} \subseteq Nat \ {0}

VARIABLES
  log,    \* the log tool, its collectors and its listeners
  har,    \* the HAR captures
  film    \* the recordings of the screen

capvars == <<log, har, film>>

----------------------------------------------------------------------------
(* console_log, error_log and network_log: each has collectors of its own. *)

Backends == {1, 2}

\* told: the client that a session's last start was for.
LogInit ==
  \E tool \in {"console", "error", "network"} :
    log = [tool |-> tool, attached |-> 0, wired |-> 0, ears |-> {}, waking |-> {}, failed |-> FALSE,
           order |-> <<>>, on |-> {}, told |-> [s \in Loggers |-> 0], buf |-> [s \in Loggers |-> <<>>], events |-> 0]

\* The listeners that a start puts on the client, by the events they heed.
OnConsole == {{"message", "error"}}
OnError == {{"error"}}
OnRequests == {{"request"}, {"response"}}
Listeners == IF log.tool = "console" THEN OnConsole ELSE IF log.tool = "error" THEN OnError ELSE OnRequests

\* The i-th comes last, as it is deleted from the Map and set again.
ToTheEnd(o, i) ==
  [j \in DOMAIN o |-> IF j < i THEN o[j] ELSE IF j < Len(o) THEN o[j + 1] ELSE o[i]]

\* The session's collector comes last; a new one takes the place of the first, if
\* there are too many.
GetOrCreate(l, s) ==
  LET at == {i \in DOMAIN l.order : l.order[i] = s}
      full == at = {} /\ Len(l.order) >= MaxCollectors
      evicted == IF full THEN {Head(l.order)} ELSE {}
      order == IF at # {} THEN ToTheEnd(l.order, CHOOSE i \in at : TRUE)
               ELSE Append(IF full THEN Tail(l.order) ELSE l.order, s)
  IN [l EXCEPT !.order = order,
               !.on = @ \ evicted,
               !.told = [t \in Loggers |-> IF t \in evicted THEN 0 ELSE @[t]],
               !.buf = [t \in Loggers |-> IF t \in evicted THEN <<>> ELSE @[t]]]

\* Mutant of Attach: only the first client is listened to.
AttachOnce(l, k) ==
  LET new == {[of |-> k, heeds |-> h, n |-> l.wired + 1] : h \in Listeners}
  IN IF l.attached # 0 THEN l
     ELSE [l EXCEPT !.attached = k, !.wired = @ + 1, !.ears = @ \cup new, !.waking = @ \cup new]

\* wireDomainListener: the listener is there at once; whether the domain wakes up is
\* known later.
Attach(l, k) ==
  LET new == {[of |-> k, heeds |-> h, n |-> l.wired + 1] : h \in Listeners}
  IN IF l.attached = k THEN l
     ELSE [l EXCEPT !.attached = k, !.wired = @ + 1, !.ears = @ \cup new, !.waking = @ \cup new]

LogStart(s) ==
  \E k \in Backends :
    LET l == Attach(GetOrCreate(log, s), k)
    IN l.wired <= MaxStarts + 1 /\ log' = [l EXCEPT !.on = @ \cup {s}, !.told[s] = k]
LogStop(s) == log' = [GetOrCreate(log, s) EXCEPT !.on = @ \ {s}, !.told[s] = 0]
LogGet(s) ==
  LET l == GetOrCreate(log, s)
  IN log' \in {l, [l EXCEPT !.buf[s] = <<>>]}

\* The domain of a listener wakes up, or the listener is taken away again.
Wakes ==
  \E e \in log.waking :
    \/ log' = [log EXCEPT !.waking = @ \ {e}]
    \/ log' = [log EXCEPT !.waking = @ \ {e}, !.ears = @ \ {e}, !.failed = TRUE]

Push(buf, event) ==
  LET more == Append(buf, event) IN IF Len(more) > MaxBuffer THEN Tail(more) ELSE more
PushAll(buf, event, n) == IF n = 0 THEN buf ELSE IF n = 1 THEN Push(buf, event) ELSE Push(Push(buf, event), event)

\* An event of a page: each listener gives it to each collector.
PageEvent ==
  \E k \in Backends, kind \in UNION Listeners \cup {"message"} :
    LET n == Cardinality({e \in log.ears : e.of = k /\ kind \in e.heeds})
    IN /\ log.events < MaxEvents
       /\ log' = [log EXCEPT !.events = @ + 1,
                             !.buf = [s \in Loggers |-> IF s \in log.on THEN PushAll(@[s], log.events + 1, n)
                                                        ELSE @[s]]]

LogCall(s) == LogStart(s) \/ LogStop(s) \/ LogGet(s)
ConsoleLog(s) == log.tool = "console" /\ LogCall(s)
ErrorLog(s) == log.tool = "error" /\ LogCall(s)
\* Its get may be refused for the filter, when the collector has been looked up.
NetworkLog(s) == log.tool = "network" /\ (LogCall(s) \/ log' = GetOrCreate(log, s))

LogNext ==
  \/ \E s \in Loggers : ConsoleLog(s) \/ ErrorLog(s) \/ NetworkLog(s)
  \/ Wakes \/ PageEvent

----------------------------------------------------------------------------
(* network_har: one capture at a time, of requests whose hops share an id. *)

Requests == 1..2
NoEntries == [r \in {} |-> 0]
Captured == 1..MaxStarts

\* at: how far start() is; hop: the hop each request of the page is at; fetching: the
\* bodies that were asked for.
HarInit ==
  har = [active |-> 0, at |-> [c \in Captured |-> "new"], rec |-> {}, ears |-> {}, early |-> {},
         got |-> [c \in Captured |-> NoEntries], dropped |-> [c \in Captured |-> 0],
         hop |-> [r \in Requests |-> 0], ended |-> {}, fetching |-> {}]

\* Another capture is made only when none records, whatever becomes of its start.
HarStart ==
  \E c \in Captured :
    /\ har.at[c] = "new" /\ (\A b \in Captured : b < c => har.at[b] # "new")
    /\ har.active \notin har.rec
    /\ har' = [har EXCEPT !.active = c, !.rec = @ \cup {c}, !.at[c] = "enabling"]
HarListen ==
  \E c \in Captured :
    /\ har.at[c] = "enabling"
    /\ \/ har' = [har EXCEPT !.at[c] = "listening", !.ears = @ \cup {c}]
       \/ har' = [har EXCEPT !.at[c] = "failed"]

\* Mutant of HarStop: the listeners are not taken away.
HarStopOnly == har.active \in har.rec /\ har' = [har EXCEPT !.rec = @ \ {har.active}]

HarStop ==
  /\ har.active \in har.rec
  /\ LET c == har.active
     IN har' = [har EXCEPT !.rec = @ \ {c}, !.ears = @ \ {c},
                           !.early = IF har.at[c] = "enabling" THEN @ \cup {c} ELSE @]

With(f, r, entry) == [x \in DOMAIN f \cup {r} |-> IF x = r THEN entry ELSE f[x]]

\* requestWillBeSent: a hop replaces the one before it, while there is room.
HarRequest ==
  \E r \in Requests :
    LET hop == har.hop[r] + 1
        heard == har.ears \cap har.rec
        Full(c) == Cardinality(DOMAIN har.got[c]) >= MaxEntries
    IN /\ hop <= 2 /\ r \notin har.ended
       /\ har' = [har EXCEPT !.hop[r] = hop,
            !.got = [c \in Captured |-> IF c \in heard /\ ~Full(c)
                                        THEN With(@[c], r, [hop |-> hop, of |-> 0, body |-> 0]) ELSE @[c]],
            !.dropped = [c \in Captured |-> IF c \in heard /\ Full(c) THEN @[c] + 1 ELSE @[c]]]

\* responseReceived, for the last hop; the body is asked for by the request's id.
HarResponse ==
  \E r \in Requests :
    LET heard == {c \in har.ears \cap har.rec : r \in DOMAIN har.got[c]}
    IN /\ har.hop[r] > 0 /\ r \notin har.ended
       /\ \E asked \in {heard, {}} :
            har' = [har EXCEPT !.ended = @ \cup {r},
              !.got = [c \in Captured |-> IF c \in heard THEN [@[c] EXCEPT ![r].of = har.hop[r]] ELSE @[c]],
              !.fetching = @ \cup {<<c, r>> : c \in asked}]

\* The body comes, though the capture may have been stopped; or it does not.
HarBody ==
  \E f \in har.fetching :
    \/ har' = [har EXCEPT !.fetching = @ \ {f}, !.got[f[1]][f[2]].body = har.hop[f[2]]]
    \/ har' = [har EXCEPT !.fetching = @ \ {f}]

HarNext == HarStart \/ HarListen \/ HarStop \/ HarRequest \/ HarResponse \/ HarBody

----------------------------------------------------------------------------
(* app_record_video: a process per recording, by the device. *)

Films == 1..MaxStarts

\* map: activeRecordings of the device, 0 when it has none; twice: a recording was
\* being stopped by two calls.
FilmInit ==
  film = [map |-> 0, proc |-> [p \in Films |-> "none"], file |-> {}, twice |-> FALSE,
          call |-> [c \in Filmers |-> [at |-> "idle", of |-> 0, heard |-> FALSE]]]

FilmIdle(c) == film.call[c].at = "idle"

\* A process that cannot be started says so after the call; the entry is deleted.
FilmStart(c) ==
  /\ FilmIdle(c)
  /\ \/ film.map # 0 /\ film' = [film EXCEPT !.call[c].at = "refused"]
     \/ /\ film.map = 0
        /\ \E p \in Films :
             /\ film.proc[p] = "none" /\ \A q \in Films : q < p => film.proc[q] # "none"
             /\ \/ film' = [film EXCEPT !.map = p, !.proc[p] = "runs", !.call[c].at = "recording"]
                \/ film' = [film EXCEPT !.proc[p] = "dead", !.call[c].at = "recording"]

\* The process is asked to end; its exit is heard if it is still to come.
FilmStop(c) ==
  /\ FilmIdle(c)
  /\ \/ film.map = 0 /\ film' = [film EXCEPT !.call[c].at = "refused"]
     \/ /\ film.map # 0
        /\ LET p == film.map
           IN film' = [film EXCEPT
                !.call[c] = [at |-> "waits", of |-> p, heard |-> film.proc[p] # "dead"],
                !.proc[p] = IF @ = "dead" THEN @ ELSE "asked",
                !.twice = @ \/ \E d \in Filmers : film.call[d].at = "waits" /\ film.call[d].of = p]

\* The process ends, asked or not, with its file written or not; whoever waits for it
\* deletes the device's entry.
FilmExits ==
  \E p \in Films :
    LET waiting == {c \in Filmers : film.call[c].at = "waits" /\ film.call[c].of = p}
    IN /\ film.proc[p] \in {"runs", "asked", "killed"}
       /\ \E file \in {film.file, film.file \cup {p}} :
            film' = [film EXCEPT !.proc[p] = "dead", !.file = file,
              !.map = IF waiting = {} THEN @ ELSE 0,
              !.call = [c \in Filmers |-> IF c \in waiting THEN [@[c] EXCEPT !.at = "stat"] ELSE @[c]]]

\* Mutant of FilmTimeout: the entry of the device stays.
FilmTimeoutKeeps(c) ==
  /\ film.call[c].at = "waits"
  /\ film' = [film EXCEPT !.call[c].at = "failed",
                          !.proc[film.call[c].of] = IF @ = "dead" THEN @ ELSE "killed"]

\* Ten seconds have passed.
FilmTimeout(c) ==
  /\ film.call[c].at = "waits"
  /\ LET p == film.call[c].of
     IN film' = [film EXCEPT !.call[c].at = "failed", !.map = 0, !.proc[p] = IF @ = "dead" THEN @ ELSE "killed"]

FilmStat(c) ==
  /\ film.call[c].at = "stat"
  /\ film' = [film EXCEPT !.call[c].at = IF film.call[c].of \in film.file THEN "stopped" ELSE "failed"]

FilmNext ==
  (\E c \in Filmers : FilmStart(c) \/ FilmStop(c) \/ FilmTimeout(c) \/ FilmStat(c)) \/ FilmExits

----------------------------------------------------------------------------
(***************************************************************************)
(* A session that was told its log is being collected hears the client of  *)
(* its start, unless the domain of a client did not wake up; it gets an    *)
(* event once, and the events in their order, unless a client was attached *)
(* a second time; and no more collectors are kept than may be.             *)
(***************************************************************************)
LogsHear ==
  /\ ~log.failed =>
       \A s \in log.on, h \in Listeners : \E e \in log.ears : e.of = log.told[s] /\ e.heeds = h
  /\ log.wired <= Cardinality({e.of : e \in log.ears}) =>
       \A s \in Loggers : \A i, j \in DOMAIN log.buf[s] : i < j => log.buf[s][i] < log.buf[s][j]
  /\ Len(log.order) <= MaxCollectors
  /\ \A s \in Loggers : s \in log.on \/ log.buf[s] # <<>> => \E i \in DOMAIN log.order : log.order[i] = s

(***************************************************************************)
(* A HAR capture that records hears the requests once it has started; only *)
(* one records; and each of its entries has the answer, and the body, of   *)
(* its own hop, unless requests were dropped. A capture that was stopped   *)
(* hears no more, unless it was stopped while it started.                  *)
(***************************************************************************)
HarIsTrue ==
  /\ Cardinality(har.rec) <= 1
  /\ \A c \in Captured :
       /\ c \in har.rec /\ har.at[c] = "listening" => c \in har.ears
       /\ c \in har.ears \ har.rec => c \in har.early
       /\ Cardinality(DOMAIN har.got[c]) <= MaxEntries
       /\ har.dropped[c] = 0 =>
            \A r \in DOMAIN har.got[c] : {har.got[c][r].of, har.got[c][r].body} \subseteq {0, har.got[c][r].hop}

(***************************************************************************)
(* A recording that runs can be stopped: it is the one the device's entry  *)
(* names, unless two calls were stopping another. One that was stopped has *)
(* ended, and has its file; and whether or not its stop succeeded, it does *)
(* not keep the device from another. A call that waits for the end of a    *)
(* process that had ended before waits for its ten seconds.                *)
(***************************************************************************)
FilmsAreOwned ==
  /\ ~film.twice => \A p \in Films : film.proc[p] = "runs" => film.map = p
  /\ \A c \in Filmers :
       /\ film.call[c].at = "stopped" => film.proc[film.call[c].of] = "dead" /\ film.call[c].of \in film.file
       /\ film.call[c].at \in {"stat", "stopped", "failed"} => film.call[c].of # film.map
       /\ film.call[c].at = "waits" /\ film.proc[film.call[c].of] = "dead" => ~film.call[c].heard
=============================================================================
