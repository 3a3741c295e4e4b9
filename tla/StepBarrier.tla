----------------------------- MODULE StepBarrier -----------------------------
(***************************************************************************)
(* The step synchronisation barrier of the orchestration layer             *)
(* (src/src/orchestration/step-barrier.ts) together with the three tools   *)
(* that expose it to the workers (src/src/tools/barrier-tools.ts).         *)
(*                                                                         *)
(* Workers on several devices call wait(stepName, deviceId, allDeviceIds)  *)
(* and block until every expected device has arrived, until a timer that   *)
(* the first blocked call armed fires, or until somebody clears the        *)
(* barrier.  JavaScript runs each handler to its next await, so one        *)
(* handler is one action.                                                  *)
(***************************************************************************)
EXTENDS Naturals

CONSTANTS
  Devices,   \* device identifiers
  Steps,     \* step names
  Calls,     \* barrier_wait calls; bounds how many a behaviour makes
  NoEntry,   \* "this.barriers has no entry for the step"
  NoCall     \* "no resolver", "no request", "no verdict yet"

VARIABLES
  barriers,  \* step -> entry of the private Map, or NoEntry
  status,    \* call -> has it been made, is it blocked, was it answered
  request,   \* call -> the step and device it was made for
  verdict    \* call -> the BarrierResult it resolved with

vars == <<barriers, status, request, verdict>>

-----------------------------------------------------------------------------
(* The record types of the code. *)

Entry ==
  [ expected  : SUBSET Devices,                \* expectedDevices
    arrived   : SUBSET Devices,                \* arrivedDevices
    resolvers : [Devices -> Calls \cup {NoCall}],
    timer     : BOOLEAN ]                      \* timeoutId # undefined

Request == [step : Steps, device : Devices]

\* "waited" is not a field of the code: it tells a call that blocked from one
\* that was answered on the spot.
Verdict == [waited : BOOLEAN, allArrived : BOOLEAN, missing : SUBSET Devices]

AllArrived(e) == e.expected \subseteq e.arrived

BuildResult(e, waited, all) ==
  [waited |-> waited, allArrived |-> all, missing |-> e.expected \ e.arrived]

\* The sentinels are no values of the program.
ASSUME BarrierConstants ==
  /\ NoCall \notin Calls
  /\ NoCall \notin Request
  /\ NoCall \notin Verdict
  /\ NoEntry \notin Entry

NewEntry(all) ==
  [ expected |-> all, arrived |-> {},
    resolvers |-> [d \in Devices |-> NoCall], timer |-> FALSE ]

Waiters(e) == {e.resolvers[d] : d \in Devices} \ {NoCall}

\* Resolvers emptied and timer gone: what releaseAll and handleTimeout leave.
Drained(e) ==
  [e EXCEPT !.resolvers = [d \in Devices |-> NoCall], !.timer = FALSE]

\* Every call in S that was blocked resolves with one and the same result.
Resolve(S, result) ==
  /\ status'  = [c \in Calls |-> IF c \in S THEN "answered" ELSE status[c]]
  /\ verdict' = [c \in Calls |-> IF c \in S THEN result ELSE verdict[c]]

-----------------------------------------------------------------------------
Init ==
  /\ barriers = [s \in Steps |-> NoEntry]
  /\ status   = [c \in Calls |-> "new"]
  /\ request  = [c \in Calls |-> NoCall]
  /\ verdict  = [c \in Calls |-> NoCall]

\* wait() on an entry e that already holds the device: answered at once, with
\* allArrived = true whatever the entry says.
WaitAgain(c, s, d, e) ==
  /\ d \in e.arrived
  /\ barriers' = [barriers EXCEPT ![s] = e]
  /\ status'   = [status EXCEPT ![c] = "answered"]
  /\ verdict'  = [verdict EXCEPT ![c] = BuildResult(e, FALSE, TRUE)]

\* wait() by the last expected device: it releases everybody who is blocked.
WaitLast(c, s, d, e) ==
  LET e2 == [e EXCEPT !.arrived = @ \cup {d}] IN
  /\ d \notin e.arrived
  /\ AllArrived(e2)
  /\ barriers' = [barriers EXCEPT ![s] = Drained(e2)]
  /\ status'   = [k \in Calls |-> IF k \in Waiters(e2) \cup {c}
                                    THEN "answered" ELSE status[k]]
  /\ verdict'  = [k \in Calls |->
                    IF k \in Waiters(e2) THEN BuildResult(e2, TRUE, TRUE)
                    ELSE IF k = c THEN BuildResult(e2, FALSE, TRUE)
                    ELSE verdict[k]]

\* Mutant of WaitBlocked: only the first arrival of an entry arms the timer, so
\* nobody does after a timeout.
WaitBlockedNoRearm(c, s, d, e) ==
  LET e2 == [e EXCEPT !.arrived = @ \cup {d}] IN
  /\ d \notin e.arrived
  /\ ~ AllArrived(e2)
  /\ barriers' = [barriers EXCEPT ![s] =
                    [e2 EXCEPT !.resolvers[d] = c,
                               !.timer = @ \/ e.arrived = {}]]
  /\ status'   = [status EXCEPT ![c] = "waiting"]
  /\ UNCHANGED verdict

\* wait() by anyone else: it blocks, and arms the timer if none is running.
WaitBlocked(c, s, d, e) ==
  LET e2 == [e EXCEPT !.arrived = @ \cup {d}] IN
  /\ d \notin e.arrived
  /\ ~ AllArrived(e2)
  /\ barriers' = [barriers EXCEPT ![s] =
                    [e2 EXCEPT !.resolvers[d] = c, !.timer = TRUE]]
  /\ status'   = [status EXCEPT ![c] = "waiting"]
  /\ UNCHANGED verdict

\* The first call for a step creates the entry and fixes the expected set;
\* the allDeviceIds of later calls are ignored.
EntryFor(s, all) == IF barriers[s] = NoEntry THEN NewEntry(all) ELSE barriers[s]

Wait(c, s, d, all) ==
  /\ status[c] = "new"
  /\ d \in all
  /\ request' = [request EXCEPT ![c] = [step |-> s, device |-> d]]
  /\ \/ WaitAgain(c, s, d, EntryFor(s, all))
     \/ WaitLast(c, s, d, EntryFor(s, all))
     \/ WaitBlocked(c, s, d, EntryFor(s, all))

\* The setTimeout callback of the first blocked call.
HandleTimeout(s) ==
  /\ barriers[s] # NoEntry
  /\ barriers[s].timer
  /\ barriers' = [barriers EXCEPT ![s] = Drained(@)]
  /\ Resolve(Waiters(barriers[s]), BuildResult(barriers[s], TRUE, FALSE))
  /\ UNCHANGED request

\* Mutant of Clear: the entry and its timer go, the resolvers are not called.
ClearForgetsWaiters(s) ==
  /\ barriers[s] # NoEntry
  /\ barriers' = [barriers EXCEPT ![s] = NoEntry]
  /\ UNCHANGED <<status, request, verdict>>

\* barrier_clear with a step name.
Clear(s) ==
  /\ barriers[s] # NoEntry
  /\ barriers' = [barriers EXCEPT ![s] = NoEntry]
  /\ Resolve(Waiters(barriers[s]), BuildResult(barriers[s], TRUE, FALSE))
  /\ UNCHANGED request

\* The calls blocked on step s, none when the step has no entry.
BlockedOn(s) == IF barriers[s] = NoEntry THEN {} ELSE Waiters(barriers[s])

\* barrier_clear without one: every entry goes, every waiter is answered.
ClearAll ==
  /\ \E s \in Steps : barriers[s] # NoEntry
  /\ barriers' = [s \in Steps |-> NoEntry]
  /\ status'   = [c \in Calls |-> IF \E s \in Steps : c \in BlockedOn(s)
                                    THEN "answered" ELSE status[c]]
  /\ verdict'  = [c \in Calls |->
                    IF \E s \in Steps : c \in BlockedOn(s)
                      THEN BuildResult(barriers[request[c].step], TRUE, FALSE)
                      ELSE verdict[c]]
  /\ UNCHANGED request

Next ==
  \/ \E c \in Calls, s \in Steps, d \in Devices, all \in SUBSET Devices :
       Wait(c, s, d, all)
  \/ \E s \in Steps : HandleTimeout(s) \/ Clear(s)
  \/ ClearAll

\* Only the timer is fair: Node fires an armed setTimeout sooner or later,
\* while nobody promises that a device arrives or that a barrier is cleared.
Fairness == \A s \in Steps : WF_vars(HandleTimeout(s))

Spec     == Init /\ [][Next]_vars
FairSpec == Spec /\ Fairness

-----------------------------------------------------------------------------
(* Properties. *)

\* Shape of the state.
TypeOK ==
  /\ barriers \in [Steps -> Entry \cup {NoEntry}]
  /\ status   \in [Calls -> {"new", "waiting", "answered"}]
  /\ request  \in [Calls -> Request \cup {NoCall}]
  /\ verdict  \in [Calls -> Verdict \cup {NoCall}]

\* No blocked worker is stranded: while a call blocks, the entry of its step
\* exists, still holds that call's resolver under the call's device, has a
\* timer running that will answer it, and is not complete (a complete barrier
\* holds nobody back).  About the timer, which only the first waiter sets and
\* which timeout, release and clear each have to reset.
WaitersAnswerable ==
  \A c \in Calls : status[c] = "waiting" =>
    /\ request[c] # NoCall
    /\ barriers[request[c].step] # NoEntry
    /\ LET e == barriers[request[c].step] IN
       /\ e.resolvers[request[c].device] = c
       /\ e.timer
       /\ ~ AllArrived(e)

\* A call that really blocked is told "all arrived" exactly when no expected
\* device is missing from the list it is handed: timeout and clear never
\* announce success, release never announces it early.
BlockedVerdictIsHonest ==
  \A c \in Calls : status[c] = "answered" /\ verdict[c].waited =>
    (verdict[c].allArrived <=> verdict[c].missing = {})

\* Every blocked worker is answered in the end (the timer is fair).  A call blocks
\* at most once, so that is to say that none blocks forever.
EveryWaiterIsAnswered == []<>(\A c \in Calls : status[c] # "waiting")

=============================================================================
