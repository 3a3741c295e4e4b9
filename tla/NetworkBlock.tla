---------------------------- MODULE NetworkBlock ----------------------------
(***************************************************************************)
(* device_network_set and device_network_get: the tool records for every   *)
(* device whether it is offline, and one block rule in the host's packet   *)
(* filter stands for all of them. The rule outlives the server: a handler  *)
(* flushes it on a signal, and the first call of the next server flushes   *)
(* what a crash has left.                                                  *)
(*                                                                         *)
(* Calls run at once, from one await to the next, against commands that    *)
(* take effect at some moment of their await, or fail with or without an   *)
(* effect.                                                                 *)
(***************************************************************************)
EXTENDS Integers, Sequences, FiniteSets, TLC

CONSTANTS
  Callers,    \* the calls that can be in flight at once
  Sims,
  MaxCalls,   \* bound: calls in one behaviour
  MaxStops,   \* bound: ends of the server
  MaxFaults   \* bound: failing commands

ASSUME NetworkBlockAssumption ==
  MaxCalls \in Nat /\ MaxStops \in Nat /\ MaxFaults \in Nat

VARIABLES
  rule,        \* the anchor of the packet filter holds the block rule
  mode,        \* stateByDevice
  host,        \* activeHostBlocker: the mechanism asked for, or "none"
  pf,          \* PfctlBlocker.active
  reconciled,  \* reconciledOnce
  handler,     \* the cleanup handler is registered
  server,      \* "up", "draining" after a signal, or "down"
  calls,       \* what each caller's call is doing
  made, stops, faults,
  lapses       \* commands of this server that have failed, with whether they took
               \*   effect all the same

state == <<mode, host, pf, reconciled, handler>>
nvars == <<rule, mode, host, pf, reconciled, handler, server, calls, made, stops, faults,
           lapses>>

Idle == [at |-> "idle"]
Offline == {d \in Sims : mode[d] = "offline"}

NetworkInit ==
  /\ rule \in BOOLEAN        \* an earlier server may have crashed
  /\ mode = [d \in Sims |-> "online"] /\ host = "none"
  /\ pf = FALSE /\ reconciled = FALSE /\ handler = FALSE
  /\ server = "up"
  /\ calls = [c \in Callers |-> Idle]
  /\ made = 0 /\ stops = 0 /\ faults = 0 /\ lapses = {}

----------------------------------------------------------------------------
(* A call and the commands it awaits. *)

NAt(c, label) == server # "down" /\ calls[c].at = label
Moves(c, label) == calls' = [calls EXCEPT ![c].at = label]
Ends(c) == calls' = [calls EXCEPT ![c] = Idle]
Outside == UNCHANGED <<server, made, stops>>
Quiet == UNCHANGED <<rule, faults, lapses>>

\* A command answers ok after its effect; it may fail before, or (its time was
\* up) after it.
Runs(c, from, effect, ok, failed) ==
  /\ NAt(c, from)
  /\ \/ rule' = effect /\ Moves(c, ok) /\ UNCHANGED <<faults, lapses>>
     \/ /\ faults < MaxFaults /\ faults' = faults + 1 /\ Moves(c, failed)
        /\ rule' \in {rule, effect} /\ lapses' = lapses \cup {<<from, rule' # rule>>}
  /\ Outside /\ UNCHANGED state

\* A command that only reads, and may fail.
Asks(c, from, to) == NAt(c, from) /\ Moves(c, to) /\ Outside /\ Quiet /\ UNCHANGED state

AskFails(c, from, to) ==
  /\ NAt(c, from) /\ Moves(c, to) /\ faults < MaxFaults /\ faults' = faults + 1
  /\ lapses' = lapses \cup {<<from, FALSE>>}
  /\ Outside /\ UNCHANGED rule /\ UNCHANGED state

Begin(c) ==
  /\ server = "up" /\ calls[c] = Idle /\ made < MaxCalls /\ made' = made + 1
  /\ \E d \in Sims, want \in {"online", "offline", "get"}, by \in {"auto", "pfctl", "nlc"} :
       calls' = [calls EXCEPT ![c] = [at |-> "resolve", dev |-> d, want |-> want, by |-> by,
                                      was |-> mode[d]]]
  /\ UNCHANGED <<server, stops>> /\ Quiet /\ UNCHANGED state

\* resolveDeviceId: the device a call names has to be booted, a session's only one is
\* taken without asking; which are booted is simctl's.  The flag of the
\* reconciliation is set before it has been done.
ResolveDevice(c) ==
  \/ /\ NAt(c, "resolve") /\ Ends(c) /\ Outside /\ Quiet /\ UNCHANGED state
  \/ /\ NAt(c, "resolve") /\ calls[c].want # "get"
     /\ Moves(c, IF reconciled THEN "decide" ELSE "probe")
     /\ reconciled' = TRUE
     /\ UNCHANGED <<mode, host, pf, handler>> /\ Outside /\ Quiet

\* Mutant of Reconcile: the probe's answer is read the wrong way round.
ReconcileInverted(c) ==
  \/ rule /\ Asks(c, "probe", "decide")
  \/ ~rule /\ Asks(c, "probe", "flushStale")
  \/ Runs(c, "flushStale", FALSE, "decide", "decide")

\* reconcileStaleAnchor, whose failures are let go.
Reconcile(c) ==
  \/ ~rule /\ Asks(c, "probe", "decide")
  \/ rule /\ Asks(c, "probe", "flushStale")
  \/ AskFails(c, "probe", "decide")
  \/ Runs(c, "flushStale", FALSE, "decide", "decide")

\* Mutant of DecideOnline: the first device back online lifts the block.
DecideOnlineFirst(c) ==
  LET d == calls[c].dev IN
  /\ NAt(c, "decide") /\ calls[c].want = "online"
  /\ mode' = [mode EXCEPT ![d] = "online"]
  /\ calls' = [calls EXCEPT ![c].was = mode[d],
                 ![c].at = IF mode[d] = "offline" /\ host # "none" THEN "revert" ELSE "done"]
  /\ UNCHANGED <<host, pf, reconciled, handler>> /\ Outside /\ Quiet

\* Online: recorded at once; the last device back lifts the block.
DecideOnline(c) ==
  LET d == calls[c].dev IN
  /\ NAt(c, "decide") /\ calls[c].want = "online"
  /\ mode' = [mode EXCEPT ![d] = "online"]
  /\ calls' = [calls EXCEPT ![c].was = mode[d],
                 ![c].at = IF mode[d] = "offline" /\ Offline = {d} /\ host # "none"
                           THEN "revert" ELSE "done"]
  /\ UNCHANGED <<host, pf, reconciled, handler>> /\ Outside /\ Quiet

\* PfctlBlocker.revert does nothing when it is not active.
Revert(c) ==
  \/ pf /\ Asks(c, "revert", "flush")
  \/ ~pf /\ Asks(c, "revert", "reverted")
  \/ Runs(c, "flush", FALSE, "flushed", "unflushed")
  \/ /\ NAt(c, "flushed") /\ Moves(c, "reverted")
     /\ pf' = FALSE /\ handler' = FALSE
     /\ UNCHANGED <<mode, host, reconciled>> /\ Outside /\ Quiet
  \/ /\ NAt(c, "unflushed") /\ Moves(c, "done")  \* the mode is put back
     /\ mode' = [mode EXCEPT ![calls[c].dev] = calls[c].was]
     /\ UNCHANGED <<host, pf, reconciled, handler>> /\ Outside /\ Quiet
  \/ /\ NAt(c, "reverted") /\ Moves(c, "done") /\ host' = "none"
     /\ UNCHANGED <<mode, pf, reconciled, handler>> /\ Outside /\ Quiet

\* Offline: another mechanism than the active one is refused; nlc can do nothing.
DecideOffline(c) ==
  LET by == calls[c].by IN
  /\ calls[c].at = "decide" /\ calls[c].want = "offline"
  /\ \/ (by = "nlc" \/ host \notin {"none", by}) /\ Asks(c, "decide", "done")
     \/ by # "nlc" /\ host \in {"none", by} /\ Asks(c, "decide", "apply")

\* PfctlBlocker.apply: pf must be available and enabled; it loads the rule unless
\* it is active, and is recorded after its temporary file has been removed.
Apply(c) ==
  \/ AskFails(c, "apply", "done")
  \/ pf /\ Asks(c, "apply", "applied")
  \/ ~pf /\ Asks(c, "apply", "load")
  \/ Runs(c, "load", TRUE, "loaded", "done")
  \/ /\ NAt(c, "loaded") /\ Moves(c, "applied")
     /\ pf' = TRUE /\ handler' = TRUE
     /\ UNCHANGED <<mode, host, reconciled>> /\ Outside /\ Quiet
  \/ /\ NAt(c, "applied") /\ Moves(c, "done")
     /\ host' = calls[c].by /\ mode' = [mode EXCEPT ![calls[c].dev] = "offline"]
     /\ UNCHANGED <<pf, reconciled, handler>> /\ Outside /\ Quiet

Answer(c) == NAt(c, "done") /\ Ends(c) /\ Outside /\ Quiet /\ UNCHANGED state

DeviceNetworkSet(c) ==
  \/ ResolveDevice(c) \/ Reconcile(c) \/ DecideOnline(c) \/ Revert(c)
  \/ DecideOffline(c) \/ Apply(c) \/ Answer(c)

----------------------------------------------------------------------------
(* The server. *)

\* The state of the process is gone; a command it has started may yet act.
Gone ==
  /\ rule' \in {rule} \cup {calls[c].at = "load" :
                             c \in {c \in Callers : calls[c].at \in {"load", "flush"}}}
  /\ server' = "down" /\ calls' = [c \in Callers |-> Idle]
  /\ mode' = [d \in Sims |-> "online"] /\ host' = "none"
  /\ pf' = FALSE /\ reconciled' = FALSE /\ handler' = FALSE /\ lapses' = {}
  /\ UNCHANGED <<made, faults>>

\* A signal: the handlers are taken out of the registry and run, while the calls
\* in flight go on.
Signal ==
  /\ server = "up" /\ stops < MaxStops /\ stops' = stops + 1
  /\ server' = IF handler THEN "draining" ELSE "exiting"
  /\ UNCHANGED <<made, calls>> /\ Quiet /\ UNCHANGED state

\* The handler flushes the anchor, best effort.
Drain ==
  /\ server = "draining" /\ server' = "exiting" /\ rule' \in {rule, FALSE}
  /\ UNCHANGED <<calls, made, stops, faults, lapses>> /\ UNCHANGED state

Exit == server = "exiting" /\ Gone /\ UNCHANGED stops

\* A kill: no handler runs.
Kill == server = "up" /\ stops < MaxStops /\ stops' = stops + 1 /\ Gone

Restart ==
  /\ server = "down" /\ server' = "up"
  /\ UNCHANGED <<calls, made, stops>> /\ Quiet /\ UNCHANGED state

----------------------------------------------------------------------------
NetworkNext ==
  \/ \E c \in Callers : Begin(c) \/ DeviceNetworkSet(c)
  \/ Signal \/ Drain \/ Exit \/ Kill \/ Restart

NetworkSpec == NetworkInit /\ [][NetworkNext]_nvars
               /\ \A c \in Callers : WF_nvars(DeviceNetworkSet(c))

----------------------------------------------------------------------------
Settled == server = "up" /\ \A c \in Callers : calls[c] = Idle

(***************************************************************************)
(* A device that is recorded as offline is offline: the block stays until  *)
(* the last of them is back (docs/tools/device-network.md). It holds while *)
(* calls come one at a time, unless a flush was reported as failed and yet *)
(* took effect, so that the device was put back to offline; two calls at   *)
(* once break it, although the document allows them: "Multiple simulators  *)
(* can request `offline` concurrently".                                    *)
(***************************************************************************)
OfflineIsBlocked == Settled /\ Offline # {} /\ <<"flush", TRUE>> \notin lapses => rule

\* Nothing of this server is left to stand in for an earlier one's rule or its own:
\* the reconciliation failed, or a load was reported as failed and yet took effect.
LeftBehind == {<<"probe", FALSE>>, <<"flushStale", FALSE>>, <<"load", TRUE>>}

(***************************************************************************)
(* The host is not cut off without a reason: between calls, once what an   *)
(* earlier server left has been looked for, a block stands for a device    *)
(* that is recorded as offline, whatever commands have failed, but for two *)
(* cases in which this server leaves a rule behind: its reconciliation     *)
(* failed, or pfctl was killed or exited non-zero after it had loaded the  *)
(* rule.                                                                   *)
(***************************************************************************)
BlockHasAReason ==
  Settled /\ reconciled /\ rule /\ lapses \cap LeftBehind = {} => Offline # {}

=============================================================================
