------------------------------ MODULE MCDevices ------------------------------
(* DeviceRegistry and DeviceSession, for TLC. device_boot adds the device to   *)
(* the registry when it is booted, and that is all they have in common: a      *)
(* behaviour is one of either, and the other one's state stays as it is.       *)
EXTENDS DeviceRegistry, DeviceSession

VARIABLE part

DevicesInit ==
  /\ Init /\ DeviceInit /\ part \in {"registry", "session"}
  /\ part = "registry" => dev = "Shutdown" /\ ~known
DevicesNext ==
  /\ UNCHANGED part
  /\ \/ part = "registry" /\ Next /\ UNCHANGED dvars
     \/ part = "session" /\ DeviceNext /\ UNCHANGED vars
DevicesSpec ==
  /\ DevicesInit /\ [][DevicesNext]_<<part, vars, dvars>>
  /\ \A p \in Procs : WF_vars(CallStep(p)) /\ WF_vars(Deadline(p))
  /\ \A b \in Bookers : WF_dvars(BookStep(b))
  /\ WF_dvars(\E i \in ProxyIds : ProxyStep(i))

\* Once the lock did not do its work, cleanups add nothing to what the calls
\* themselves show.
CallsOnly == disturbed => \A p \in Procs : sweep[p] = NoSweep
=============================================================================
