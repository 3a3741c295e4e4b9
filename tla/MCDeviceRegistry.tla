--------------------------- MODULE MCDeviceRegistry ---------------------------
(* Instances of DeviceRegistry for TLC.                                      *)
EXTENDS DeviceRegistry, TLC

Symmetry == Permutations(Procs)

\* The lock does its work: nobody takes it away, dies with it or gives up.
LockWorks == ~ disturbed /\ late = {}
=============================================================================
