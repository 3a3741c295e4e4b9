-------------------------- MODULE MCVmServiceClient --------------------------
(* An instance of VmServiceClient for TLC.                                   *)
EXTENDS VmServiceClient

\* A loss of the connection finds room for the run of attemptReconnect() it starts.
RoomForLoops == wantOpen /\ ~ reconnecting => \E l \in Loops : job[l] = Idle
=============================================================================
