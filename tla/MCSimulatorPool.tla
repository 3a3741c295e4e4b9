---------------------------- MODULE MCSimulatorPool ----------------------------
(* Instances of SimulatorPool for TLC.                                        *)
EXTENDS SimulatorPool

\* The sequential run alone.
OnlySequence == \A k \in Boots : boot[k].at = "idle"

\* It meets bootAll() only over one device.
OneMeeting ==
  \/ sequence.at = "idle" \/ OnlySequence
  \/ Cardinality(UNION {boot[k].todo : k \in Boots} \cup sequence.todo
                 \cup {d \in Devices : \E k \in Makers : step[k][d] # "no"}) <= 1
=============================================================================
