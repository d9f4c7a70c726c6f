---------------------------- MODULE MCAutopilot ----------------------------
(***************************************************************************)
(* Small instances of Autopilot: two sources of two partitions, of which   *)
(* the second fills the disk to the reserve.                               *)
(***************************************************************************)
EXTENDS Autopilot

MCSize == [s \in Sources |-> s]
MCEnvelope == [s \in Sources |-> 3 * s]
=============================================================================
