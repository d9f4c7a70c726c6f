------------------------- MODULE MCPedalFlattening -------------------------
(***************************************************************************)
(* Three notes of one pitch on two channels, in three ticks; any number of *)
(* pedal messages.                                                         *)
(***************************************************************************)
EXTENDS PedalFlattening

CONSTANTS left, right
=============================================================================
