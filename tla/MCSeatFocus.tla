---------------------------- MODULE MCSeatFocus ----------------------------
(***************************************************************************)
(* Instances of SeatFocus for TLC.                                         *)
(***************************************************************************)
EXTENDS SeatFocus, TLC

Twins == Permutations(Windows) \cup Permutations(Layers) \cup Permutations(Outputs)
=============================================================================
