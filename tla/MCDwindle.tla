------------------------------ MODULE MCDwindle ------------------------------
(***************************************************************************)
(* Instances of DwindleTree for TLC.                                        *)
(***************************************************************************)
EXTENDS DwindleOrder, TLC

CONSTANTS c1, c2, c3, c4

Twins == Permutations(Clients)
=============================================================================
