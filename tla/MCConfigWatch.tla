--------------------------- MODULE MCConfigWatch ---------------------------
(***************************************************************************)
(* Instances of ConfigWatch for TLC.                                       *)
(***************************************************************************)
EXTENDS ConfigWatch

=============================================================================
