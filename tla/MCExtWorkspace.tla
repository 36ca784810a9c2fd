---------------------------- MODULE MCExtWorkspace ----------------------------
(* ExtWorkspace for TLC: two outputs of two tags, one viewer that comes and   *)
(* goes.  The viewers share nothing but the handles, so one of them, the      *)
(* outputs and the tags give every interleaving the properties speak of.      *)
EXTENDS ExtWorkspace

TwoTags == {1, 2}
=============================================================================
