----------------------------- MODULE DwindleOrder -----------------------------
(***************************************************************************)
(* DwindleTree implements TileOrder: the order of the tiles is that of the  *)
(* leaves in the tree, left before right.                                   *)
(***************************************************************************)
EXTENDS DwindleTree, Sequences

Root == CHOOSE i \in 1..count : node[i].parent = 0

InOrder ==
  LET windows[i \in 1..count] ==
        IF IsNode(i) THEN windows[node[i].left] \o windows[node[i].right]
                     ELSE <<node[i].client>>
  IN  IF count = 0 THEN <<>> ELSE windows[Root]

Tiles ==
  INSTANCE TileOrder WITH
    Windows <- Clients, NoWindow <- NoClient,
    order <- IF shape = "whole" THEN InOrder ELSE <<>>,
    after <- focused,
    broken <- (shape # "whole")

(* The leaves, left to right, change only as the abstract order may.        *)
TileOrderKept == Tiles!Spec
=============================================================================
