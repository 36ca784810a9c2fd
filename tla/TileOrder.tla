------------------------------ MODULE TileOrder ------------------------------
(***************************************************************************)
(* What the dwindle layout promises of the order of its tiles, read from    *)
(* the left and from the top: a new tile is placed directly after the one   *)
(* it divides, a tile that goes leaves the order of the others alone, and   *)
(* two tiles may trade places.                                              *)
(***************************************************************************)
EXTENDS Integers, Sequences, SequencesExt

CONSTANTS Windows, NoWindow

VARIABLES
  order,   (* the tiles                                                     *)
  after,   (* the window beside which the next tile is placed, if it has a  *)
           (* tile itself                                                   *)
  broken   (* the promise was given up: a window was placed beside itself   *)

vars == <<order, after, broken>>

Init == order = <<>> /\ after = NoWindow /\ broken = FALSE

Place(w) ==
  /\ w \notin ToSet(order)
  /\ \E i \in 0..Len(order) :
       /\ i = 0 <=> order = <<>>
       /\ after \in ToSet(order) => order[i] = after
       /\ order' = InsertAt(order, i + 1, w)

Drop(w) ==
  /\ w \in ToSet(order)
  /\ order' = Remove(order, w)

Trade(v, w) ==
  /\ {v, w} \subseteq ToSet(order)
  /\ order' = [i \in DOMAIN order |->
                 CASE order[i] = v -> w [] order[i] = w -> v [] OTHER -> order[i]]

Keep ==
  /\ ~broken /\ ~broken'
  /\ \/ \E w \in Windows : Place(w) \/ Drop(w)
     \/ \E v, w \in Windows : Trade(v, w)
     \/ UNCHANGED order

Break == broken' /\ order' = <<>>

(* The broken tree is given up with all its leaves and is begun again.      *)
Mend == broken /\ ~broken' /\ order' = <<>>

Next == Keep \/ Break \/ Mend

Spec == Init /\ [][Next]_vars
=============================================================================
