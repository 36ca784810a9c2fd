-------------------------------- MODULE WlLists --------------------------------
(***************************************************************************)
(* The lists of windows, outputs and surfaces (wl_list, and the arrays kept *)
(* beside them) as sequences, and what the handlers do with them.  The      *)
(* definitions are not RECURSIVE and Along is a recursive function, so that *)
(* WMCore_proofs can reason about them.                                     *)
(***************************************************************************)
EXTENDS Integers, Sequences, SequencesExt

\* q lists each member of S once.
Lists(q, S) == q \in Seq(S) /\ ToSet(q) = S /\ IsInjective(q)

\* q without x, which stands in it once if at all.
Without(q, x) ==
  LET I == {i \in DOMAIN q : q[i] = x}
      k == CHOOSE i \in I : TRUE
  IN  IF I = {} THEN q ELSE [i \in 1 .. Len(q) - 1 |-> q[IF i < k THEN i ELSE i + 1]]

\* The first of the entries of q that are in X.
FirstOf(q, X, none) ==
  LET I == {i \in DOMAIN q : q[i] \in X /\ \A j \in 1 .. i - 1 : q[j] \notin X}
  IN  IF I = {} THEN none ELSE q[CHOOSE i \in I : TRUE]

\* The neighbour of c in a cycle through those entries of q that are in X; a c
\* that is not among them precedes the first and follows the last.
Cycle(q, X, c, forward) ==
  LET P == {i \in DOMAIN q : q[i] \in X}
      beyond == {i \in P : \E j \in P : q[j] = c /\ IF forward THEN j < i ELSE i < j}
      from == IF beyond = {} THEN P ELSE beyond
  IN  q[IF forward THEN Min(from) ELSE Max(from)]

\* wl_list_for_each: Step is applied along q, from s.
Along(q, s, Step(_, _)) ==
  LET after[i \in 0 .. Len(q)] == IF i = 0 THEN s ELSE Step(after[i - 1], q[i])
  IN  after[Len(q)]
=============================================================================
