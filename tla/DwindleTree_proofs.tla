-------------------------- MODULE DwindleTree_proofs --------------------------
(***************************************************************************)
(* Proofs about DwindleTree, for any set of windows and trees of any size.  *)
(***************************************************************************)
EXTENDS DwindleTree, TLAPS

(* The inductive invariant.  Without ParentsAreSplits a removal from a torn *)
(* tree might drop one node and renumber as for two.                        *)
IInv == TypeOK /\ ParentsAreSplits /\ TreeWellFormed

-----------------------------------------------------------------------------
(* Renumbering: Kept and Remap are inverse to each other and keep the order *)
(* of the nodes that stay.                                                  *)

LEMMA KeptInverse ==
  ASSUME NEW n \in Nat, NEW l \in 1..n, NEW p \in 1..n, l # p, NEW j \in 1..(n - 2)
  PROVE  /\ Kept(j, l, p) \in 1..n
         /\ Kept(j, l, p) # l /\ Kept(j, l, p) # p
         /\ Remap(Kept(j, l, p), l, p) = j
BY DEF Kept, Remap

LEMMA RemapInverse ==
  ASSUME NEW n \in Nat, NEW l \in 1..n, NEW p \in 1..n, l # p,
         NEW i \in 1..n, i # l, i # p
  PROVE  /\ Remap(i, l, p) \in 1..(n - 2)
         /\ Kept(Remap(i, l, p), l, p) = i
BY DEF Kept, Remap

LEMMA RemapRange ==
  ASSUME NEW n \in Nat, NEW l \in 1..n, NEW p \in 1..n, l # p, NEW i \in 0..n
  PROVE  Remap(i, l, p) \in 0..(n - 2)
BY DEF Remap

LEMMA RemapKeepsOrder ==
  ASSUME NEW n \in Nat, NEW l \in 1..n, NEW p \in 1..n, l # p,
         NEW i \in 1..n, i # l, i # p, NEW k \in 1..n, k # l, k # p, i < k
  PROVE  Remap(i, l, p) < Remap(k, l, p)
BY DEF Remap

LEMMA NodeType ==
  ASSUME TypeOK, NEW i \in 1..count
  PROVE  /\ node[i].client \in Clients \cup {NoClient}
         /\ node[i].left \in 0..count
         /\ node[i].right \in 0..count
         /\ node[i].parent \in 0..count
<1>1. node[i] \in Node(count)
  BY DEF TypeOK
<1> QED BY <1>1 DEF Node

-----------------------------------------------------------------------------
(* Removing a leaf.                                                         *)

(* A removal outside a torn tree, or inside one with a sibling to move up.  *)
Spliceable(l, p) ==
  /\ l \in Leaves
  /\ p = node[l].parent /\ p # 0
  /\ Sibling(l, p) \notin {0, l}

LEMMA SpliceTypes ==
  ASSUME TypeOK, ParentsAreSplits, NEW l, NEW p, Spliceable(l, p)
  PROVE  /\ l \in 1..count /\ p \in 1..count /\ l # p
         /\ ~IsNode(l) /\ IsNode(p)
         /\ Sibling(l, p) \in 1..count /\ node[p].parent \in 0..count
         /\ count - 2 \in Nat
<1>1. l \in 1..count /\ ~IsNode(l) /\ count \in Nat
  BY DEF Spliceable, Leaves, TypeOK
<1>2. p \in 1..count /\ IsNode(p)
  BY <1>1, NodeType DEF Spliceable, ParentsAreSplits
<1>3. l # p
  BY <1>1, <1>2
<1>4. Sibling(l, p) \in 1..count /\ node[p].parent \in 0..count
  BY <1>1, <1>2, NodeType DEF Sibling, Spliceable
<1> QED BY <1>1, <1>2, <1>3, <1>4

LEMMA SpliceTypeOK ==
  ASSUME TypeOK, ParentsAreSplits, NEW l, NEW p, Spliceable(l, p)
  PROVE  Spliced(l, p, Sibling(l, p), node[p].parent)
           \in [1..(count - 2) -> Node(count - 2)]
<1> DEFINE sib == Sibling(l, p)
           gp == node[p].parent
<1>1. ASSUME NEW j \in 1..(count - 2)
      PROVE  Spliced(l, p, sib, gp)[j] \in Node(count - 2)
  <2> DEFINE o == Kept(j, l, p)
  <2>1. /\ l \in 1..count /\ p \in 1..count /\ l # p /\ count \in Nat
        /\ sib \in 0..count /\ gp \in 0..count
    BY SpliceTypes DEF TypeOK
  <2>2. o \in 1..count
    BY <2>1, KeptInverse
  <2>3. /\ node[o].client \in Clients \cup {NoClient}
        /\ node[o].left \in 0..count /\ node[o].right \in 0..count
        /\ node[o].parent \in 0..count
    BY <2>2, NodeType
  <2>4. \A i \in 0..count : Remap(i, l, p) \in 0..(count - 2)
    BY <2>1, RemapRange
  <2> HIDE DEF o, sib, gp
  <2>5. /\ Remap(node[o].left, l, p) \in 0..(count - 2)
        /\ Remap(node[o].right, l, p) \in 0..(count - 2)
        /\ Remap(node[o].parent, l, p) \in 0..(count - 2)
        /\ Remap(sib, l, p) \in 0..(count - 2)
        /\ Remap(gp, l, p) \in 0..(count - 2)
    BY <2>1, <2>3, <2>4
  <2> QED BY <2>3, <2>5 DEF Spliced, Node, o
<1> QED BY <1>1 DEF Spliced

LEMMA SpliceWellFormed ==
  ASSUME TypeOK, ParentsAreSplits, WellFormed,
         NEW l \in Leaves, NEW p, p = node[l].parent, p # 0, Splice(l, p)
  PROVE  Spliceable(l, p) /\ WellFormed'
<1> DEFINE sib == Sibling(l, p)
           gp == node[p].parent
           K(j) == Kept(j, l, p)
           R(i) == Remap(i, l, p)
           Sub(x) == IF x = p THEN sib ELSE x
           Up(o) == IF o = sib THEN gp ELSE node[o].parent
<1> USE DEF IsNode
<1>t. /\ count \in Nat
      /\ \A i \in 1..count : /\ node[i].left \in 0..count
                             /\ node[i].right \in 0..count
                             /\ node[i].parent \in 0..count
  BY NodeType DEF TypeOK
<1>wf. LeavesAreBare /\ SplitsOwnChildren /\ ParentsOwnChild /\ OneRoot /\ OneLeafEach /\ SplitsAfterParents
  BY DEF WellFormed
<1>1. /\ l \in 1..count /\ p \in 1..count /\ l # p
      /\ ~IsNode(l) /\ IsNode(p)
      /\ sib \in 1..count /\ sib # l /\ sib # p /\ node[sib].parent = p
      /\ {node[p].left, node[p].right} = {l, sib}
  <2>1. l \in 1..count /\ ~IsNode(l) /\ p \in 1..count
    BY <1>t DEF Leaves
  <2>2. IsNode(p) /\ l \in {node[p].left, node[p].right}
    BY <2>1, <1>wf DEF ParentsOwnChild
  <2>3. /\ node[p].left # 0 /\ node[node[p].left].parent = p
        /\ node[p].right # 0 /\ node[node[p].right].parent = p
        /\ node[p].left # node[p].right
    BY <2>1, <2>2, <1>wf DEF SplitsOwnChildren
  <2>4. sib \in {node[p].left, node[p].right} /\ sib # l
    BY <2>2, <2>3 DEF Sibling
  <2>5. sib # p
    BY <2>3, <2>4, <2>1, <2>2, <1>wf DEF SplitsAfterParents
  <2> QED BY <2>1, <2>2, <2>3, <2>4, <2>5, <1>t
<1>2. Spliceable(l, p)
  BY <1>1, <1>t DEF Spliceable
<1>3. count' = count - 2 /\ node' = Spliced(l, p, sib, gp)
  BY <1>1 DEF Splice
<1>4. gp \in 0..count /\ gp # l /\ gp # p /\ gp # sib /\ gp < p
      /\ (gp # 0 => IsNode(gp) /\ p \in {node[gp].left, node[gp].right})
  <2>1. gp \in 0..count /\ gp < p
    BY <1>1, <1>t, <1>wf DEF SplitsAfterParents
  <2>2. gp # 0 => IsNode(gp) /\ p \in {node[gp].left, node[gp].right}
    BY <1>1, <1>wf DEF ParentsOwnChild
  <2>3. gp = sib => FALSE
    <3>1. gp = sib => IsNode(sib)
      BY <1>1, <2>2
    <3>2. gp = sib => p < sib
      BY <3>1, <1>1, <1>wf DEF SplitsAfterParents
    <3> QED BY <3>2, <2>1, <1>1
  <2> QED BY <2>1, <2>2, <2>3, <1>1
<1>5. ASSUME NEW i \in 1..count, i # l, i # p
      PROVE  /\ node[i].left # l /\ node[i].right # l
             /\ node[i].left = p => i = gp
             /\ node[i].right = p => i = gp
             /\ i # sib => node[i].parent # p
             /\ node[i].parent # l
  <2>1. ~IsNode(i) => node[i].left = 0 /\ node[i].right = 0
    BY <1>wf DEF LeavesAreBare
  <2>2. IsNode(i) => node[node[i].left].parent = i /\ node[node[i].right].parent = i
    BY <1>wf DEF SplitsOwnChildren
  <2>3. node[i].parent # 0 =>
          /\ IsNode(node[i].parent)
          /\ i \in {node[node[i].parent].left, node[node[i].parent].right}
    BY <1>wf DEF ParentsOwnChild
  <2>4. /\ node[i].left # l /\ node[i].right # l
        /\ node[i].left = p => i = gp
        /\ node[i].right = p => i = gp
    BY <2>1, <2>2, <1>1, <1>5
  <2>5. node[i].parent # l
    BY <2>3, <1>1
  <2>6. node[i].parent = p => i = sib
    BY <2>3, <1>1, <1>5
  <2> QED BY <2>4, <2>5, <2>6
<1>k. /\ \A j \in 1..(count - 2) : /\ K(j) \in 1..count /\ K(j) # l /\ K(j) # p
                                   /\ R(K(j)) = j
      /\ \A i \in 1..count : i # l /\ i # p => R(i) \in 1..(count - 2) /\ K(R(i)) = i
      /\ \A i \in 0..count : R(i) \in 0..(count - 2) /\ (R(i) = 0 <=> i = 0 \/ i = l \/ i = p)
      /\ \A i, k \in 1..count :
           i # l /\ i # p /\ k # l /\ k # p /\ i < k => R(i) < R(k)
  <2>0. count \in Nat /\ l \in 1..count /\ p \in 1..count /\ l # p
    BY <1>1, <1>t
  <2> HIDE DEF sib, gp, Sub, Up
  <2>1. ASSUME NEW j \in 1..(count - 2)
        PROVE  K(j) \in 1..count /\ K(j) # l /\ K(j) # p /\ R(K(j)) = j
    BY <2>0, KeptInverse
  <2>2. ASSUME NEW i \in 1..count, i # l, i # p
        PROVE  R(i) \in 1..(count - 2) /\ K(R(i)) = i
    BY <2>0, <2>2, RemapInverse
  <2>3. ASSUME NEW i \in 0..count
        PROVE  R(i) \in 0..(count - 2) /\ (R(i) = 0 <=> i = 0 \/ i = l \/ i = p)
    BY <2>0 DEF Remap
  <2>4. \A i, k \in 1..count :
          i # l /\ i # p /\ k # l /\ k # p /\ i < k => R(i) < R(k)
    BY <2>0, RemapKeepsOrder
  <2> QED BY <2>1, <2>2, <2>3, <2>4
<1>6. ASSUME NEW j \in 1..(count - 2), NEW o, o = K(j)
      PROVE  /\ node'[j].client = node[o].client
             /\ node'[j].left = R(Sub(node[o].left))
             /\ node'[j].right = R(Sub(node[o].right))
             /\ node'[j].parent = R(Up(o))
  <2>1. /\ node'[j].client = node[o].client
        /\ node'[j].left = IF o = gp /\ R(node[o].left) = 0 THEN R(sib) ELSE R(node[o].left)
        /\ node'[j].right = IF o = gp /\ R(node[o].left) # 0 /\ R(node[o].right) = 0
                            THEN R(sib) ELSE R(node[o].right)
        /\ node'[j].parent = IF o = sib THEN R(gp) ELSE R(node[o].parent)
    BY <1>3, <1>6 DEF Spliced
  <2>2. o \in 1..count /\ o # l /\ o # p
    BY <1>6, <1>k
  <2>3. o = gp => /\ node[o].left # 0 /\ node[o].right # 0
                  /\ node[o].left # node[o].right
    BY <2>2, <1>4, <1>wf DEF SplitsOwnChildren
  <2> HIDE DEF sib, gp, K, R
  <2>4. node'[j].left = R(Sub(node[o].left))
    BY <2>1, <2>2, <2>3, <1>5, <1>k, <1>t, <1>4, <1>1
  <2>5. node'[j].right = R(Sub(node[o].right))
    BY <2>1, <2>2, <2>3, <1>5, <1>k, <1>t, <1>4, <1>1
  <2> QED BY <2>1, <2>4, <2>5
<1> HIDE DEF sib, gp, K, R
<1>7. ASSUME NEW j \in 1..(count - 2), NEW o, o = K(j)
      PROVE  IsNode(j)' <=> IsNode(o)
  BY <1>6, <1>7
<1>n. /\ count' = count - 2
      /\ \A j \in 1..(count - 2) : \E o \in 1..count : o = K(j) /\ o # l /\ o # p /\ R(o) = j
  BY <1>3, <1>k
<1>8. LeavesAreBare'
  <2>1. ASSUME NEW j \in 1..(count - 2), ~IsNode(j)'
        PROVE  node'[j].left = 0 /\ node'[j].right = 0
    <3>1. PICK o \in 1..count : o = K(j)
      BY <1>n
    <3>2. node[o].left = 0 /\ node[o].right = 0
      BY <2>1, <3>1, <1>7, <1>wf DEF LeavesAreBare
    <3>3. Sub(0) = 0 /\ R(0) = 0
      BY <1>1, <1>k, <1>t
    <3> QED BY <3>1, <3>2, <3>3, <1>6
  <2> QED BY <2>1, <1>n DEF LeavesAreBare
<1>9. SplitsOwnChildren'
  <2>1. ASSUME NEW j \in 1..(count - 2), IsNode(j)'
        PROVE  /\ node'[j].left # 0 /\ node'[node'[j].left].parent = j
               /\ node'[j].right # 0 /\ node'[node'[j].right].parent = j
               /\ node'[j].left # node'[j].right
    <3>1. PICK o \in 1..count : o = K(j) /\ o # l /\ o # p /\ R(o) = j
      BY <1>n
    <3>2. /\ node[o].left # 0 /\ node[node[o].left].parent = o
          /\ node[o].right # 0 /\ node[node[o].right].parent = o
          /\ node[o].left # node[o].right
      BY <2>1, <3>1, <1>7, <1>wf DEF SplitsOwnChildren
    <3>3. ASSUME NEW x \in 1..count, node[x].parent = o, x # l, x = p => o = gp
          PROVE  /\ Sub(x) \in 1..count /\ Sub(x) # l /\ Sub(x) # p
                 /\ R(Sub(x)) # 0 /\ K(R(Sub(x))) = Sub(x)
                 /\ R(Sub(x)) \in 1..(count - 2)
                 /\ node'[R(Sub(x))].parent = j
      <4>1. Sub(x) \in 1..count /\ Sub(x) # l /\ Sub(x) # p
        BY <3>3, <1>1
      <4>2. R(Sub(x)) # 0 /\ K(R(Sub(x))) = Sub(x) /\ R(Sub(x)) \in 1..(count - 2)
        BY <4>1, <1>k, <1>t
      <4>3. Up(Sub(x)) = o
        BY <3>1, <3>3, <1>1
      <4> QED BY <4>1, <4>2, <4>3, <1>6, <3>1
    <3>4. node[o].left \in 1..count /\ node[o].right \in 1..count
      BY <3>2, <1>t
    <3>5. /\ node[o].left # l /\ (node[o].left = p => o = gp)
          /\ node[o].right # l /\ (node[o].right = p => o = gp)
      BY <3>1, <1>5
    <3>6. Sub(node[o].left) # Sub(node[o].right)
      BY <3>1, <3>2, <1>1
    <3> QED BY <3>1, <3>2, <3>3, <3>4, <3>5, <3>6, <1>6
  <2> QED BY <2>1, <1>n DEF SplitsOwnChildren
<1>10. ParentsOwnChild'
  <2>1. ASSUME NEW j \in 1..(count - 2), node'[j].parent # 0
        PROVE  /\ node'[node'[j].parent].client = NoClient
               /\ j \in {node'[node'[j].parent].left, node'[node'[j].parent].right}
    <3>1. PICK o \in 1..count : o = K(j) /\ o # l /\ o # p /\ R(o) = j
      BY <1>n
    <3> DEFINE q == Up(o)
    <3>2. node'[j].parent = R(q) /\ q \in 0..count
      BY <3>1, <1>6, <1>t, <1>4
    <3>3. q \in 1..count /\ q # l /\ q # p /\ R(q) \in 1..(count - 2) /\ K(R(q)) = q
      BY <2>1, <3>2, <1>k
    <3>4. IsNode(q) /\ (o = Sub(node[q].left) \/ o = Sub(node[q].right))
      <4>1. CASE o = sib
        BY <4>1, <1>4, <3>3
      <4>2. CASE o # sib
        BY <4>2, <3>1, <3>3, <1>wf DEF ParentsOwnChild
      <4> QED BY <4>1, <4>2
    <3> HIDE DEF q
    <3>5. node'[R(q)].client = NoClient
      BY <3>3, <3>4, <1>6
    <3>6. j = node'[R(q)].left \/ j = node'[R(q)].right
      BY <3>1, <3>3, <3>4, <1>6
    <3> QED BY <3>2, <3>5, <3>6
  <2> QED BY <2>1, <1>n DEF ParentsOwnChild
<1>11. OneRoot'
  <2>1. ASSUME NEW i \in 1..(count - 2), NEW j \in 1..(count - 2),
               node'[i].parent = 0, node'[j].parent = 0
        PROVE  i = j
    <3>1. PICK oi \in 1..count : oi = K(i) /\ oi # l /\ oi # p /\ R(oi) = i
      BY <1>n
    <3>2. PICK oj \in 1..count : oj = K(j) /\ oj # l /\ oj # p /\ R(oj) = j
      BY <1>n
    <3>3. R(Up(oi)) = 0 /\ R(Up(oj)) = 0
      BY <2>1, <3>1, <3>2, <1>6
    <3>4. Up(oi) \in 0..count /\ Up(oj) \in 0..count
      BY <1>4, <1>t
    <3>5. Up(oi) \in {0, l, p} /\ Up(oj) \in {0, l, p}
      BY <3>3, <3>4, <1>k
    <3>6. Up(oi) = 0 /\ Up(oj) = 0
      BY <3>5, <3>1, <3>2, <1>5, <1>4
    <3>7. oi = oj
      BY <3>6, <3>1, <3>2, <1>1, <1>wf DEF OneRoot, gp
    <3> QED BY <3>1, <3>2, <3>7
  <2>2. \E i \in 1..(count - 2) : node'[i].parent = 0
    <3>1. ASSUME NEW o \in 1..count, o # l, o # p, Up(o) = 0
          PROVE  R(o) \in 1..(count - 2) /\ node'[R(o)].parent = 0
      BY <3>1, <1>6, <1>k, <1>t
    <3>2. CASE gp = 0
      BY <3>1, <3>2, <1>1
    <3>3. CASE gp # 0
      <4>1. PICK r \in 1..count : node[r].parent = 0
        BY <1>1, <1>t, <1>wf DEF OneRoot
      <4>2. r # l /\ r # p /\ r # sib
        BY <4>1, <3>3, <1>1 DEF gp
      <4> QED BY <4>1, <4>2, <3>1
    <3> QED BY <3>2, <3>3
  <2> QED BY <2>1, <2>2, <1>n DEF OneRoot
<1>12. OneLeafEach'
  <2>1. ASSUME NEW i \in 1..(count - 2), NEW j \in 1..(count - 2),
               ~IsNode(i)', node'[i].client = node'[j].client
        PROVE  i = j
    <3>1. PICK oi \in 1..count : oi = K(i) /\ oi # l /\ oi # p /\ R(oi) = i
      BY <1>n
    <3>2. PICK oj \in 1..count : oj = K(j) /\ oj # l /\ oj # p /\ R(oj) = j
      BY <1>n
    <3>3. oi = oj
      BY <2>1, <3>1, <3>2, <1>6, <1>7, <1>wf DEF OneLeafEach
    <3> QED BY <3>1, <3>2, <3>3
  <2> QED BY <2>1, <1>n DEF OneLeafEach
<1>13. SplitsAfterParents'
  <2>1. ASSUME NEW j \in 1..(count - 2), IsNode(j)'
        PROVE  node'[j].parent < j
    <3>1. PICK o \in 1..count : o = K(j) /\ o # l /\ o # p /\ R(o) = j
      BY <1>n
    <3>2. node[o].parent < o
      BY <2>1, <3>1, <1>7, <1>wf DEF SplitsAfterParents
    <3>3. Up(o) < o /\ Up(o) \in 0..count /\ Up(o) # l /\ Up(o) # p
      BY <3>1, <3>2, <1>4, <1>5, <1>1, <1>t
    <3> QED BY <3>1, <3>3, <1>6, <1>k
  <2> QED BY <2>1, <1>n DEF SplitsAfterParents
<1> QED BY <1>2, <1>8, <1>9, <1>10, <1>11, <1>12, <1>13 DEF WellFormed

LEMMA SpliceParentsAreSplits ==
  ASSUME TypeOK, ParentsAreSplits, NEW l, NEW p, Spliceable(l, p),
         count' = count - 2,
         node' = Spliced(l, p, Sibling(l, p), node[p].parent)
  PROVE  ParentsAreSplits'
<1>1. /\ l \in 1..count /\ p \in 1..count /\ l # p /\ count \in Nat
      /\ node[p].parent \in 0..count
  BY SpliceTypes DEF TypeOK
<1>2. ASSUME NEW j \in 1..(count - 2), node'[j].parent # 0
      PROVE  node'[node'[j].parent].client = NoClient
  <2> DEFINE o == Kept(j, l, p)
             q == IF o = Sibling(l, p) THEN node[p].parent ELSE node[o].parent
  <2>1. o \in 1..count
    BY <1>1, KeptInverse
  <2>2. q \in 0..count /\ (q # 0 => IsNode(q))
    BY <1>1, <2>1, NodeType DEF ParentsAreSplits
  <2>3. node'[j].parent = Remap(q, l, p)
    BY DEF Spliced
  <2> HIDE DEF q, o
  <2>4. q \in 1..count /\ q # l /\ q # p
    BY <1>2, <2>2, <2>3, <1>1 DEF Remap
  <2>5. /\ Remap(q, l, p) \in 1..(count - 2)
        /\ Kept(Remap(q, l, p), l, p) = q
    BY <2>4, <1>1, RemapInverse
  <2>6. node'[Remap(q, l, p)].client = node[q].client
    BY <2>5 DEF Spliced
  <2> QED BY <2>2, <2>3, <2>4, <2>6 DEF IsNode
<1> QED BY <1>1, <1>2 DEF ParentsAreSplits, IsNode

-----------------------------------------------------------------------------
(* Inserting a leaf.                                                        *)

LEMMA SplitTypeOK ==
  ASSUME TypeOK, NEW c \in Clients, NEW a \in 1..NewLeaf
  PROVE  Split(c, a) \in [1..NewSplit -> Node(NewSplit)]
<1>1. count \in Nat
  BY DEF TypeOK
<1>2. ASSUME NEW i \in 1..NewSplit
      PROVE  Split(c, a)[i] \in Node(NewSplit)
  <2>1. CASE i = NewLeaf
    BY <1>1, <2>1 DEF Split, Node, NewLeaf, NewSplit
  <2>2. CASE i = NewSplit
    BY <1>1, <2>2, NodeType DEF Split, Node, NewLeaf, NewSplit
  <2>3. CASE i # NewLeaf /\ i # NewSplit
    BY <1>1, <2>3, NodeType DEF Split, Node, NewLeaf, NewSplit, Child
  <2> QED BY <2>1, <2>2, <2>3
<1> QED BY <1>2 DEF Split

(* Of a split anywhere, beside the new leaf itself included.                *)
LEMMA SplitParentsAreSplits ==
  ASSUME TypeOK, ParentsAreSplits, NEW c \in Clients, NEW a \in 1..NewLeaf,
         count' = NewSplit, node' = Split(c, a)
  PROVE  ParentsAreSplits'
<1>1. count \in Nat
  BY DEF TypeOK
<1>2. node'[NewSplit].client = NoClient
  BY <1>1 DEF Split, NewSplit, NewLeaf
<1>3. ASSUME NEW q \in 1..count
      PROVE  node'[q].client = node[q].client
  BY <1>1 DEF Split, NewSplit, NewLeaf
<1>4. ASSUME NEW i \in 1..NewSplit
      PROVE  node'[i].parent = NewSplit \/ node'[i].parent = 0
             \/ \E k \in 1..count : node'[i].parent = node[k].parent
  BY <1>1 DEF Split, NewSplit, NewLeaf
<1> QED BY <1>1, <1>2, <1>3, <1>4, NodeType DEF ParentsAreSplits, IsNode

LEMMA SplitWellFormed ==
  ASSUME TypeOK, WellFormed, NEW c \in Clients, ~HasLeaf(c), NEW a \in Leaves,
         count' = NewSplit, node' = Split(c, a)
  PROVE  WellFormed'
<1> USE DEF IsNode, NewLeaf, NewSplit
<1>t. /\ count \in Nat
      /\ \A i \in 1..count : /\ node[i].left \in 0..count
                             /\ node[i].right \in 0..count
                             /\ node[i].parent \in 0..count
  BY NodeType DEF TypeOK
<1>wf. LeavesAreBare /\ SplitsOwnChildren /\ ParentsOwnChild /\ OneRoot /\ OneLeafEach /\ SplitsAfterParents
  BY DEF WellFormed
<1>1. a \in 1..count /\ ~IsNode(a) /\ node[a].left = 0 /\ node[a].right = 0
  BY <1>wf DEF Leaves, LeavesAreBare
<1>2. ASSUME NEW i \in 1..count
      PROVE  /\ node'[i].client = node[i].client
             /\ node'[i].left = Child(node[i].left, a)
             /\ node'[i].right = Child(node[i].right, a)
             /\ node'[i].parent = IF i = a THEN NewSplit ELSE node[i].parent
  <2>1. /\ node'[i].client = node[i].client
        /\ node'[i].left = IF i = node[a].parent THEN Child(node[i].left, a) ELSE node[i].left
        /\ node'[i].right = IF i = node[a].parent /\ node[i].left # a
                            THEN NewSplit ELSE node[i].right
        /\ node'[i].parent = IF i = a THEN NewSplit ELSE node[i].parent
    BY <1>t, <1>1 DEF Split
  <2>2. /\ node[i].left = a => i = node[a].parent
        /\ node[i].right = a => i = node[a].parent /\ node[i].left # a
    BY <1>1, <1>wf DEF LeavesAreBare, SplitsOwnChildren
  <2>3. i = node[a].parent /\ node[i].left # a => node[i].right = a
    BY <1>1, <1>t, <1>wf DEF ParentsOwnChild
  <2> QED BY <2>1, <2>2, <2>3 DEF Child
<1>3. node'[NewLeaf] = [client |-> c, left |-> 0, right |-> 0, parent |-> NewSplit]
  BY <1>t DEF Split
<1>4. node'[NewSplit] = [client |-> NoClient, left |-> a, right |-> NewLeaf,
                         parent |-> node[a].parent]
  BY <1>t, <1>1 DEF Split
<1>5. \A i \in 1..NewSplit : i \in 1..count \/ i = NewLeaf \/ i = NewSplit
  BY <1>t
<1>6. c # NoClient
  BY NoClientAssumption
<1>7. LeavesAreBare'
  BY <1>2, <1>3, <1>4, <1>5, <1>t, <1>1, <1>wf DEF LeavesAreBare, Child
<1>8. SplitsOwnChildren'
  <2>1. ASSUME NEW x \in 1..count
        PROVE  node'[Child(x, a)].parent = node[x].parent
    BY <1>1, <1>2, <1>4 DEF Child
  <2>2. ASSUME NEW i \in 1..count, node[i].client = NoClient
        PROVE  /\ node'[i].left # 0 /\ node'[node'[i].left].parent = i
               /\ node'[i].right # 0 /\ node'[node'[i].right].parent = i
               /\ node'[i].left # node'[i].right
    BY <1>2, <1>t, <1>wf, <2>1, <2>2 DEF SplitsOwnChildren, Child
  <2>3. /\ node'[NewSplit].left # 0 /\ node'[node'[NewSplit].left].parent = NewSplit
        /\ node'[NewSplit].right # 0 /\ node'[node'[NewSplit].right].parent = NewSplit
        /\ node'[NewSplit].left # node'[NewSplit].right
    BY <1>1, <1>2, <1>3, <1>4, <1>t
  <2> QED BY <2>2, <2>3, <1>2, <1>3, <1>5, <1>6 DEF SplitsOwnChildren
<1>9. ParentsOwnChild'
  <2>1. ASSUME NEW i \in 1..count, node[i].parent # 0, i # a
        PROVE  /\ node'[node[i].parent].client = NoClient
               /\ i \in {node'[node[i].parent].left, node'[node[i].parent].right}
    BY <1>2, <1>t, <1>wf, <2>1 DEF ParentsOwnChild, Child
  <2>2. node[a].parent # 0 =>
          /\ node'[node[a].parent].client = NoClient
          /\ NewSplit \in {node'[node[a].parent].left, node'[node[a].parent].right}
    BY <1>1, <1>2, <1>t, <1>wf DEF ParentsOwnChild, Child
  <2> QED BY <2>1, <2>2, <1>1, <1>2, <1>3, <1>4, <1>5, <1>t DEF ParentsOwnChild
<1>10. OneRoot'
  <2>1. ASSUME NEW i \in 1..NewSplit, NEW j \in 1..NewSplit,
               node'[i].parent = 0, node'[j].parent = 0
        PROVE  i = j
    <3> DEFINE Old(k) == IF k = NewSplit THEN a ELSE k
    <3>1. ASSUME NEW k \in 1..NewSplit, node'[k].parent = 0
          PROVE  Old(k) \in 1..count /\ node[Old(k)].parent = 0 /\ (k # NewSplit => k # a)
      BY <3>1, <1>1, <1>2, <1>3, <1>4, <1>5, <1>t
    <3>2. Old(i) = Old(j)
      BY <2>1, <3>1, <1>wf DEF OneRoot
    <3> QED BY <2>1, <3>1, <3>2
  <2>2. \E i \in 1..NewSplit : node'[i].parent = 0
    <3>1. PICK r \in 1..count : node[r].parent = 0
      BY <1>1, <1>t, <1>wf DEF OneRoot
    <3>2. CASE r = a
      BY <3>1, <3>2, <1>4, <1>t
    <3>3. CASE r # a
      BY <3>1, <3>3, <1>2, <1>t
    <3> QED BY <3>2, <3>3
  <2> QED BY <2>1, <2>2 DEF OneRoot
<1>11. OneLeafEach'
  <2>1. \A i \in 1..count : node[i].client # c
    BY <1>6 DEF HasLeaf, Leaves
  <2> QED BY <2>1, <1>2, <1>3, <1>4, <1>5, <1>6, <1>wf DEF OneLeafEach
<1>12. SplitsAfterParents'
  <2>1. ASSUME NEW i \in 1..count, node[i].client = NoClient
        PROVE  node'[i].parent < i
    BY <2>1, <1>1, <1>2, <1>wf DEF SplitsAfterParents
  <2>2. node'[NewSplit].parent < NewSplit
    BY <1>1, <1>4, <1>t
  <2> QED BY <2>1, <2>2, <1>2, <1>3, <1>5, <1>6 DEF SplitsAfterParents
<1> QED BY <1>7, <1>8, <1>9, <1>10, <1>11, <1>12 DEF WellFormed

-----------------------------------------------------------------------------
(* The steps.                                                               *)

(* What IInv says of the tree alone.                                        *)
TreeOK ==
  /\ count \in Nat
  /\ node \in [1..count -> Node(count)]
  /\ shape \in {"whole", "torn", "undefined"}
  /\ ParentsAreSplits
  /\ TreeWellFormed

LEMMA TreeOKUnchanged ==
  ASSUME IInv, UNCHANGED <<count, node>>, shape' \in {shape, "undefined"}
  PROVE  TreeOK'
BY DEF IInv, TypeOK, TreeOK, Node, ParentsAreSplits, TreeWellFormed, WellFormed,
       LeavesAreBare, SplitsOwnChildren, ParentsOwnChild, OneRoot, OneLeafEach,
       SplitsAfterParents, IsNode

LEMMA EmptyStep ==
  ASSUME Empty
  PROVE  TreeOK'
BY DEF Empty, TreeOK, Node, ParentsAreSplits, TreeWellFormed, WellFormed,
       LeavesAreBare, SplitsOwnChildren, ParentsOwnChild, OneRoot, OneLeafEach,
       SplitsAfterParents, IsNode

LEMMA RemoveLeafStep ==
  ASSUME IInv, NEW l \in Leaves, RemoveLeaf(l)
  PROVE  TreeOK' /\ (shape = "whole" => shape' # "undefined")
<1> DEFINE p == node[l].parent
<1> USE DEF IInv
<1>1. CASE p = 0
  BY <1>1, EmptyStep DEF RemoveLeaf, Empty
<1>2. CASE p # 0 /\ OutOfBounds /\ Sibling(l, p) \in {0, l}
  <2>1. TreeOK'
    BY <1>2, TreeOKUnchanged DEF OutOfBounds
  <2>2. Splice(l, p)
    BY <1>2 DEF Splice
  <2>3. shape # "whole"
    BY <1>2, <2>2, SpliceWellFormed DEF TreeWellFormed, Spliceable
  <2> QED BY <2>1, <2>3
<1>3. CASE p # 0 /\ Splice(l, p) /\ Sibling(l, p) \notin {0, l}
  <2>1. /\ count' = count - 2
        /\ node' = Spliced(l, p, Sibling(l, p), node[p].parent)
        /\ shape' = shape
    BY <1>3 DEF Splice
  <2>2. Spliceable(l, p)
    BY <1>3 DEF Spliceable
  <2>3. count' \in Nat /\ node' \in [1..count' -> Node(count')]
    <3>1. count - 2 \in Nat
      BY <2>2, SpliceTypes
    <3>2. Spliced(l, p, Sibling(l, p), node[p].parent) \in [1..(count - 2) -> Node(count - 2)]
      BY <2>2, SpliceTypeOK
    <3> QED BY <3>1, <3>2, <2>1
  <2>4. ParentsAreSplits'
    BY <2>1, <2>2, SpliceParentsAreSplits
  <2>5. TreeWellFormed'
    BY <1>3, <2>1, SpliceWellFormed DEF TreeWellFormed
  <2>6. shape \in {"whole", "torn", "undefined"}
    BY DEF TypeOK
  <2> QED BY <2>1, <2>3, <2>4, <2>5, <2>6 DEF TreeOK, Node
<1> QED BY <1>1, <1>2, <1>3 DEF RemoveLeaf, Splice

LEMMA DwindleRemoveStep ==
  ASSUME IInv, NEW c \in Clients, DwindleRemove(c)
  PROVE  TreeOK' /\ (shape = "whole" => shape' # "undefined")
<1>1. CASE UNCHANGED tree
  BY <1>1, TreeOKUnchanged DEF tree
<1>2. CASE \E l \in Leaves : RemoveLeaf(l)
  BY <1>2, RemoveLeafStep
<1> QED BY <1>1, <1>2 DEF DwindleRemove

LEMMA DwindleInsertStep ==
  ASSUME IInv, NEW c \in Clients, ~HasLeaf(c), DwindleInsert(c)
  PROVE  TreeOK' /\ (shape = "whole" => shape' # "undefined")
<1> USE DEF IInv
<1>0. c # NoClient
  BY NoClientAssumption
<1>1. CASE count = 0
  <2>1. Plant(c)
    BY <1>1 DEF DwindleInsert
  <2> QED BY <2>1, <1>0
    DEF Plant, TreeOK, Node, ParentsAreSplits, TreeWellFormed, WellFormed,
        LeavesAreBare, SplitsOwnChildren, ParentsOwnChild, OneRoot, OneLeafEach,
        SplitsAfterParents, IsNode
<1>2. CASE count # 0
  <2>1. PICK a \in 1..NewLeaf :
          /\ OpensAt(c, a)
          /\ count' = NewSplit
          /\ node' = Split(c, a)
          /\ shape' = IF a = NewLeaf THEN "torn" ELSE shape
    BY <1>2 DEF DwindleInsert
  <2>2. a # NewLeaf => a \in Leaves
    BY <2>1 DEF OpensAt, FirstLeaf
  <2>3. count' \in Nat /\ node' \in [1..count' -> Node(count')]
    <3>1. NewSplit \in Nat
      BY DEF NewSplit, TypeOK
    <3> QED BY <3>1, <2>1, SplitTypeOK
  <2>4. ParentsAreSplits'
    BY <2>1, SplitParentsAreSplits
  <2>5. TreeWellFormed'
    BY <2>1, <2>2, SplitWellFormed DEF TreeWellFormed
  <2>6. shape' \in {"whole", "torn", "undefined"} /\ (shape = "whole" => shape' # "undefined")
    BY <2>1 DEF TypeOK
  <2> QED BY <2>3, <2>4, <2>5, <2>6 DEF TreeOK, Node
<1> QED BY <1>1, <1>2

LEMMA SwapTiledStep ==
  ASSUME IInv, NEW a \in Clients, NEW b \in Clients, SwapTiled(a, b)
  PROVE  TreeOK' /\ shape' = shape
<1> USE DEF IInv
<1> DEFINE Other(c) == CASE c = a -> b [] c = b -> a [] OTHER -> c
<1>1. a # b /\ a # NoClient /\ b # NoClient /\ count' = count /\ shape' = shape
  BY NoClientAssumption DEF SwapTiled
<1>2. ASSUME NEW i \in 1..count
      PROVE  /\ node'[i] \in Node(count)
             /\ node'[i].client = Other(node[i].client)
             /\ node'[i].left = node[i].left
             /\ node'[i].right = node[i].right
             /\ node'[i].parent = node[i].parent
  <2>1. node[i] \in Node(count)
    BY DEF TypeOK
  <2>2. node'[i] = [node[i] EXCEPT !.client = Other(@)]
    BY DEF SwapTiled
  <2> QED BY <2>1, <2>2 DEF Node
<1>3. node' \in [1..count -> Node(count)]
  BY <1>2 DEF SwapTiled
<1>4. ASSUME NEW x, NEW y
      PROVE  /\ Other(x) = NoClient <=> x = NoClient
             /\ Other(x) = Other(y) => x = y
  BY <1>1
<1> HIDE DEF Other
<1>t. \A i \in 1..count : /\ node[i].left \in 0..count
                          /\ node[i].right \in 0..count
                          /\ node[i].parent \in 0..count
  BY NodeType
<1>5. ParentsAreSplits'
  BY <1>1, <1>2, <1>4, <1>t DEF ParentsAreSplits, IsNode
<1>6. WellFormed => WellFormed'
  <2> SUFFICES ASSUME WellFormed PROVE WellFormed'
    OBVIOUS
  <2> USE DEF IsNode
  <2>1. LeavesAreBare'
    BY <1>1, <1>2, <1>4 DEF WellFormed, LeavesAreBare
  <2>2. SplitsOwnChildren'
    BY <1>1, <1>2, <1>4, <1>t DEF WellFormed, SplitsOwnChildren
  <2>3. ParentsOwnChild'
    BY <1>1, <1>2, <1>4, <1>t DEF WellFormed, ParentsOwnChild
  <2>4. OneRoot'
    BY <1>1, <1>2 DEF WellFormed, OneRoot
  <2>5. OneLeafEach'
    BY <1>1, <1>2, <1>4 DEF WellFormed, OneLeafEach
  <2>6. SplitsAfterParents'
    BY <1>1, <1>2, <1>4 DEF WellFormed, SplitsAfterParents
  <2> QED BY <2>1, <2>2, <2>3, <2>4, <2>5, <2>6 DEF WellFormed
<1> QED BY <1>1, <1>3, <1>5, <1>6 DEF TreeOK, TypeOK, TreeWellFormed, Node

LEMMA TreeStep ==
  ASSUME IInv, [Next]_vars
  PROVE  TreeOK' /\ (shape = "whole" => shape' # "undefined")
<1>1. ASSUME UNCHANGED <<count, node, shape>>
      PROVE  TreeOK' /\ (shape = "whole" => shape' # "undefined")
  BY <1>1, TreeOKUnchanged
<1>2. CASE Prune
  BY <1>2, RemoveLeafStep DEF Prune
<1>3. CASE Insert
  BY <1>3, DwindleInsertStep DEF Insert, Missing, Tiled
<1>4. CASE Pruned \/ Inserted
  BY <1>1, <1>4 DEF Pruned, Inserted
<1>5. ASSUME NEW c \in Clients, Close(c) \/ TagAway(c)
      PROVE  TreeOK' /\ (shape = "whole" => shape' # "undefined")
  BY <1>5, DwindleRemoveStep DEF Close, TagAway
<1>6. ASSUME NEW c \in Clients,
             Enter(c) \/ MoveAway(c) \/ SetFloating(c) \/ SetFullscreen(c) \/ FocusClient(c)
      PROVE  UNCHANGED <<count, node, shape>>
  BY <1>6 DEF Enter, MoveAway, SetFloating, SetFullscreen, Toggle, FocusClient
<1>7. ASSUME NEW v, View(v) \/ SetLayout(v)
      PROVE  UNCHANGED <<count, node, shape>>
  BY <1>7 DEF View, SetLayout
<1>8. ASSUME NEW a \in Clients, NEW b \in Clients, SwapTiled(a, b)
      PROVE  TreeOK' /\ (shape = "whole" => shape' # "undefined")
  BY <1>8, SwapTiledStep, <1>1 DEF SwapTiled, Idle
<1>9. CASE UNCHANGED vars
  BY <1>1, <1>9 DEF vars
<1> QED
  BY <1>1, <1>2, <1>3, <1>4, <1>5, <1>6, <1>7, <1>8, <1>9 DEF Next, Dwindle, Handler

(* What IInv says of the other variables.                                   *)
EnvironmentOK ==
  /\ member \in [Clients -> {"away", "tiled", "floating", "fullscreen"}]
  /\ view \in {"away", "other", "dwindle"}
  /\ anchor \in Clients \cup {NoClient}
  /\ pc \in {"idle", "prune", "insert"}
  /\ focused \in Clients \cup {NoClient}

LEMMA EnvironmentStep ==
  ASSUME EnvironmentOK, [Next]_vars
  PROVE  EnvironmentOK'
<1> USE DEF EnvironmentOK
<1>1. CASE Dwindle
  BY <1>1 DEF Dwindle, Prune, Pruned, Insert, Inserted, Missing, Tiled
<1>2. ASSUME NEW c \in Clients, Enter(c)
      PROVE  EnvironmentOK'
  BY <1>2 DEF Enter, Arrange
<1>3. ASSUME NEW c \in Clients, Close(c) \/ TagAway(c) \/ MoveAway(c)
      PROVE  EnvironmentOK'
  BY <1>3 DEF Close, TagAway, MoveAway, Refocus, Arrange
<1>4. ASSUME NEW c \in Clients, SetFloating(c) \/ SetFullscreen(c)
      PROVE  EnvironmentOK'
  BY <1>4 DEF SetFloating, SetFullscreen, Toggle, Arrange
<1>5. ASSUME NEW c \in Clients, FocusClient(c)
      PROVE  EnvironmentOK'
  BY <1>5 DEF FocusClient
<1>6. ASSUME NEW v \in {"away", "other", "dwindle"}, View(v) \/ SetLayout(v)
      PROVE  EnvironmentOK'
  BY <1>6 DEF View, SetLayout, Refocus, Arrange
<1>7. ASSUME NEW a \in Clients, NEW b \in Clients, SwapTiled(a, b)
      PROVE  EnvironmentOK'
  BY <1>7 DEF SwapTiled
<1>8. CASE UNCHANGED vars
  BY <1>8 DEF vars
<1> QED
  BY <1>1, <1>2, <1>3, <1>4, <1>5, <1>6, <1>7, <1>8 DEF Next, Handler

LEMMA IInvParts == IInv <=> TreeOK /\ EnvironmentOK
BY DEF IInv, TypeOK, TreeOK, EnvironmentOK

LEMMA IInvInit == Init => IInv
BY NoClientAssumption
DEF Init, IInv, TypeOK, Node, ParentsAreSplits, TreeWellFormed, WellFormed,
    LeavesAreBare, SplitsOwnChildren, ParentsOwnChild, OneRoot, OneLeafEach,
    SplitsAfterParents, IsNode

LEMMA Invariance == Spec => []IInv
<1>1. IInv /\ [Next]_vars => IInv'
  <2> SUFFICES ASSUME IInv, [Next]_vars PROVE IInv'
    OBVIOUS
  <2>1. TreeOK' /\ EnvironmentOK'
    BY IInvParts, TreeStep, EnvironmentStep
  <2> QED BY <2>1 DEF IInv, TypeOK, TreeOK, EnvironmentOK
<1> QED BY <1>1, IInvInit, PTL DEF Spec

(* In every state each variable has a value of its C type and all indices   *)
(* in the tree are inside the array, torn trees included.                   *)
THEOREM TypeCorrect == Spec => []TypeOK
<1>1. IInv => TypeOK
  BY DEF IInv
<1> QED BY <1>1, Invariance, PTL

(* However many windows there are and whatever they do, the tree of a tag   *)
(* is well formed as long as no window was inserted beside itself.          *)
THEOREM TreeStaysWellFormed == Spec => []TreeWellFormed
<1>1. IInv => TreeWellFormed
  BY DEF IInv
<1> QED BY <1>1, Invariance, PTL

(* A window inserted beside itself is the only way to an access outside the *)
(* array: no step leads from a whole tree to one.                           *)
THEOREM WholeStaysDefined == Spec => OnlyTornGoesUndefined
<1>1. IInv /\ [Next]_vars => [shape = "whole" => shape' # "undefined"]_vars
  BY TreeStep
<1> QED BY <1>1, Invariance, PTL DEF Spec, OnlyTornGoesUndefined
-----------------------------------------------------------------------------
(* The leaves.                                                              *)

(* Every leaf is of a window that dwindle() keeps.                          *)
NoneStale == \A i \in Leaves : member[node[i].client] \in {"tiled", "fullscreen"}

(* LeavesMatch, and how far dwindle() is: its first loop ends with no stale *)
(* leaf, its second adds leaves of tiled windows only.                      *)
MatchInv ==
  shape # "undefined" =>
    /\ pc = "insert" => NoneStale
    /\ pc = "idle" /\ view = "dwindle" /\ Tiled # {} => NoneStale /\ Missing = {}

LEMMA InsertMatches ==
  ASSUME IInv, MatchInv, Insert
  PROVE  MatchInv'
<1> USE DEF IInv
<1>1. PICK c \in Missing : DwindleInsert(c)
  BY DEF Insert
<1>2. c \in Clients /\ member[c] = "tiled" /\ c # NoClient
  BY NoClientAssumption DEF Missing, Tiled
<1>3. NoneStale /\ pc' = "insert" /\ member' = member
  BY DEF Insert, MatchInv
<1>4. NoneStale'
  <2>1. CASE count = 0
    <3>1. /\ count' = 1
          /\ \A i \in 1..1 : node'[i].client = c
      BY <1>1, <2>1 DEF DwindleInsert, Plant
    <3> QED BY <1>2, <1>3, <3>1 DEF NoneStale, Leaves
  <2>2. CASE count # 0
    <3>1. PICK a \in 1..NewLeaf : count' = NewSplit /\ node' = Split(c, a)
      BY <1>1, <2>2 DEF DwindleInsert
    <3>2. count \in Nat
      BY DEF TypeOK
    <3>3. ASSUME NEW i \in 1..count'
          PROVE  \/ node'[i].client = c
                 \/ node'[i].client = NoClient
                 \/ i \in 1..count /\ node'[i].client = node[i].client
      BY <3>1, <3>2, <3>3 DEF Split, NewSplit, NewLeaf
    <3> QED BY <1>2, <1>3, <3>3 DEF NoneStale, Leaves, IsNode
  <2> QED BY <2>1, <2>2
<1> QED BY <1>3, <1>4 DEF MatchInv

(* Two leaves that trade windows: the same windows have leaves.             *)
LEMMA SwapMatches ==
  ASSUME IInv, MatchInv, NEW a \in Clients, NEW b \in Clients, SwapTiled(a, b)
  PROVE  MatchInv'
<1> USE DEF IInv
<1> DEFINE Other(c) == CASE c = a -> b [] c = b -> a [] OTHER -> c
<1>1. /\ a # NoClient /\ b # NoClient /\ a # b
      /\ count' = count /\ member' = member /\ view' = view /\ pc' = pc
      /\ shape' = shape
  BY NoClientAssumption, SwapTiledStep DEF SwapTiled
<1>2. ASSUME NEW i \in 1..count
      PROVE  node'[i].client = Other(node[i].client)
  <2>1. node[i] \in Node(count)
    BY DEF TypeOK
  <2>2. node'[i] = [node[i] EXCEPT !.client = Other(@)]
    BY DEF SwapTiled
  <2> QED BY <2>1, <2>2 DEF Node
<1>3. ASSUME NEW x PROVE /\ Other(x) = NoClient <=> x = NoClient
                         /\ Other(Other(x)) = x
  BY <1>1
<1>4. HasLeaf(a) /\ HasLeaf(b)
  BY DEF SwapTiled
<1>5. Leaves' = Leaves
  BY <1>1, <1>2, <1>3 DEF Leaves, IsNode
<1>6. NoneStale => NoneStale'
  <2>1. ASSUME NoneStale, NEW i \in Leaves
        PROVE  member[Other(node[i].client)] \in {"tiled", "fullscreen"}
    <3>1. PICK j \in Leaves : node[j].client = a
      BY <1>4 DEF HasLeaf
    <3>2. PICK k \in Leaves : node[k].client = b
      BY <1>4 DEF HasLeaf
    <3> QED BY <2>1, <3>1, <3>2 DEF NoneStale
  <2> QED BY <1>1, <1>2, <1>5, <2>1 DEF NoneStale, Leaves
<1>7. ASSUME NEW c, HasLeaf(c) PROVE HasLeaf(c)'
  <2>1. HasLeaf(Other(c))
    BY <1>4, <1>7
  <2>2. PICK i \in Leaves : node[i].client = Other(c)
    BY <2>1 DEF HasLeaf
  <2>3. node'[i].client = c
    BY <1>2, <1>3, <2>2 DEF Leaves
  <2> HIDE DEF Other
  <2> QED BY <1>5, <2>2, <2>3 DEF HasLeaf
<1>8. Missing = {} => Missing' = {}
  BY <1>1, <1>7 DEF Missing, Tiled
<1>9. Tiled' = Tiled
  BY <1>1 DEF Tiled
<1> QED BY <1>1, <1>6, <1>8, <1>9 DEF MatchInv

LEMMA MatchStep ==
  ASSUME IInv, MatchInv, [Next]_vars
  PROVE  MatchInv'
<1>1. CASE Prune
  BY <1>1 DEF Prune, MatchInv
<1>2. CASE Pruned
  <2>1. ASSUME NEW i \in Leaves PROVE member[node[i].client] \in {"tiled", "fullscreen"}
    BY <1>2 DEF Pruned, Stale
  <2> QED BY <1>2, <2>1 DEF Pruned, MatchInv, NoneStale, Leaves, IsNode
<1>3. CASE Insert
  BY <1>3, InsertMatches
<1>4. CASE Inserted
  BY <1>4 DEF Inserted, MatchInv, NoneStale, Missing, Tiled, HasLeaf, Leaves, IsNode
<1>5. ASSUME Arrange PROVE MatchInv'
  BY <1>5 DEF Arrange, MatchInv, Tiled
<1>6. ASSUME NEW c \in Clients, Enter(c) \/ Close(c) \/ TagAway(c) \/ MoveAway(c)
      PROVE  MatchInv'
  BY <1>5, <1>6 DEF Enter, Close, TagAway, MoveAway
<1>7. ASSUME NEW c \in Clients, SetFloating(c) \/ SetFullscreen(c) PROVE MatchInv'
  BY <1>5, <1>7 DEF SetFloating, SetFullscreen, Toggle
<1>8. ASSUME NEW c \in Clients, FocusClient(c) PROVE MatchInv'
  BY <1>8 DEF FocusClient, MatchInv, NoneStale, Missing, Tiled, HasLeaf, Leaves, IsNode
<1>9. ASSUME NEW v, View(v) \/ SetLayout(v) PROVE MatchInv'
  BY <1>5, <1>9 DEF View, SetLayout
<1>10. ASSUME NEW a \in Clients, NEW b \in Clients, SwapTiled(a, b) PROVE MatchInv'
  BY <1>10, SwapMatches
<1>11. CASE UNCHANGED vars
  BY <1>11 DEF vars, MatchInv, NoneStale, Missing, Tiled, HasLeaf, Leaves, IsNode
<1> QED
  BY <1>1, <1>2, <1>3, <1>4, <1>6, <1>7, <1>8, <1>9, <1>10, <1>11
  DEF Next, Dwindle, Handler

(* When a handler has ended with the tag in view, each tiled window has a   *)
(* leaf and no leaf is left of a window that floats, is elsewhere or was    *)
(* closed, however the two loops of dwindle() came by the array, torn or    *)
(* whole.                                                                   *)
THEOREM LeavesAlwaysMatch == Spec => []LeavesMatch
<1>1. Init => MatchInv
  BY DEF Init, MatchInv
<1>2. IInv /\ MatchInv /\ [Next]_vars => MatchInv'
  BY MatchStep
<1>3. IInv /\ MatchInv => LeavesMatch
  BY DEF MatchInv, LeavesMatch, Idle, NoneStale, Missing
<1> QED BY <1>1, <1>2, <1>3, Invariance, PTL DEF Spec
=============================================================================
