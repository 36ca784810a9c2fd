----------------------------- MODULE DwindleTree -----------------------------
(***************************************************************************)
(* The dwindle layout's binary tree (src/src/layout.c): one tree per tag    *)
(* and output, whose leaves are the tiled windows and whose inner nodes are *)
(* splits.  The tree is an array of nodes that refer to each other by       *)
(* index; removing a window compacts the array and renumbers everything.    *)
(*                                                                          *)
(* The module follows one tree, that of tag `ti` of output m, through the   *)
(* handlers of peachwm.c that change it or what it must hold.  arrange() is *)
(* the last thing they do; its two loops in dwindle() are the steps Prune   *)
(* and Insert, one for each turn of a loop, and no handler starts before    *)
(* they are done (the compositor is one thread).                            *)
(*                                                                          *)
(* Left out here: the boxes dwindle_recalc() assigns, the capacity of the   *)
(* array, and the order of `clients`: dwindle() inserts missing windows in  *)
(* that order, which other tags and outputs may change at any time.         *)
(***************************************************************************)
EXTENDS Integers

CONSTANTS Clients, NoClient

ASSUME NoClientAssumption == NoClient \notin Clients

VARIABLES
  count,   (* node_count                                                    *)
  node,    (* nodes[0..node_count-1], from 1; 0 stands for the index -1     *)
  member,  (* what each window is to this tag: not on it ("away"), or on it *)
           (* "tiled", "floating" or (not floating and) "fullscreen"        *)
  view,    (* the tag is not the current one of the output ("away"), is in  *)
           (* view in the dwindle layout, or is in another layout ("other") *)
  anchor,  (* dwindle_focus[ti]; may be the address of a closed window      *)
  pc,      (* where the handler is: "idle", or the "prune" or "insert" loop *)
  focused, (* the local variable of dwindle()                               *)
  shape    (* history: "torn" once a window was inserted beside itself,     *)
           (* until the tree is emptied; "undefined" after an access        *)
           (* outside the array, where the modelled behaviour ends          *)

tree == <<count, node, shape>>
vars == <<count, node, member, view, anchor, pc, focused, shape>>

Node(n) ==
  [client : Clients \cup {NoClient}, left : 0..n, right : 0..n, parent : 0..n]

IsNode(i) == node[i].client = NoClient

Leaves == {i \in 1..count : ~IsNode(i)}

HasLeaf(c) == \E i \in Leaves : node[i].client = c

Init ==
  /\ count = 0
  /\ node = [i \in 1..0 |-> [client |-> NoClient, left |-> 0, right |-> 0, parent |-> 0]]
  /\ member = [c \in Clients |-> "away"]
  /\ view = "away"
  /\ anchor = NoClient
  /\ pc = "idle"
  /\ focused = NoClient
  /\ shape = "whole"

-----------------------------------------------------------------------------
(* dwindle_remove().                                                        *)

Empty ==
  /\ count' = 0
  /\ node' = [i \in 1..0 |-> node[i]]
  /\ shape' = "whole"

(* Mutant of Remap: one removed node is counted where there are two.        *)
RemapOnce(i, l, p) ==
  IF i \in {l, p} THEN 0 ELSE i - (IF i > l \/ i > p THEN 1 ELSE 0)

(* Where index i goes, and where index j comes from, when l and p leave.    *)
Remap(i, l, p) ==
  IF i \in {l, p} THEN 0
  ELSE i - (IF i > l THEN 1 ELSE 0) - (IF i > p THEN 1 ELSE 0)

Kept(j, l, p) ==
  LET lo == IF l < p THEN l ELSE p
      hi == IF l < p THEN p ELSE l
  IN  IF j < lo THEN j ELSE IF j + 1 < hi THEN j + 1 ELSE j + 2

Sibling(l, p) == IF node[p].left = l THEN node[p].right ELSE node[p].left

(* Mutant of Spliced: the sibling is not entered in its new parent.         *)
SplicedNowhere(l, p, sib, gp) ==
  [j \in 1..(count - 2) |->
     LET o == node[Kept(j, l, p)]
     IN  [client |-> o.client,
          left |-> Remap(o.left, l, p),
          right |-> Remap(o.right, l, p),
          parent |-> IF Kept(j, l, p) = sib THEN Remap(gp, l, p)
                                            ELSE Remap(o.parent, l, p)]]

(* The array without leaf l and its parent p: sib takes p's place under gp. *)
Spliced(l, p, sib, gp) ==
  [j \in 1..(count - 2) |->
     LET o == node[Kept(j, l, p)]
         free == Kept(j, l, p) = gp
     IN  [client |-> o.client,
          left |-> IF free /\ Remap(o.left, l, p) = 0
                   THEN Remap(sib, l, p) ELSE Remap(o.left, l, p),
          right |-> IF free /\ Remap(o.left, l, p) # 0 /\ Remap(o.right, l, p) = 0
                    THEN Remap(sib, l, p) ELSE Remap(o.right, l, p),
          parent |-> IF Kept(j, l, p) = sib THEN Remap(gp, l, p)
                                            ELSE Remap(o.parent, l, p)]]

(* remap[sibling] is -1 or is read at -1: nodes[-1] would be written.       *)
OutOfBounds == shape' = "undefined" /\ UNCHANGED <<count, node>>

Splice(l, p) ==
  LET sib == Sibling(l, p)
  IN  IF sib \in {0, l} THEN OutOfBounds
      ELSE /\ count' = count - 2
           /\ node' = Spliced(l, p, sib, node[p].parent)
           /\ shape' = shape

RemoveLeaf(l) ==
  IF node[l].parent = 0 THEN Empty ELSE Splice(l, node[l].parent)

DwindleRemove(c) ==
  \/ ~HasLeaf(c) /\ UNCHANGED tree
  \/ \E l \in Leaves : node[l].client = c /\ RemoveLeaf(l)

-----------------------------------------------------------------------------
(* dwindle_insert(): the new leaf is appended, then its split.              *)

NewLeaf == count + 1
NewSplit == count + 2

FirstLeaf(a) == a \in Leaves /\ \A i \in Leaves : a =< i

(* Mutant of OpensAt: the anchor is not looked for.                         *)
OpensFirst(c, a) == FirstLeaf(a)

(* dwindle_find_leaf() runs with the new leaf in the array already.         *)
OpensAt(c, a) ==
  IF focused = c THEN a = NewLeaf
  ELSE IF HasLeaf(focused) THEN a \in Leaves /\ node[a].client = focused
  ELSE FirstLeaf(a)

Plant(c) ==
  /\ count' = 1
  /\ node' = [i \in 1..1 |-> [client |-> c, left |-> 0, right |-> 0, parent |-> 0]]
  /\ shape' = "whole"

(* The arrays after the insertion of c beside the leaf a.                   *)
Child(i, a) == IF i = a THEN NewSplit ELSE i

Split(c, a) ==
  [i \in 1..NewSplit |->
     CASE i = NewLeaf ->
            [client |-> c, left |-> 0, right |-> 0, parent |-> NewSplit]
       [] i = NewSplit ->
            [client |-> NoClient, left |-> a, right |-> NewLeaf,
             parent |-> IF a = NewLeaf THEN 0 ELSE node[a].parent]
       [] OTHER ->
            [client |-> node[i].client,
             left |-> IF a # NewLeaf /\ i = node[a].parent
                      THEN Child(node[i].left, a) ELSE node[i].left,
             right |-> IF a # NewLeaf /\ i = node[a].parent /\ node[i].left # a
                       THEN NewSplit ELSE node[i].right,
             parent |-> IF i = a THEN NewSplit ELSE node[i].parent]]

DwindleInsert(c) ==
  IF count = 0 THEN Plant(c)
  ELSE \E a \in 1..NewLeaf :
         /\ OpensAt(c, a)
         /\ count' = NewSplit
         /\ node' = Split(c, a)
         /\ shape' = IF a = NewLeaf THEN "torn" ELSE shape

-----------------------------------------------------------------------------
(* dwindle(): the turns of its two loops.                                   *)

Tiled == {c \in Clients : member[c] = "tiled"}

(* Mutant of Stale: a window that floats keeps its leaf.                    *)
StaleAway(i) == i \in Leaves /\ member[node[i].client] = "away"

Stale(i) == i \in Leaves /\ member[node[i].client] \notin {"tiled", "fullscreen"}

Missing == {c \in Tiled : ~HasLeaf(c)}

Prune ==
  /\ pc = "prune" /\ shape # "undefined"
  /\ \E l \in Leaves :
       /\ Stale(l) /\ \A i \in Leaves : Stale(i) => l =< i
       /\ RemoveLeaf(l)
  /\ UNCHANGED <<member, view, anchor, pc, focused>>

Pruned ==
  /\ pc = "prune" /\ shape # "undefined"
  /\ ~\E i \in Leaves : Stale(i)
  /\ pc' = "insert"
  /\ focused' = anchor
  /\ UNCHANGED <<count, node, member, view, anchor, shape>>

Insert ==
  /\ pc = "insert" /\ shape # "undefined"
  /\ \E c \in Missing : DwindleInsert(c) /\ focused' = c
  /\ UNCHANGED <<member, view, anchor, pc>>

Inserted ==
  /\ pc = "insert" /\ shape # "undefined"
  /\ Missing = {}
  /\ pc' = "idle"
  /\ focused' = NoClient
  /\ UNCHANGED <<count, node, member, view, anchor, shape>>

Dwindle == Prune \/ Pruned \/ Insert \/ Inserted

-----------------------------------------------------------------------------
(* The handlers, between two of which no other runs.                        *)

Idle == pc = "idle" /\ shape # "undefined"

(* arrange(): dwindle() runs if the tag is in view in that layout, and      *)
(* returns at once when nothing is to be tiled.                             *)
Arrange ==
  /\ pc' = IF view' = "dwindle" /\ \E c \in Clients : member'[c] = "tiled"
           THEN "prune" ELSE "idle"
  /\ focused' = focused

(* focusclient(focustop()): some window in view, or none, or the one that   *)
(* has the focus already; a tiled one becomes the anchor.                   *)
Refocus == anchor' \in {anchor} \cup {c \in Clients : member'[c] = "tiled"}

(* mapnotify(), or setmon() from another output: arranged before focused.   *)
(* With the tag out of view, also tag() and toggletag() bringing a window.  *)
Enter(c) ==
  /\ Idle
  /\ member[c] = "away"
  /\ \E k \in {"tiled", "floating", "fullscreen"} : member' = [member EXCEPT ![c] = k]
  /\ UNCHANGED <<count, node, view, anchor, shape>>
  /\ Arrange

(* unmapnotify(): dwindle_remove_client(), then setmon(c, NULL, 0).         *)
Close(c) ==
  /\ Idle
  /\ member[c] # "away"
  /\ DwindleRemove(c)
  /\ member' = [member EXCEPT ![c] = "away"]
  /\ UNCHANGED <<view, anchor>>
  /\ Arrange

(* tag() and toggletag(): the window leaves the tag in view and its trees.  *)
TagAway(c) ==
  /\ Idle
  /\ view # "away" /\ member[c] # "away"
  /\ DwindleRemove(c)
  /\ member' = [member EXCEPT ![c] = "away"]
  /\ UNCHANGED view
  /\ Refocus
  /\ Arrange

(* setmon() to another output, or the IPC request set_client_tags: the leaf *)
(* is left for dwindle() to prune; the request refocuses before arranging.  *)
MoveAway(c) ==
  /\ Idle
  /\ view # "away" /\ member[c] # "away"
  /\ member' = [member EXCEPT ![c] = "away"]
  /\ UNCHANGED <<count, node, view, shape>>
  /\ Refocus
  /\ Arrange

(* view() and toggleview(), to and from the tag: focused before arranged.   *)
View(v) ==
  /\ Idle
  /\ v # view /\ "away" \in {v, view}
  /\ view' = v
  /\ UNCHANGED <<count, node, member, shape>>
  /\ IF v = "away" THEN UNCHANGED anchor ELSE Refocus
  /\ Arrange

(* setlayout(), to and from the dwindle layout.                             *)
SetLayout(v) ==
  /\ Idle
  /\ v # view /\ "away" \notin {v, view}
  /\ view' = v
  /\ UNCHANGED <<count, node, member, anchor, shape>>
  /\ Arrange

Toggle(c, k) ==
  /\ Idle
  /\ member[c] \in {"tiled", k}
  /\ member' = [member EXCEPT ![c] = IF @ = k THEN "tiled" ELSE k]
  /\ UNCHANGED <<count, node, view, anchor, shape>>
  /\ Arrange

(* setfloating(), from togglefloating() and moveresize().                   *)
SetFloating(c) == view # "away" /\ Toggle(c, "floating")

(* setfullscreen(), from a binding or the client.                           *)
SetFullscreen(c) == Toggle(c, "fullscreen")

(* focusclient() of a tiled window.                                         *)
FocusClient(c) ==
  /\ Idle
  /\ view # "away" /\ member[c] = "tiled"
  /\ anchor' = c
  /\ UNCHANGED <<count, node, member, view, pc, focused, shape>>

(* swaptiled() and swapdir(): two leaves trade windows, and one of the two  *)
(* is focused.                                                              *)
SwapTiled(a, b) ==
  /\ Idle
  /\ a # b /\ HasLeaf(a) /\ HasLeaf(b)
  /\ node' = [i \in 1..count |->
       [node[i] EXCEPT !.client = CASE @ = a -> b [] @ = b -> a [] OTHER -> @]]
  /\ anchor' \in {anchor} \cup {c \in {a} : view # "away" /\ member[c] = "tiled"}
  /\ UNCHANGED <<count, member, view, pc, focused, shape>>

Handler ==
  \/ \E c \in Clients :
       \/ Enter(c) \/ Close(c) \/ TagAway(c) \/ MoveAway(c)
       \/ SetFloating(c) \/ SetFullscreen(c) \/ FocusClient(c)
  \/ \E v \in {"away", "other", "dwindle"} : View(v) \/ SetLayout(v)
  \/ \E a, b \in Clients : SwapTiled(a, b)

Next == Dwindle \/ Handler

Spec == Init /\ [][Next]_vars

-----------------------------------------------------------------------------

(* Every variable holds a value of its C type, indices inside the array.    *)
TypeOK ==
  /\ count \in Nat
  /\ node \in [1..count -> Node(count)]
  /\ member \in [Clients -> {"away", "tiled", "floating", "fullscreen"}]
  /\ view \in {"away", "other", "dwindle"}
  /\ anchor \in Clients \cup {NoClient}
  /\ pc \in {"idle", "prune", "insert"}
  /\ focused \in Clients \cup {NoClient}
  /\ shape \in {"whole", "torn", "undefined"}

(* The parts of a well-formed tree: leaves have no children; a split has    *)
(* two different ones, which point back at it; a parent is a split that has *)
(* the node for a child; there is one root; no window has two leaves; and a *)
(* split stands after its own parent in the array.                          *)
LeavesAreBare ==
  \A i \in 1..count : ~IsNode(i) => node[i].left = 0 /\ node[i].right = 0

SplitsOwnChildren ==
  \A i \in 1..count : IsNode(i) =>
    /\ node[i].left # 0 /\ node[node[i].left].parent = i
    /\ node[i].right # 0 /\ node[node[i].right].parent = i
    /\ node[i].left # node[i].right

ParentsOwnChild ==
  \A i \in 1..count : node[i].parent # 0 =>
    /\ IsNode(node[i].parent)
    /\ i \in {node[node[i].parent].left, node[node[i].parent].right}

OneRoot ==
  /\ \A i, j \in 1..count : node[i].parent = 0 /\ node[j].parent = 0 => i = j
  /\ count # 0 => \E i \in 1..count : node[i].parent = 0

OneLeafEach ==
  \A i, j \in 1..count : ~IsNode(i) /\ node[i].client = node[j].client => i = j

SplitsAfterParents ==
  \A i \in 1..count : IsNode(i) => node[i].parent < i

(* Only this of it survives a window inserted beside itself.                *)
ParentsAreSplits ==
  \A i \in 1..count : node[i].parent # 0 => IsNode(node[i].parent)

WellFormed ==
  /\ LeavesAreBare
  /\ SplitsOwnChildren
  /\ ParentsOwnChild
  /\ OneRoot
  /\ OneLeafEach
  /\ SplitsAfterParents

(* Whatever handlers run and in whatever order windows come, go, float and  *)
(* change places, renumbering and relinking leave a well-formed tree, so    *)
(* that dwindle_recalc(), one pass in index order, gives every split its    *)
(* box before it divides it - as long as no window was inserted beside      *)
(* itself.                                                                  *)
TreeWellFormed == shape = "whole" => WellFormed

(* No access is outside the array before a window is inserted beside itself *)
(* (dwindle_remove() does not check remap[sibling_idx]).                    *)
OnlyTornGoesUndefined ==
  [][shape = "whole" => shape' # "undefined"]_vars

(* When a handler ends with the tag in view and something to tile, the      *)
(* leaves are the tiled windows and possibly fullscreen ones.               *)
LeavesMatch ==
  Idle /\ view = "dwindle" /\ Tiled # {} =>
    /\ \A c \in Tiled : HasLeaf(c)
    /\ \A i \in Leaves : member[node[i].client] \in {"tiled", "fullscreen"}
=============================================================================
