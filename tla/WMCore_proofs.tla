---------------------------- MODULE WMCore_proofs ----------------------------
(***************************************************************************)
(* What the shared functions of the core do to a state, for any outputs,   *)
(* windows, tags and layouts: the lemmas that the theorems of PeachWM_proofs *)
(* rest on.  Each says which fields a function leaves alone and what it     *)
(* establishes of the others.                                               *)
(***************************************************************************)
EXTENDS PeachWM, WellFoundedInduction, TLAPS

-----------------------------------------------------------------------------
(* Lists                                                                   *)

(* What the operations on lists return, for lists of any length, and the    *)
(* principle of induction these proofs and those of the modules above use:  *)
(* the library states it for a predicate, the provers need it for a set.    *)

LEMMA Least ==
  ASSUME NEW T \in SUBSET Nat, T # {}
  PROVE  \E x \in T : \A y \in T : x <= y
<1> DEFINE R == OpToRel(<, Nat)
<1>1. IsWellFoundedOn(R, Nat)
  BY NatLessThanWellFounded
<1>2. \E x \in T : \A y \in T : <<y, x>> \notin R
  <2> HIDE DEF R
  <2> QED BY <1>1, WFMin
<1>3. \A x, y \in Nat : <<y, x>> \notin R => x <= y
  BY DEF R, OpToRel
<1> QED BY <1>2, <1>3

LEMMA SetInduction ==
  ASSUME NEW T, 0 \in T, \A n \in Nat : n \in T => n + 1 \in T
  PROVE  Nat \subseteq T
<1> SUFFICES ASSUME Nat \ T # {} PROVE FALSE
  OBVIOUS
<1>1. PICK x \in Nat \ T : \A y \in Nat \ T : x <= y
  BY Least
<1>2. x # 0 /\ x - 1 \in Nat
  BY <1>1
<1>3. x - 1 \in T
  BY <1>1, <1>2
<1> QED BY <1>1, <1>2, <1>3

(* From 0 up to n only.                                                     *)
LEMMA InductionUpTo ==
  ASSUME NEW n \in Nat, NEW T, 0 \in T,
         \A i \in 0 .. n - 1 : i \in T => i + 1 \in T
  PROVE  \A i \in 0 .. n : i \in T
<1> DEFINE U == {i \in Nat : i <= n => i \in T}
<1>1. 0 \in U
  OBVIOUS
<1>2. \A i \in Nat : i \in U => i + 1 \in U
  <2> SUFFICES ASSUME NEW i \in Nat, i \in U, i + 1 <= n PROVE i + 1 \in T
    OBVIOUS
  <2>1. i \in 0 .. n - 1 /\ i \in T
    OBVIOUS
  <2> QED BY <2>1
<1> HIDE DEF U
<1>3. Nat \subseteq U
  BY <1>1, <1>2, SetInduction
<1> QED BY <1>3 DEF U

LEMMA MinOf ==
  ASSUME NEW T \in SUBSET Nat, T # {}
  PROVE  Min(T) \in T
BY Least DEF Min

LEMMA MaxOf ==
  ASSUME NEW n \in Nat, NEW T \in SUBSET (0 .. n), T # {}
  PROVE  Max(T) \in T
<1> DEFINE U == {n - i : i \in T}
<1>1. U \in SUBSET Nat /\ U # {}
  <2>1. \A i \in T : n - i \in Nat
    OBVIOUS
  <2> QED BY <2>1
<1>2. PICK x \in U : \A y \in U : x <= y
  <2> HIDE DEF U
  <2> QED BY <1>1, Least
<1>3. PICK i \in T : x = n - i
  BY <1>2
<1>4. \A j \in T : i >= j
  <2> SUFFICES ASSUME NEW j \in T PROVE i >= j
    OBVIOUS
  <2>1. n - j \in U
    OBVIOUS
  <2>2. n - i <= n - j
    BY <1>2, <1>3, <2>1
  <2> QED BY <2>2
<1> QED BY <1>4 DEF Max

-----------------------------------------------------------------------------
(* Lists                                                                   *)

LEMMA ListFacts ==
  ASSUME NEW S, NEW q, Lists(q, S)
  PROVE  /\ q \in Seq(S) /\ Len(q) \in Nat /\ DOMAIN q = 1 .. Len(q)
         /\ ToSet(q) = S
         /\ \A i \in 1 .. Len(q) : q[i] \in S
         /\ \A x \in S : \E i \in 1 .. Len(q) : q[i] = x
         /\ \A i, j \in 1 .. Len(q) : q[i] = q[j] => i = j
BY DEF Lists, ToSet, IsInjective

LEMMA EmptyList == Lists(<<>>, {})
BY DEF Lists, ToSet, IsInjective

LEMMA TakenOut ==
  ASSUME NEW S, NEW q, Lists(q, S), NEW x
  PROVE  Lists(Without(q, x), S \ {x})
<1> DEFINE I == {i \in DOMAIN q : q[i] = x}
           k == CHOOSE i \in I : TRUE
           t == [i \in 1 .. Len(q) - 1 |-> q[IF i < k THEN i ELSE i + 1]]
<1>1. q \in Seq(S) /\ ToSet(q) = S /\ \A i, j \in DOMAIN q : q[i] = q[j] => i = j
  BY DEF Lists, IsInjective
<1>2. CASE I = {}
  <2>1. Without(q, x) = q /\ x \notin S
    BY <1>1, <1>2 DEF Without, ToSet
  <2>2. S \ {x} = S
    BY <2>1
  <2> QED BY <2>1, <2>2
<1>3. CASE I # {}
  <2>1. Without(q, x) = t
    BY <1>3 DEF Without
  <2>2. k \in 1 .. Len(q) /\ q[k] = x /\ Len(q) \in Nat /\ DOMAIN q = 1 .. Len(q)
    BY <1>1, <1>3
  <2>3. \A i \in 1 .. Len(q) : q[i] \in S /\ (q[i] = x => i = k)
    BY <1>1, <2>2
  <2> HIDE DEF k, I
  <2>4. \A i \in 1 .. Len(q) - 1 : t[i] \in S \ {x}
    BY <2>2, <2>3
  <2>5. t \in Seq(S \ {x}) /\ DOMAIN t = 1 .. Len(q) - 1
    BY <2>2, <2>4
  <2>6. \A i, j \in DOMAIN t : t[i] = t[j] => i = j
    <3> SUFFICES ASSUME NEW i \in 1 .. Len(q) - 1, NEW j \in 1 .. Len(q) - 1, t[i] = t[j]
                 PROVE  i = j
      BY <2>5
    <3> DEFINE a == IF i < k THEN i ELSE i + 1
               b == IF j < k THEN j ELSE j + 1
    <3>1. a \in 1 .. Len(q) /\ b \in 1 .. Len(q) /\ q[a] = q[b]
      BY <2>2
    <3>2. a = b
      BY <3>1, <1>1, <2>2
    <3> QED BY <3>2, <2>2
  <2>7. \A y \in S \ {x} : \E i \in DOMAIN t : t[i] = y
    <3> SUFFICES ASSUME NEW y \in S \ {x} PROVE \E i \in DOMAIN t : t[i] = y
      OBVIOUS
    <3>1. PICK j \in 1 .. Len(q) : q[j] = y /\ j # k
      BY <1>1, <2>2 DEF ToSet
    <3> DEFINE i == IF j < k THEN j ELSE j - 1
    <3>2. i \in 1 .. Len(q) - 1 /\ t[i] = y
      BY <3>1, <2>2
    <3> QED BY <3>2, <2>5
  <2>8. ToSet(t) = S \ {x}
    BY <2>4, <2>5, <2>7 DEF ToSet
  <2> QED BY <2>1, <2>5, <2>6, <2>8 DEF Lists, IsInjective
<1> QED BY <1>2, <1>3

LEMMA PutFirst ==
  ASSUME NEW S, NEW q, NEW x, Lists(q, S), x \notin S
  PROVE  /\ Lists(<<x>> \o q, S \cup {x})
         /\ (<<x>> \o q)[1] = x
<1> DEFINE t == <<x>> \o q
<1>1. /\ q \in Seq(S) /\ ToSet(q) = S /\ DOMAIN q = 1 .. Len(q) /\ Len(q) \in Nat
      /\ \A i, j \in DOMAIN q : q[i] = q[j] => i = j
  BY DEF Lists, IsInjective
<1>2. /\ t \in Seq(S \cup {x}) /\ DOMAIN t = 1 .. Len(q) + 1 /\ t[1] = x
      /\ \A i \in 2 .. Len(q) + 1 : t[i] = q[i - 1]
  BY <1>1
<1>3. \A i \in 1 .. Len(q) : q[i] \in S /\ t[i + 1] = q[i]
  BY <1>1, <1>2
<1>4. \A i, j \in DOMAIN t : t[i] = t[j] => i = j
  BY <1>1, <1>2, <1>3
<1>5. ToSet(t) = S \cup {x}
  <2>1. ToSet(t) \subseteq S \cup {x}
    BY <1>2 DEF ToSet
  <2>2. ASSUME NEW y \in S PROVE y \in ToSet(t)
    <3>1. PICK i \in 1 .. Len(q) : q[i] = y
      BY <1>1 DEF ToSet
    <3>2. i + 1 \in DOMAIN t /\ t[i + 1] = y
      BY <1>1, <1>2, <1>3, <3>1
    <3> QED BY <3>2 DEF ToSet
  <2>3. x \in ToSet(t)
    BY <1>1, <1>2 DEF ToSet
  <2> QED BY <2>1, <2>2, <2>3
<1> QED BY <1>2, <1>4, <1>5 DEF Lists, IsInjective

(* A window moved to the head of its list.                                  *)
LEMMA MovedFirst ==
  ASSUME NEW S, NEW q, NEW x \in S, Lists(q, S)
  PROVE  Lists(<<x>> \o Without(q, x), S) /\ (<<x>> \o Without(q, x))[1] = x
<1>1. Lists(Without(q, x), S \ {x})
  BY TakenOut
<1>2. (S \ {x}) \cup {x} = S
  OBVIOUS
<1> QED BY <1>1, <1>2, PutFirst
-----------------------------------------------------------------------------
(* Searching a list                                                        *)

IsFirst(q, X, x) ==
  \E i \in DOMAIN q : q[i] = x /\ x \in X /\ \A j \in 1 .. i - 1 : q[j] \notin X

LEMMA FirstIs ==
  ASSUME NEW S, NEW q \in Seq(S), NEW X, NEW x, IsFirst(q, X, x), NEW none
  PROVE  FirstOf(q, X, none) = x
<1> DEFINE I == {i \in DOMAIN q : q[i] \in X /\ \A j \in 1 .. i - 1 : q[j] \notin X}
<1>1. DOMAIN q = 1 .. Len(q) /\ Len(q) \in Nat
  OBVIOUS
<1>2. PICK i \in DOMAIN q : q[i] = x /\ x \in X /\ \A j \in 1 .. i - 1 : q[j] \notin X
  BY DEF IsFirst
<1>3. \A k \in I : k = i
  <2> SUFFICES ASSUME NEW k \in I PROVE ~ (k < i) /\ ~ (i < k)
    BY <1>1, <1>2
  <2> QED BY <1>1, <1>2
<1>4. i \in I
  BY <1>2
<1>5. (CHOOSE k \in I : TRUE) = i
  <2> HIDE DEF I
  <2> QED BY <1>3, <1>4
<1> QED BY <1>2, <1>4, <1>5 DEF FirstOf

LEMMA FirstExists ==
  ASSUME NEW S, NEW q \in Seq(S), NEW X, ToSet(q) \cap X # {}, NEW none
  PROVE  IsFirst(q, X, FirstOf(q, X, none))
<1>1. DOMAIN q = 1 .. Len(q) /\ Len(q) \in Nat
  OBVIOUS
<1> DEFINE J == {i \in DOMAIN q : q[i] \in X}
<1>2. J \in SUBSET Nat /\ J # {}
  BY <1>1 DEF ToSet
<1>3. PICK i \in J : \A j \in J : i <= j
  <2> HIDE DEF J
  <2> QED BY <1>2, Least
<1>4. \A j \in 1 .. i - 1 : q[j] \notin X
  BY <1>1, <1>3
<1>5. IsFirst(q, X, q[i])
  BY <1>3, <1>4 DEF IsFirst
<1> QED BY <1>5, FirstIs

LEMMA NoFirst ==
  ASSUME NEW S, NEW q \in Seq(S), NEW X, ToSet(q) \cap X = {}, NEW none
  PROVE  FirstOf(q, X, none) = none
BY DEF FirstOf, ToSet

(* What every search returns.                                               *)
LEMMA Found ==
  ASSUME NEW S, NEW q \in Seq(S), NEW X, NEW none
  PROVE  \/ FirstOf(q, X, none) = none /\ ToSet(q) \cap X = {}
         \/ FirstOf(q, X, none) \in ToSet(q) \cap X
<1>1. CASE ToSet(q) \cap X = {}
  BY <1>1, NoFirst
<1>2. CASE ToSet(q) \cap X # {}
  BY <1>2, FirstExists DEF IsFirst, ToSet
<1> QED BY <1>1, <1>2

LEMMA HeadFound ==
  ASSUME NEW S, NEW q \in Seq(S), NEW X, q # <<>>, q[1] \in X, NEW none
  PROVE  FirstOf(q, X, none) = q[1]
<1>1. 1 \in DOMAIN q
  OBVIOUS
<1>2. IsFirst(q, X, q[1])
  BY <1>1 DEF IsFirst
<1> QED BY <1>2, FirstIs

(* What is not looked for does not matter to the search.                    *)
LEMMA ConsPassedOver ==
  ASSUME NEW S, NEW q \in Seq(S), NEW x \in S, NEW X, x \notin X, NEW none
  PROVE  FirstOf(<<x>> \o q, X, none) = FirstOf(q, X, none)
<1> DEFINE t == <<x>> \o q
<1>1. /\ t \in Seq(S) /\ DOMAIN t = 1 .. Len(q) + 1 /\ Len(q) \in Nat /\ t[1] = x
      /\ DOMAIN q = 1 .. Len(q)
      /\ \A i \in 2 .. Len(q) + 1 : t[i] = q[i - 1]
  OBVIOUS
<1> HIDE DEF t
<1>2. \A i \in 1 .. Len(q) : t[i + 1] = q[i]
  BY <1>1
<1>3. ToSet(t) = ToSet(q) \cup {x}
  <2>1. ToSet(t) \subseteq ToSet(q) \cup {x}
    BY <1>1 DEF ToSet
  <2>2. ASSUME NEW y \in ToSet(q) PROVE y \in ToSet(t)
    <3>1. PICK i \in 1 .. Len(q) : q[i] = y
      BY <1>1 DEF ToSet
    <3>2. i + 1 \in DOMAIN t /\ t[i + 1] = y
      BY <1>1, <1>2, <3>1
    <3> QED BY <3>2 DEF ToSet
  <2>3. x \in ToSet(t)
    BY <1>1 DEF ToSet
  <2> QED BY <2>1, <2>2, <2>3
<1>4. CASE ToSet(q) \cap X = {}
  <2>1. ToSet(t) \cap X = {}
    BY <1>3, <1>4
  <2> QED BY <1>1, <1>4, <2>1, NoFirst DEF t
<1>5. CASE ToSet(q) \cap X # {}
  <2> DEFINE y == FirstOf(q, X, none)
  <2>1. IsFirst(q, X, y)
    BY <1>5, FirstExists
  <2> HIDE DEF y
  <2>2. PICK i \in 1 .. Len(q) : q[i] = y /\ y \in X /\ \A j \in 1 .. i - 1 : q[j] \notin X
    BY <1>1, <2>1 DEF IsFirst
  <2>3. i + 1 \in DOMAIN t /\ t[i + 1] = y
    BY <1>1, <1>2, <2>2
  <2>4. \A j \in 1 .. (i + 1) - 1 : t[j] \notin X
    <3> SUFFICES ASSUME NEW j \in 1 .. i PROVE t[j] \notin X
      BY <2>2
    <3>1. CASE j = 1
      BY <3>1, <1>1
    <3>2. CASE j # 1
      <4>1. j - 1 \in 1 .. i - 1 /\ j \in 2 .. Len(q) + 1
        BY <3>2, <1>1
      <4> QED BY <4>1, <1>1, <2>2
    <3> QED BY <3>1, <3>2
  <2>5. IsFirst(t, X, y)
    BY <2>2, <2>3, <2>4 DEF IsFirst
  <2> QED BY <1>1, <2>5, FirstIs DEF t, y
<1> QED BY <1>4, <1>5

LEMMA WithoutPassedOver ==
  ASSUME NEW S, NEW q, Lists(q, S), NEW x, NEW X, x \notin X, NEW none
  PROVE  FirstOf(Without(q, x), X, none) = FirstOf(q, X, none)
<1> DEFINE I == {i \in DOMAIN q : q[i] = x}
           k == CHOOSE i \in I : TRUE
           t == [i \in 1 .. Len(q) - 1 |-> q[IF i < k THEN i ELSE i + 1]]
<1>1. q \in Seq(S) /\ ToSet(q) = S /\ DOMAIN q = 1 .. Len(q) /\ Len(q) \in Nat
  BY DEF Lists
<1>2. CASE I = {}
  BY <1>2 DEF Without
<1>3. CASE I # {} /\ S \cap X = {}
  <2>1. Lists(Without(q, x), S \ {x})
    BY TakenOut
  <2>2. /\ Without(q, x) \in Seq(S \ {x})
        /\ ToSet(Without(q, x)) \cap X = {}
    BY <2>1, <1>3 DEF Lists
  <2> QED BY <1>1, <1>3, <2>2, NoFirst
<1>4. CASE I # {} /\ S \cap X # {}
  <2>1. Without(q, x) = t
    BY <1>4 DEF Without
  <2>2. k \in 1 .. Len(q) /\ q[k] = x
    BY <1>1, <1>4
  <2> HIDE DEF k, I
  <2>3. /\ DOMAIN t = 1 .. Len(q) - 1
        /\ \A i \in 1 .. Len(q) - 1 : t[i] = q[IF i < k THEN i ELSE i + 1]
    BY <1>1
  <2>4. t \in Seq(S)
    <3>1. \A i \in 1 .. Len(q) - 1 : t[i] \in S
      BY <1>1, <2>2, <2>3
    <3>2. Len(q) - 1 \in Nat
      BY <1>1, <2>2
    <3> QED BY <1>1, <3>1, <3>2
  <2> HIDE DEF t
  <2> DEFINE y == FirstOf(q, X, none)
  <2>5. IsFirst(q, X, y)
    BY <1>1, <1>4, FirstExists
  <2> HIDE DEF y
  <2>6. PICK i \in 1 .. Len(q) : q[i] = y /\ y \in X /\ \A j \in 1 .. i - 1 : q[j] \notin X
    BY <1>1, <2>5 DEF IsFirst
  <2>7. i # k
    BY <2>2, <2>6
  <2> DEFINE h == IF i < k THEN i ELSE i - 1
  <2>8. h \in 1 .. Len(q) - 1 /\ t[h] = y
    BY <1>1, <2>2, <2>3, <2>6, <2>7
  <2>9. \A j \in 1 .. h - 1 : t[j] \notin X
    <3> SUFFICES ASSUME NEW j \in 1 .. h - 1 PROVE t[j] \notin X
      OBVIOUS
    <3>1. CASE j < k
      <4>1. t[j] = q[j] /\ j \in 1 .. i - 1
        BY <3>1, <2>2, <2>3, <2>6, <2>8
      <4> QED BY <4>1, <2>6
    <3>2. CASE ~ (j < k)
      <4>1. t[j] = q[j + 1] /\ j + 1 \in 1 .. i - 1
        BY <3>2, <2>2, <2>3, <2>6, <2>7, <2>8
      <4> QED BY <4>1, <2>6
    <3> QED BY <3>1, <3>2
  <2>10. IsFirst(t, X, y)
    BY <2>3, <2>6, <2>8, <2>9 DEF IsFirst
  <2>11. FirstOf(t, X, none) = y
    BY <2>4, <2>10, FirstIs
  <2> QED BY <2>1, <2>11 DEF y
<1> QED BY <1>1, <1>2, <1>3, <1>4

(* Moving x to the head changes no search that does not look for it.        *)
LEMMA MovePassedOver ==
  ASSUME NEW S, NEW q, Lists(q, S), NEW x \in S, NEW X, x \notin X, NEW none
  PROVE  FirstOf(<<x>> \o Without(q, x), X, none) = FirstOf(q, X, none)
<1>1. Without(q, x) \in Seq(S)
  <2>1. Without(q, x) \in Seq(S \ {x})
    BY TakenOut DEF Lists
  <2> QED BY <2>1
<1>2. FirstOf(<<x>> \o Without(q, x), X, none) = FirstOf(Without(q, x), X, none)
  BY <1>1, ConsPassedOver
<1> QED BY <1>2, WithoutPassedOver

LEMMA CycleFinds ==
  ASSUME NEW S, NEW q \in Seq(S), NEW X, ToSet(q) \cap X # {}, NEW c, NEW forward
  PROVE  Cycle(q, X, c, forward) \in ToSet(q) \cap X
<1> DEFINE P == {i \in DOMAIN q : q[i] \in X}
           beyond == {i \in P : \E j \in P : q[j] = c /\ IF forward THEN j < i ELSE i < j}
           from == IF beyond = {} THEN P ELSE beyond
<1>1. DOMAIN q = 1 .. Len(q) /\ Len(q) \in Nat
  OBVIOUS
<1>2. P \in SUBSET (0 .. Len(q)) /\ P # {} /\ P \in SUBSET Nat
  BY <1>1 DEF ToSet
<1>3. from \in SUBSET P /\ from # {}
  BY <1>2
<1>4. Cycle(q, X, c, forward) = q[IF forward THEN Min(from) ELSE Max(from)]
  BY DEF Cycle
<1> HIDE DEF from
<1>5. Min(from) \in from /\ Max(from) \in from
  <2>1. from \in SUBSET Nat /\ from \in SUBSET (0 .. Len(q))
    BY <1>2, <1>3
  <2> QED BY <1>1, <1>3, <2>1, MinOf, MaxOf
<1> QED BY <1>3, <1>4, <1>5 DEF ToSet

-----------------------------------------------------------------------------
(* Types                                                                   *)

LEMMA StateFields ==
  ASSUME NEW s \in StateType
  PROVE  /\ s.mons \in Seq(Monitors) /\ s.out \in [Monitors -> MonitorType]
         /\ s.selmon \in Monitors \cup {NoMon}
         /\ s.clients \in Seq(Clients) /\ s.fstack \in Seq(Clients)
         /\ s.win \in [Clients -> WindowType]
         /\ s.focus \in Clients \cup {NoClient}
         /\ s.grab \in [mode : CursorModes, client : Clients \cup {NoClient}]
         /\ \A m \in Monitors : s.out[m] \in MonitorType
         /\ \A c \in Clients : s.win[c] \in WindowType
BY DEF StateType

LEMMA CurTagsType ==
  ASSUME NEW s \in StateType, NEW m \in Monitors
  PROVE  CurTags(s, m) \in SUBSET Tags
<1>1. s.out[m] \in MonitorType
  BY StateFields
<1> QED BY <1>1 DEF CurTags, MonitorType

LEMMA CurrentTagType ==
  ASSUME NEW s \in StateType, NEW m \in Monitors
  PROVE  CurrentTag(s, m) \in Tags
<1>1. CurTags(s, m) \in SUBSET Tags /\ Tags \subseteq Nat \ {0} /\ 1 \in Tags
  BY CurTagsType, ConstantsAssumption
<1>2. CASE CurTags(s, m) = {}
  BY <1>1, <1>2 DEF CurrentTag
<1>3. CASE CurTags(s, m) # {}
  <2>1. CurTags(s, m) \in SUBSET Nat
    BY <1>1
  <2>2. Min(CurTags(s, m)) \in CurTags(s, m)
    BY <1>3, <2>1, MinOf
  <2> QED BY <1>1, <1>3, <2>2 DEF CurrentTag
<1> QED BY <1>2, <1>3

LEMMA CurLayoutType ==
  ASSUME NEW s \in StateType, NEW m \in Monitors
  PROVE  CurLayout(s, m) \in Layouts
<1>1. s.out[m] \in MonitorType /\ CurrentTag(s, m) \in Tags
  BY StateFields, CurrentTagType
<1> QED BY <1>1 DEF CurLayout, LayoutOf, MonitorType

-----------------------------------------------------------------------------
(* Two states that differ in the display only                              *)

(* A window but for its scene node, which stays in or out of the fullscreen *)
(* layer and changes layer for a floating or scratchpad window only; an     *)
(* output but for its trees.                                                *)
SameButShown(w, v) ==
  /\ v.status = w.status /\ v.mon = w.mon /\ v.tags = w.tags
  /\ v.isfloating = w.isfloating /\ v.isfullscreen = w.isfullscreen
  /\ v.isscratchpad = w.isscratchpad
  /\ v.layer = "LyrFS" <=> w.layer = "LyrFS"
  /\ w.isfloating \/ w.isscratchpad \/ v.layer = w.layer

(* A mapped window that has an output is in a layer that fits its state: in *)
(* the tile layer if it tiles, and in the fullscreen layer exactly when it  *)
(* is fullscreen.  A dialog may also be there with its parent.              *)
Fits(c, w) ==
  w.status = "mapped" /\ w.mon # NoMon /\ ~ w.isscratchpad =>
    /\ w.layer # "LyrFS" /\ ~ w.isfloating => w.layer = "LyrTile"
    /\ ParentOf[c] = NoClient => (w.layer = "LyrFS" <=> w.isfullscreen)

LayersFit(s) == \A c \in Clients : Fits(c, s.win[c])

LEMMA ShownFits ==
  ASSUME NEW c, NEW w, NEW v, SameButShown(w, v), Fits(c, w)
  PROVE  Fits(c, v)
BY DEF SameButShown, Fits

SameButTree(o, p) ==
  /\ p.power = o.power /\ p.tagset = o.tagset /\ p.seltags = o.seltags
  /\ p.lt = o.lt /\ p.sellt = o.sellt
  /\ p.scratchpad_visible = o.scratchpad_visible
  /\ p.scratchpad_prev_focus = o.scratchpad_prev_focus
  /\ p.scratchpad_current = o.scratchpad_current

(* The same windows and outputs, shown otherwise.                           *)
SameDesk(s, t) ==
  /\ t.mons = s.mons /\ t.clients = s.clients /\ t.grab = s.grab
  /\ \A m \in Monitors : SameButTree(s.out[m], t.out[m])
  /\ \A c \in Clients : SameButShown(s.win[c], t.win[c])

(* t is s after a redisplay of output m, which has touched nothing else.    *)
Redrawn(s, t, m) ==
  /\ t \in StateType
  /\ SameDesk(s, t)
  /\ t.selmon = s.selmon /\ t.fstack = s.fstack /\ t.focus = s.focus
  /\ \A n \in Monitors : n # m => t.out[n] = s.out[n]
  /\ \A c \in Clients : s.win[c].mon # m => t.win[c] = s.win[c]

LEMMA RedrawnSelf ==
  ASSUME NEW s \in StateType, NEW m
  PROVE  Redrawn(s, s, m)
BY DEF Redrawn, SameDesk, SameButShown, SameButTree

LEMMA SameDeskTrans ==
  ASSUME NEW s, NEW t, NEW u, SameDesk(s, t), SameDesk(t, u)
  PROVE  SameDesk(s, u)
BY DEF SameDesk, SameButShown, SameButTree

LEMMA RedrawnTrans ==
  ASSUME NEW s, NEW t, NEW u, NEW m, Redrawn(s, t, m), Redrawn(t, u, m)
  PROVE  Redrawn(s, u, m)
BY SameDeskTrans DEF Redrawn, SameDesk, SameButShown

(* Queries that do not depend on the display.                               *)
LEMMA SameOutQueries ==
  ASSUME NEW s, NEW t, NEW m \in Monitors, SameButTree(s.out[m], t.out[m])
  PROVE  /\ CurTags(t, m) = CurTags(s, m) /\ CurrentTag(t, m) = CurrentTag(s, m)
         /\ CurLayout(t, m) = CurLayout(s, m)
         /\ Enabled(t, m) <=> Enabled(s, m)
         /\ InLayout(t, m) <=> InLayout(s, m)
<1>1. CurTags(t, m) = CurTags(s, m)
  BY DEF CurTags, SameButTree
<1>2. CurrentTag(t, m) = CurrentTag(s, m)
  BY <1>1 DEF CurrentTag
<1>3. CurLayout(t, m) = CurLayout(s, m)
  BY <1>2 DEF CurLayout, LayoutOf, SameButTree
<1> QED BY <1>1, <1>2, <1>3 DEF Enabled, InLayout, SameButTree

LEMMA SameDeskQueries ==
  ASSUME NEW s, NEW t, SameDesk(s, t), NEW m \in Monitors
  PROVE  /\ CurTags(t, m) = CurTags(s, m) /\ CurrentTag(t, m) = CurrentTag(s, m)
         /\ CurLayout(t, m) = CurLayout(s, m)
         /\ Enabled(t, m) <=> Enabled(s, m)
         /\ InLayout(t, m) <=> InLayout(s, m)
         /\ \A c \in Clients : VisibleOn(t, c, m) <=> VisibleOn(s, c, m)
<1>1. SameButTree(s.out[m], t.out[m]) /\ \A c \in Clients : SameButShown(s.win[c], t.win[c])
  BY DEF SameDesk
<1>2. CurTags(t, m) = CurTags(s, m)
  BY <1>1, SameOutQueries
<1>3. \A c \in Clients : VisibleOn(t, c, m) <=> VisibleOn(s, c, m)
  BY <1>1, <1>2 DEF VisibleOn, Shows, SameButShown, SameButTree
<1> QED BY <1>1, <1>3, SameOutQueries

LEMMA SameDeskSets ==
  ASSUME NEW s \in StateType, NEW t, SameDesk(s, t), NEW m \in Monitors
  PROVE  /\ Tileable(t, m) = Tileable(s, m) /\ Scratchpads(t, m) = Scratchpads(s, m)
         /\ t.fstack = s.fstack => Focustop(t, m) = Focustop(s, m)
<1>1. /\ \A c \in Clients : VisibleOn(t, c, m) <=> VisibleOn(s, c, m)
      /\ \A c \in Clients : SameButShown(s.win[c], t.win[c])
      /\ t.clients = s.clients
  BY SameDeskQueries DEF SameDesk
<1>2. \A c \in ToSet(s.clients) : c \in Clients
  BY StateFields DEF ToSet
<1>3. Tileable(t, m) = Tileable(s, m)
  BY <1>1, <1>2 DEF Tileable, VisibleOn, SameButShown
<1>4. Scratchpads(t, m) = Scratchpads(s, m)
  BY <1>1, <1>2 DEF Scratchpads, SameButShown
<1>5. {c \in Clients : VisibleOn(t, c, m)} = {c \in Clients : VisibleOn(s, c, m)}
  BY <1>1
<1> QED BY <1>3, <1>4, <1>5 DEF Focustop

-----------------------------------------------------------------------------
(* Arrange                                                                 *)

LEMMA WithWin ==
  ASSUME NEW s \in StateType, NEW w \in [Clients -> WindowType]
  PROVE  /\ [s EXCEPT !.win = w] \in StateType
         /\ [s EXCEPT !.win = w].win = w
         /\ [s EXCEPT !.win = w].mons = s.mons /\ [s EXCEPT !.win = w].out = s.out
         /\ [s EXCEPT !.win = w].selmon = s.selmon /\ [s EXCEPT !.win = w].clients = s.clients
         /\ [s EXCEPT !.win = w].fstack = s.fstack /\ [s EXCEPT !.win = w].focus = s.focus
         /\ [s EXCEPT !.win = w].grab = s.grab
BY DEF StateType

LEMMA WithOut ==
  ASSUME NEW s \in StateType, NEW o \in [Monitors -> MonitorType]
  PROVE  /\ [s EXCEPT !.out = o] \in StateType
         /\ [s EXCEPT !.out = o].out = o
         /\ [s EXCEPT !.out = o].mons = s.mons /\ [s EXCEPT !.out = o].win = s.win
         /\ [s EXCEPT !.out = o].selmon = s.selmon /\ [s EXCEPT !.out = o].clients = s.clients
         /\ [s EXCEPT !.out = o].fstack = s.fstack /\ [s EXCEPT !.out = o].focus = s.focus
         /\ [s EXCEPT !.out = o].grab = s.grab
BY DEF StateType

(* t is s but for the scene nodes of windows.                               *)
Reshown(s, t) ==
  /\ t \in StateType
  /\ t.mons = s.mons /\ t.out = s.out /\ t.selmon = s.selmon /\ t.clients = s.clients
  /\ t.fstack = s.fstack /\ t.focus = s.focus /\ t.grab = s.grab
  /\ \A c \in Clients : SameButShown(s.win[c], t.win[c])

LEMMA ReshownDesk ==
  ASSUME NEW s \in StateType, NEW t, Reshown(s, t)
  PROVE  SameDesk(s, t)
BY DEF Reshown, SameDesk, SameButTree

(* v is the window w with its scene node in this state.                     *)
Node(w, v, enabled, layer) ==
  SameButShown(w, v) /\ v.layer = layer /\ (v.enabled <=> enabled)

LEMMA SetEnabledDoes ==
  ASSUME NEW s \in StateType, NEW C, NEW b \in BOOLEAN
  PROVE  /\ Reshown(s, SetEnabled(s, C, b))
         /\ \A c \in Clients \cap C :
              Node(s.win[c], SetEnabled(s, C, b).win[c], b, s.win[c].layer)
         /\ \A c \in Clients \ C : SetEnabled(s, C, b).win[c] = s.win[c]
<1> DEFINE w == [c \in Clients |-> IF c \in C THEN [s.win[c] EXCEPT !.enabled = b] ELSE s.win[c]]
<1>1. \A c \in Clients : s.win[c] \in WindowType
  BY StateFields
<1>2. \A c \in Clients : w[c] \in WindowType /\ SameButShown(s.win[c], w[c])
  BY <1>1 DEF WindowType, SameButShown
<1>3. w \in [Clients -> WindowType]
  BY <1>2
<1>4. SetEnabled(s, C, b) = [s EXCEPT !.win = w]
  BY DEF SetEnabled
<1>5. /\ \A c \in Clients \cap C : Node(s.win[c], w[c], b, s.win[c].layer)
      /\ \A c \in Clients \ C : w[c] = s.win[c]
  BY <1>1 DEF Node, WindowType, SameButShown
<1> HIDE DEF w
<1> QED BY <1>2, <1>3, <1>4, <1>5, WithWin DEF Reshown

LEMMA EnableDoes ==
  ASSUME NEW s \in StateType, NEW C
  PROVE  /\ Reshown(s, SetEnabled(s, C, TRUE))
         /\ \A c \in Clients \cap C :
              Node(s.win[c], SetEnabled(s, C, TRUE).win[c], TRUE, s.win[c].layer)
         /\ \A c \in Clients \ C : SetEnabled(s, C, TRUE).win[c] = s.win[c]
BY TRUE \in BOOLEAN, SetEnabledDoes, Zenon

LEMMA DisableDoes ==
  ASSUME NEW s \in StateType, NEW C
  PROVE  /\ Reshown(s, SetEnabled(s, C, FALSE))
         /\ \A c \in Clients \cap C :
              Node(s.win[c], SetEnabled(s, C, FALSE).win[c], FALSE, s.win[c].layer)
         /\ \A c \in Clients \ C : SetEnabled(s, C, FALSE).win[c] = s.win[c]
BY FALSE \in BOOLEAN, SetEnabledDoes, Zenon

LEMMA ArrangedLayerType ==
  ASSUME NEW w \in WindowType, NEW layout
  PROVE  /\ ArrangedLayer(w, layout) \in {"none", "LyrTile", "LyrFloat", "LyrFS", "LyrScratch"}
         /\ ArrangedLayer(w, layout) = "LyrFS" <=> w.layer = "LyrFS"
         /\ w.isfloating \/ w.isscratchpad \/ ArrangedLayer(w, layout) = w.layer
BY DEF ArrangedLayer, WindowType

LEMMA ShowTaggedDoes ==
  ASSUME NEW s \in StateType, NEW m \in Monitors
  PROVE  /\ Reshown(s, ShowTagged(s, m))
         /\ \A c \in Clients : ShowTagged(s, m).win[c] =
              IF c \in ToSet(s.clients) /\ s.win[c].mon = m
              THEN [s.win[c] EXCEPT !.enabled = VisibleOn(s, c, m),
                                    !.layer = ArrangedLayer(s.win[c], CurLayout(s, m))]
              ELSE s.win[c]
<1> DEFINE e(c) == [s.win[c] EXCEPT !.enabled = VisibleOn(s, c, m),
                                    !.layer = ArrangedLayer(s.win[c], CurLayout(s, m))]
           w == [c \in Clients |-> IF c \in ToSet(s.clients) /\ s.win[c].mon = m
                                   THEN e(c) ELSE s.win[c]]
<1>1. \A c \in Clients : s.win[c] \in WindowType
  BY StateFields
<1>2. \A c \in Clients : VisibleOn(s, c, m) \in BOOLEAN
  BY StateFields DEF VisibleOn, Shows, WindowType, MonitorType
<1>3. ASSUME NEW c \in Clients PROVE e(c) \in WindowType /\ SameButShown(s.win[c], e(c))
  <2> DEFINE l == ArrangedLayer(s.win[c], CurLayout(s, m))
             b == VisibleOn(s, c, m)
  <2>1. /\ l \in {"none", "LyrTile", "LyrFloat", "LyrFS", "LyrScratch"} /\ b \in BOOLEAN
        /\ l = "LyrFS" <=> s.win[c].layer = "LyrFS"
        /\ s.win[c].isfloating \/ s.win[c].isscratchpad \/ l = s.win[c].layer
    BY <1>1, <1>2, ArrangedLayerType
  <2> HIDE DEF l, b
  <2>2. [s.win[c] EXCEPT !.enabled = b, !.layer = l] \in WindowType
    BY <1>1, <2>1 DEF WindowType
  <2>3. SameButShown(s.win[c], [s.win[c] EXCEPT !.enabled = b, !.layer = l])
    BY <1>1, <2>1 DEF WindowType, SameButShown
  <2> QED BY <2>2, <2>3 DEF l, b
<1>4. ShowTagged(s, m) = [s EXCEPT !.win = w]
  BY DEF ShowTagged, VisibleOn
<1>5. \A c \in Clients : w[c] = IF c \in ToSet(s.clients) /\ s.win[c].mon = m
                                THEN e(c) ELSE s.win[c]
  OBVIOUS
<1> HIDE DEF e
<1>6. \A c \in Clients : w[c] \in WindowType /\ SameButShown(s.win[c], w[c])
  BY <1>1, <1>3, <1>5 DEF SameButShown
<1>7. w \in [Clients -> WindowType]
  BY <1>6
<1> HIDE DEF w
<1>8. Reshown(s, ShowTagged(s, m)) /\ ShowTagged(s, m).win = w
  BY <1>4, <1>6, <1>7, WithWin DEF Reshown
<1> QED BY <1>5, <1>8 DEF e

(* The two lists of windows are in step.                                    *)
Sound(s) ==
  /\ s \in StateType
  /\ Lists(s.clients, ToSet(s.clients))
  /\ Lists(s.fstack, ToSet(s.clients))

LEMMA SoundFacts ==
  ASSUME NEW s, Sound(s)
  PROVE  /\ s \in StateType /\ ToSet(s.clients) \subseteq Clients
         /\ ToSet(s.fstack) = ToSet(s.clients)
         /\ s.fstack \in Seq(Clients)
<1>1. s \in StateType /\ Lists(s.clients, ToSet(s.clients)) /\ Lists(s.fstack, ToSet(s.clients))
  BY DEF Sound
<1>2. s.clients \in Seq(Clients) /\ s.fstack \in Seq(Clients)
  BY <1>1, StateFields
<1>3. ToSet(s.clients) \subseteq Clients
  BY <1>2 DEF ToSet
<1>4. ToSet(s.fstack) = ToSet(s.clients)
  BY <1>1 DEF Lists
<1> QED BY <1>1, <1>2, <1>3, <1>4

FocustopX(s, X) == FirstOf(s.fstack, X, NoClient)

LEMMA FocustopIs ==
  ASSUME NEW s, Sound(s), NEW m
  PROVE  \/ /\ Focustop(s, m) = NoClient
            /\ \A c \in ToSet(s.clients) : ~ VisibleOn(s, c, m)
         \/ /\ Focustop(s, m) \in ToSet(s.clients) /\ Focustop(s, m) \in Clients
            /\ Focustop(s, m) # NoClient
            /\ VisibleOn(s, Focustop(s, m), m) /\ s.win[Focustop(s, m)].mon = m
<1> DEFINE X == {c \in Clients : VisibleOn(s, c, m)}
<1>1. /\ s \in StateType /\ ToSet(s.clients) \subseteq Clients
      /\ ToSet(s.fstack) = ToSet(s.clients) /\ s.fstack \in Seq(Clients)
  BY SoundFacts
<1>2. \/ FocustopX(s, X) = NoClient /\ ToSet(s.fstack) \cap X = {}
      \/ FocustopX(s, X) \in ToSet(s.fstack) \cap X
  BY <1>1, Found DEF FocustopX
<1>3. Focustop(s, m) = FocustopX(s, X)
  BY DEF Focustop, FocustopX
<1>4. NoClient \notin Clients
  BY ConstantsAssumption
<1>5. \A c \in X : VisibleOn(s, c, m) /\ s.win[c].mon = m
  BY DEF VisibleOn, Shows
<1> QED BY <1>1, <1>2, <1>3, <1>4, <1>5

(* What arrange() makes of the scene node of a window of output m.          *)
OnDisplay(s, c, m) ==
  /\ VisibleOn(s, c, m)
  /\ CurLayout(s, m) = "monocle" /\ c \in Tileable(s, m) => c = Focustop(s, m)

LEMMA MonocleDoes ==
  ASSUME NEW s, Sound(s), NEW m \in Monitors
  PROVE  /\ Reshown(s, Monocle(s, m))
         /\ \A c \in Clients :
              /\ Tileable(s, m) # {} /\ c = Focustop(s, m) =>
                   Node(s.win[c], Monocle(s, m).win[c], TRUE, s.win[c].layer)
              /\ c \in Tileable(s, m) /\ c # Focustop(s, m) =>
                   Node(s.win[c], Monocle(s, m).win[c], FALSE, s.win[c].layer)
              /\ c \notin Tileable(s, m) /\ c # Focustop(s, m) =>
                   Monocle(s, m).win[c] = s.win[c]
              /\ Tileable(s, m) = {} => Monocle(s, m).win[c] = s.win[c]
<1>1. s \in StateType
  BY DEF Sound
<1>2. CASE Tileable(s, m) = {}
  BY <1>1, <1>2 DEF Monocle, Reshown, SameButShown
<1>3. CASE Tileable(s, m) # {}
  <2> DEFINE hidden == SetEnabled(s, Tileable(s, m), FALSE)
             D == {Focustop(s, m)} \ {NoClient}
             t == SetEnabled(hidden, D, TRUE)
  <2>1. /\ Reshown(s, hidden)
        /\ \A c \in Clients \cap Tileable(s, m) :
             Node(s.win[c], hidden.win[c], FALSE, s.win[c].layer)
        /\ \A c \in Clients \ Tileable(s, m) : hidden.win[c] = s.win[c]
    BY <1>1, DisableDoes, Zenon
  <2>2. Monocle(s, m) = t
    BY <1>3 DEF Monocle
  <2> HIDE DEF hidden
  <2>3. hidden \in StateType
    BY <2>1 DEF Reshown
  <2>4. /\ Reshown(hidden, t)
        /\ \A c \in Clients \cap D :
             Node(hidden.win[c], t.win[c], TRUE, hidden.win[c].layer)
        /\ \A c \in Clients \ D : t.win[c] = hidden.win[c]
    BY <2>3, EnableDoes, Zenon
  <2>5. \A c \in Clients : c \in D <=> c = Focustop(s, m)
    BY ConstantsAssumption
  <2> HIDE DEF D, t
  <2>6. Reshown(s, t)
    BY <2>1, <2>4 DEF Reshown, SameButShown
  <2>7. ASSUME NEW c \in Clients
        PROVE  /\ c = Focustop(s, m) => Node(s.win[c], t.win[c], TRUE, s.win[c].layer)
               /\ c \in Tileable(s, m) /\ c # Focustop(s, m) =>
                    Node(s.win[c], t.win[c], FALSE, s.win[c].layer)
               /\ c \notin Tileable(s, m) /\ c # Focustop(s, m) => t.win[c] = s.win[c]
    <3>1. CASE c = Focustop(s, m)
      <4>1. Node(hidden.win[c], t.win[c], TRUE, hidden.win[c].layer)
        BY <2>4, <2>5, <3>1
      <4>2. SameButShown(s.win[c], hidden.win[c]) /\ hidden.win[c].layer = s.win[c].layer
        BY <2>1 DEF Node, SameButShown
      <4> QED BY <3>1, <4>1, <4>2 DEF Node, SameButShown
    <3>2. CASE c # Focustop(s, m)
      <4>1. t.win[c] = hidden.win[c]
        BY <2>4, <2>5, <3>2
      <4> QED BY <2>1, <3>2, <4>1
    <3> QED BY <3>1, <3>2
  <2> QED BY <1>3, <2>2, <2>6, <2>7
<1> QED BY <1>2, <1>3

LEMMA RelayoutType ==
  ASSUME NEW s, Sound(s), NEW m \in Monitors, NEW leaves \in SUBSET Clients
  PROVE  Relayout(leaves, s, m) \in SUBSET Clients
<1>1. ToSet(s.clients) \subseteq Clients
  BY SoundFacts
<1> QED BY <1>1 DEF Relayout, Tileable

(* The tree that a redisplay leaves for tag t of output m.                  *)
Replanted(s, m, t) ==
  IF t = CurrentTag(s, m) /\ CurLayout(s, m) = "dwindle" /\ Tileable(s, m) # {}
  THEN Relayout(s.out[m].dwindle_tree[t], s, m) ELSE s.out[m].dwindle_tree[t]

LEMMA DwindleDoes ==
  ASSUME NEW s, Sound(s), NEW m \in Monitors
  PROVE  LET t == Dwindle(s, m) IN
         /\ t \in StateType
         /\ t.mons = s.mons /\ t.selmon = s.selmon /\ t.clients = s.clients /\ t.win = s.win
         /\ t.fstack = s.fstack /\ t.focus = s.focus /\ t.grab = s.grab
         /\ \A n \in Monitors : SameButTree(s.out[n], t.out[n]) /\ (n # m => t.out[n] = s.out[n])
         /\ Tileable(s, m) = {} => t.out[m] = s.out[m]
         /\ Tileable(s, m) # {} =>
              \A u \in Tags : t.out[m].dwindle_tree[u] =
                 IF u = CurrentTag(s, m) THEN Relayout(s.out[m].dwindle_tree[u], s, m)
                 ELSE s.out[m].dwindle_tree[u]
<1>1. s \in StateType
  BY DEF Sound
<1>2. CASE Tileable(s, m) = {}
  BY <1>1, <1>2 DEF Dwindle, SameButTree
<1>3. CASE Tileable(s, m) # {}
  <2> DEFINE k == CurrentTag(s, m)
             r == Relayout(s.out[m].dwindle_tree[k], s, m)
             tree == [s.out[m].dwindle_tree EXCEPT ![k] = r]
             o == [s.out EXCEPT ![m] = [s.out[m] EXCEPT !.dwindle_tree = tree]]
  <2>1. s.out \in [Monitors -> MonitorType] /\ s.out[m] \in MonitorType /\ k \in Tags
    BY <1>1, StateFields, CurrentTagType
  <2>2. s.out[m].dwindle_tree \in [Tags -> SUBSET Clients]
    BY <2>1 DEF MonitorType
  <2>3. r \in SUBSET Clients
    BY <2>1, <2>2, RelayoutType
  <2>4. Dwindle(s, m) = [s EXCEPT !.out = o]
    BY <1>1, <1>3 DEF Dwindle
  <2> HIDE DEF k, r
  <2>5. /\ tree \in [Tags -> SUBSET Clients]
        /\ \A u \in Tags : tree[u] = IF u = k THEN r ELSE s.out[m].dwindle_tree[u]
    BY <2>1, <2>2, <2>3
  <2> HIDE DEF tree
  <2>6. [s.out[m] EXCEPT !.dwindle_tree = tree] \in MonitorType
    BY <2>1, <2>5 DEF MonitorType
  <2>7. /\ o \in [Monitors -> MonitorType]
        /\ \A n \in Monitors : n # m => o[n] = s.out[n]
    BY <2>1, <2>6
  <2>8. o[m].dwindle_tree = tree /\ SameButTree(s.out[m], o[m])
    BY <2>1 DEF SameButTree, MonitorType
  <2> HIDE DEF o
  <2>9. \A n \in Monitors : SameButTree(s.out[n], o[n])
    BY <2>7, <2>8 DEF SameButTree
  <2> QED BY <1>1, <1>3, <2>4, <2>5, <2>7, <2>8, <2>9, WithOut DEF k, r
<1> QED BY <1>2, <1>3

LEMMA SameDeskRelayout ==
  ASSUME NEW s \in StateType, NEW t, SameDesk(s, t), NEW m \in Monitors, NEW leaves
  PROVE  Relayout(leaves, t, m) = Relayout(leaves, s, m)
<1>1. /\ Tileable(t, m) = Tileable(s, m) /\ t.clients = s.clients
      /\ \A c \in Clients : /\ VisibleOn(t, c, m) <=> VisibleOn(s, c, m)
                            /\ t.win[c].isfloating = s.win[c].isfloating
  BY SameDeskSets, SameDeskQueries DEF SameDesk, SameButShown
<1>2. \A c \in ToSet(s.clients) : c \in Clients
  BY StateFields DEF ToSet
<1> QED BY <1>1, <1>2 DEF Relayout

LEMMA RedrawnSound ==
  ASSUME NEW s, Sound(s), NEW t, NEW m, Redrawn(s, t, m)
  PROVE  Sound(t)
BY DEF Redrawn, SameDesk, Sound

LEMMA ReshownSound ==
  ASSUME NEW s, Sound(s), NEW t, Reshown(s, t)
  PROVE  Sound(t)
BY DEF Reshown, Sound

(* What a redisplay does to each window of the output and to its trees.     *)
Arranged(s, t, m) ==
  /\ \A c \in Clients :
       IF c \in ToSet(s.clients) /\ s.win[c].mon = m
       THEN Node(s.win[c], t.win[c], OnDisplay(s, c, m),
                 ArrangedLayer(s.win[c], CurLayout(s, m)))
       ELSE t.win[c] = s.win[c]
  /\ \A u \in Tags : t.out[m].dwindle_tree[u] = Replanted(s, m, u)

LEMMA ArrangeDoes ==
  ASSUME NEW s, Sound(s), NEW m \in Monitors
  PROVE  /\ Redrawn(s, Arrange(s, m), m)
         /\ Enabled(s, m) => Arranged(s, Arrange(s, m), m)
         /\ ~ Enabled(s, m) => Arrange(s, m) = s
<1>1. s \in StateType
  BY DEF Sound
<1>2. CASE ~ Enabled(s, m)
  BY <1>1, <1>2, RedrawnSelf DEF Arrange
<1>3. CASE Enabled(s, m)
  <2> DEFINE x == ShowTagged(s, m)
             l == CurLayout(s, m)
             t == RunLayout(x, m, l)
             V(c) == c \in ToSet(s.clients) /\ s.win[c].mon = m
  <2>1. Arrange(s, m) = t
    BY <1>3 DEF Arrange
  <2>2. Reshown(s, x) /\ \A c \in Clients :
           IF V(c) THEN Node(s.win[c], x.win[c], VisibleOn(s, c, m), ArrangedLayer(s.win[c], l))
           ELSE x.win[c] = s.win[c]
    <3>1. \A c \in Clients : s.win[c] \in WindowType
      BY <1>1, StateFields
    <3>2. /\ Reshown(s, x)
          /\ \A c \in Clients : x.win[c] =
               IF V(c) THEN [s.win[c] EXCEPT !.enabled = VisibleOn(s, c, m),
                                             !.layer = ArrangedLayer(s.win[c], l)]
               ELSE s.win[c]
      BY <1>1, ShowTaggedDoes, Zenon
    <3> HIDE DEF x, V, l
    <3>3. \A c \in Clients : V(c) =>
            Node(s.win[c], x.win[c], VisibleOn(s, c, m), ArrangedLayer(s.win[c], l))
      <4>1. \A c \in Clients : SameButShown(s.win[c], x.win[c])
        BY <3>2 DEF Reshown
      <4>2. \A c \in Clients : V(c) =>
              /\ x.win[c].enabled <=> VisibleOn(s, c, m)
              /\ x.win[c].layer = ArrangedLayer(s.win[c], l)
        BY <3>1, <3>2 DEF WindowType
      <4> QED BY <4>1, <4>2 DEF Node
    <3> QED BY <3>2, <3>3
  <2>3. Sound(x) /\ SameDesk(s, x)
    BY <1>1, <2>2, ReshownSound, ReshownDesk
  <2>4. /\ Tileable(x, m) = Tileable(s, m) /\ Focustop(x, m) = Focustop(s, m)
        /\ CurrentTag(x, m) = CurrentTag(s, m)
        /\ x.out = s.out
        /\ \A leaves : Relayout(leaves, x, m) = Relayout(leaves, s, m)
    <3>1. x.fstack = s.fstack /\ x.out = s.out
      BY <2>2 DEF Reshown
    <3> QED BY <1>1, <2>3, <3>1, SameDeskSets, SameDeskQueries, SameDeskRelayout
  <2> HIDE DEF x, l
  <2>5. CASE l = "dwindle"
    <3>1. t = Dwindle(x, m)
      BY <2>5 DEF RunLayout
    <3>2. /\ t \in StateType
          /\ t.mons = x.mons /\ t.selmon = x.selmon /\ t.clients = x.clients /\ t.win = x.win
          /\ t.fstack = x.fstack /\ t.focus = x.focus /\ t.grab = x.grab
          /\ \A n \in Monitors : SameButTree(x.out[n], t.out[n]) /\ (n # m => t.out[n] = x.out[n])
          /\ Tileable(x, m) = {} => t.out[m] = x.out[m]
          /\ Tileable(x, m) # {} =>
               \A u \in Tags : t.out[m].dwindle_tree[u] =
                  IF u = CurrentTag(x, m) THEN Relayout(x.out[m].dwindle_tree[u], x, m)
                  ELSE x.out[m].dwindle_tree[u]
      BY <2>3, <3>1, DwindleDoes
    <3> HIDE DEF t
    <3>3. Redrawn(s, t, m)
      <4>1. /\ t.mons = s.mons /\ t.selmon = s.selmon /\ t.clients = s.clients
            /\ t.fstack = s.fstack /\ t.focus = s.focus /\ t.grab = s.grab
        BY <2>2, <3>2 DEF Reshown
      <4>2. \A n \in Monitors : SameButTree(s.out[n], t.out[n]) /\ (n # m => t.out[n] = s.out[n])
        BY <2>4, <3>2
      <4>3. \A c \in Clients : SameButShown(s.win[c], t.win[c]) /\ (s.win[c].mon # m => t.win[c] = s.win[c])
        BY <2>2, <3>2 DEF Reshown
      <4> QED BY <3>2, <4>1, <4>2, <4>3 DEF Redrawn, SameDesk
    <3>4. \A c \in Clients : OnDisplay(s, c, m) <=> VisibleOn(s, c, m)
      BY <2>5 DEF OnDisplay, l
    <3>5. \A c \in Clients :
            IF V(c) THEN Node(s.win[c], t.win[c], OnDisplay(s, c, m), ArrangedLayer(s.win[c], l))
            ELSE t.win[c] = s.win[c]
      BY <2>2, <3>2, <3>4 DEF Node
    <3>6. \A u \in Tags : t.out[m].dwindle_tree[u] = Replanted(s, m, u)
      BY <2>4, <2>5, <3>2 DEF Replanted, l
    <3> QED BY <1>3, <2>1, <3>3, <3>5, <3>6 DEF Arranged, l, t
  <2>6. CASE l = "monocle"
    <3>1. t = Monocle(x, m)
      BY <2>6 DEF RunLayout
    <3>2. /\ Reshown(x, t)
          /\ \A c \in Clients :
               /\ Tileable(s, m) # {} /\ c = Focustop(s, m) =>
                    Node(x.win[c], t.win[c], TRUE, x.win[c].layer)
               /\ c \in Tileable(s, m) /\ c # Focustop(s, m) =>
                    Node(x.win[c], t.win[c], FALSE, x.win[c].layer)
               /\ c \notin Tileable(s, m) /\ c # Focustop(s, m) => t.win[c] = x.win[c]
               /\ Tileable(s, m) = {} => t.win[c] = x.win[c]
      BY <2>3, <2>4, <3>1, MonocleDoes
    <3> HIDE DEF t
    <3>3. Reshown(s, t)
      BY <2>2, <3>2 DEF Reshown, SameButShown
    <3>4. \A c \in Tileable(s, m) \cup ({Focustop(s, m)} \ {NoClient}) : V(c) /\ VisibleOn(s, c, m)
      BY FocustopIs DEF Tileable, VisibleOn, Shows
    <3>5. ASSUME NEW c \in Clients, V(c)
          PROVE  Node(s.win[c], t.win[c], OnDisplay(s, c, m), ArrangedLayer(s.win[c], l))
      <4>1. Node(s.win[c], x.win[c], VisibleOn(s, c, m), ArrangedLayer(s.win[c], l))
        BY <2>2, <3>5
      <4>2. OnDisplay(s, c, m) <=> VisibleOn(s, c, m) /\ (c \in Tileable(s, m) => c = Focustop(s, m))
        BY <2>6 DEF OnDisplay, l
      <4>3. c # NoClient
        BY ConstantsAssumption
      <4>4. CASE Tileable(s, m) # {} /\ c = Focustop(s, m)
        <5>1. OnDisplay(s, c, m) = TRUE
          BY <3>4, <4>2, <4>3, <4>4 DEF OnDisplay
        <5>2. Node(x.win[c], t.win[c], TRUE, x.win[c].layer)
          BY <3>2, <4>4
        <5> QED BY <4>1, <5>1, <5>2 DEF Node, SameButShown
      <4>5. CASE c \in Tileable(s, m) /\ c # Focustop(s, m)
        <5>1. OnDisplay(s, c, m) = FALSE
          BY <4>2, <4>5 DEF OnDisplay
        <5>2. Node(x.win[c], t.win[c], FALSE, x.win[c].layer)
          BY <3>2, <4>5
        <5> QED BY <4>1, <5>1, <5>2 DEF Node, SameButShown
      <4>6. CASE Tileable(s, m) = {} \/ (c \notin Tileable(s, m) /\ c # Focustop(s, m))
        <5>1. t.win[c] = x.win[c]
          BY <3>2, <4>6
        <5>2. OnDisplay(s, c, m) <=> VisibleOn(s, c, m)
          BY <4>2, <4>6
        <5> QED BY <4>1, <5>1, <5>2 DEF Node
      <4> QED BY <4>4, <4>5, <4>6
    <3>6. ASSUME NEW c \in Clients, ~ V(c)
          PROVE  t.win[c] = s.win[c]
      <4>1. c \notin Tileable(s, m) /\ c # Focustop(s, m)
        BY <3>4, <3>6, ConstantsAssumption
      <4> QED BY <2>2, <3>2, <3>6, <4>1
    <3>7. Redrawn(s, t, m)
      <4>1. SameDesk(s, t)
        BY <1>1, <3>3, ReshownDesk
      <4>2. \A c \in Clients : s.win[c].mon # m => t.win[c] = s.win[c]
        BY <3>6
      <4> QED BY <3>3, <4>1, <4>2 DEF Redrawn, Reshown
    <3>8. \A u \in Tags : t.out[m].dwindle_tree[u] = Replanted(s, m, u)
      BY <2>6, <3>3 DEF Replanted, l, Reshown
    <3> QED BY <1>3, <2>1, <3>5, <3>6, <3>7, <3>8 DEF Arranged, l, t
  <2>7. CASE l # "dwindle" /\ l # "monocle"
    <3>1. t = x
      BY <2>7 DEF RunLayout
    <3> HIDE DEF t
    <3>2. Redrawn(s, t, m)
      <4>1. \A c \in Clients : s.win[c].mon # m => t.win[c] = s.win[c]
        BY <2>2, <3>1
      <4> QED BY <2>2, <2>3, <3>1, <4>1 DEF Redrawn, Reshown
    <3>3. \A c \in Clients : OnDisplay(s, c, m) <=> VisibleOn(s, c, m)
      BY <2>7 DEF OnDisplay, l
    <3>4. \A c \in Clients :
            IF V(c) THEN Node(s.win[c], t.win[c], OnDisplay(s, c, m), ArrangedLayer(s.win[c], l))
            ELSE t.win[c] = s.win[c]
      BY <2>2, <3>1, <3>3 DEF Node
    <3>5. \A u \in Tags : t.out[m].dwindle_tree[u] = Replanted(s, m, u)
      BY <2>4, <2>7, <3>1 DEF Replanted, l
    <3> QED BY <1>3, <2>1, <3>2, <3>4, <3>5 DEF Arranged, l, t
  <2> QED BY <2>5, <2>6, <2>7
<1> QED BY <1>2, <1>3

(* The display of an output is as arrange() leaves it.                      *)
Shown(s, m) ==
  \A c \in ToSet(s.clients) : s.win[c].mon = m => (s.win[c].enabled <=> OnDisplay(s, c, m))

Planted(s, m) ==
  CurLayout(s, m) = "dwindle" /\ Tileable(s, m) # {} =>
    /\ Tileable(s, m) \subseteq s.out[m].dwindle_tree[CurrentTag(s, m)]
    /\ \A c \in s.out[m].dwindle_tree[CurrentTag(s, m)] :
         c \in ToSet(s.clients) /\ VisibleOn(s, c, m) /\ ~ s.win[c].isfloating

Layered(s, m) ==
  \A c \in ToSet(s.clients) : s.win[c].mon = m =>
    s.win[c].layer = ArrangedLayer(s.win[c], CurLayout(s, m))

Scene(s, m) == Enabled(s, m) => Shown(s, m) /\ Planted(s, m) /\ Layered(s, m)

LEMMA RedrawnQueries ==
  ASSUME NEW s, Sound(s), NEW t, NEW m, Redrawn(s, t, m), NEW n \in Monitors
  PROVE  /\ Focustop(t, n) = Focustop(s, n)
         /\ CurTags(t, n) = CurTags(s, n) /\ CurLayout(t, n) = CurLayout(s, n)
         /\ CurrentTag(t, n) = CurrentTag(s, n)
         /\ Enabled(t, n) <=> Enabled(s, n)
         /\ InLayout(t, n) <=> InLayout(s, n)
         /\ Tileable(t, n) = Tileable(s, n)
         /\ \A c \in Clients : VisibleOn(t, c, n) <=> VisibleOn(s, c, n)
         /\ \A c \in Clients : OnDisplay(t, c, n) <=> OnDisplay(s, c, n)
<1>1. s \in StateType /\ SameDesk(s, t) /\ t.fstack = s.fstack
  BY DEF Redrawn, Sound
<1>2. /\ Focustop(t, n) = Focustop(s, n) /\ Tileable(t, n) = Tileable(s, n)
      /\ CurTags(t, n) = CurTags(s, n) /\ CurLayout(t, n) = CurLayout(s, n)
      /\ CurrentTag(t, n) = CurrentTag(s, n)
      /\ Enabled(t, n) <=> Enabled(s, n)
      /\ InLayout(t, n) <=> InLayout(s, n)
      /\ \A c \in Clients : VisibleOn(t, c, n) <=> VisibleOn(s, c, n)
  BY <1>1, SameDeskQueries, SameDeskSets
<1>3. \A c \in Clients : OnDisplay(t, c, n) <=> OnDisplay(s, c, n)
  BY <1>2 DEF OnDisplay
<1> QED BY <1>2, <1>3

(* A redisplay finds nothing to do in the layer it has chosen.              *)
LEMMA LayerSettles ==
  ASSUME NEW w, NEW v, NEW layout, SameButShown(w, v), v.layer = ArrangedLayer(w, layout)
  PROVE  v.layer = ArrangedLayer(v, layout)
BY DEF SameButShown, ArrangedLayer

LEMMA ArrangeScene ==
  ASSUME NEW s, Sound(s), NEW m \in Monitors
  PROVE  Scene(Arrange(s, m), m)
<1> DEFINE t == Arrange(s, m)
<1>1. /\ Redrawn(s, t, m)
      /\ Enabled(s, m) => Arranged(s, t, m)
      /\ ~ Enabled(s, m) => t = s
  BY ArrangeDoes
<1> HIDE DEF t
<1>2. CASE ~ Enabled(s, m)
  BY <1>1, <1>2 DEF Scene, t
<1>3. CASE Enabled(s, m)
  <2>1. t.clients = s.clients /\ \A c \in Clients : SameButShown(s.win[c], t.win[c])
    BY <1>1 DEF Redrawn, SameDesk
  <2>2. Shown(t, m)
    <3>1. \A c \in ToSet(s.clients) : s.win[c].mon = m => (t.win[c].enabled <=> OnDisplay(s, c, m))
      BY <1>1, <1>3, SoundFacts DEF Arranged, Node
    <3>2. \A c \in Clients : OnDisplay(t, c, m) <=> OnDisplay(s, c, m)
      BY <1>1, RedrawnQueries
    <3> QED BY <2>1, <3>1, <3>2, SoundFacts DEF Shown, SameButShown
  <2>3. Planted(t, m)
    <3>1. /\ CurrentTag(t, m) = CurrentTag(s, m) /\ CurLayout(t, m) = CurLayout(s, m)
          /\ Tileable(t, m) = Tileable(s, m) /\ CurrentTag(s, m) \in Tags
          /\ \A c \in Clients : VisibleOn(t, c, m) <=> VisibleOn(s, c, m)
      BY <1>1, RedrawnQueries, CurrentTagType DEF Sound
    <3> DEFINE u == CurrentTag(s, m)
    <3> SUFFICES ASSUME CurLayout(s, m) = "dwindle", Tileable(s, m) # {}
                 PROVE  /\ Tileable(s, m) \subseteq t.out[m].dwindle_tree[u]
                        /\ \A c \in t.out[m].dwindle_tree[u] :
                             c \in ToSet(t.clients) /\ VisibleOn(t, c, m) /\ ~ t.win[c].isfloating
      BY <3>1 DEF Planted
    <3>2. t.out[m].dwindle_tree[u] = Relayout(s.out[m].dwindle_tree[u], s, m)
      BY <1>1, <1>3, <3>1 DEF Arranged, Replanted
    <3>3. Tileable(s, m) \subseteq Relayout(s.out[m].dwindle_tree[u], s, m)
      BY DEF Relayout
    <3>4. \A c \in Relayout(s.out[m].dwindle_tree[u], s, m) :
            c \in ToSet(s.clients) /\ VisibleOn(s, c, m) /\ ~ s.win[c].isfloating
      BY DEF Relayout, Tileable, VisibleOn
    <3> QED BY <2>1, <3>1, <3>2, <3>3, <3>4, SoundFacts DEF SameButShown
  <2>4. Layered(t, m)
    <3>1. \A c \in ToSet(s.clients) : s.win[c].mon = m =>
            /\ s.win[c] \in WindowType
            /\ Node(s.win[c], t.win[c], OnDisplay(s, c, m), ArrangedLayer(s.win[c], CurLayout(s, m)))
      BY <1>1, <1>3, SoundFacts, StateFields DEF Arranged
    <3>2. CurLayout(t, m) = CurLayout(s, m)
      BY <1>1, RedrawnQueries
    <3>3. \A c \in ToSet(s.clients) : t.win[c].mon = s.win[c].mon
      BY <2>1, SoundFacts DEF SameButShown
    <3> SUFFICES ASSUME NEW c \in ToSet(s.clients), s.win[c].mon = m
                 PROVE  t.win[c].layer = ArrangedLayer(t.win[c], CurLayout(s, m))
      BY <2>1, <3>2, <3>3 DEF Layered
    <3> QED BY <3>1, LayerSettles DEF Node
  <2> QED BY <2>2, <2>3, <2>4 DEF Scene, t
<1> QED BY <1>2, <1>3

On(s, c, n) == c \in ToSet(s.clients) /\ s.win[c].mon = n

(* Output n looks the same in t as in s.                                    *)
SameView(s, t, n) ==
  /\ t.out[n] = s.out[n]
  /\ Focustop(t, n) = Focustop(s, n)
  /\ \A c \in Clients : On(t, c, n) <=> On(s, c, n)
  /\ \A c \in Clients : On(s, c, n) => t.win[c] = s.win[c]

LEMMA SameViewTrans ==
  ASSUME NEW s, NEW t, NEW u, NEW n, SameView(s, t, n), SameView(t, u, n)
  PROVE  SameView(s, u, n)
BY DEF SameView

(* Output n holds the same windows in t as in s, whichever is on top.       *)
Alike(s, t, n) ==
  /\ t.out[n] = s.out[n]
  /\ \A c \in Clients : On(t, c, n) <=> On(s, c, n)
  /\ \A c \in Clients : On(s, c, n) => t.win[c] = s.win[c]

LEMMA SameViewAlike ==
  ASSUME NEW s, NEW t, NEW n, SameView(s, t, n)
  PROVE  Alike(s, t, n)
BY DEF SameView, Alike

LEMMA AlikeQueries ==
  ASSUME NEW s, Sound(s), NEW t, Sound(t), NEW n \in Monitors, Alike(s, t, n)
  PROVE  /\ CurTags(t, n) = CurTags(s, n) /\ CurLayout(t, n) = CurLayout(s, n)
         /\ CurrentTag(t, n) = CurrentTag(s, n)
         /\ Enabled(t, n) <=> Enabled(s, n)
         /\ InLayout(t, n) <=> InLayout(s, n)
         /\ \A c \in Clients : On(s, c, n) => (VisibleOn(t, c, n) <=> VisibleOn(s, c, n))
         /\ Tileable(t, n) = Tileable(s, n)
<1>1. SameButTree(s.out[n], t.out[n])
  BY DEF Alike, SameButTree
<1>2. /\ CurTags(t, n) = CurTags(s, n) /\ CurLayout(t, n) = CurLayout(s, n)
      /\ CurrentTag(t, n) = CurrentTag(s, n)
      /\ Enabled(t, n) <=> Enabled(s, n)
      /\ InLayout(t, n) <=> InLayout(s, n)
  BY <1>1, SameOutQueries
<1>3. \A c \in Clients : On(s, c, n) => (VisibleOn(t, c, n) <=> VisibleOn(s, c, n))
  BY <1>2 DEF Alike, VisibleOn, Shows
<1>4. Tileable(t, n) = Tileable(s, n)
  <2>1. ToSet(s.clients) \subseteq Clients /\ ToSet(t.clients) \subseteq Clients
    BY SoundFacts
  <2>2. Tileable(s, n) = {c \in Clients : On(s, c, n) /\ c \in Tileable(s, n)}
    BY <2>1 DEF Tileable, On, VisibleOn, Shows
  <2>3. Tileable(t, n) = {c \in Clients : On(t, c, n) /\ c \in Tileable(t, n)}
    BY <2>1 DEF Tileable, On, VisibleOn, Shows
  <2>4. \A c \in Clients : On(s, c, n) => (c \in Tileable(s, n) <=> c \in Tileable(t, n))
    BY <1>3 DEF Alike, Tileable, VisibleOn, On
  <2> QED BY <2>2, <2>3, <2>4 DEF Alike
<1> QED BY <1>2, <1>3, <1>4

LEMMA SameViewQueries ==
  ASSUME NEW s, Sound(s), NEW t, Sound(t), NEW n \in Monitors, SameView(s, t, n)
  PROVE  /\ Focustop(t, n) = Focustop(s, n)
         /\ CurTags(t, n) = CurTags(s, n) /\ CurLayout(t, n) = CurLayout(s, n)
         /\ CurrentTag(t, n) = CurrentTag(s, n)
         /\ Enabled(t, n) <=> Enabled(s, n)
         /\ InLayout(t, n) <=> InLayout(s, n)
         /\ \A c \in Clients : On(s, c, n) => (VisibleOn(t, c, n) <=> VisibleOn(s, c, n))
         /\ Tileable(t, n) = Tileable(s, n)
         /\ \A c \in Clients : On(s, c, n) => (OnDisplay(t, c, n) <=> OnDisplay(s, c, n))
<1>1. Alike(s, t, n) /\ Focustop(t, n) = Focustop(s, n)
  BY SameViewAlike DEF SameView
<1>2. /\ CurTags(t, n) = CurTags(s, n) /\ CurLayout(t, n) = CurLayout(s, n)
      /\ CurrentTag(t, n) = CurrentTag(s, n)
      /\ Enabled(t, n) <=> Enabled(s, n)
      /\ InLayout(t, n) <=> InLayout(s, n)
      /\ \A c \in Clients : On(s, c, n) => (VisibleOn(t, c, n) <=> VisibleOn(s, c, n))
      /\ Tileable(t, n) = Tileable(s, n)
  BY <1>1, AlikeQueries
<1> QED BY <1>1, <1>2 DEF OnDisplay

LEMMA AlikePlanted ==
  ASSUME NEW s, Sound(s), NEW t, Sound(t), NEW n \in Monitors, Alike(s, t, n), Planted(s, n)
  PROVE  Planted(t, n)
<1>1. /\ CurLayout(t, n) = CurLayout(s, n) /\ CurrentTag(t, n) = CurrentTag(s, n)
      /\ \A c \in Clients : On(s, c, n) => (VisibleOn(t, c, n) <=> VisibleOn(s, c, n))
      /\ Tileable(t, n) = Tileable(s, n)
  BY AlikeQueries
<1>2. /\ t.out[n] = s.out[n]
      /\ \A c \in Clients : On(t, c, n) <=> On(s, c, n)
      /\ \A c \in Clients : On(s, c, n) => t.win[c] = s.win[c]
  BY DEF Alike
<1>3. ToSet(s.clients) \subseteq Clients
  BY SoundFacts
<1> SUFFICES ASSUME CurLayout(s, n) = "dwindle", Tileable(s, n) # {},
                    NEW c \in s.out[n].dwindle_tree[CurrentTag(s, n)]
             PROVE  /\ Tileable(s, n) \subseteq s.out[n].dwindle_tree[CurrentTag(s, n)]
                    /\ c \in ToSet(t.clients) /\ VisibleOn(t, c, n) /\ ~ t.win[c].isfloating
  BY <1>1, <1>2 DEF Planted
<1>4. On(s, c, n) /\ VisibleOn(s, c, n) /\ ~ s.win[c].isfloating /\ c \in Clients
  BY <1>3 DEF Planted, On, VisibleOn, Shows
<1> QED BY <1>1, <1>2, <1>4 DEF Planted, On

LEMMA AlikeLayered ==
  ASSUME NEW s, Sound(s), NEW t, Sound(t), NEW n \in Monitors, Alike(s, t, n), Layered(s, n)
  PROVE  Layered(t, n)
<1>1. CurLayout(t, n) = CurLayout(s, n)
  BY AlikeQueries
<1>2. ToSet(t.clients) \subseteq Clients
  BY SoundFacts
<1> QED BY <1>1, <1>2 DEF Layered, Alike, On

LEMMA SameViewScene ==
  ASSUME NEW s, Sound(s), NEW t, Sound(t), NEW n \in Monitors, SameView(s, t, n), Scene(s, n)
  PROVE  Scene(t, n)
<1>1. /\ Enabled(t, n) <=> Enabled(s, n)
      /\ \A c \in Clients : On(s, c, n) => (OnDisplay(t, c, n) <=> OnDisplay(s, c, n))
  BY SameViewQueries
<1>2. /\ \A c \in Clients : On(t, c, n) <=> On(s, c, n)
      /\ \A c \in Clients : On(s, c, n) => t.win[c] = s.win[c]
  BY DEF SameView
<1>3. ToSet(s.clients) \subseteq Clients /\ ToSet(t.clients) \subseteq Clients
  BY SoundFacts
<1>4. Shown(s, n) => Shown(t, n)
  BY <1>1, <1>2, <1>3 DEF Shown, On
<1>5. Planted(s, n) => Planted(t, n)
  BY SameViewAlike, AlikePlanted
<1>6. Layered(s, n) => Layered(t, n)
  BY SameViewAlike, AlikeLayered
<1> QED BY <1>1, <1>4, <1>5, <1>6 DEF Scene

LEMMA ArrangeView ==
  ASSUME NEW s, Sound(s), NEW m \in Monitors, NEW n \in Monitors, n # m
  PROVE  SameView(s, Arrange(s, m), n)
<1>1. Redrawn(s, Arrange(s, m), m)
  BY ArrangeDoes
<1>2. Focustop(Arrange(s, m), n) = Focustop(s, n)
  BY <1>1, RedrawnQueries
<1>3. ToSet(s.clients) \subseteq Clients
  BY SoundFacts
<1> QED BY <1>1, <1>2, <1>3 DEF SameView, Redrawn, SameDesk, SameButShown, On

(* What a lit output shows when the focus has moved since its last arrange():*)
(* one of the windows that monocle stacks, or none, need not be on top.     *)
Stacked(s, c, m) == CurLayout(s, m) = "monocle" /\ c \in Tileable(s, m)

LaxShown(s, m) ==
  /\ \A c \in ToSet(s.clients) : s.win[c].mon = m =>
       /\ s.win[c].enabled => VisibleOn(s, c, m)
       /\ VisibleOn(s, c, m) => s.win[c].enabled \/ Stacked(s, c, m)
  /\ \A c, d \in ToSet(s.clients) :
       /\ Stacked(s, c, m) /\ s.win[c].enabled
       /\ Stacked(s, d, m) /\ s.win[d].enabled
       => c = d

LaxScene(s, m) == Enabled(s, m) => LaxShown(s, m) /\ Planted(s, m) /\ Layered(s, m)

LEMMA SceneLax ==
  ASSUME NEW s, NEW m, Scene(s, m)
  PROVE  LaxScene(s, m)
<1> SUFFICES ASSUME Enabled(s, m), Shown(s, m) PROVE LaxShown(s, m)
  BY DEF Scene, LaxScene
<1>1. \A c \in ToSet(s.clients) : Stacked(s, c, m) => s.win[c].mon = m
  BY DEF Stacked, Tileable, Shows
<1> QED BY <1>1 DEF Shown, LaxShown, OnDisplay, Stacked

LEMMA AlikeLax ==
  ASSUME NEW s, Sound(s), NEW t, Sound(t), NEW n \in Monitors, Alike(s, t, n), LaxScene(s, n)
  PROVE  LaxScene(t, n)
<1>1. /\ Enabled(t, n) <=> Enabled(s, n)
      /\ CurLayout(t, n) = CurLayout(s, n)
      /\ \A c \in Clients : On(s, c, n) => (VisibleOn(t, c, n) <=> VisibleOn(s, c, n))
      /\ Tileable(t, n) = Tileable(s, n)
  BY AlikeQueries
<1>2. /\ \A c \in Clients : On(t, c, n) <=> On(s, c, n)
      /\ \A c \in Clients : On(s, c, n) => t.win[c] = s.win[c]
  BY DEF Alike
<1>3. ToSet(s.clients) \subseteq Clients /\ ToSet(t.clients) \subseteq Clients
  BY SoundFacts
<1>4. \A c \in Clients : Stacked(t, c, n) <=> Stacked(s, c, n)
  BY <1>1 DEF Stacked
<1>5. \A c \in Clients : Stacked(s, c, n) => On(s, c, n)
  BY DEF Stacked, Tileable, Shows, On
<1>6. LaxShown(s, n) => LaxShown(t, n)
  BY <1>1, <1>2, <1>3, <1>4, <1>5 DEF LaxShown, On
<1>7. Planted(s, n) => Planted(t, n)
  BY AlikePlanted
<1>8. Layered(s, n) => Layered(t, n)
  BY AlikeLayered
<1> QED BY <1>1, <1>6, <1>7, <1>8 DEF LaxScene

-----------------------------------------------------------------------------
(* Focus                                                                   *)

(* t is s with the focus on c, or nowhere.                                  *)
Refocused(s, t, c) ==
  /\ t \in StateType
  /\ t.mons = s.mons /\ t.out = s.out /\ t.clients = s.clients /\ t.win = s.win
  /\ t.grab = s.grab /\ t.focus = c
  /\ Lists(t.fstack, ToSet(t.clients))
  /\ t.selmon = IF c = NoClient \/ c = s.focus THEN s.selmon ELSE s.win[c].mon

LEMMA FocusClientDoes ==
  ASSUME NEW s, Sound(s), NEW c \in ToSet(s.clients) \cup {NoClient}
  PROVE  /\ Refocused(s, FocusClient(s, c), c)
         /\ Sound(FocusClient(s, c))
         /\ \A m \in Monitors :
              Focustop(FocusClient(s, c), m) =
                IF c # NoClient /\ c # s.focus /\ VisibleOn(s, c, m) THEN c ELSE Focustop(s, m)
<1> DEFINE t == FocusClient(s, c)
<1>1. /\ s \in StateType /\ ToSet(s.clients) \subseteq Clients
      /\ ToSet(s.fstack) = ToSet(s.clients) /\ s.fstack \in Seq(Clients)
      /\ Lists(s.clients, ToSet(s.clients)) /\ Lists(s.fstack, ToSet(s.clients))
  BY SoundFacts DEF Sound
<1>2. CASE c = NoClient
  <2>1. t = [s EXCEPT !.focus = NoClient]
    BY <1>2 DEF FocusClient
  <2>2. /\ t \in StateType
        /\ t.mons = s.mons /\ t.out = s.out /\ t.clients = s.clients /\ t.win = s.win
        /\ t.grab = s.grab /\ t.focus = c /\ t.fstack = s.fstack /\ t.selmon = s.selmon
    BY <1>1, <1>2, <2>1 DEF StateType
  <2>3. \A m \in Monitors : Focustop(t, m) = Focustop(s, m)
    BY <2>2 DEF Focustop, VisibleOn, Shows, CurTags
  <2> QED BY <1>1, <1>2, <2>2, <2>3 DEF Refocused, Sound
<1>3. CASE c # NoClient /\ c = s.focus
  BY <1>1, <1>3 DEF FocusClient, Refocused, Sound
<1>4. CASE c # NoClient /\ c # s.focus
  <2> DEFINE q == <<c>> \o Without(s.fstack, c)
  <2>0. c \in Clients /\ c \in ToSet(s.clients)
    BY <1>1, <1>4
  <2>1. t = [s EXCEPT !.fstack = q, !.selmon = s.win[c].mon, !.focus = c]
    BY <1>4 DEF FocusClient
  <2>2. Lists(q, ToSet(s.clients)) /\ q[1] = c
    BY <1>1, <2>0, MovedFirst
  <2> HIDE DEF q
  <2>3. q \in Seq(Clients) /\ s.win[c].mon \in Monitors \cup {NoMon}
    <3>1. q \in Seq(ToSet(s.clients))
      BY <2>2 DEF Lists
    <3>2. s.win[c] \in WindowType
      BY <1>1, <2>0, StateFields
    <3> QED BY <1>1, <3>1, <3>2 DEF WindowType
  <2>4. /\ t \in StateType
        /\ t.mons = s.mons /\ t.out = s.out /\ t.clients = s.clients /\ t.win = s.win
        /\ t.grab = s.grab /\ t.focus = c /\ t.fstack = q /\ t.selmon = s.win[c].mon
    BY <1>1, <2>0, <2>1, <2>3 DEF StateType
  <2>5. Refocused(s, t, c) /\ Sound(t)
    BY <1>1, <1>4, <2>2, <2>4 DEF Refocused, Sound
  <2>6. ASSUME NEW m \in Monitors
        PROVE  Focustop(t, m) = IF VisibleOn(s, c, m) THEN c ELSE Focustop(s, m)
    <3> DEFINE X == {d \in Clients : VisibleOn(s, d, m)}
    <3>1. Focustop(t, m) = FirstOf(q, X, NoClient) /\ Focustop(s, m) = FirstOf(s.fstack, X, NoClient)
      BY <2>4 DEF Focustop, VisibleOn, Shows, CurTags
    <3>2. c \in X <=> VisibleOn(s, c, m)
      BY <2>0
    <3> HIDE DEF X
    <3>3. CASE c \in X
      <4>1. q # <<>>
        <5>1. ToSet(q) = ToSet(s.clients)
          BY <2>2 DEF Lists
        <5>2. ToSet(<<>>) = {}
          BY DEF ToSet
        <5> QED BY <2>0, <5>1, <5>2
      <4>2. FirstOf(q, X, NoClient) = c
        BY <2>2, <2>3, <3>3, <4>1, HeadFound
      <4> QED BY <3>1, <3>2, <3>3, <4>2
    <3>4. CASE c \notin X
      <4>1. FirstOf(q, X, NoClient) = FirstOf(s.fstack, X, NoClient)
        BY <1>1, <2>0, <3>4, MovePassedOver DEF q
      <4> QED BY <3>1, <3>2, <3>4, <4>1
    <3> QED BY <3>3, <3>4
  <2> QED BY <1>4, <2>5, <2>6
<1> QED BY <1>2, <1>3, <1>4

LEMMA FocusTopOfDoes ==
  ASSUME NEW s, Sound(s), NEW m \in Monitors \cup {NoMon}
  PROVE  /\ Refocused(s, FocusTopOf(s, m), Focustop(s, m))
         /\ Sound(FocusTopOf(s, m))
         /\ \A n \in Monitors : Focustop(FocusTopOf(s, m), n) = Focustop(s, n)
         /\ FocusTopOf(s, m).selmon \in {s.selmon, m}
<1> DEFINE c == Focustop(s, m)
           t == FocusTopOf(s, m)
<1>1. \/ c = NoClient
      \/ /\ c \in ToSet(s.clients) /\ c \in Clients /\ c # NoClient
         /\ VisibleOn(s, c, m) /\ s.win[c].mon = m
  BY FocustopIs
<1>2. t = FocusClient(s, c)
  BY DEF FocusTopOf
<1> HIDE DEF t, c
<1>3. /\ Refocused(s, t, c) /\ Sound(t)
      /\ \A n \in Monitors : Focustop(t, n) =
           IF c # NoClient /\ c # s.focus /\ VisibleOn(s, c, n) THEN c ELSE Focustop(s, n)
  BY <1>1, <1>2, FocusClientDoes
<1>4. ASSUME NEW n \in Monitors PROVE Focustop(t, n) = Focustop(s, n)
  <2>1. CASE c # NoClient /\ VisibleOn(s, c, n)
    <3>1. n = m
      BY <1>1, <2>1 DEF VisibleOn, Shows
    <3> QED BY <1>3, <3>1 DEF c
  <2>2. CASE ~ (c # NoClient /\ VisibleOn(s, c, n))
    BY <1>3, <2>2
  <2> QED BY <2>1, <2>2
<1>5. t.selmon \in {s.selmon, m}
  BY <1>1, <1>3 DEF Refocused
<1> QED BY <1>3, <1>4, <1>5 DEF c, t

-----------------------------------------------------------------------------
(* Changing a window                                                       *)

LEMMA FirstAlike ==
  ASSUME NEW S, NEW q \in Seq(S), NEW X, NEW Y, ToSet(q) \cap X = ToSet(q) \cap Y, NEW none
  PROVE  FirstOf(q, X, none) = FirstOf(q, Y, none)
<1>1. DOMAIN q = 1 .. Len(q) /\ Len(q) \in Nat
  OBVIOUS
<1>2. \A i \in DOMAIN q : q[i] \in X <=> q[i] \in Y
  BY DEF ToSet
<1> DEFINE I(Z) == {i \in DOMAIN q : q[i] \in Z /\ \A j \in 1 .. i - 1 : q[j] \notin Z}
           pick(J) == IF J = {} THEN none ELSE q[CHOOSE i \in J : TRUE]
<1>3. I(X) = I(Y)
  BY <1>1, <1>2
<1>4. FirstOf(q, X, none) = pick(I(X)) /\ FirstOf(q, Y, none) = pick(I(Y))
  BY DEF FirstOf
<1> HIDE DEF I, pick
<1> QED BY <1>3, <1>4

(* What is enough for an output to look the same.                           *)
LEMMA SameViewIf ==
  ASSUME NEW s, Sound(s), NEW t, NEW n \in Monitors,
         t.clients = s.clients, t.fstack = s.fstack, t.out[n] = s.out[n],
         \A c \in ToSet(s.clients) : s.win[c].mon = n \/ t.win[c].mon = n => t.win[c] = s.win[c]
  PROVE  SameView(s, t, n)
<1>1. s.fstack \in Seq(Clients) /\ ToSet(s.fstack) = ToSet(s.clients)
  BY SoundFacts
<1>2. CurTags(t, n) = CurTags(s, n)
  BY DEF CurTags
<1>3. \A c \in ToSet(s.clients) : VisibleOn(t, c, n) <=> VisibleOn(s, c, n)
  BY <1>2 DEF VisibleOn, Shows
<1>4. ToSet(s.fstack) \cap {c \in Clients : VisibleOn(t, c, n)}
      = ToSet(s.fstack) \cap {c \in Clients : VisibleOn(s, c, n)}
  BY <1>1, <1>3
<1>5. Focustop(t, n) = Focustop(s, n)
  BY <1>1, <1>4, FirstAlike DEF Focustop
<1> QED BY <1>5 DEF SameView, On

(* t is s with window c changed and some outputs redisplayed.               *)
Changed(s, t, c) ==
  /\ Sound(t)
  /\ t.mons = s.mons /\ t.clients = s.clients /\ t.grab = s.grab /\ t.selmon = s.selmon
  /\ \A n \in Monitors : SameButTree(s.out[n], t.out[n])
  /\ \A d \in Clients : d # c => SameButShown(s.win[d], t.win[d])
  /\ \A d \in Clients : d \notin ToSet(s.clients) \/ (d # c /\ s.win[d].mon = NoMon) =>
       t.win[d].enabled = s.win[d].enabled
  /\ t.win[c].status = s.win[c].status /\ t.win[c].isscratchpad = s.win[c].isscratchpad

LEMMA ChangedTrans ==
  ASSUME NEW s, NEW t, NEW u, NEW c, Changed(s, t, c), Changed(t, u, c)
  PROVE  Changed(s, u, c)
BY DEF Changed, SameButTree, SameButShown

LEMMA ArrangeChanges ==
  ASSUME NEW s, Sound(s), NEW m \in Monitors, NEW c \in Clients
  PROVE  /\ Changed(s, Arrange(s, m), c)
         /\ SameButShown(s.win[c], Arrange(s, m).win[c])
         /\ Arrange(s, m).fstack = s.fstack /\ Arrange(s, m).focus = s.focus
<1> DEFINE t == Arrange(s, m)
<1>1. /\ Redrawn(s, t, m)
      /\ Enabled(s, m) => Arranged(s, t, m)
      /\ ~ Enabled(s, m) => t = s
  BY ArrangeDoes
<1> HIDE DEF t
<1>2. Sound(t)
  BY <1>1, RedrawnSound
<1>3. \A d \in Clients : d \notin ToSet(s.clients) \/ s.win[d].mon = NoMon => t.win[d] = s.win[d]
  BY <1>1, ConstantsAssumption DEF Arranged, Redrawn
<1> QED BY <1>1, <1>2, <1>3 DEF Changed, Redrawn, SameDesk, SameButShown, t

(* The record with another struct for window c.                             *)
Put(s, c, v) == [s EXCEPT !.win = [s.win EXCEPT ![c] = v]]

LEMMA PutDoes ==
  ASSUME NEW s, Sound(s), NEW c \in Clients, NEW v \in WindowType
  PROVE  LET t == Put(s, c, v) IN
         /\ Sound(t)
         /\ t.mons = s.mons /\ t.out = s.out /\ t.selmon = s.selmon /\ t.clients = s.clients
         /\ t.fstack = s.fstack /\ t.focus = s.focus /\ t.grab = s.grab
         /\ t.win[c] = v
         /\ \A d \in Clients : d # c => t.win[d] = s.win[d]
         /\ \A n \in Monitors :
              c \notin ToSet(s.clients) \/ (n # s.win[c].mon /\ n # v.mon) => SameView(s, t, n)
<1> DEFINE t == Put(s, c, v)
           w == [s.win EXCEPT ![c] = v]
<1>1. s \in StateType /\ s.win \in [Clients -> WindowType]
  BY StateFields DEF Sound
<1>2. w \in [Clients -> WindowType] /\ w[c] = v /\ \A d \in Clients : d # c => w[d] = s.win[d]
  BY <1>1
<1>3. t = [s EXCEPT !.win = w]
  BY DEF Put
<1> HIDE DEF t, w
<1>4. /\ t \in StateType
      /\ t.mons = s.mons /\ t.out = s.out /\ t.selmon = s.selmon /\ t.clients = s.clients
      /\ t.fstack = s.fstack /\ t.focus = s.focus /\ t.grab = s.grab /\ t.win = w
  BY <1>1, <1>2, <1>3, WithWin
<1>5. Sound(t)
  BY <1>4 DEF Sound
<1>6. ASSUME NEW n \in Monitors,
             c \notin ToSet(s.clients) \/ (n # s.win[c].mon /\ n # v.mon)
      PROVE  SameView(s, t, n)
  <2>1. \A d \in ToSet(s.clients) : s.win[d].mon = n \/ t.win[d].mon = n => t.win[d] = s.win[d]
    BY <1>2, <1>4, <1>6, SoundFacts
  <2> QED BY <1>4, <2>1, SameViewIf
<1> QED BY <1>2, <1>4, <1>5, <1>6 DEF t

(* A window changed while no output is redisplayed, then its own.           *)
LEMMA PutChanges ==
  ASSUME NEW s, Sound(s), NEW c \in Clients, NEW v \in WindowType,
         v.status = s.win[c].status, v.isscratchpad = s.win[c].isscratchpad,
         v.enabled = s.win[c].enabled
  PROVE  Changed(s, Put(s, c, v), c)
<1> DEFINE t == Put(s, c, v)
<1>1. /\ Sound(t)
      /\ t.mons = s.mons /\ t.out = s.out /\ t.selmon = s.selmon /\ t.clients = s.clients
      /\ t.grab = s.grab
      /\ t.win[c] = v
      /\ \A d \in Clients : d # c => t.win[d] = s.win[d]
  BY PutDoes
<1> HIDE DEF t
<1>2. Changed(s, t, c)
  BY <1>1 DEF Changed, SameButTree, SameButShown
<1> QED BY <1>2 DEF t

LEMMA PutArranged ==
  ASSUME NEW s, Sound(s), NEW c \in Clients, NEW v \in WindowType,
         v.status = s.win[c].status, v.isscratchpad = s.win[c].isscratchpad,
         v.enabled = s.win[c].enabled,
         v.mon = s.win[c].mon, v.mon \in Monitors
  PROVE  LET t == Arrange(Put(s, c, v), v.mon) IN
         /\ Changed(s, t, c) /\ SameButShown(v, t.win[c])
         /\ t.fstack = s.fstack /\ t.focus = s.focus
         /\ Scene(t, v.mon)
         /\ \A n \in Monitors : n # v.mon => SameView(s, t, n)
<1> DEFINE u == Put(s, c, v)
           t == Arrange(u, v.mon)
<1>1. /\ Sound(u) /\ u.fstack = s.fstack /\ u.focus = s.focus /\ u.win[c] = v
      /\ \A n \in Monitors : n # v.mon => SameView(s, u, n)
  BY PutDoes
<1>2. Changed(s, u, c)
  BY PutChanges
<1> HIDE DEF u
<1>3. /\ Changed(u, t, c) /\ SameButShown(u.win[c], t.win[c])
      /\ t.fstack = u.fstack /\ t.focus = u.focus
  BY <1>1, ArrangeChanges
<1>4. Scene(t, v.mon) /\ \A n \in Monitors : n # v.mon => SameView(u, t, n)
  BY <1>1, ArrangeScene, ArrangeView
<1> HIDE DEF t
<1>5. Changed(s, t, c)
  BY <1>2, <1>3, ChangedTrans
<1>6. \A n \in Monitors : n # v.mon => SameView(s, t, n)
  BY <1>1, <1>4, SameViewTrans
<1> QED BY <1>1, <1>3, <1>4, <1>5, <1>6 DEF t, u

LEMMA SetFullscreenDoes ==
  ASSUME NEW s, Sound(s), NEW c \in Clients, NEW b \in BOOLEAN,
         c \in ToSet(s.clients) => s.win[c].status = "mapped"
  PROVE  LET t == SetFullscreen(s, c, b) IN
         /\ Changed(s, t, c)
         /\ s.win[c].mon = NoMon => t.win[c].enabled = s.win[c].enabled
         /\ t.fstack = s.fstack /\ t.focus = s.focus
         /\ t.win[c].mon = s.win[c].mon /\ t.win[c].tags = s.win[c].tags
         /\ t.win[c].isfloating = s.win[c].isfloating /\ (t.win[c].isfullscreen <=> b)
         /\ Fits(c, t.win[c])
         /\ \A n \in Monitors :
              /\ n # s.win[c].mon => SameView(s, t, n)
              /\ n = s.win[c].mon =>
                   Scene(t, n) \/ (c \notin ToSet(s.clients) /\ SameView(s, t, n))
<1> DEFINE w == s.win[c]
           t == SetFullscreen(s, c, b)
<1>1. s \in StateType /\ s.win \in [Clients -> WindowType] /\ w \in WindowType
  BY StateFields DEF Sound
<1>2. CASE w.mon = NoMon \/ w.status # "mapped"
  <2> DEFINE v == [w EXCEPT !.isfullscreen = b]
  <2>1. /\ v \in WindowType /\ SameButShown([v EXCEPT !.isfullscreen = w.isfullscreen], w)
        /\ v.status = w.status /\ v.isscratchpad = w.isscratchpad /\ v.enabled = w.enabled
        /\ v.mon = w.mon /\ v.tags = w.tags /\ v.isfloating = w.isfloating
        /\ (v.isfullscreen <=> b)
    BY <1>1 DEF WindowType, SameButShown
  <2>2. t = Put(s, c, v)
    BY <1>2 DEF SetFullscreen, Put
  <2> HIDE DEF v, t
  <2>3. /\ t.fstack = s.fstack /\ t.focus = s.focus /\ t.win[c] = v
        /\ \A n \in Monitors :
             c \notin ToSet(s.clients) \/ (n # w.mon /\ n # v.mon) => SameView(s, t, n)
    BY <2>1, <2>2, PutDoes
  <2>4. Changed(s, t, c)
    BY <2>1, <2>2, PutChanges
  <2>5. NoMon \notin Monitors
    BY ConstantsAssumption
  <2>6. \A n \in Monitors : n = w.mon => c \notin ToSet(s.clients)
    BY <1>2, <2>5
  <2>7. Fits(c, t.win[c])
    BY <1>2, <2>1, <2>3 DEF Fits
  <2> QED BY <2>1, <2>3, <2>4, <2>6, <2>7 DEF t
<1>3. CASE w.mon # NoMon /\ w.status = "mapped"
  <2> DEFINE l == FullscreenLayer(w, b)
             v == [w EXCEPT !.isfullscreen = b, !.layer = l]
  <2>1. /\ l \in {"none", "LyrTile", "LyrFloat", "LyrFS", "LyrScratch"}
        /\ ~ w.isscratchpad => /\ l = "LyrFS" <=> b
                               /\ l # "LyrFS" /\ ~ w.isfloating => l = "LyrTile"
    BY DEF FullscreenLayer
  <2>2. t = Arrange([s EXCEPT !.win[c].isfullscreen = b, !.win[c].layer = l], w.mon)
    BY <1>3 DEF SetFullscreen
  <2> HIDE DEF l
  <2>3. /\ v \in WindowType
        /\ v.status = w.status /\ v.isscratchpad = w.isscratchpad /\ v.enabled = w.enabled
        /\ v.mon = w.mon /\ v.tags = w.tags /\ v.isfloating = w.isfloating
        /\ (v.isfullscreen <=> b) /\ v.layer = l
    BY <1>1, <2>1 DEF WindowType
  <2>4. [s EXCEPT !.win[c].isfullscreen = b, !.win[c].layer = l] = Put(s, c, v)
    BY <1>1 DEF Put, StateType
  <2> HIDE DEF v, t
  <2>5. w.mon \in Monitors
    BY <1>1, <1>3 DEF WindowType
  <2>6. t = Arrange(Put(s, c, v), v.mon)
    BY <2>2, <2>3, <2>4
  <2>7. /\ Changed(s, t, c) /\ SameButShown(v, t.win[c])
        /\ t.fstack = s.fstack /\ t.focus = s.focus
        /\ Scene(t, v.mon)
        /\ \A n \in Monitors : n # v.mon => SameView(s, t, n)
    BY <2>3, <2>5, <2>6, PutArranged
  <2>8. Fits(c, v)
    BY <2>1, <2>3 DEF Fits
  <2>9. Fits(c, t.win[c])
    BY <2>7, <2>8, ShownFits
  <2> QED BY <1>3, <2>3, <2>7, <2>9 DEF t, SameButShown
<1> QED BY <1>2, <1>3

(* The window w that floats if b says so, where it was.                     *)
Floated(w, b) == [w EXCEPT !.isfloating = b]

LEMMA SetFloatingDoes ==
  ASSUME NEW s, Sound(s), NEW c \in Clients, NEW b \in BOOLEAN,
         c \in ToSet(s.clients) => s.win[c].status = "mapped"
  PROVE  LET t == SetFloating(s, c, b) IN
         /\ Changed(s, t, c)
         /\ s.win[c].mon = NoMon => t.win[c].enabled = s.win[c].enabled
         /\ t.fstack = s.fstack /\ t.focus = s.focus
         /\ t.win[c].mon = s.win[c].mon /\ t.win[c].tags = s.win[c].tags
         /\ t.win[c].isfullscreen = s.win[c].isfullscreen /\ (t.win[c].isfloating <=> b)
         /\ \/ Fits(c, t.win[c])
            \/ CurLayout(s, s.win[c].mon) = "floating" /\ t = Put(s, c, Floated(s.win[c], b))
         /\ b = s.win[c].isfloating /\ Fits(c, s.win[c]) => Fits(c, t.win[c])
         /\ \A n \in Monitors :
              /\ n # s.win[c].mon => SameView(s, t, n)
              /\ n = s.win[c].mon =>
                   \/ Scene(t, n)
                   \/ c \notin ToSet(s.clients) /\ SameView(s, t, n)
                   \/ CurLayout(s, n) = "floating"
         /\ b = s.win[c].isfloating =>
              \A n \in Monitors : n = s.win[c].mon => Scene(t, n) \/ SameView(s, t, n)
<1> DEFINE w == s.win[c]
           t == SetFloating(s, c, b)
<1>1. s \in StateType /\ s.win \in [Clients -> WindowType] /\ w \in WindowType
  BY StateFields DEF Sound
<1>2. CASE w.mon = NoMon \/ w.status # "mapped" \/ CurLayout(s, w.mon) = "floating"
  <2> DEFINE v == [w EXCEPT !.isfloating = b]
  <2>1. /\ v \in WindowType
        /\ v.status = w.status /\ v.isscratchpad = w.isscratchpad /\ v.enabled = w.enabled
        /\ v.mon = w.mon /\ v.tags = w.tags /\ v.isfullscreen = w.isfullscreen
        /\ (v.isfloating <=> b)
    BY <1>1 DEF WindowType
  <2>2. t = Put(s, c, v)
    BY <1>2 DEF SetFloating, Put
  <2>3. b = w.isfloating => v = w
    BY <1>1 DEF WindowType
  <2> HIDE DEF v, t
  <2>4. /\ t.fstack = s.fstack /\ t.focus = s.focus /\ t.win[c] = v
        /\ t.out = s.out /\ t.clients = s.clients
        /\ \A d \in Clients : d # c => t.win[d] = s.win[d]
        /\ \A n \in Monitors :
             c \notin ToSet(s.clients) \/ (n # w.mon /\ n # v.mon) => SameView(s, t, n)
    BY <2>1, <2>2, PutDoes
  <2>5. Changed(s, t, c)
    BY <2>1, <2>2, PutChanges
  <2>6. \A n \in Monitors : n = w.mon => c \notin ToSet(s.clients) \/ CurLayout(s, n) = "floating"
    BY <1>2, ConstantsAssumption
  <2>7. ASSUME b = w.isfloating, NEW n \in Monitors PROVE SameView(s, t, n)
    <3>1. \A d \in ToSet(s.clients) : t.win[d] = s.win[d]
      BY <2>3, <2>4, <2>7, SoundFacts
    <3> QED BY <2>4, <3>1, SameViewIf
  <2>8. w.mon = NoMon \/ w.status # "mapped" => Fits(c, t.win[c])
    BY <2>1, <2>4 DEF Fits
  <2>9. b = w.isfloating /\ Fits(c, w) => Fits(c, t.win[c])
    BY <2>3, <2>4
  <2>10. \/ Fits(c, t.win[c])
         \/ CurLayout(s, w.mon) = "floating" /\ t = Put(s, c, v)
    BY <1>2, <2>2, <2>8
  <2>11. v = Floated(w, b)
    BY DEF v, Floated
  <2> QED BY <2>1, <2>4, <2>5, <2>6, <2>7, <2>9, <2>10, <2>11 DEF t
<1>3. CASE ~ (w.mon = NoMon \/ w.status # "mapped" \/ CurLayout(s, w.mon) = "floating")
  <2> DEFINE l == FloatingLayer(w, UnderFullscreen(s, c), b)
             v == [w EXCEPT !.isfloating = b, !.layer = l]
  <2>1. /\ l \in {"none", "LyrTile", "LyrFloat", "LyrFS", "LyrScratch"}
        /\ ~ w.isscratchpad => /\ l = "LyrFS" <=> UnderFullscreen(s, c)
                               /\ l # "LyrFS" /\ ~ b => l = "LyrTile"
    BY DEF FloatingLayer
  <2>a. ParentOf[c] = NoClient => (UnderFullscreen(s, c) <=> w.isfullscreen)
    BY DEF UnderFullscreen, Parent, Mapped
  <2>2. t = Arrange([s EXCEPT !.win[c].isfloating = b, !.win[c].layer = l], w.mon)
    BY <1>3 DEF SetFloating
  <2> HIDE DEF l
  <2>3. /\ v \in WindowType
        /\ v.status = w.status /\ v.isscratchpad = w.isscratchpad /\ v.enabled = w.enabled
        /\ v.mon = w.mon /\ v.tags = w.tags /\ v.isfullscreen = w.isfullscreen
        /\ (v.isfloating <=> b) /\ v.layer = l
    BY <1>1, <2>1 DEF WindowType
  <2>4. [s EXCEPT !.win[c].isfloating = b, !.win[c].layer = l] = Put(s, c, v)
    BY <1>1 DEF Put, StateType
  <2> HIDE DEF v, t
  <2>5. w.mon \in Monitors
    BY <1>1, <1>3 DEF WindowType
  <2>6. t = Arrange(Put(s, c, v), v.mon)
    BY <2>2, <2>3, <2>4
  <2>7. /\ Changed(s, t, c) /\ SameButShown(v, t.win[c])
        /\ t.fstack = s.fstack /\ t.focus = s.focus
        /\ Scene(t, v.mon)
        /\ \A n \in Monitors : n # v.mon => SameView(s, t, n)
    BY <2>3, <2>5, <2>6, PutArranged
  <2>8. Fits(c, v)
    BY <2>1, <2>a, <2>3 DEF Fits
  <2>9. Fits(c, t.win[c])
    BY <2>7, <2>8, ShownFits
  <2> QED BY <1>3, <2>3, <2>7, <2>9 DEF t, SameButShown
<1> QED BY <1>2, <1>3

-----------------------------------------------------------------------------
(* setmon                                                                  *)

LEMMA FocustopNowhere ==
  ASSUME NEW s, Sound(s)
  PROVE  Focustop(s, NoMon) = NoClient
BY FocustopIs DEF VisibleOn, Shows

(* Nothing but the focus changes what is to be seen.                        *)
LEMMA FocusSelectedDoes ==
  ASSUME NEW s, Sound(s)
  PROVE  LET t == FocusSelected(s) IN
         /\ Sound(t)
         /\ t.mons = s.mons /\ t.out = s.out /\ t.clients = s.clients /\ t.win = s.win
         /\ t.grab = s.grab /\ t.selmon = s.selmon
         /\ t.focus = Focustop(t, t.selmon)
         /\ \A n \in Monitors : SameView(s, t, n)
<1> DEFINE t == FocusSelected(s)
<1>1. t = FocusTopOf(s, s.selmon) /\ s.selmon \in Monitors \cup {NoMon}
  BY StateFields DEF FocusSelected, Sound
<1> HIDE DEF t
<1>2. /\ Refocused(s, t, Focustop(s, s.selmon)) /\ Sound(t)
      /\ \A n \in Monitors : Focustop(t, n) = Focustop(s, n)
      /\ t.selmon = s.selmon
  BY <1>1, FocusTopOfDoes
<1>3. Focustop(t, s.selmon) = Focustop(s, s.selmon)
  BY <1>1, <1>2, FocustopNowhere
<1>4. \A n \in Monitors : SameView(s, t, n)
  BY <1>2 DEF SameView, Refocused, On
<1> QED BY <1>2, <1>3, <1>4 DEF Refocused, t

LEMMA EnterMonDoes ==
  ASSUME NEW s, Sound(s), NEW c \in Clients, NEW m \in Monitors \cup {NoMon},
         NEW newtags \in SUBSET Tags, s.win[c].mon = m,
         c \in ToSet(s.clients) => s.win[c].status = "mapped"
  PROVE  LET t == EnterMon(s, c, m, newtags) IN
         /\ Changed(s, t, c)
         /\ t.fstack = s.fstack /\ t.focus = s.focus
         /\ t.win[c].mon = m
         /\ t.win[c].tags = IF m = NoMon THEN s.win[c].tags
                            ELSE IF newtags # {} THEN newtags ELSE CurTags(s, m)
         /\ Fits(c, t.win[c])
         /\ \A n \in Monitors :
              /\ n # m => SameView(s, t, n)
              /\ n = m => Scene(t, n) \/ (c \notin ToSet(s.clients) /\ SameView(s, t, n))
<1> DEFINE w == s.win[c]
           t == EnterMon(s, c, m, newtags)
<1>1. s \in StateType /\ s.win \in [Clients -> WindowType] /\ w \in WindowType
  BY StateFields DEF Sound
<1>2. CASE m = NoMon
  <2>1. t = s
    BY <1>2 DEF EnterMon
  <2>2. Changed(s, s, c)
    BY DEF Changed, SameButTree, SameButShown
  <2>3. \A n \in Monitors : SameView(s, s, n) /\ n # m
    BY <1>2, ConstantsAssumption DEF SameView
  <2>4. Fits(c, s.win[c])
    BY <1>2 DEF Fits
  <2> QED BY <1>2, <2>1, <2>2, <2>3, <2>4
<1>3. CASE m # NoMon
  <2> DEFINE T == IF newtags # {} THEN newtags ELSE CurTags(s, m)
             v == [w EXCEPT !.tags = T]
             a == Put(s, c, v)
             b == SetFullscreen(a, c, w.isfullscreen)
  <2>1. m \in Monitors /\ T \in SUBSET Tags
    BY <1>1, <1>3, CurTagsType
  <2>2. t = SetFloating(SetFullscreen([s EXCEPT !.win[c].tags = T], c, w.isfullscreen),
                        c, w.isfloating)
    BY <1>3 DEF EnterMon
  <2> HIDE DEF T
  <2>3. /\ v \in WindowType
        /\ v.status = w.status /\ v.isscratchpad = w.isscratchpad /\ v.enabled = w.enabled
        /\ v.mon = w.mon /\ v.tags = T /\ v.isfloating = w.isfloating
    BY <1>1, <2>1 DEF WindowType
  <2>4. t = SetFloating(b, c, w.isfloating)
    BY <2>2 DEF Put
  <2> HIDE DEF v, t
  <2>5. /\ Sound(a) /\ a.fstack = s.fstack /\ a.focus = s.focus /\ a.win[c] = v
        /\ a.clients = s.clients
        /\ \A n \in Monitors : c \notin ToSet(s.clients) \/ n # m => SameView(s, a, n)
    BY <2>3, PutDoes
  <2>6. Changed(s, a, c)
    BY <2>3, PutChanges
  <2> HIDE DEF a
  <2>7. /\ Changed(a, b, c)
        /\ b.fstack = a.fstack /\ b.focus = a.focus
        /\ b.win[c].mon = m /\ b.win[c].tags = T
        /\ b.win[c].isfloating = w.isfloating /\ Fits(c, b.win[c])
        /\ \A n \in Monitors :
              /\ n # m => SameView(a, b, n)
              /\ n = m => Scene(b, n) \/ (c \notin ToSet(s.clients) /\ SameView(a, b, n))
    <3>1. w.isfullscreen \in BOOLEAN /\ (c \in ToSet(a.clients) => a.win[c].status = "mapped")
      BY <1>1, <2>3, <2>5 DEF WindowType
    <3> QED BY <2>3, <2>5, <3>1, SetFullscreenDoes
  <2> HIDE DEF b
  <2>8. /\ Changed(b, t, c)
        /\ t.fstack = b.fstack /\ t.focus = b.focus
        /\ t.win[c].mon = m /\ t.win[c].tags = T /\ Fits(c, t.win[c])
        /\ \A n \in Monitors :
             /\ n # m => SameView(b, t, n)
             /\ n = m => Scene(t, n) \/ SameView(b, t, n)
    <3>1. Sound(b) /\ w.isfloating \in BOOLEAN /\ b.clients = s.clients
      BY <1>1, <2>5, <2>7 DEF WindowType, Changed
    <3>2. c \in ToSet(b.clients) => b.win[c].status = "mapped"
      BY <2>3, <2>5, <2>7, <3>1 DEF Changed
    <3> QED BY <2>4, <2>7, <3>1, <3>2, SetFloatingDoes
  <2>9. Changed(s, t, c)
    BY <2>6, <2>7, <2>8, ChangedTrans
  <2>10. ASSUME NEW n \in Monitors, n # m PROVE SameView(s, t, n)
    BY <2>5, <2>7, <2>8, <2>10, SameViewTrans
  <2>11. Scene(t, m) \/ (c \notin ToSet(s.clients) /\ SameView(s, t, m)) \/ Scene(b, m)
    BY <2>1, <2>5, <2>7, <2>8, SameViewTrans
  <2>12. Scene(b, m) => Scene(t, m)
    BY <2>1, <2>7, <2>8, SameViewScene DEF Changed
  <2>13. t.fstack = s.fstack /\ t.focus = s.focus
    BY <2>5, <2>7, <2>8
  <2>14. t.win[c].tags = IF m = NoMon THEN s.win[c].tags
                         ELSE IF newtags # {} THEN newtags ELSE CurTags(s, m)
    BY <1>3, <2>8 DEF T
  <2>15. Scene(t, m) \/ (c \notin ToSet(s.clients) /\ SameView(s, t, m))
    BY <2>11, <2>12
  <2> HIDE DEF w
  <2> QED BY <2>8, <2>9, <2>10, <2>13, <2>14, <2>15 DEF t
<1> QED BY <1>2, <1>3

(* What setmon() leaves alone, where the window is afterwards and with      *)
(* which tags, which displays it settles, and that focus follows.           *)
LEMMA SetMonDoes ==
  ASSUME NEW s, Sound(s), NEW c \in Clients, NEW m \in Monitors \cup {NoMon},
         NEW newtags \in SUBSET Tags, s.win[c].mon # m,
         c \in ToSet(s.clients) => s.win[c].status = "mapped"
  PROVE  LET t == SetMon(s, c, m, newtags) IN
         /\ Changed(s, t, c)
         /\ t.win[c].mon = m /\ Fits(c, t.win[c])
         /\ t.win[c].tags = IF m = NoMon THEN s.win[c].tags
                            ELSE IF newtags # {} THEN newtags ELSE CurTags(s, m)
         /\ t.focus = Focustop(t, t.selmon)
         /\ \A n \in Monitors :
              /\ n # m /\ n # s.win[c].mon => SameView(s, t, n)
              /\ n = s.win[c].mon => Scene(t, n)
              /\ n = m => Scene(t, n) \/ (c \notin ToSet(s.clients) /\ SameView(s, t, n))
<1> DEFINE w == s.win[c]
           old == w.mon
           v == [w EXCEPT !.mon = m]
           a == Put(s, c, v)
           b == LeaveMon(a, old)
           d == EnterMon(b, c, m, newtags)
           t == SetMon(s, c, m, newtags)
<1>1. s \in StateType /\ s.win \in [Clients -> WindowType] /\ w \in WindowType
  BY StateFields DEF Sound
<1>2. /\ v \in WindowType
      /\ v.status = w.status /\ v.isscratchpad = w.isscratchpad /\ v.enabled = w.enabled
      /\ v.mon = m /\ v.tags = w.tags
  BY <1>1 DEF WindowType
<1>3. t = FocusSelected(d)
  BY DEF SetMon, Put
<1>4. old \in Monitors \cup {NoMon} /\ NoMon \notin Monitors /\ old # m
  BY <1>1, ConstantsAssumption DEF WindowType
<1> HIDE DEF t, v
<1>5. /\ Sound(a) /\ a.win[c] = v /\ a.clients = s.clients /\ a.out = s.out
      /\ \A n \in Monitors : c \notin ToSet(s.clients) \/ (n # old /\ n # m) => SameView(s, a, n)
  BY <1>2, PutDoes
<1>6. Changed(s, a, c)
  BY <1>2, PutChanges
<1> HIDE DEF a
<1>7. /\ Sound(b) /\ Changed(a, b, c)
      /\ b.win[c].mon = m /\ b.win[c].tags = w.tags /\ b.clients = s.clients
      /\ \A n \in Monitors : IF n = old THEN Scene(b, n) ELSE SameView(a, b, n)
  <2>1. CASE old = NoMon
    <3>1. b = a
      BY <2>1 DEF LeaveMon
    <3> HIDE DEF old, b
    <3>2. Changed(a, a, c)
      BY <1>5 DEF Changed, SameButTree, SameButShown
    <3>3. \A n \in Monitors : n # old /\ SameView(a, a, n)
      BY <1>4, <2>1 DEF SameView
    <3> QED BY <1>2, <1>5, <3>1, <3>2, <3>3
  <2>2. CASE old # NoMon
    <3>1. b = Arrange(a, old) /\ old \in Monitors
      BY <1>4, <2>2 DEF LeaveMon
    <3> HIDE DEF old, b
    <3>2. Changed(a, b, c) /\ SameButShown(a.win[c], b.win[c])
      BY <1>5, <3>1, ArrangeChanges
    <3>3. \A n \in Monitors : IF n = old THEN Scene(b, n) ELSE SameView(a, b, n)
      BY <1>5, <3>1, ArrangeScene, ArrangeView
    <3> QED BY <1>2, <1>5, <3>2, <3>3 DEF Changed, SameButShown
  <2> QED BY <2>1, <2>2
<1> HIDE DEF b
<1>8. CurTags(b, m) = CurTags(s, m) \/ m = NoMon
  <2>1. Changed(s, b, c)
    BY <1>6, <1>7, ChangedTrans
  <2>2. \A n \in Monitors : SameButTree(s.out[n], b.out[n])
    BY <2>1 DEF Changed
  <2>3. CASE m \in Monitors
    <3>1. SameButTree(s.out[m], b.out[m])
      BY <2>2, <2>3
    <3>2. CurTags(b, m) = CurTags(s, m)
      BY <2>3, <3>1, SameOutQueries
    <3> QED BY <3>2
  <2> QED BY <2>3
<1>9. c \in ToSet(b.clients) => b.win[c].status = "mapped"
  BY <1>2, <1>5, <1>7 DEF Changed
<1>10. /\ Sound(d) /\ Changed(b, d, c) /\ d.clients = s.clients
       /\ d.win[c].mon = m /\ Fits(c, d.win[c])
       /\ d.win[c].tags = IF m = NoMon THEN w.tags
                          ELSE IF newtags # {} THEN newtags ELSE CurTags(s, m)
       /\ \A n \in Monitors :
            /\ n # m => SameView(b, d, n)
            /\ n = m => Scene(d, n) \/ (c \notin ToSet(s.clients) /\ SameView(b, d, n))
  <2>1. CurTags(b, m) # CurTags(s, m) => m = NoMon
    BY <1>8
  <2>2. /\ Changed(b, d, c)
        /\ d.win[c].mon = m /\ Fits(c, d.win[c])
        /\ d.win[c].tags = IF m = NoMon THEN b.win[c].tags
                           ELSE IF newtags # {} THEN newtags ELSE CurTags(b, m)
        /\ \A n \in Monitors :
             /\ n # m => SameView(b, d, n)
             /\ n = m => Scene(d, n) \/ (c \notin ToSet(b.clients) /\ SameView(b, d, n))
    BY <1>7, <1>9, EnterMonDoes
  <2>3. Sound(d) /\ d.clients = b.clients
    BY <2>2 DEF Changed
  <2> QED BY <1>7, <2>1, <2>2, <2>3
<1> HIDE DEF d
<1>11. /\ Sound(t)
       /\ t.mons = d.mons /\ t.out = d.out /\ t.clients = d.clients /\ t.win = d.win
       /\ t.grab = d.grab /\ t.selmon = d.selmon
       /\ t.focus = Focustop(t, t.selmon)
       /\ \A n \in Monitors : SameView(d, t, n)
  BY <1>3, <1>10, FocusSelectedDoes
<1>12. Changed(s, t, c)
  <2>1. Changed(s, d, c)
    BY <1>6, <1>7, <1>10, ChangedTrans
  <2> QED BY <1>11, <2>1 DEF Changed
<1>13. ASSUME NEW n \in Monitors, n # m, n # old PROVE SameView(s, t, n)
  <2>1. SameView(s, a, n) /\ SameView(a, b, n) /\ SameView(b, d, n) /\ SameView(d, t, n)
    BY <1>5, <1>7, <1>10, <1>11, <1>13
  <2> QED BY <2>1, SameViewTrans
<1>14. ASSUME NEW n \in Monitors, n = old PROVE Scene(t, n)
  <2>1. Scene(b, n) /\ SameView(b, d, n) /\ SameView(d, t, n)
    BY <1>4, <1>7, <1>10, <1>11, <1>14
  <2> QED BY <1>7, <1>10, <1>11, <2>1, SameViewScene
<1>15. ASSUME NEW n \in Monitors, n = m
       PROVE  Scene(t, n) \/ (c \notin ToSet(s.clients) /\ SameView(s, t, n))
  <2>1. SameView(a, b, n) /\ SameView(d, t, n)
    BY <1>4, <1>7, <1>11, <1>15
  <2>2. CASE Scene(d, n)
    BY <1>10, <1>11, <2>1, <2>2, SameViewScene
  <2>3. CASE c \notin ToSet(s.clients) /\ SameView(b, d, n)
    BY <1>5, <2>1, <2>3, SameViewTrans
  <2> QED BY <1>10, <1>15, <2>2, <2>3
<1> QED BY <1>10, <1>11, <1>12, <1>13, <1>14, <1>15 DEF t, old

-----------------------------------------------------------------------------
(* A scene that is in order stays as it is                                 *)

LEMMA SameRecord ==
  ASSUME NEW w \in WindowType, NEW v \in WindowType, SameButShown(w, v),
         v.layer = w.layer, v.enabled <=> w.enabled
  PROVE  v = w
<1>1. v.enabled = w.enabled
  BY DEF WindowType
<1> QED BY <1>1 DEF WindowType, SameButShown

LEMMA SameOutput ==
  ASSUME NEW o \in MonitorType, NEW p \in MonitorType, SameButTree(o, p),
         p.dwindle_tree = o.dwindle_tree
  PROVE  p = o
BY DEF MonitorType, SameButTree

LEMMA SameState ==
  ASSUME NEW s \in StateType, NEW t \in StateType,
         t.mons = s.mons, t.out = s.out, t.selmon = s.selmon, t.clients = s.clients,
         t.fstack = s.fstack, t.win = s.win, t.focus = s.focus, t.grab = s.grab
  PROVE  t = s
<1>1. t = [mons |-> t.mons, out |-> t.out, selmon |-> t.selmon, clients |-> t.clients,
           fstack |-> t.fstack, win |-> t.win, focus |-> t.focus, grab |-> t.grab]
  BY DEF StateType
<1>2. s = [mons |-> s.mons, out |-> s.out, selmon |-> s.selmon, clients |-> s.clients,
           fstack |-> s.fstack, win |-> s.win, focus |-> s.focus, grab |-> s.grab]
  BY DEF StateType
<1> QED BY <1>1, <1>2

LEMMA PlantedStays ==
  ASSUME NEW s, Sound(s), NEW m \in Monitors, Planted(s, m), NEW u \in Tags
  PROVE  Replanted(s, m, u) = s.out[m].dwindle_tree[u]
<1> DEFINE leaves == s.out[m].dwindle_tree[u]
<1>1. CASE u = CurrentTag(s, m) /\ CurLayout(s, m) = "dwindle" /\ Tileable(s, m) # {}
  <2>1. Tileable(s, m) \subseteq leaves
        /\ \A c \in leaves : c \in ToSet(s.clients) /\ VisibleOn(s, c, m) /\ ~ s.win[c].isfloating
    BY <1>1 DEF Planted
  <2>2. Relayout(leaves, s, m) = leaves
    BY <2>1 DEF Relayout
  <2> QED BY <1>1, <2>2 DEF Replanted
<1> QED BY <1>1 DEF Replanted

(* Rearranging what is arranged changes nothing.                            *)
LEMMA SceneArranged ==
  ASSUME NEW s, Sound(s), NEW m \in Monitors, Scene(s, m)
  PROVE  Arrange(s, m) = s
<1> DEFINE t == Arrange(s, m)
<1>1. s \in StateType /\ ToSet(s.clients) \subseteq Clients
  BY SoundFacts
<1>2. Redrawn(s, t, m)
  BY ArrangeDoes
<1>3. CASE ~ Enabled(s, m)
  BY <1>3, ArrangeDoes
<1>4. CASE Enabled(s, m)
  <2>1. Arranged(s, t, m)
    BY <1>4, ArrangeDoes
  <2>2. Shown(s, m) /\ Planted(s, m) /\ Layered(s, m)
    BY <1>4 DEF Scene
  <2> HIDE DEF t
  <2>3. /\ t \in StateType
        /\ t.mons = s.mons /\ t.selmon = s.selmon /\ t.clients = s.clients
        /\ t.fstack = s.fstack /\ t.focus = s.focus /\ t.grab = s.grab
        /\ \A n \in Monitors : SameButTree(s.out[n], t.out[n])
        /\ \A n \in Monitors : n # m => t.out[n] = s.out[n]
    BY <1>2 DEF Redrawn, SameDesk
  <2>4. /\ s.win \in [Clients -> WindowType] /\ t.win \in [Clients -> WindowType]
        /\ s.out \in [Monitors -> MonitorType] /\ t.out \in [Monitors -> MonitorType]
    BY <1>1, <2>3, StateFields
  <2>5. ASSUME NEW c \in Clients PROVE t.win[c] = s.win[c]
    <3>1. CASE c \in ToSet(s.clients) /\ s.win[c].mon = m
      <4>1. Node(s.win[c], t.win[c], OnDisplay(s, c, m), ArrangedLayer(s.win[c], CurLayout(s, m)))
        BY <2>1, <3>1 DEF Arranged
      <4>2. /\ s.win[c].enabled <=> OnDisplay(s, c, m)
            /\ s.win[c].layer = ArrangedLayer(s.win[c], CurLayout(s, m))
        BY <2>2, <3>1 DEF Shown, Layered
      <4>3. s.win[c] \in WindowType /\ t.win[c] \in WindowType
        BY <2>4
      <4> QED BY <4>1, <4>2, <4>3, SameRecord DEF Node
    <3>2. CASE ~ (c \in ToSet(s.clients) /\ s.win[c].mon = m)
      BY <2>1, <3>2 DEF Arranged
    <3> QED BY <3>1, <3>2
  <2>6. t.win = s.win
    BY <2>4, <2>5
  <2>7. t.out[m].dwindle_tree = s.out[m].dwindle_tree
    <3>1. \A u \in Tags : t.out[m].dwindle_tree[u] = s.out[m].dwindle_tree[u]
      BY <2>1, <2>2, PlantedStays DEF Arranged
    <3>2. /\ t.out[m].dwindle_tree \in [Tags -> SUBSET Clients]
          /\ s.out[m].dwindle_tree \in [Tags -> SUBSET Clients]
      BY <2>4 DEF MonitorType
    <3> QED BY <3>1, <3>2
  <2>8. t.out[m] = s.out[m]
    BY <2>3, <2>4, <2>7, SameOutput
  <2>9. t.out = s.out
    BY <2>3, <2>4, <2>8
  <2>10. t = s
    BY <1>1, <2>3, <2>6, <2>9, SameState
  <2> QED BY <2>10 DEF t
<1> QED BY <1>3, <1>4
=============================================================================
