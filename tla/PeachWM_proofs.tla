---------------------------- MODULE PeachWM_proofs ----------------------------
(***************************************************************************)
(* For any windows, outputs, tags and rules: whatever comes and goes, the   *)
(* focus stays on the topmost visible window of the selected output, lit    *)
(* outputs show the windows of their tags and no window is left without an  *)
(* output.                                                                  *)
(***************************************************************************)
EXTENDS WMCore_proofs

-----------------------------------------------------------------------------
(* Handlers that walk a list                                               *)

(* The turn of x in each of the four walks, k says which.                   *)
Turn(k, s, x, a) ==
  CASE k = 1 -> Rehome(s, x, a[1])
    [] k = 2 -> CloseIfOff(s, x)
    [] k = 3 -> ArrangeIfOn(s, x)
    [] OTHER -> UnsetOne(s, x, a[1], a[2], a[3])

Walk(k, s, q, a, n, g) ==
  g = [i \in 0 .. n |-> IF i = 0 THEN s ELSE Turn(k, g[i - 1], q[i], a)]

LEMMA WalkExists ==
  ASSUME NEW k, NEW s, NEW q, NEW a, NEW n \in Nat
  PROVE  \E g : Walk(k, s, q, a, n, g)
<1> DEFINE T == {j \in Nat : \E g : Walk(k, s, q, a, j, g)}
<1>1. 0 \in T
  <2> DEFINE g == [i \in 0 .. 0 |-> s]
  <2>1. g = [i \in 0 .. 0 |-> IF i = 0 THEN s ELSE Turn(k, g[i - 1], q[i], a)]
    OBVIOUS
  <2> HIDE DEF g
  <2>2. Walk(k, s, q, a, 0, g)
    BY <2>1, Zenon DEF Walk
  <2> QED BY <2>2
<1>2. ASSUME NEW j \in Nat, j \in T PROVE j + 1 \in T
  <2>1. PICK g : Walk(k, s, q, a, j, g)
    BY <1>2
  <2>2. g = [i \in 0 .. j |-> IF i = 0 THEN s ELSE Turn(k, g[i - 1], q[i], a)]
    BY <2>1, Zenon DEF Walk
  <2> DEFINE h == [i \in 0 .. j + 1 |-> IF i \in 0 .. j THEN g[i] ELSE Turn(k, g[j], q[j + 1], a)]
  <2>3. ASSUME NEW i \in 0 .. j + 1
        PROVE  h[i] = IF i = 0 THEN s ELSE Turn(k, h[i - 1], q[i], a)
    <3>1. CASE i = 0
      BY <2>2, <3>1
    <3>2. CASE i \in 1 .. j
      <4>1. h[i] = g[i] /\ h[i - 1] = g[i - 1]
        BY <3>2
      <4>2. g[i] = Turn(k, g[i - 1], q[i], a)
        BY <2>2, <3>2
      <4> QED BY <3>2, <4>1, <4>2
    <3>3. CASE i = j + 1
      <4>1. h[i] = Turn(k, g[j], q[j + 1], a) /\ h[i - 1] = g[j]
        BY <3>3
      <4> QED BY <3>3, <4>1
    <3> QED BY <3>1, <3>2, <3>3
  <2>4. h = [i \in 0 .. j + 1 |-> h[i]]
    OBVIOUS
  <2> HIDE DEF h
  <2>5. h = [i \in 0 .. j + 1 |-> IF i = 0 THEN s ELSE Turn(k, h[i - 1], q[i], a)]
    BY <2>3, <2>4, Zenon
  <2>6. Walk(k, s, q, a, j + 1, h)
    BY <2>5, Zenon DEF Walk
  <2>7. j + 1 \in Nat
    OBVIOUS
  <2> QED BY <2>6, <2>7, Zenon
<1> HIDE DEF T
<1>3. Nat \subseteq T
  BY <1>1, <1>2, SetInduction
<1> QED BY <1>3 DEF T

(* A walk, step by step.                                                    *)
Steps(k, s, q, a, t) ==
  \E g : /\ g[0] = s /\ g[Len(q)] = t
         /\ \A i \in 1 .. Len(q) : g[i] = Turn(k, g[i - 1], q[i], a)

LEMMA WalkSteps ==
  ASSUME NEW k, NEW s, NEW S, NEW q \in Seq(S), NEW a, NEW g, Walk(k, s, q, a, Len(q), g)
  PROVE  Steps(k, s, q, a, g[Len(q)])
<1>1. Len(q) \in Nat
  OBVIOUS
<1>2. g[0] = s /\ \A i \in 1 .. Len(q) : g[i] = Turn(k, g[i - 1], q[i], a)
  BY <1>1 DEF Walk
<1> QED BY <1>2 DEF Steps

LEMMA EvacuateSteps ==
  ASSUME NEW s \in StateType, NEW m
  PROVE  Steps(1, s, s.clients, <<m>>, Evacuate(s, m))
<1> DEFINE q == s.clients
           P(g) == g = [i \in 0 .. Len(q) |-> IF i = 0 THEN s ELSE Rehome(g[i - 1], q[i], m)]
<1>1. q \in Seq(Clients) /\ Len(q) \in Nat
  BY StateFields
<1>2. \A g : Walk(1, s, q, <<m>>, Len(q), g) <=> P(g)
  BY DEF Walk, Turn
<1>3. \E g : P(g)
  BY <1>1, <1>2, WalkExists
<1>4. Evacuate(s, m) = (CHOOSE g : P(g))[Len(q)]
  BY Zenon DEF Evacuate, Along
<1>5. P(CHOOSE g : P(g))
  <2> HIDE DEF P
  <2> QED BY <1>3, Zenon
<1> DEFINE f == CHOOSE g : P(g)
<1> HIDE DEF f
<1>6. Walk(1, s, q, <<m>>, Len(q), f)
  BY <1>2, <1>5 DEF f
<1>7. Steps(1, s, q, <<m>>, f[Len(q)])
  BY <1>1, <1>6, WalkSteps
<1> QED BY <1>4, <1>7 DEF f

LEMMA CloseDisabledSteps ==
  ASSUME NEW s \in StateType
  PROVE  Steps(2, s, s.mons, <<>>, CloseDisabled(s))
<1> DEFINE q == s.mons
           a == <<>>
           P(g) == g = [i \in 0 .. Len(q) |-> IF i = 0 THEN s ELSE CloseIfOff(g[i - 1], q[i])]
<1>1. q \in Seq(Monitors) /\ Len(q) \in Nat
  BY StateFields
<1>2. \A g : Walk(2, s, q, a, Len(q), g) <=> P(g)
  BY DEF Walk, Turn
<1>3. \E g : P(g)
  <2> HIDE DEF P
  <2> QED BY <1>1, <1>2, WalkExists
<1>4. CloseDisabled(s) = (CHOOSE g : P(g))[Len(q)]
  BY Zenon DEF CloseDisabled, Along
<1>5. P(CHOOSE g : P(g))
  <2> HIDE DEF P
  <2> QED BY <1>3, Zenon
<1> DEFINE f == CHOOSE g : P(g)
<1> HIDE DEF f
<1>6. Walk(2, s, q, a, Len(q), f)
  BY <1>2, <1>5 DEF f
<1>7. Steps(2, s, q, a, f[Len(q)])
  BY <1>1, <1>6, WalkSteps
<1> QED BY <1>4, <1>7 DEF f

LEMMA ArrangeEnabledSteps ==
  ASSUME NEW s \in StateType
  PROVE  Steps(3, s, s.mons, <<>>, ArrangeEnabled(s))
<1> DEFINE q == s.mons
           a == <<>>
           P(g) == g = [i \in 0 .. Len(q) |-> IF i = 0 THEN s ELSE ArrangeIfOn(g[i - 1], q[i])]
<1>1. q \in Seq(Monitors) /\ Len(q) \in Nat
  BY StateFields
<1>2. \A g : Walk(3, s, q, a, Len(q), g) <=> P(g)
  BY DEF Walk, Turn
<1>3. \E g : P(g)
  <2> HIDE DEF P
  <2> QED BY <1>1, <1>2, WalkExists
<1>4. ArrangeEnabled(s) = (CHOOSE g : P(g))[Len(q)]
  BY Zenon DEF ArrangeEnabled, Along
<1>5. P(CHOOSE g : P(g))
  <2> HIDE DEF P
  <2> QED BY <1>3, Zenon
<1> DEFINE f == CHOOSE g : P(g)
<1> HIDE DEF f
<1>6. Walk(3, s, q, a, Len(q), f)
  BY <1>2, <1>5 DEF f
<1>7. Steps(3, s, q, a, f[Len(q)])
  BY <1>1, <1>6, WalkSteps
<1> QED BY <1>4, <1>7 DEF f

LEMMA UnsetFullscreenSteps ==
  ASSUME NEW s \in StateType, NEW c, NEW p, NEW m
  PROVE  Steps(4, s, s.clients, <<c, p, m>>, UnsetFullscreen(s, c, p, m))
<1> DEFINE q == s.clients
           a == <<c, p, m>>
           P(g) == g = [i \in 0 .. Len(q) |-> IF i = 0 THEN s ELSE UnsetOne(g[i - 1], q[i], c, p, m)]
<1>1. q \in Seq(Clients) /\ Len(q) \in Nat
  BY StateFields
<1>2. \A g : Walk(4, s, q, a, Len(q), g) <=> P(g)
  BY DEF Walk, Turn
<1>3. \E g : P(g)
  <2> HIDE DEF P
  <2> QED BY <1>1, <1>2, WalkExists
<1>4. UnsetFullscreen(s, c, p, m) = (CHOOSE g : P(g))[Len(q)]
  BY Zenon DEF UnsetFullscreen, Along
<1>5. P(CHOOSE g : P(g))
  <2> HIDE DEF P
  <2> QED BY <1>3, Zenon
<1> DEFINE f == CHOOSE g : P(g)
<1> HIDE DEF f
<1>6. Walk(4, s, q, a, Len(q), f)
  BY <1>2, <1>5 DEF f
<1>7. Steps(4, s, q, a, f[Len(q)])
  BY <1>1, <1>6, WalkSteps
<1> QED BY <1>4, <1>7 DEF f

-----------------------------------------------------------------------------
(* Windows that lose their output                                          *)

AllMapped(s) == \A c \in ToSet(s.clients) : s.win[c].status = "mapped"

FocusTop(s) == s.focus = Focustop(s, s.selmon)

(* Windows stay on their layers when they change in display only.           *)
LEMMA FitsAlike ==
  ASSUME NEW s, LayersFit(s), NEW t, \A d \in Clients : SameButShown(s.win[d], t.win[d])
  PROVE  LayersFit(t)
BY ShownFits DEF LayersFit

LEMMA FitsBut ==
  ASSUME NEW s, LayersFit(s), NEW t, NEW c \in Clients, Fits(c, t.win[c]),
         \A d \in Clients : d # c => SameButShown(s.win[d], t.win[d])
  PROVE  LayersFit(t)
BY ShownFits DEF LayersFit

(* What every handler of outputs leaves alone.                              *)
Kept(s, t) ==
  /\ Sound(t)
  /\ t.mons = s.mons /\ t.clients = s.clients /\ t.grab = s.grab
  /\ \A n \in Monitors : SameButTree(s.out[n], t.out[n])
  /\ \A d \in Clients : /\ t.win[d].status = s.win[d].status
                        /\ t.win[d].isscratchpad = s.win[d].isscratchpad
                        /\ t.win[d].tags = s.win[d].tags \/ s.win[d].tags = {}
  /\ \A d \in Clients : d \notin ToSet(s.clients) =>
       SameButShown(s.win[d], t.win[d]) /\ t.win[d].enabled = s.win[d].enabled
  /\ \A n \in Monitors : Scene(s, n) => Scene(t, n)
  /\ LayersFit(s) => LayersFit(t)

LEMMA KeptSelf ==
  ASSUME NEW s, Sound(s)
  PROVE  Kept(s, s)
BY DEF Kept, SameButTree, SameButShown

LEMMA KeptTrans ==
  ASSUME NEW s, NEW t, NEW u, Kept(s, t), Kept(t, u)
  PROVE  Kept(s, u)
<1>1. \A d \in Clients : /\ u.win[d].status = s.win[d].status
                         /\ u.win[d].isscratchpad = s.win[d].isscratchpad
                         /\ u.win[d].tags = s.win[d].tags \/ s.win[d].tags = {}
  BY DEF Kept
<1>2. \A n \in Monitors : SameButTree(s.out[n], u.out[n])
  BY DEF Kept, SameButTree
<1>3. \A d \in Clients : d \notin ToSet(s.clients) =>
        SameButShown(s.win[d], u.win[d]) /\ u.win[d].enabled = s.win[d].enabled
  BY DEF Kept, SameButShown
<1> QED BY <1>1, <1>2, <1>3 DEF Kept

LEMMA KeptMapped ==
  ASSUME NEW s, Sound(s), NEW t, Kept(s, t), AllMapped(s)
  PROVE  AllMapped(t)
BY SoundFacts DEF Kept, AllMapped

(* setmon() for a mapped window, when tags are given or it gets an output.  *)
LEMMA SetMonKeeps ==
  ASSUME NEW s, Sound(s), AllMapped(s), NEW c \in ToSet(s.clients),
         NEW m \in Monitors \cup {NoMon}, s.win[c].mon # m
  PROVE  LET t == SetMon(s, c, m, s.win[c].tags) IN
         /\ Kept(s, t) /\ t.selmon = s.selmon /\ FocusTop(t)
         /\ \A d \in Clients : t.win[d].mon = IF d = c THEN m ELSE s.win[d].mon
<1> DEFINE t == SetMon(s, c, m, s.win[c].tags)
<1>1. c \in Clients /\ s.win[c].tags \in SUBSET Tags /\ s.win[c].status = "mapped"
  BY SoundFacts, StateFields DEF WindowType, AllMapped
<1>2. /\ Changed(s, t, c)
      /\ t.win[c].mon = m /\ Fits(c, t.win[c])
      /\ t.win[c].tags = IF m = NoMon THEN s.win[c].tags
                         ELSE IF s.win[c].tags # {} THEN s.win[c].tags ELSE CurTags(s, m)
      /\ t.focus = Focustop(t, t.selmon)
      /\ \A n \in Monitors :
           /\ n # m /\ n # s.win[c].mon => SameView(s, t, n)
           /\ n = s.win[c].mon => Scene(t, n)
           /\ n = m => Scene(t, n) \/ (c \notin ToSet(s.clients) /\ SameView(s, t, n))
  BY <1>1, SetMonDoes
<1> HIDE DEF t
<1>3. \A n \in Monitors : Scene(s, n) => Scene(t, n)
  BY <1>2, SameViewScene DEF Changed
<1>4. \A d \in Clients : d # c => SameButShown(s.win[d], t.win[d])
  BY <1>2 DEF Changed
<1>5. \A d \in Clients : t.win[d].tags = s.win[d].tags \/ s.win[d].tags = {}
  BY <1>2, <1>4 DEF SameButShown
<1>8. LayersFit(s) => LayersFit(t)
  BY <1>1, <1>2, <1>4, FitsBut
<1>6. Kept(s, t)
  BY <1>1, <1>2, <1>3, <1>4, <1>5, <1>8 DEF Changed, Kept, SameButShown
<1>7. \A d \in Clients : t.win[d].mon = IF d = c THEN m ELSE s.win[d].mon
  BY <1>2, <1>4 DEF SameButShown
<1> QED BY <1>2, <1>6, <1>7 DEF Changed, FocusTop, t

LEMMA RehomeDoes ==
  ASSUME NEW s, Sound(s), AllMapped(s), NEW c \in ToSet(s.clients),
         NEW m \in Monitors \cup {NoMon}
  PROVE  LET t == Rehome(s, c, m) IN
         /\ Kept(s, t) /\ t.selmon = s.selmon
         /\ FocusTop(s) => FocusTop(t)
         /\ \A d \in Clients : t.win[d].mon =
              IF d = c /\ s.win[c].mon = m THEN s.selmon ELSE s.win[d].mon
<1>1. s.selmon \in Monitors \cup {NoMon}
  BY StateFields DEF Sound
<1>2. CASE s.win[c].mon = m /\ s.selmon # m
  <2>1. Rehome(s, c, m) = SetMon(s, c, s.selmon, s.win[c].tags)
    BY <1>2 DEF Rehome
  <2> QED BY <1>1, <1>2, <2>1, SetMonKeeps
<1>3. CASE ~ (s.win[c].mon = m /\ s.selmon # m)
  <2>1. Rehome(s, c, m) = s
    BY <1>3 DEF Rehome, SetMon
  <2> QED BY <1>3, <2>1, KeptSelf
<1> QED BY <1>2, <1>3

(* Every window of m goes to the selected output.                           *)
LEMMA EvacuateDoes ==
  ASSUME NEW s, Sound(s), AllMapped(s), NEW m \in Monitors \cup {NoMon}
  PROVE  LET t == Evacuate(s, m) IN
         /\ Kept(s, t) /\ t.selmon = s.selmon
         /\ FocusTop(s) => FocusTop(t)
         /\ \A d \in ToSet(s.clients) : t.win[d].mon =
              IF s.win[d].mon = m THEN s.selmon ELSE s.win[d].mon
<1> DEFINE q == s.clients
           n == Len(q)
<1>1. s \in StateType /\ Lists(q, ToSet(q)) /\ ToSet(q) \subseteq Clients
  BY SoundFacts DEF Sound
<1>2. /\ n \in Nat
      /\ \A i \in 1 .. n : q[i] \in ToSet(q)
      /\ \A x \in ToSet(q) : \E i \in 1 .. n : q[i] = x
      /\ \A i, j \in 1 .. n : q[i] = q[j] => i = j
  BY <1>1, ListFacts
<1>3. PICK g : /\ g[0] = s /\ g[n] = Evacuate(s, m)
               /\ \A i \in 1 .. n : g[i] = Turn(1, g[i - 1], q[i], <<m>>)
  BY <1>1, EvacuateSteps DEF Steps
<1>4. \A i \in 1 .. n : g[i] = Rehome(g[i - 1], q[i], m)
  BY <1>3 DEF Turn
<1> DEFINE R(i) == /\ Kept(s, g[i]) /\ g[i].selmon = s.selmon
                   /\ FocusTop(s) => FocusTop(g[i])
                   /\ \A j \in 1 .. n : g[i].win[q[j]].mon =
                        IF j <= i /\ s.win[q[j]].mon = m THEN s.selmon ELSE s.win[q[j]].mon
           T == {i \in 0 .. n : R(i)}
<1>5. R(0)
  BY <1>3, KeptSelf
<1>6. ASSUME NEW i \in 0 .. n - 1, R(i) PROVE R(i + 1)
  <2> DEFINE a == g[i]
             c == q[i + 1]
             t == g[i + 1]
  <2>1. i + 1 \in 1 .. n /\ c \in ToSet(q) /\ c \in Clients /\ i \in Nat
    BY <1>1, <1>2
  <2>2. t = Rehome(a, c, m)
    BY <1>2, <1>4, <2>1
  <2>3. Sound(a) /\ a.clients = q /\ Kept(s, a) /\ a.selmon = s.selmon
    BY <1>6 DEF Kept
  <2>4. AllMapped(a)
    BY <2>3, KeptMapped
  <2>5. /\ Kept(a, t) /\ t.selmon = a.selmon
        /\ FocusTop(a) => FocusTop(t)
        /\ \A d \in Clients : t.win[d].mon =
             IF d = c /\ a.win[c].mon = m THEN a.selmon ELSE a.win[d].mon
    <3>1. c \in ToSet(a.clients)
      BY <2>1, <2>3
    <3> HIDE DEF a, t, c
    <3> QED BY <2>2, <2>3, <2>4, <3>1, RehomeDoes
  <2>6. Kept(s, t)
    BY <2>3, <2>5, KeptTrans
  <2>7. ASSUME NEW j \in 1 .. n
        PROVE  t.win[q[j]].mon =
                 IF j <= i + 1 /\ s.win[q[j]].mon = m THEN s.selmon ELSE s.win[q[j]].mon
    <3>1. q[j] \in Clients /\ (q[j] = c <=> j = i + 1)
      BY <1>1, <1>2, <2>1
    <3>2. a.win[q[j]].mon = IF j <= i /\ s.win[q[j]].mon = m THEN s.selmon ELSE s.win[q[j]].mon
      BY <1>6
    <3>3. t.win[q[j]].mon = IF j = i + 1 /\ a.win[q[j]].mon = m THEN s.selmon ELSE a.win[q[j]].mon
      BY <2>3, <2>5, <3>1
    <3> HIDE DEF a, t, c, q
    <3> QED BY <2>1, <3>2, <3>3
  <2> QED BY <1>6, <2>3, <2>5, <2>6, <2>7
<1> HIDE DEF R
<1>7. \A i \in 0 .. n : i \in T
  <2>1. 0 \in T
    BY <1>2, <1>5
  <2>2. \A i \in 0 .. n - 1 : i \in T => i + 1 \in T
    BY <1>2, <1>6
  <2> HIDE DEF T
  <2> QED BY <1>2, <2>1, <2>2, InductionUpTo
<1>8. R(n)
  BY <1>2, <1>7
<1>9. ASSUME NEW d \in ToSet(q)
      PROVE  g[n].win[d].mon = IF s.win[d].mon = m THEN s.selmon ELSE s.win[d].mon
  <2>1. PICK j \in 1 .. n : q[j] = d
    BY <1>2
  <2>2. g[n].win[q[j]].mon = IF j <= n /\ s.win[q[j]].mon = m THEN s.selmon ELSE s.win[q[j]].mon
    BY <1>8 DEF R
  <2> QED BY <1>2, <2>1, <2>2
<1> QED BY <1>3, <1>8, <1>9 DEF R

LEMMA SelectDoes ==
  ASSUME NEW s, Sound(s), NEW m \in Monitors \cup {NoMon}
  PROVE  LET t == [s EXCEPT !.selmon = m] IN
         /\ Kept(s, t) /\ t.selmon = m
         /\ t.out = s.out /\ t.win = s.win /\ t.fstack = s.fstack /\ t.focus = s.focus
         /\ \A n : Focustop(t, n) = Focustop(s, n)
         /\ \A n \in Monitors : SameView(s, t, n)
<1> DEFINE t == [s EXCEPT !.selmon = m]
<1>1. /\ t \in StateType /\ t.selmon = m
      /\ t.mons = s.mons /\ t.out = s.out /\ t.clients = s.clients /\ t.fstack = s.fstack
      /\ t.win = s.win /\ t.focus = s.focus /\ t.grab = s.grab
  BY DEF Sound, StateType
<1> HIDE DEF t
<1>2. Sound(t)
  BY <1>1 DEF Sound
<1>3. \A n \in Monitors : SameView(s, t, n)
  BY <1>1, SameViewIf
<1>4. \A n \in Monitors : Scene(s, n) => Scene(t, n)
  BY <1>2, <1>3, SameViewScene
<1>5. Kept(s, t)
  BY <1>1, <1>2, <1>4 DEF LayersFit, Kept, SameButTree, SameButShown
<1>6. \A n : Focustop(t, n) = Focustop(s, n)
  BY <1>1 DEF Focustop, VisibleOn, Shows, CurTags
<1> QED BY <1>1, <1>3, <1>5, <1>6 DEF t

LEMMA FocusSelectedKeeps ==
  ASSUME NEW s, Sound(s)
  PROVE  /\ Kept(s, FocusSelected(s)) /\ FocusSelected(s).selmon = s.selmon
         /\ FocusTop(FocusSelected(s)) /\ FocusSelected(s).win = s.win
<1> DEFINE t == FocusSelected(s)
<1>1. /\ Sound(t)
      /\ t.mons = s.mons /\ t.out = s.out /\ t.clients = s.clients /\ t.win = s.win
      /\ t.grab = s.grab /\ t.selmon = s.selmon
      /\ t.focus = Focustop(t, t.selmon)
      /\ \A n \in Monitors : SameView(s, t, n)
  BY FocusSelectedDoes
<1> HIDE DEF t
<1>2. \A n \in Monitors : Scene(s, n) => Scene(t, n)
  BY <1>1, SameViewScene
<1>3. Kept(s, t)
  BY <1>1, <1>2 DEF LayersFit, Kept, SameButTree, SameButShown
<1> QED BY <1>1, <1>3 DEF FocusTop, t

LEMMA NextSelmonType ==
  ASSUME NEW s \in StateType, NEW m
  PROVE  /\ NextSelmon(s, m) \in Monitors \cup {NoMon}
         /\ m # s.selmon => NextSelmon(s, m) \in {s.selmon, NoMon}
         /\ m # s.selmon /\ s.mons # <<>> => NextSelmon(s, m) = s.selmon
         /\ m = s.selmon => \/ NextSelmon(s, m) = NoMon
                            \/ /\ NextSelmon(s, m) \in ToSet(s.mons)
                               /\ Enabled(s, NextSelmon(s, m))
<1>1. s.mons \in Seq(Monitors) /\ s.selmon \in Monitors \cup {NoMon}
  BY StateFields
<1>2. s.mons # <<>> => Head(s.mons) \in Monitors /\ Head(s.mons) \in ToSet(s.mons)
  BY <1>1 DEF ToSet
<1> QED BY <1>1, <1>2 DEF NextSelmon

LEMMA CloseMonDoes ==
  ASSUME NEW s, Sound(s), AllMapped(s), NEW m \in Monitors
  PROVE  LET t == CloseMon(s, m) IN
         /\ Kept(s, t) /\ t.selmon = NextSelmon(s, m) /\ FocusTop(t)
         /\ \A d \in ToSet(s.clients) : t.win[d].mon =
              IF s.win[d].mon = m THEN t.selmon ELSE s.win[d].mon
<1> DEFINE a == [s EXCEPT !.selmon = NextSelmon(s, m)]
           b == Evacuate(a, m)
           t == CloseMon(s, m)
<1>1. /\ Kept(s, a) /\ a.selmon = NextSelmon(s, m) /\ a.win = s.win
  BY NextSelmonType, SelectDoes DEF Sound
<1>2. t = FocusSelected(b)
  BY DEF CloseMon
<1> HIDE DEF a, t
<1>3. Sound(a) /\ AllMapped(a) /\ a.clients = s.clients
  BY <1>1, KeptMapped DEF Kept
<1>4. /\ Kept(a, b) /\ b.selmon = a.selmon
      /\ \A d \in ToSet(a.clients) : b.win[d].mon =
              IF a.win[d].mon = m THEN a.selmon ELSE a.win[d].mon
  BY <1>3, EvacuateDoes
<1> HIDE DEF b
<1>5. Kept(b, t) /\ t.selmon = b.selmon /\ FocusTop(t) /\ t.win = b.win
  BY <1>2, <1>4, FocusSelectedKeeps DEF Kept
<1>6. Kept(s, t)
  BY <1>1, <1>4, <1>5, KeptTrans
<1> QED BY <1>1, <1>3, <1>4, <1>5, <1>6 DEF t

NoOrphan(s) == \A c \in ToSet(s.clients) : s.win[c].mon # NoMon

(* The selected output may be switched off if updatemons() will come to it. *)
SelmonSettled(s) == s.selmon # NoMon => InLayout(s, s.selmon) /\ NoOrphan(s)

SelmonListed(s) ==
  s.selmon # NoMon =>
    /\ \/ InLayout(s, s.selmon)
       \/ s.selmon \in ToSet(s.mons) /\ s.out[s.selmon].power = "off"
    /\ NoOrphan(s)

LEMMA CloseIfOffDoes ==
  ASSUME NEW s, Sound(s), AllMapped(s), NEW m \in ToSet(s.mons)
  PROVE  LET t == CloseIfOff(s, m) IN
         /\ Kept(s, t)
         /\ FocusTop(s) => FocusTop(t)
         /\ (s.selmon # NoMon => NoOrphan(s)) => (t.selmon # NoMon => NoOrphan(t))
         /\ \/ t.selmon = NoMon
            \/ t.selmon = s.selmon /\ ~ (s.selmon = m /\ s.out[m].power = "off")
            \/ InLayout(t, t.selmon)
         /\ \A d \in ToSet(s.clients) : t.win[d].mon =
              IF s.out[m].power = "off" /\ s.win[d].mon = m THEN t.selmon ELSE s.win[d].mon
<1> DEFINE t == CloseIfOff(s, m)
<1>1. s \in StateType /\ m \in Monitors /\ s.mons # <<>>
  BY StateFields DEF Sound, ToSet
<1>2. CASE s.out[m].power # "off"
  <2>1. t = s
    BY <1>2 DEF CloseIfOff
  <2> HIDE DEF t
  <2> QED BY <1>2, <2>1, KeptSelf DEF t
<1>3. CASE s.out[m].power = "off"
  <2>1. t = CloseMon(s, m)
    BY <1>3 DEF CloseIfOff
  <2> HIDE DEF t
  <2>2. /\ Kept(s, t) /\ t.selmon = NextSelmon(s, m) /\ FocusTop(t)
        /\ \A d \in ToSet(s.clients) : t.win[d].mon =
             IF s.win[d].mon = m THEN t.selmon ELSE s.win[d].mon
    BY <1>1, <2>1, CloseMonDoes
  <2>3. m \in Monitors /\ NoMon \notin Monitors
    BY <1>1, ConstantsAssumption
  <2>4. t.selmon # NoMon /\ NoOrphan(s) => NoOrphan(t)
    BY <2>2 DEF NoOrphan, Kept
  <2>5. CASE s.selmon = m
    <3>1. t.selmon = NoMon \/ (t.selmon \in Monitors /\ Enabled(s, t.selmon))
      BY <1>1, <2>2, <2>5, NextSelmonType, StateFields DEF Enabled
    <3>2. t.selmon = NoMon \/ InLayout(t, t.selmon)
      BY <2>2, <3>1 DEF Kept, SameButTree, Enabled, InLayout
    <3> HIDE DEF t
    <3> QED BY <1>3, <2>2, <2>3, <2>4, <2>5, <3>2 DEF t
  <2>6. CASE s.selmon # m
    <3>1. t.selmon = s.selmon
      BY <1>1, <2>2, <2>6, NextSelmonType
    <3> QED BY <1>3, <2>2, <2>4, <2>6, <3>1 DEF t
  <2> QED BY <2>5, <2>6
<1> QED BY <1>2, <1>3

(* The outputs s has switched off hold no window in t.                      *)
Emptied(s, t) ==
  \A m \in ToSet(s.mons) : s.out[m].power = "off" =>
    \A d \in ToSet(s.clients) : t.win[d].mon # m

LEMMA CloseDisabledDoes ==
  ASSUME NEW s, Sound(s), AllMapped(s), FocusTop(s), SelmonListed(s)
  PROVE  LET t == CloseDisabled(s) IN
         /\ Kept(s, t) /\ FocusTop(t) /\ SelmonSettled(t)
         /\ Emptied(s, t)
<1> DEFINE q == s.mons
           n == Len(q)
           off(m) == s.out[m].power = "off"
<1>1. s \in StateType /\ q \in Seq(Monitors) /\ n \in Nat
  BY StateFields DEF Sound
<1>2. /\ \A i \in 1 .. n : q[i] \in ToSet(q) /\ q[i] \in Monitors
      /\ \A x \in ToSet(q) : \E i \in 1 .. n : q[i] = x
  BY <1>1 DEF ToSet
<1>3. PICK g : /\ g[0] = s /\ g[n] = CloseDisabled(s)
               /\ \A i \in 1 .. n : g[i] = Turn(2, g[i - 1], q[i], <<>>)
  BY <1>1, CloseDisabledSteps DEF Steps
<1>4. \A i \in 1 .. n : g[i] = CloseIfOff(g[i - 1], q[i])
  BY <1>3 DEF Turn
<1> DEFINE S(t, i) ==
             t.selmon # NoMon =>
               /\ InLayout(t, t.selmon) \/ \E j \in i + 1 .. n : q[j] = t.selmon /\ off(q[j])
               /\ NoOrphan(t)
           E(t, i) ==
             \A x \in ToSet(q) :
               off(x) => \/ \E j \in i + 1 .. n : q[j] = x
                         \/ \A d \in ToSet(s.clients) : t.win[d].mon # x
           R(i) == Kept(s, g[i]) /\ FocusTop(g[i]) /\ S(g[i], i) /\ E(g[i], i)
           T == {i \in 0 .. n : R(i)}
<1>5. R(0)
  <2>1. S(s, 0)
    BY <1>1, <1>2 DEF SelmonListed
  <2>2. E(s, 0)
    BY <1>1, <1>2
  <2> HIDE DEF S, E
  <2> QED BY <1>3, <2>1, <2>2, KeptSelf
<1>6. ASSUME NEW i \in 0 .. n - 1, R(i) PROVE R(i + 1)
  <2> DEFINE a == g[i]
             m == q[i + 1]
             t == g[i + 1]
  <2>1. i + 1 \in 1 .. n /\ m \in ToSet(q) /\ m \in Monitors /\ i \in Nat
    BY <1>1, <1>2
  <2>2. t = CloseIfOff(a, m)
    BY <1>1, <1>4, <2>1
  <2>3. Sound(a) /\ a.mons = q /\ Kept(s, a) /\ FocusTop(a) /\ S(a, i) /\ E(a, i) /\ a.clients = s.clients
    BY <1>6 DEF Kept
  <2>4. AllMapped(a)
    BY <2>3, KeptMapped
  <2>5. a.out[m].power = "off" <=> off(m)
    BY <2>1, <2>3 DEF Kept, SameButTree
  <2>6. /\ Kept(a, t) /\ FocusTop(t)
        /\ (a.selmon # NoMon => NoOrphan(a)) => (t.selmon # NoMon => NoOrphan(t))
        /\ \/ t.selmon = NoMon
           \/ t.selmon = a.selmon /\ ~ (a.selmon = m /\ a.out[m].power = "off")
           \/ InLayout(t, t.selmon)
        /\ \A d \in ToSet(a.clients) : t.win[d].mon =
              IF a.out[m].power = "off" /\ a.win[d].mon = m THEN t.selmon ELSE a.win[d].mon
    <3>1. m \in ToSet(a.mons)
      BY <2>1, <2>3
    <3> HIDE DEF a, t, m
    <3> QED BY <2>2, <2>3, <2>4, <3>1, CloseIfOffDoes
  <2>7. Kept(s, t)
    BY <2>3, <2>6, KeptTrans
  <2>8. S(t, i + 1)
    <3>1. SUFFICES ASSUME t.selmon # NoMon
                   PROVE  /\ \/ InLayout(t, t.selmon)
                             \/ \E j \in i + 2 .. n : q[j] = t.selmon /\ off(q[j])
                          /\ NoOrphan(t)
      BY <2>1
    <3>2. NoOrphan(t)
      BY <2>3, <2>6, <3>1
    <3>3. ASSUME ~ InLayout(t, t.selmon)
          PROVE  \E j \in i + 2 .. n : q[j] = t.selmon /\ off(q[j])
      <4>1. t.selmon = a.selmon /\ ~ (a.selmon = m /\ off(m))
        BY <2>5, <2>6, <3>1, <3>3
      <4>2. t.selmon \in Monitors
        BY <2>6, <3>1, StateFields DEF Kept, Sound
      <4>3. ~ InLayout(a, a.selmon)
        BY <2>6, <3>3, <4>1, <4>2 DEF InLayout, Kept, SameButTree
      <4>4. PICK j \in i + 1 .. n : q[j] = a.selmon /\ off(q[j])
        BY <2>3, <3>1, <4>1, <4>3
      <4>5. j # i + 1
        BY <4>1, <4>4
      <4> HIDE DEF off, t, a
      <4> QED BY <1>1, <2>1, <4>1, <4>4, <4>5
    <3> QED BY <3>2, <3>3
  <2>9. E(t, i + 1)
    <3> SUFFICES ASSUME NEW x \in ToSet(q), off(x), ~ \E j \in i + 2 .. n : q[j] = x,
                        NEW d \in ToSet(s.clients)
                 PROVE  t.win[d].mon # x
      BY <2>1
    <3>1. x \in Monitors /\ NoMon \notin Monitors
      BY <1>2, ConstantsAssumption
    <3>2. t.selmon # x
      <4> SUFFICES ASSUME t.selmon = x PROVE FALSE
        OBVIOUS
      <4>1. t.out[x].power = "off"
        BY <2>7, <3>1 DEF Kept, SameButTree
      <4>2. ~ InLayout(t, x)
        BY <4>1 DEF InLayout
      <4>3. \E j \in (i + 1) + 1 .. n : q[j] = x
        BY <2>8, <3>1, <4>2
      <4> QED BY <2>1, <4>3
    <3>3. a.win[d].mon # x \/ x = m
      <4> SUFFICES ASSUME x # m PROVE a.win[d].mon # x
        OBVIOUS
      <4>1. ~ \E j \in i + 1 .. n : q[j] = x
        <5> SUFFICES ASSUME NEW j \in i + 1 .. n, q[j] = x PROVE FALSE
          OBVIOUS
        <5>1. j # i + 1
          OBVIOUS
        <5>2. j \in i + 2 .. n
          BY <1>1, <2>1, <5>1
        <5> QED BY <5>2
      <4> QED BY <2>3, <4>1
    <3>4. t.win[d].mon = IF a.out[m].power = "off" /\ a.win[d].mon = m THEN t.selmon
                         ELSE a.win[d].mon
      BY <2>3, <2>6
    <3> HIDE DEF a, t, m
    <3> QED BY <2>5, <3>2, <3>3, <3>4
  <2> HIDE DEF S, E
  <2> QED BY <2>6, <2>7, <2>8, <2>9
<1> HIDE DEF R
<1>7. \A i \in 0 .. n : i \in T
  <2>1. 0 \in T
    BY <1>1, <1>5
  <2>2. \A i \in 0 .. n - 1 : i \in T => i + 1 \in T
    BY <1>1, <1>6
  <2> HIDE DEF T
  <2> QED BY <1>1, <2>1, <2>2, InductionUpTo
<1>8. R(n)
  BY <1>1, <1>7
<1>9. ~ \E j \in n + 1 .. n : TRUE
  BY <1>1
<1>10. Emptied(s, g[n])
  BY <1>8, <1>9 DEF R, Emptied
<1> QED BY <1>3, <1>8, <1>9, <1>10 DEF R, SelmonSettled

-----------------------------------------------------------------------------
(* updatemons                                                              *)

LEMMA ArrangeKeeps ==
  ASSUME NEW s, Sound(s), NEW m \in Monitors
  PROVE  LET t == Arrange(s, m) IN
         /\ Kept(s, t) /\ t.selmon = s.selmon /\ t.focus = s.focus
         /\ \A d \in Clients : SameButShown(s.win[d], t.win[d])
         /\ \A n \in Monitors : Focustop(t, n) = Focustop(s, n)
         /\ Scene(t, m)
         /\ FocusTop(s) => FocusTop(t)
<1> DEFINE t == Arrange(s, m)
<1>1. /\ Redrawn(s, t, m)
      /\ Enabled(s, m) => Arranged(s, t, m)
      /\ ~ Enabled(s, m) => t = s
  BY ArrangeDoes
<1>2. Scene(t, m) /\ \A n \in Monitors : n # m => SameView(s, t, n)
  BY ArrangeScene, ArrangeView
<1> HIDE DEF t
<1>3. Sound(t)
  BY <1>1, RedrawnSound
<1>4. \A n \in Monitors : Scene(s, n) => Scene(t, n)
  BY <1>2, <1>3, SameViewScene
<1>5. \A d \in Clients : d \notin ToSet(s.clients) => t.win[d] = s.win[d]
  BY <1>1 DEF Arranged
<1>10. LayersFit(s) => LayersFit(t)
  BY <1>1, FitsAlike DEF Redrawn, SameDesk
<1>6. Kept(s, t)
  BY <1>1, <1>3, <1>4, <1>5, <1>10 DEF Kept, Redrawn, SameDesk, SameButShown
<1>7. \A n \in Monitors : Focustop(t, n) = Focustop(s, n)
  BY <1>1, RedrawnQueries
<1>8. s.selmon \in Monitors \cup {NoMon} /\ t.selmon = s.selmon /\ t.focus = s.focus
  BY <1>1, StateFields DEF Sound, Redrawn
<1>9. FocusTop(s) => FocusTop(t)
  BY <1>3, <1>7, <1>8, FocustopNowhere DEF FocusTop
<1> QED BY <1>1, <1>2, <1>6, <1>7, <1>8, <1>9 DEF Redrawn, SameDesk, t

LEMMA ArrangeIfOnDoes ==
  ASSUME NEW s, Sound(s), NEW m \in Monitors
  PROVE  LET t == ArrangeIfOn(s, m) IN
         /\ Kept(s, t) /\ Scene(t, m)
         /\ \A d \in Clients : t.win[d].mon = s.win[d].mon
         /\ FocusTop(s) => FocusTop(t) \/ Enabled(t, t.selmon)
         /\ t.selmon = s.selmon \/ (s.selmon = NoMon /\ Enabled(t, t.selmon))
         /\ Enabled(s, m) => t.selmon # NoMon
<1> DEFINE t == ArrangeIfOn(s, m)
           a == Arrange(s, m)
<1>1. CASE ~ Enabled(s, m)
  <2>1. t = s
    BY <1>1 DEF ArrangeIfOn
  <2>2. Scene(s, m)
    BY <1>1 DEF Scene
  <2> QED BY <1>1, <2>1, <2>2, KeptSelf
<1>2. CASE Enabled(s, m)
  <2>1. t = SelectIfNone(a, m)
    BY <1>2 DEF ArrangeIfOn
  <2>2. /\ Kept(s, a) /\ a.selmon = s.selmon /\ a.focus = s.focus
        /\ \A d \in Clients : SameButShown(s.win[d], a.win[d])
        /\ Scene(a, m)
        /\ FocusTop(s) => FocusTop(a)
    BY ArrangeKeeps
  <2> HIDE DEF t, a
  <2>3. CASE a.selmon # NoMon
    <3>1. t = a
      BY <2>1, <2>3 DEF SelectIfNone
    <3> QED BY <2>2, <2>3, <3>1 DEF t, SameButShown
  <2>4. CASE a.selmon = NoMon
    <3>1. t = [a EXCEPT !.selmon = m]
      BY <2>1, <2>4 DEF SelectIfNone
    <3>2. Sound(a)
      BY <2>2 DEF Kept
    <3>3. /\ Kept(a, t) /\ t.selmon = m /\ t.win = a.win
      BY <3>1, <3>2, SelectDoes
    <3>4. Kept(s, t)
      BY <2>2, <3>3, KeptTrans
    <3>5. Enabled(t, m)
      BY <1>2, <3>4, SameOutQueries DEF Kept
    <3>6. Scene(t, m)
      BY <2>2, <3>3 DEF Kept
    <3>7. \A d \in Clients : t.win[d].mon = s.win[d].mon
      BY <2>2, <3>3 DEF SameButShown
    <3>8. t.selmon # NoMon
      BY <3>3, ConstantsAssumption
    <3> QED BY <2>2, <2>4, <3>3, <3>4, <3>5, <3>6, <3>7, <3>8 DEF t
  <2> QED BY <2>3, <2>4
<1> QED BY <1>1, <1>2

LEMMA ArrangeEnabledDoes ==
  ASSUME NEW s, Sound(s)
  PROVE  LET t == ArrangeEnabled(s) IN
         /\ Kept(s, t)
         /\ \A m \in ToSet(s.mons) : Scene(t, m)
         /\ \A d \in Clients : t.win[d].mon = s.win[d].mon
         /\ FocusTop(s) => FocusTop(t) \/ Enabled(t, t.selmon)
         /\ t.selmon = s.selmon \/ (s.selmon = NoMon /\ Enabled(t, t.selmon))
         /\ \A m \in ToSet(s.mons) : Enabled(s, m) => t.selmon # NoMon
<1> DEFINE q == s.mons
           n == Len(q)
<1>1. s \in StateType /\ q \in Seq(Monitors) /\ n \in Nat
  BY StateFields DEF Sound
<1>2. /\ \A i \in 1 .. n : q[i] \in ToSet(q) /\ q[i] \in Monitors
      /\ \A x \in ToSet(q) : \E i \in 1 .. n : q[i] = x
  BY <1>1 DEF ToSet
<1>3. PICK g : /\ g[0] = s /\ g[n] = ArrangeEnabled(s)
               /\ \A i \in 1 .. n : g[i] = Turn(3, g[i - 1], q[i], <<>>)
  BY <1>1, ArrangeEnabledSteps DEF Steps
<1>4. \A i \in 1 .. n : g[i] = ArrangeIfOn(g[i - 1], q[i])
  BY <1>3 DEF Turn
<1> DEFINE R(i) == /\ Kept(s, g[i])
                   /\ \A j \in 1 .. n : j <= i => Scene(g[i], q[j])
                   /\ \A d \in Clients : g[i].win[d].mon = s.win[d].mon
                   /\ FocusTop(s) => FocusTop(g[i]) \/ Enabled(g[i], g[i].selmon)
                   /\ \/ g[i].selmon = s.selmon
                      \/ s.selmon = NoMon /\ Enabled(g[i], g[i].selmon)
                   /\ \A j \in 1 .. n : j <= i /\ Enabled(s, q[j]) => g[i].selmon # NoMon
           T == {i \in 0 .. n : R(i)}
<1>5. R(0)
  BY <1>1, <1>3, KeptSelf
<1>6. ASSUME NEW i \in 0 .. n - 1, R(i) PROVE R(i + 1)
  <2> DEFINE a == g[i]
             m == q[i + 1]
             t == g[i + 1]
  <2>1. i + 1 \in 1 .. n /\ m \in Monitors /\ i \in Nat
    BY <1>1, <1>2
  <2>2. t = ArrangeIfOn(a, m)
    BY <1>1, <1>4, <2>1
  <2>3. Sound(a) /\ Kept(s, a)
    BY <1>6 DEF Kept
  <2>4. /\ Kept(a, t) /\ Scene(t, m)
        /\ \A d \in Clients : t.win[d].mon = a.win[d].mon
        /\ FocusTop(a) => FocusTop(t) \/ Enabled(t, t.selmon)
        /\ t.selmon = a.selmon \/ (a.selmon = NoMon /\ Enabled(t, t.selmon))
        /\ Enabled(a, m) => t.selmon # NoMon
    <3> HIDE DEF a, t, m
    <3> QED BY <2>1, <2>2, <2>3, ArrangeIfOnDoes
  <2>5. Kept(s, t)
    BY <2>3, <2>4, KeptTrans
  <2>6. ASSUME NEW j \in 1 .. n, j <= i + 1 PROVE Scene(t, q[j])
    <3>1. CASE j = i + 1
      BY <2>4, <3>1
    <3>2. CASE j # i + 1
      <4>1. j <= i /\ q[j] \in Monitors
        BY <1>1, <1>2, <2>1, <2>6, <3>2
      <4> QED BY <1>6, <2>4, <4>1 DEF Kept
    <3> QED BY <3>1, <3>2
  <2>7. Enabled(a, a.selmon) => Enabled(t, a.selmon)
    <3> SUFFICES ASSUME Enabled(a, a.selmon) PROVE Enabled(t, a.selmon)
      OBVIOUS
    <3>1. a.selmon \in Monitors
      BY <2>3, StateFields DEF Enabled, Sound
    <3>2. SameButTree(a.out[a.selmon], t.out[a.selmon])
      BY <2>4, <3>1 DEF Kept
    <3> HIDE DEF a, t
    <3> QED BY <3>1, <3>2, SameOutQueries
  <2>8. \/ t.selmon = s.selmon
        \/ s.selmon = NoMon /\ Enabled(t, t.selmon)
    BY <1>6, <2>4, <2>7 DEF Enabled
  <2>9. FocusTop(s) => FocusTop(t) \/ Enabled(t, t.selmon)
    BY <1>6, <2>4, <2>7 DEF Enabled
  <2>10. \A d \in Clients : t.win[d].mon = s.win[d].mon
    BY <1>6, <2>4
  <2>11. ASSUME NEW j \in 1 .. n, j <= i + 1, Enabled(s, q[j]) PROVE t.selmon # NoMon
    <3>1. CASE j = i + 1
      <4>1. Enabled(a, m)
        BY <2>1, <2>3, <2>11, <3>1, SameOutQueries DEF Kept
      <4> QED BY <2>4, <4>1
    <3>2. CASE j # i + 1
      <4>1. j <= i
        BY <2>1, <2>11, <3>2
      <4>2. a.selmon # NoMon
        BY <1>6, <2>11, <4>1
      <4> QED BY <2>4, <4>2
    <3> QED BY <3>1, <3>2
  <2> HIDE DEF t
  <2> QED BY <2>5, <2>6, <2>8, <2>9, <2>10, <2>11 DEF t
<1> HIDE DEF R
<1>7. \A i \in 0 .. n : i \in T
  <2>1. 0 \in T
    BY <1>1, <1>5
  <2>2. \A i \in 0 .. n - 1 : i \in T => i + 1 \in T
    BY <1>1, <1>6
  <2> HIDE DEF T
  <2> QED BY <1>1, <2>1, <2>2, InductionUpTo
<1>8. R(n)
  BY <1>1, <1>7
<1>9. \A j \in 1 .. n : j <= n
  BY <1>1
<1> QED BY <1>2, <1>3, <1>8, <1>9 DEF R

(* Windows without an output get the selected one.                          *)
LEMMA AdoptDoes ==
  ASSUME NEW s, Sound(s), AllMapped(s), Enabled(s, s.selmon)
  PROVE  LET t == AdoptIfSelected(s) IN
         /\ Kept(s, t) /\ FocusTop(t) /\ SelmonSettled(t) /\ t.selmon = s.selmon
         /\ \A x \in ToSet(s.clients) :
              t.win[x].mon = IF s.win[x].mon = NoMon THEN s.selmon ELSE s.win[x].mon
<1> DEFINE d == Adopt(s)
           t == AdoptIfSelected(s)
<1>1. t = FocusSelected(d)
  BY DEF AdoptIfSelected
<1>2. s.selmon \in Monitors /\ NoMon \notin Monitors
  BY StateFields, ConstantsAssumption DEF Sound, Enabled
<1>3. /\ Kept(s, d) /\ d.selmon = s.selmon
      /\ \A x \in ToSet(s.clients) : d.win[x].mon =
            IF s.win[x].mon = NoMon THEN s.selmon ELSE s.win[x].mon
  BY EvacuateDoes DEF Adopt
<1> HIDE DEF d, t
<1>4. Kept(d, t) /\ t.selmon = d.selmon /\ FocusTop(t) /\ t.win = d.win
  BY <1>1, <1>3, FocusSelectedKeeps DEF Kept
<1>5. Kept(s, t)
  BY <1>3, <1>4, KeptTrans
<1>6. InLayout(t, t.selmon)
  <2>1. Enabled(t, s.selmon)
    BY <1>2, <1>5, SameOutQueries DEF Kept
  <2> QED BY <1>3, <1>4, <2>1 DEF Enabled, InLayout
<1>7. NoOrphan(t)
  BY <1>2, <1>3, <1>4, <1>5 DEF NoOrphan, Kept
<1> QED BY <1>3, <1>4, <1>5, <1>6, <1>7 DEF SelmonSettled, t

(* What holds after updatemons(), whatever has become of the outputs.       *)
LEMMA UpdateMonsDoes ==
  ASSUME NEW s, Sound(s), AllMapped(s), FocusTop(s), SelmonListed(s)
  PROVE  LET t == UpdateMons(s) IN
         /\ Kept(s, t) /\ FocusTop(t) /\ SelmonSettled(t)
         /\ \A m \in ToSet(s.mons) : Scene(t, m)
         /\ Emptied(s, t)
         /\ \A m \in ToSet(s.mons) : Enabled(s, m) => t.selmon # NoMon
<1> DEFINE a == CloseDisabled(s)
           b == ArrangeEnabled(a)
           t == AdoptIfSelected(b)
<1>1. UpdateMons(s) = t
  BY DEF UpdateMons
<1>2. Kept(s, a) /\ FocusTop(a) /\ SelmonSettled(a) /\ Emptied(s, a)
  BY CloseDisabledDoes
<1> HIDE DEF a
<1>3. /\ Kept(a, b)
      /\ \A m \in ToSet(a.mons) : Scene(b, m)
      /\ \A d \in Clients : b.win[d].mon = a.win[d].mon
      /\ FocusTop(b) \/ Enabled(b, b.selmon)
      /\ b.selmon = a.selmon \/ (a.selmon = NoMon /\ Enabled(b, b.selmon))
      /\ \A m \in ToSet(a.mons) : Enabled(a, m) => b.selmon # NoMon
  <2>1. Sound(a)
    BY <1>2 DEF Kept
  <2> QED BY <1>2, <2>1, ArrangeEnabledDoes
<1> HIDE DEF b
<1>4. Kept(s, b) /\ Sound(b) /\ b.mons = s.mons
  BY <1>2, <1>3, KeptTrans DEF Kept
<1>5. ToSet(s.mons) \subseteq Monitors /\ NoMon \notin Monitors
  BY StateFields, ConstantsAssumption DEF Sound, ToSet
<1>8. Emptied(s, b)
  <2>1. ToSet(s.clients) \subseteq Clients
    BY SoundFacts
  <2> QED BY <1>2, <1>3, <2>1 DEF Emptied
<1>9. \A m \in ToSet(s.mons) : Enabled(s, m) => b.selmon # NoMon
  BY <1>2, <1>3, <1>5, SameOutQueries DEF Kept
<1>6. CASE ~ Enabled(b, b.selmon)
  <2>1. t = b
    BY <1>6 DEF AdoptIfSelected
  <2>2. b.selmon = a.selmon /\ FocusTop(b)
    BY <1>3, <1>6
  <2>3. SelmonSettled(b)
    <3> SUFFICES ASSUME b.selmon # NoMon PROVE InLayout(b, b.selmon) /\ NoOrphan(b)
      BY DEF SelmonSettled
    <3>1. b.selmon \in Monitors
      BY <1>4, StateFields DEF Sound
    <3>2. InLayout(b, b.selmon)
      BY <1>2, <1>3, <2>2, <3>1, SameOutQueries DEF SelmonSettled, Kept
    <3>3. NoOrphan(b)
      <4>1. NoOrphan(a) /\ b.clients = a.clients /\ ToSet(b.clients) \subseteq Clients
        BY <1>2, <1>3, <1>4, <2>2, SoundFacts DEF SelmonSettled, Kept
      <4> QED BY <1>3, <4>1 DEF NoOrphan
    <3> QED BY <3>2, <3>3
  <2> QED BY <1>1, <1>2, <1>3, <1>4, <1>8, <1>9, <2>1, <2>2, <2>3 DEF Kept
<1>7. CASE Enabled(b, b.selmon)
  <2>1. AllMapped(b)
    BY <1>4, KeptMapped
  <2> HIDE DEF t
  <2>2. /\ Kept(b, t) /\ FocusTop(t) /\ SelmonSettled(t) /\ t.selmon = b.selmon
        /\ \A x \in ToSet(b.clients) :
             t.win[x].mon = IF b.win[x].mon = NoMon THEN b.selmon ELSE b.win[x].mon
    BY <1>4, <1>7, <2>1, AdoptDoes DEF t
  <2>3. Kept(s, t)
    BY <1>4, <2>2, KeptTrans
  <2>4. \A m \in ToSet(s.mons) : Scene(t, m)
    BY <1>2, <1>3, <1>5, <2>2 DEF Kept
  <2>5. Emptied(s, t)
    <3>1. \A m \in ToSet(s.mons) : s.out[m].power = "off" => b.selmon # m
      BY <1>4, <1>5, <1>7 DEF Enabled, Kept, SameButTree
    <3>2. b.clients = s.clients
      BY <1>4 DEF Kept
    <3> QED BY <1>8, <2>2, <3>1, <3>2 DEF Emptied
  <2> QED BY <1>1, <1>9, <2>2, <2>3, <2>4, <2>5
<1> QED BY <1>6, <1>7

(* When no turn of a walk changes anything, the walk does not.              *)
LEMMA IdleWalk ==
  ASSUME NEW k, NEW s, NEW S, NEW q \in Seq(S), NEW a, NEW t, Steps(k, s, q, a, t),
         \A x \in ToSet(q) : Turn(k, s, x, a) = s
  PROVE  t = s
<1> DEFINE n == Len(q)
<1>1. n \in Nat /\ \A i \in 1 .. n : q[i] \in ToSet(q)
  BY DEF ToSet
<1>2. PICK g : /\ g[0] = s /\ g[n] = t
               /\ \A i \in 1 .. n : g[i] = Turn(k, g[i - 1], q[i], a)
  BY DEF Steps
<1> DEFINE T == {i \in 0 .. n : g[i] = s}
<1>3. 0 \in T
  BY <1>1, <1>2
<1>4. ASSUME NEW i \in 0 .. n - 1, i \in T PROVE i + 1 \in T
  <2>1. i + 1 \in 1 .. n /\ (i + 1) - 1 = i /\ i + 1 \in 0 .. n
    BY <1>1
  <2>2. g[i + 1] = Turn(k, s, q[i + 1], a)
    BY <1>2, <1>4, <2>1
  <2> QED BY <1>1, <2>1, <2>2
<1> HIDE DEF T
<1>5. \A i \in 0 .. n : i \in T
  BY <1>1, <1>3, <1>4, InductionUpTo
<1> QED BY <1>1, <1>2, <1>5 DEF T

LEMMA CloseNone ==
  ASSUME NEW s \in StateType, \A m \in ToSet(s.mons) : CloseIfOff(s, m) = s
  PROVE  CloseDisabled(s) = s
<1> DEFINE a == <<>>
           t == CloseDisabled(s)
<1>1. Steps(2, s, s.mons, a, t) /\ s.mons \in Seq(Monitors)
  BY CloseDisabledSteps, StateFields
<1>2. \A x \in ToSet(s.mons) : Turn(2, s, x, a) = s
  BY DEF Turn
<1> HIDE DEF a, t
<1>3. t = s
  BY <1>1, <1>2, IdleWalk
<1> QED BY <1>3 DEF t

LEMMA ArrangeNone ==
  ASSUME NEW s \in StateType, \A m \in ToSet(s.mons) : ArrangeIfOn(s, m) = s
  PROVE  ArrangeEnabled(s) = s
<1> DEFINE a == <<>>
           t == ArrangeEnabled(s)
<1>1. Steps(3, s, s.mons, a, t) /\ s.mons \in Seq(Monitors)
  BY ArrangeEnabledSteps, StateFields
<1>2. \A x \in ToSet(s.mons) : Turn(3, s, x, a) = s
  BY DEF Turn
<1> HIDE DEF a, t
<1>3. t = s
  BY <1>1, <1>2, IdleWalk
<1> QED BY <1>3 DEF t

LEMMA EvacuateNone ==
  ASSUME NEW s \in StateType, NEW m, \A c \in ToSet(s.clients) : s.win[c].mon # m
  PROVE  Evacuate(s, m) = s
<1> DEFINE a == <<m>>
           t == Evacuate(s, m)
<1>1. Steps(1, s, s.clients, a, t) /\ s.clients \in Seq(Clients)
  BY EvacuateSteps, StateFields
<1>2. \A x \in ToSet(s.clients) : Turn(1, s, x, a) = s
  BY DEF Turn, Rehome
<1> HIDE DEF a, t
<1>3. t = s
  BY <1>1, <1>2, IdleWalk
<1> QED BY <1>3 DEF t

LEMMA FocusSettled ==
  ASSUME NEW s \in StateType, FocusTop(s)
  PROVE  FocusSelected(s) = s
<1>1. CASE Focustop(s, s.selmon) = NoClient
  <2>1. FocusSelected(s) = [s EXCEPT !.focus = NoClient]
    BY <1>1 DEF FocusSelected, FocusTopOf, FocusClient
  <2> QED BY <1>1, <2>1 DEF FocusTop, StateType
<1>2. CASE Focustop(s, s.selmon) # NoClient
  BY <1>2 DEF FocusTop, FocusSelected, FocusTopOf, FocusClient
<1> QED BY <1>1, <1>2

(* A second updatemons() finds nothing to do.                               *)
LEMMA SettledStays ==
  ASSUME NEW t, Sound(t), FocusTop(t), SelmonSettled(t), Emptied(t, t),
         \A m \in ToSet(t.mons) : Scene(t, m),
         \A m \in ToSet(t.mons) : Enabled(t, m) => t.selmon # NoMon
  PROVE  UpdateMons(t) = t
<1>1. /\ t \in StateType /\ t.mons \in Seq(Monitors) /\ NoMon \notin Monitors
      /\ ToSet(t.mons) \subseteq Monitors
  BY StateFields, ConstantsAssumption DEF Sound, ToSet
<1>2. ASSUME NEW m \in ToSet(t.mons) PROVE CloseIfOff(t, m) = t
  <2> SUFFICES ASSUME t.out[m].power = "off" PROVE CloseMon(t, m) = t
    BY DEF CloseIfOff
  <2>1. m # t.selmon
    BY <1>1 DEF SelmonSettled, InLayout
  <2>2. t.mons # <<>>
    BY DEF ToSet
  <2>3. NextSelmon(t, m) = t.selmon
    BY <1>1, <2>1, <2>2, NextSelmonType
  <2>4. [t EXCEPT !.selmon = t.selmon] = t
    BY <1>1 DEF StateType
  <2>5. Evacuate(t, m) = t
    BY <1>1, EvacuateNone DEF Emptied
  <2>6. FocusSelected(t) = t
    BY <1>1, FocusSettled
  <2> QED BY <2>3, <2>4, <2>5, <2>6 DEF CloseMon
<1>3. CloseDisabled(t) = t
  BY <1>1, <1>2, CloseNone
<1>4. ASSUME NEW m \in ToSet(t.mons) PROVE ArrangeIfOn(t, m) = t
  <2> SUFFICES ASSUME Enabled(t, m) PROVE SelectIfNone(Arrange(t, m), m) = t
    BY DEF ArrangeIfOn
  <2>1. Arrange(t, m) = t
    BY <1>1, SceneArranged
  <2> QED BY <2>1 DEF SelectIfNone
<1>5. ArrangeEnabled(t) = t
  BY <1>1, <1>4, ArrangeNone
<1>6. AdoptIfSelected(t) = t
  <2> SUFFICES ASSUME Enabled(t, t.selmon) PROVE FocusSelected(Adopt(t)) = t
    BY DEF AdoptIfSelected
  <2>1. NoOrphan(t)
    BY DEF SelmonSettled, Enabled
  <2>2. Adopt(t) = t
    BY <1>1, <2>1, EvacuateNone DEF Adopt, NoOrphan
  <2> QED BY <1>1, <2>2, FocusSettled
<1> QED BY <1>3, <1>5, <1>6 DEF UpdateMons

(* With every output lit updatemons() closes none, so it rearranges them    *)
(* all, selects one and finds every window a home.                          *)
LEMMA LitUpdateMonsDoes ==
  ASSUME NEW s, Sound(s), AllMapped(s), ToSet(s.mons) # {},
         \A m \in ToSet(s.mons) : s.out[m].power = "on",
         s.selmon = NoMon \/ Enabled(s, s.selmon)
  PROVE  LET t == UpdateMons(s) IN
         /\ Kept(s, t) /\ FocusTop(t) /\ SelmonSettled(t) /\ t.selmon # NoMon
         /\ \A m \in ToSet(s.mons) : Scene(t, m)
         /\ \A x \in ToSet(s.clients) :
              t.win[x].mon = IF s.win[x].mon = NoMon THEN t.selmon ELSE s.win[x].mon
<1> DEFINE q == s.mons
           n == Len(q)
           b == ArrangeEnabled(s)
           t == AdoptIfSelected(b)
<1>1. s \in StateType /\ q \in Seq(Monitors) /\ n \in Nat /\ NoMon \notin Monitors
  BY StateFields, ConstantsAssumption DEF Sound
<1>2. \A i \in 1 .. n : q[i] \in ToSet(q)
  BY <1>1 DEF ToSet
<1>3. ToSet(q) \subseteq Monitors
  BY <1>1 DEF ToSet
<1>4. CloseDisabled(s) = s
  <2>1. \A m \in ToSet(q) : CloseIfOff(s, m) = s
    BY DEF CloseIfOff
  <2> QED BY <1>1, <2>1, CloseNone
<1>5. UpdateMons(s) = t
  BY <1>4 DEF UpdateMons
<1> HIDE DEF b
<1>6. /\ Kept(s, b)
      /\ \A m \in ToSet(s.mons) : Scene(b, m)
      /\ \A d \in Clients : b.win[d].mon = s.win[d].mon
      /\ b.selmon = s.selmon \/ (s.selmon = NoMon /\ Enabled(b, b.selmon))
      /\ \A m \in ToSet(s.mons) : Enabled(s, m) => b.selmon # NoMon
  BY ArrangeEnabledDoes DEF b
<1>7. b.selmon # NoMon
  BY <1>1, <1>3, <1>6 DEF Enabled
<1>8. Enabled(b, b.selmon)
  <2> SUFFICES ASSUME b.selmon = s.selmon PROVE Enabled(b, s.selmon)
    BY <1>6
  <2>1. Enabled(s, s.selmon)
    BY <1>7
  <2>2. s.selmon \in Monitors
    BY <1>1, <2>1, StateFields DEF Enabled
  <2>3. SameButTree(s.out[s.selmon], b.out[s.selmon])
    BY <1>6, <2>2 DEF Kept
  <2> QED BY <2>1, <2>2, <2>3, SameOutQueries
<1>9. Sound(b) /\ AllMapped(b)
  BY <1>6, KeptMapped DEF Kept
<1> HIDE DEF t
<1>10. /\ Kept(b, t) /\ FocusTop(t) /\ SelmonSettled(t) /\ t.selmon = b.selmon
       /\ \A x \in ToSet(b.clients) :
            t.win[x].mon = IF b.win[x].mon = NoMon THEN b.selmon ELSE b.win[x].mon
  BY <1>8, <1>9, AdoptDoes DEF t
<1>11. Kept(s, t)
  BY <1>6, <1>10, KeptTrans
<1>12. \A m \in ToSet(s.mons) : Scene(t, m)
  BY <1>3, <1>6, <1>10 DEF Kept
<1>13. ToSet(s.clients) \subseteq Clients /\ b.clients = s.clients
  BY <1>6, SoundFacts DEF Kept
<1> QED BY <1>5, <1>6, <1>7, <1>10, <1>11, <1>12, <1>13

-----------------------------------------------------------------------------
(* The invariant of a session                                              *)

(* Windows are listed while they are mapped, and only then anywhere; the    *)
(* scratchpad is not in use.                                                *)
WindowsListed(s) ==
  /\ ToSet(s.clients) = {c \in Clients : s.win[c].status = "mapped"}
  /\ \A c \in Clients : s.win[c].status # "mapped" => s.win[c].mon = NoMon /\ ~ s.win[c].enabled
  /\ s.grab.client \in ToSet(s.clients) \cup {NoClient}

NoScratch(s) ==
  /\ \A c \in Clients : ~ s.win[c].isscratchpad
  /\ \A m \in Monitors : ~ s.out[m].scratchpad_visible

Base(s) == Sound(s) /\ WindowsListed(s) /\ NoScratch(s) /\ LayersFit(s)

LEMMA BaseMapped ==
  ASSUME NEW s, Base(s)
  PROVE  AllMapped(s) /\ Sound(s) /\ s \in StateType
BY DEF Base, AllMapped, WindowsListed, Sound

OutputsListed(s) == Lists(s.mons, {m \in Monitors : s.out[m].power # "gone"})

OneOutput == \A m, n \in Monitors : m = n

(* The topmost window of a lit output is on display.                        *)
TopShown(s, m) ==
  Enabled(s, m) /\ Focustop(s, m) # NoClient => s.win[Focustop(s, m)].enabled

(* Three kinds of session are told apart.  In a "desktop" session outputs    *)
(* come, go and sleep, and focus and scene obey tags and stack strictly.    *)
(* In a "tags" or a "layouts" session outputs are only plugged, but focus   *)
(* may be on another output than the selected one, and a monocle layout     *)
(* may show another window than the topmost.  A "front" session is one of   *)
(* layouts in which it does show the topmost.                               *)
Fine(k, s, m) ==
  IF k = "desktop" THEN Scene(s, m)
  ELSE LaxScene(s, m) /\ (k = "front" => TopShown(s, m))

TopFocused(s) ==
  s.focus # NoClient => s.focus \in Clients /\ s.focus = Focustop(s, s.win[s.focus].mon)

Focused(k, s) ==
  IF k = "desktop" THEN FocusTop(s) ELSE TopFocused(s) /\ (OneOutput => FocusTop(s))

(* A window is on an output that is plugged, or nowhere and not shown.      *)
Housed(s, c) ==
  IF s.win[c].mon = NoMon THEN ~ s.win[c].enabled ELSE s.out[s.win[c].mon].power # "gone"

(* A tile drag holds a window in view (only tags take windows out of view). *)
DragInView(s) ==
  s.grab.mode = "CurTileDrag" => VisibleOn(s, s.grab.client, s.win[s.grab.client].mon)

(* While outputs are only plugged, one is selected once there is one.       *)
Lit(k, s) ==
  k # "desktop" =>
    /\ \A m \in Monitors : s.out[m].power \in {"on", "gone"}
    /\ \A c \in ToSet(s.clients) : Housed(s, c)
    /\ s.selmon = NoMon => \A m \in Monitors : s.out[m].power = "gone"
    /\ s.grab.mode # "CurNormal" => s.grab.client # NoClient
    /\ k = "layouts" => DragInView(s)

DeskInv(k, s) ==
  /\ Base(s) /\ OutputsListed(s)
  /\ \A m \in Monitors : Fine(k, s, m)
  /\ Focused(k, s) /\ SelmonSettled(s)
  /\ Lit(k, s)

LEMMA DesktopIs ==
  ASSUME NEW s
  PROVE  DeskInv("desktop", s) <=>
           /\ Base(s) /\ OutputsListed(s)
           /\ \A m \in Monitors : Scene(s, m)
           /\ FocusTop(s) /\ SelmonSettled(s)
BY DEF DeskInv, Fine, Focused, Lit

LEMMA FineView ==
  ASSUME NEW k, NEW s, Sound(s), NEW t, Sound(t), NEW n \in Monitors, SameView(s, t, n),
         Fine(k, s, n)
  PROVE  Fine(k, t, n)
<1>1. TopShown(s, n) => TopShown(t, n)
  <2> DEFINE c == Focustop(s, n)
  <2> SUFFICES ASSUME Enabled(t, n), c # NoClient, TopShown(s, n) PROVE t.win[c].enabled
    BY DEF SameView, TopShown
  <2>1. Enabled(s, n)
    BY SameViewQueries
  <2>2. c \in Clients /\ On(s, c, n)
    BY FocustopIs DEF On
  <2>3. s.win[c].enabled
    BY <2>1 DEF TopShown
  <2> HIDE DEF c
  <2> QED BY <2>2, <2>3 DEF SameView
<1> QED BY <1>1, SameViewScene, SameViewAlike, AlikeLax DEF Fine

LEMMA SceneShowsTop ==
  ASSUME NEW s, Sound(s), NEW n, Scene(s, n)
  PROVE  TopShown(s, n)
<1> DEFINE c == Focustop(s, n)
<1> SUFFICES ASSUME Enabled(s, n), c # NoClient PROVE s.win[c].enabled
  BY DEF TopShown
<1>1. c \in ToSet(s.clients) /\ VisibleOn(s, c, n) /\ s.win[c].mon = n
  BY FocustopIs
<1>2. OnDisplay(s, c, n)
  BY <1>1 DEF OnDisplay
<1> HIDE DEF c
<1> QED BY <1>1, <1>2 DEF Scene, Shown

(* Only a monocle layout covers a window in view.                           *)
LEMMA LaxShowsTop ==
  ASSUME NEW s, Sound(s), NEW n, LaxScene(s, n), CurLayout(s, n) # "monocle"
  PROVE  TopShown(s, n)
<1> DEFINE c == Focustop(s, n)
<1> SUFFICES ASSUME Enabled(s, n), c # NoClient PROVE s.win[c].enabled
  BY DEF TopShown
<1>1. c \in ToSet(s.clients) /\ VisibleOn(s, c, n) /\ s.win[c].mon = n
  BY FocustopIs
<1> HIDE DEF c
<1> QED BY <1>1 DEF LaxScene, LaxShown, Stacked

LEMMA SceneFine ==
  ASSUME NEW k, NEW s, Sound(s), NEW n, Scene(s, n)
  PROVE  Fine(k, s, n)
BY SceneLax, SceneShowsTop DEF Fine

LEMMA FrontIs ==
  ASSUME NEW s
  PROVE  DeskInv("front", s) <=> DeskInv("tags", s) /\ \A m \in Monitors : TopShown(s, m)
BY DEF DeskInv, Fine, Focused, Lit

LEMMA FocusedTop ==
  ASSUME NEW k, NEW s, Sound(s), FocusTop(s)
  PROVE  Focused(k, s)
<1>1. \/ Focustop(s, s.selmon) = NoClient
      \/ /\ Focustop(s, s.selmon) \in Clients
         /\ s.win[Focustop(s, s.selmon)].mon = s.selmon
  BY FocustopIs
<1> QED BY <1>1 DEF Focused, FocusTop, TopFocused

LEMMA FocusedKept ==
  ASSUME NEW k, NEW s, Sound(s), Focused(k, s), NEW t, Sound(t),
         t.focus = s.focus, t.selmon = s.selmon,
         \A n \in Monitors : Focustop(t, n) = Focustop(s, n),
         \A d \in Clients : t.win[d].mon = s.win[d].mon
  PROVE  Focused(k, t)
<1>1. /\ s.selmon \in Monitors \cup {NoMon}
      /\ \A d \in Clients : s.win[d].mon \in Monitors \cup {NoMon}
  BY StateFields DEF Sound, WindowType
<1>2. Focustop(t, NoMon) = Focustop(s, NoMon)
  BY FocustopNowhere
<1>3. FocusTop(s) => FocusTop(t)
  BY <1>1, <1>2 DEF FocusTop
<1>4. TopFocused(s) => TopFocused(t)
  BY <1>1, <1>2 DEF TopFocused
<1> QED BY <1>3, <1>4 DEF Focused

LEMMA VisibleAlike ==
  ASSUME NEW s, NEW t, NEW n \in Monitors, SameButTree(s.out[n], t.out[n]), NEW d,
         t.win[d].mon = s.win[d].mon, t.win[d].tags = s.win[d].tags,
         t.win[d].isscratchpad = s.win[d].isscratchpad
  PROVE  VisibleOn(t, d, n) <=> VisibleOn(s, d, n)
BY SameOutQueries DEF VisibleOn, Shows, SameButTree

(* A change of one window that leaves it housed, and in view if it is       *)
(* dragged.                                                                 *)
LEMMA ChangedLit ==
  ASSUME NEW k, NEW s, Base(s), Lit(k, s), NEW c \in Clients, NEW t, Changed(s, t, c),
         k # "desktop" /\ c \in ToSet(s.clients) => Housed(t, c),
         \/ k # "layouts" \/ s.grab.mode # "CurTileDrag" \/ s.grab.client # c
         \/ t.win[c].mon = s.win[c].mon /\ t.win[c].tags = s.win[c].tags
  PROVE  Lit(k, t)
<1>1. /\ t.clients = s.clients /\ t.grab = s.grab /\ t.selmon = s.selmon
      /\ \A n \in Monitors : SameButTree(s.out[n], t.out[n])
      /\ \A n \in Monitors : t.out[n].power = s.out[n].power
      /\ \A d \in Clients : d # c =>
           /\ t.win[d].mon = s.win[d].mon /\ t.win[d].tags = s.win[d].tags
           /\ t.win[d].isscratchpad = s.win[d].isscratchpad
           /\ s.win[d].mon = NoMon => t.win[d].enabled = s.win[d].enabled
      /\ t.win[c].isscratchpad = s.win[c].isscratchpad
  BY DEF Changed, SameButShown, SameButTree
<1>2. /\ ToSet(s.clients) \subseteq Clients
      /\ \A d \in Clients : s.win[d].mon \in Monitors \cup {NoMon}
      /\ s.grab.client \in ToSet(s.clients) \cup {NoClient}
  BY BaseMapped, SoundFacts, StateFields DEF WindowType, Base, WindowsListed
<1> SUFFICES ASSUME k # "desktop" PROVE Lit(k, t)
  BY DEF Lit
<1>3. \A d \in ToSet(t.clients) : Housed(t, d)
  BY <1>1, <1>2 DEF Lit, Housed
<1>4. ASSUME k = "layouts" PROVE DragInView(t)
  <2> SUFFICES ASSUME s.grab.mode = "CurTileDrag"
               PROVE  VisibleOn(t, s.grab.client, t.win[s.grab.client].mon)
    BY <1>1 DEF DragInView
  <2> DEFINE d == s.grab.client
  <2>1. VisibleOn(s, d, s.win[d].mon) /\ d \in Clients
    BY <1>2, <1>4 DEF Lit, DragInView
  <2>2. s.win[d].mon \in Monitors
    BY <1>2, <2>1 DEF VisibleOn, Shows
  <2>3. /\ t.win[d].mon = s.win[d].mon /\ t.win[d].tags = s.win[d].tags
        /\ t.win[d].isscratchpad = s.win[d].isscratchpad
    BY <1>1, <1>4, <2>1
  <2> HIDE DEF d
  <2>4. VisibleOn(t, d, s.win[d].mon)
    BY <1>1, <2>1, <2>2, <2>3, VisibleAlike
  <2> QED BY <2>3, <2>4 DEF d
<1> QED BY <1>1, <1>3, <1>4 DEF Lit

LEMMA KeptBase ==
  ASSUME NEW s, Base(s), NEW t, Kept(s, t)
  PROVE  Base(t)
<1>1. \A d \in Clients : d \notin ToSet(s.clients) <=> s.win[d].status # "mapped"
  BY DEF Base, WindowsListed
<1>2. WindowsListed(t)
  BY <1>1 DEF Base, WindowsListed, Kept, SameButShown
<1>3. NoScratch(t)
  BY DEF Base, NoScratch, Kept, SameButTree
<1> QED BY <1>2, <1>3 DEF Base, Kept

LEMMA KeptOutputs ==
  ASSUME NEW s, OutputsListed(s), NEW t, Kept(s, t)
  PROVE  OutputsListed(t)
<1>1. {m \in Monitors : t.out[m].power # "gone"} = {m \in Monitors : s.out[m].power # "gone"}
  BY DEF Kept, SameButTree
<1> QED BY <1>1 DEF OutputsListed, Kept

LEMMA UpdateMonsInv ==
  ASSUME NEW s, Base(s), OutputsListed(s), FocusTop(s), SelmonListed(s),
         \A m \in Monitors : m \in ToSet(s.mons) \/ Scene(s, m)
  PROVE  /\ DeskInv("desktop", UpdateMons(s)) /\ Kept(s, UpdateMons(s))
         /\ Emptied(s, UpdateMons(s))
         /\ \A m \in ToSet(s.mons) : Enabled(s, m) => UpdateMons(s).selmon # NoMon
<1> DEFINE t == UpdateMons(s)
<1>1. /\ Kept(s, t) /\ FocusTop(t) /\ SelmonSettled(t)
      /\ \A m \in ToSet(s.mons) : Scene(t, m)
      /\ Emptied(s, t)
      /\ \A m \in ToSet(s.mons) : Enabled(s, m) => t.selmon # NoMon
  BY BaseMapped, UpdateMonsDoes
<1> HIDE DEF t
<1>2. \A m \in Monitors : Scene(t, m)
  BY <1>1 DEF Kept
<1> QED BY <1>1, <1>2, KeptBase, KeptOutputs, DesktopIs DEF t

(* Between handlers State is the record of the variables.                   *)
LEMMA BecomeState ==
  ASSUME NEW t \in StateType, Become(t)
  PROVE  State' = t
<1>1. t = [mons |-> t.mons, out |-> t.out, selmon |-> t.selmon, clients |-> t.clients,
           fstack |-> t.fstack, win |-> t.win, focus |-> t.focus, grab |-> t.grab]
  BY DEF StateType
<1> QED BY <1>1 DEF State, Become

LEMMA InvUpdateMonsSettles ==
  ASSUME DeskInv("desktop", State)
  PROVE  UpdateMonsSettles
<1> DEFINE s == State
           t == UpdateMons(s)
<1>1. /\ Base(s) /\ OutputsListed(s) /\ FocusTop(s) /\ SelmonSettled(s)
      /\ \A m \in Monitors : Scene(s, m)
  BY DesktopIs
<1> HIDE DEF s
<1>2. SelmonListed(s)
  BY <1>1 DEF SelmonListed, SelmonSettled
<1>3. /\ DeskInv("desktop", t) /\ Kept(s, t) /\ Emptied(s, t)
      /\ \A m \in ToSet(s.mons) : Enabled(s, m) => t.selmon # NoMon
  BY <1>1, <1>2, UpdateMonsInv
<1> HIDE DEF t
<1>4. Sound(t) /\ FocusTop(t) /\ SelmonSettled(t) /\ \A m \in Monitors : Scene(t, m)
  BY <1>3, DesktopIs DEF Base
<1>5. t.mons = s.mons /\ ToSet(t.mons) \subseteq Monitors
  BY <1>3, <1>4, StateFields DEF Kept, Sound, ToSet
<1>6. Emptied(t, t)
  BY <1>3, <1>5 DEF Emptied, Kept, SameButTree
<1>7. \A m \in ToSet(t.mons) : Enabled(t, m) => t.selmon # NoMon
  BY <1>3, <1>5, SameOutQueries DEF Kept
<1>8. UpdateMons(t) = t
  BY <1>4, <1>5, <1>6, <1>7, SettledStays
<1> QED BY <1>8 DEF UpdateMonsSettles, s, t

(* The tags of windows stay while outputs come and go.                      *)
TagsStay(s, t) ==
  t.mons # s.mons \/ (\E m \in Monitors : t.out[m].power # s.out[m].power)
  => \A c \in ToSet(s.clients) : t.win[c].tags = s.win[c].tags \/ s.win[c].tags = {}

(* What every step is shown to do.                                          *)
Goes(k, s, t) == DeskInv(k, t) /\ TagsStay(s, t)

-----------------------------------------------------------------------------
(* Outputs                                                                 *)

(* The record with other outputs and another list of them.                  *)
WithOutputs(s, o, q) == [s EXCEPT !.out = o, !.mons = q]

LEMMA OutputsDo ==
  ASSUME NEW s, Base(s), NEW q \in Seq(Monitors), NEW o \in [Monitors -> MonitorType],
         \A m \in Monitors : ~ o[m].scratchpad_visible
  PROVE  LET t == WithOutputs(s, o, q) IN
         /\ Base(t) /\ t.mons = q /\ t.out = o
         /\ t.clients = s.clients /\ t.win = s.win /\ t.selmon = s.selmon
         /\ t.fstack = s.fstack /\ t.focus = s.focus /\ t.grab = s.grab
         /\ \A n \in Monitors : o[n] = s.out[n] => SameView(s, t, n)
<1> DEFINE t == WithOutputs(s, o, q)
<1>1. s \in StateType /\ Sound(s)
  BY BaseMapped
<1>2. /\ t \in StateType /\ t.mons = q /\ t.out = o
      /\ t.clients = s.clients /\ t.win = s.win /\ t.selmon = s.selmon
      /\ t.fstack = s.fstack /\ t.focus = s.focus /\ t.grab = s.grab
  BY <1>1 DEF StateType, WithOutputs
<1> HIDE DEF t
<1>3. Base(t)
  BY <1>1, <1>2 DEF LayersFit, Base, Sound, WindowsListed, NoScratch
<1>4. \A n \in Monitors : o[n] = s.out[n] => SameView(s, t, n)
  BY <1>1, <1>2, SameViewIf
<1> QED BY <1>2, <1>3, <1>4 DEF t

LEMMA FreshMonitorType ==
  ASSUME NEW power \in {"on", "asleep", "off", "parked", "gone"}
  PROVE  /\ FreshMonitor(power) \in MonitorType /\ FreshMonitor(power).power = power
         /\ ~ FreshMonitor(power).scratchpad_visible
<1>1. 1 \in Tags /\ AltLayout \in Layouts /\ \A t \in Tags : FirstLayout(t) \in Layouts
  BY ConstantsAssumption DEF FirstLayout, AltLayout, Layouts
<1>2. <<{1}, {1}>> \in [1 .. 2 -> SUBSET Tags]
  BY <1>1
<1>3. \A t \in Tags : <<FirstLayout(t), AltLayout>> \in [1 .. 2 -> Layouts]
  BY <1>1
<1> QED BY <1>2, <1>3 DEF FreshMonitor, MonitorType

LEMMA CreateMonGoes ==
  ASSUME NEW k, NEW s, DeskInv(k, s), NEW m \in Monitors, s.out[m].power = "gone"
  PROVE  Goes(k, s, UpdateMons([s EXCEPT !.out[m] = FreshMonitor("on"), !.mons = <<m>> \o s.mons]))
<1> DEFINE f == FreshMonitor("on")
           o == [s.out EXCEPT ![m] = f]
           q == <<m>> \o s.mons
           a == WithOutputs(s, o, q)
<1>1. /\ Base(s) /\ s \in StateType /\ OutputsListed(s) /\ SelmonSettled(s) /\ Lit(k, s)
      /\ s.out \in [Monitors -> MonitorType] /\ s.mons \in Seq(Monitors)
      /\ s.selmon \in Monitors \cup {NoMon}
  BY BaseMapped, StateFields DEF DeskInv
<1>2. f \in MonitorType /\ f.power = "on" /\ ~ f.scratchpad_visible
  BY FreshMonitorType
<1> HIDE DEF f
<1>3. /\ o \in [Monitors -> MonitorType] /\ o[m] = f
      /\ \A n \in Monitors : n # m => o[n] = s.out[n]
      /\ \A n \in Monitors : ~ o[n].scratchpad_visible
  BY <1>1, <1>2 DEF Base, NoScratch
<1> HIDE DEF o
<1>4. q \in Seq(Monitors)
  BY <1>1
<1>5. Lists(q, {n \in Monitors : o[n].power # "gone"})
  <2> DEFINE P == {n \in Monitors : s.out[n].power # "gone"}
  <2>1. Lists(s.mons, P) /\ m \notin P
    BY <1>1 DEF OutputsListed
  <2>2. P \cup {m} = {n \in Monitors : o[n].power # "gone"}
    BY <1>2, <1>3
  <2> HIDE DEF P
  <2> QED BY <2>1, <2>2, PutFirst
<1> HIDE DEF q
<1>6. /\ Base(a) /\ a.mons = q /\ a.out = o
      /\ a.clients = s.clients /\ a.win = s.win /\ a.selmon = s.selmon /\ a.focus = s.focus
      /\ a.grab = s.grab
      /\ \A n \in Monitors : n # m => SameView(s, a, n)
  <2>1. /\ Base(a) /\ a.mons = q /\ a.out = o
        /\ a.clients = s.clients /\ a.win = s.win /\ a.selmon = s.selmon /\ a.focus = s.focus
        /\ a.grab = s.grab
        /\ \A n \in Monitors : o[n] = s.out[n] => SameView(s, a, n)
    BY <1>1, <1>3, <1>4, OutputsDo
  <2> HIDE DEF a
  <2> QED BY <1>3, <2>1
<1>7. [s EXCEPT !.out[m] = f, !.mons = <<m>> \o s.mons] = a
  BY <1>1 DEF o, q, StateType, WithOutputs
<1> HIDE DEF a
<1>8. s.selmon # m
  BY <1>1, ConstantsAssumption DEF SelmonSettled, InLayout
<1>9. m \in ToSet(q) /\ OutputsListed(a)
  BY <1>2, <1>3, <1>5, <1>6 DEF Lists, OutputsListed
<1>10. CASE k = "desktop"
  <2>1. FocusTop(s) /\ \A n \in Monitors : Scene(s, n)
    BY <1>10, DesktopIs
  <2>2. FocusTop(a)
    <3>1. CASE s.selmon = NoMon
      BY <1>1, <1>6, <2>1, <3>1, BaseMapped, FocustopNowhere DEF FocusTop
    <3>2. CASE s.selmon # NoMon
      BY <1>1, <1>6, <1>8, <2>1, <3>2 DEF FocusTop, SameView
    <3> QED BY <3>1, <3>2
  <2>3. SelmonListed(a)
    BY <1>1, <1>3, <1>6, <1>8 DEF SelmonSettled, SelmonListed, InLayout, NoOrphan
  <2>4. \A n \in Monitors : n \in ToSet(a.mons) \/ Scene(a, n)
    BY <1>1, <1>6, <1>9, <2>1, SameViewScene, BaseMapped
  <2>5. DeskInv(k, UpdateMons(a)) /\ Kept(a, UpdateMons(a))
    BY <1>6, <1>9, <1>10, <2>2, <2>3, <2>4, UpdateMonsInv
  <2> QED BY <1>1, <1>6, <1>7, <2>5, BaseMapped, SoundFacts DEF TagsStay, Kept, Goes, f
<1>11. CASE k # "desktop"
  <2> DEFINE t == UpdateMons(a)
  <2>1. \A n \in Monitors : s.out[n].power \in {"on", "gone"}
    BY <1>1, <1>11 DEF Lit
  <2>2. ToSet(a.mons) = {n \in Monitors : o[n].power # "gone"}
    BY <1>6, <1>9 DEF OutputsListed, Lists
  <2>3. \A n \in Monitors : o[n].power = IF n \in ToSet(a.mons) THEN "on" ELSE "gone"
    BY <1>2, <1>3, <2>1, <2>2
  <2>4. s.selmon = NoMon \/ Enabled(a, s.selmon)
    BY <1>1, <1>3, <1>6, <1>8, <2>1 DEF SelmonSettled, InLayout, Enabled
  <2>5. Sound(a) /\ AllMapped(a)
    BY <1>6, BaseMapped
  <2>6. /\ Kept(a, t) /\ FocusTop(t) /\ SelmonSettled(t) /\ t.selmon # NoMon
        /\ \A n \in ToSet(a.mons) : Scene(t, n)
        /\ \A x \in ToSet(a.clients) :
             t.win[x].mon = IF a.win[x].mon = NoMon THEN t.selmon ELSE a.win[x].mon
    BY <1>6, <1>9, <2>2, <2>3, <2>4, <2>5, LitUpdateMonsDoes
  <2> HIDE DEF t
  <2>7. Base(t) /\ OutputsListed(t) /\ Sound(t)
    BY <1>6, <1>9, <2>6, KeptBase, KeptOutputs, BaseMapped
  <2>8. \A n \in Monitors : t.out[n].power = o[n].power /\ SameButTree(a.out[n], t.out[n])
    BY <1>6, <2>6 DEF Kept, SameButTree
  <2>9. \A n \in Monitors : Fine(k, t, n)
    <3>1. \A n \in Monitors : Scene(t, n)
      BY <2>3, <2>6, <2>8 DEF Scene, Enabled
    <3> QED BY <2>7, <3>1, SceneFine
  <2>10. \A c \in ToSet(t.clients) : Housed(t, c)
    <3> SUFFICES ASSUME NEW c \in ToSet(s.clients) PROVE Housed(t, c)
      BY <1>6, <2>6 DEF Kept
    <3>1. Housed(s, c) /\ c \in Clients /\ s.win[c].mon \in Monitors \cup {NoMon}
      BY <1>1, <1>11, BaseMapped, SoundFacts, StateFields DEF Lit, WindowType
    <3>2. t.selmon \in Monitors /\ t.out[t.selmon].power # "gone"
      BY <2>6, <2>7, StateFields DEF SelmonSettled, InLayout, Sound
    <3>3. \A n \in Monitors : s.out[n].power # "gone" => t.out[n].power # "gone"
      BY <1>2, <1>3, <2>8
    <3>4. t.win[c].mon = IF s.win[c].mon = NoMon THEN t.selmon ELSE s.win[c].mon
      BY <1>6, <2>6
    <3> QED BY <3>1, <3>2, <3>3, <3>4, ConstantsAssumption DEF Housed
  <2>11. k = "layouts" => DragInView(t)
    <3> SUFFICES ASSUME DragInView(s), s.grab.mode = "CurTileDrag"
                 PROVE  VisibleOn(t, s.grab.client, t.win[s.grab.client].mon)
      BY <1>1, <1>6, <1>11, <2>6 DEF Lit, DragInView, Kept
    <3> DEFINE d == s.grab.client
               n == s.win[d].mon
    <3>1. /\ d \in ToSet(s.clients) /\ d \in Clients /\ n \in Monitors
          /\ s.out[n].power # "gone" /\ VisibleOn(s, d, n)
      <4>1. VisibleOn(s, d, n)
        BY DEF DragInView
      <4>2. d \in ToSet(s.clients) /\ d \in Clients
        BY <1>1, <1>11, BaseMapped, SoundFacts DEF Lit, Base, WindowsListed
      <4>3. n \in Monitors
        BY <1>1, <4>1, <4>2, StateFields DEF WindowType, VisibleOn, Shows
      <4>4. Housed(s, d)
        BY <1>1, <1>11, <4>2 DEF Lit
      <4> QED BY <4>1, <4>2, <4>3, <4>4, ConstantsAssumption DEF Housed
    <3> HIDE DEF d
    <3>2. n # m /\ a.out[n] = s.out[n] /\ n # NoMon
      BY <1>3, <1>6, <3>1, ConstantsAssumption
    <3>3. VisibleOn(a, d, n)
      BY <1>6, <3>1, <3>2 DEF VisibleOn, Shows, CurTags
    <3>4. ~ a.win[d].isscratchpad
      BY <1>6, <3>1 DEF Base, NoScratch
    <3>5. a.win[d].tags # {}
      BY <3>3, <3>4 DEF VisibleOn, Shows
    <3>6. /\ t.win[d].mon = a.win[d].mon /\ t.win[d].tags = a.win[d].tags
          /\ t.win[d].isscratchpad = a.win[d].isscratchpad
      BY <1>6, <2>6, <3>1, <3>2, <3>5 DEF Kept
    <3>7. VisibleOn(t, d, n)
      BY <2>8, <3>1, <3>3, <3>6, VisibleAlike
    <3> QED BY <1>6, <3>6, <3>7 DEF d
  <2>12. Lit(k, t)
    <3>1. \A n \in Monitors : t.out[n].power \in {"on", "gone"}
      BY <2>3, <2>8
    <3>2. t.grab = s.grab
      BY <1>6, <2>6 DEF Kept
    <3> QED BY <1>1, <2>6, <2>10, <2>11, <3>1, <3>2 DEF Lit
  <2>13. DeskInv(k, t)
    BY <2>6, <2>7, <2>9, <2>12, FocusedTop DEF DeskInv
  <2>14. TagsStay(s, t)
    BY <1>1, <1>6, <2>6, BaseMapped, SoundFacts DEF TagsStay, Kept
  <2> QED BY <1>7, <2>13, <2>14 DEF Goes, t, f
<1> QED BY <1>10, <1>11

LEMMA CleanupMonGoes ==
  ASSUME NEW s, DeskInv("desktop", s), NEW m \in Monitors, s.out[m].power # "gone"
  PROVE  Goes("desktop", s, [CloseMon(LayoutRemove([s EXCEPT !.mons = Without(s.mons, m)], m), m)
                  EXCEPT !.out[m] = FreshMonitor("gone")])
<1> DEFINE q == Without(s.mons, m)
           a == WithOutputs(s, s.out, q)
           b == LayoutRemove(a, m)
           d == CloseMon(b, m)
           f == FreshMonitor("gone")
           o == [d.out EXCEPT ![m] = f]
           t == WithOutputs(d, o, d.mons)
           P == {n \in Monitors : s.out[n].power # "gone"}
<1>1. /\ Base(s) /\ s \in StateType /\ OutputsListed(s) /\ FocusTop(s) /\ SelmonSettled(s)
      /\ s.out \in [Monitors -> MonitorType] /\ s.mons \in Seq(Monitors)
      /\ s.selmon \in Monitors \cup {NoMon} /\ Sound(s)
      /\ \A n \in Monitors : Scene(s, n)
  BY BaseMapped, StateFields, DesktopIs
<1>2. Lists(q, P \ {m})
  BY <1>1, TakenOut DEF OutputsListed
<1>3. q \in Seq(Monitors) /\ ToSet(q) = P \ {m}
  <2>1. q \in Seq(P \ {m}) /\ ToSet(q) = P \ {m}
    BY <1>2 DEF Lists
  <2>2. P \ {m} \subseteq Monitors
    OBVIOUS
  <2> HIDE DEF P, q
  <2> QED BY <2>1, <2>2
<1> HIDE DEF q
<1>4. /\ Base(a) /\ a.mons = q /\ a.out = s.out
      /\ a.clients = s.clients /\ a.win = s.win /\ a.selmon = s.selmon /\ a.focus = s.focus
      /\ \A n \in Monitors : SameView(s, a, n)
  BY <1>1, <1>3, OutputsDo DEF Base, NoScratch
<1>5. [s EXCEPT !.mons = Without(s.mons, m)] = a
  BY <1>1 DEF StateType, WithOutputs, q
<1> HIDE DEF a
<1>6. /\ Sound(a) /\ AllMapped(a) /\ FocusTop(a) /\ SelmonSettled(a)
      /\ \A n \in Monitors : Scene(a, n)
  <2>1. Sound(a) /\ AllMapped(a)
    BY <1>4, BaseMapped
  <2>2. FocusTop(a)
    BY <1>1, <1>4, <2>1, FocustopNowhere DEF FocusTop, SameView
  <2>3. SelmonSettled(a)
    BY <1>1, <1>4 DEF SelmonSettled, InLayout, NoOrphan
  <2> QED BY <1>1, <1>4, <2>1, <2>2, <2>3, SameViewScene
<1>7. Kept(a, b) /\ FocusTop(b) /\ SelmonSettled(b)
  <2>1. CASE InLayout(a, m)
    <3>1. b = UpdateMons(a)
      BY <2>1 DEF LayoutRemove
    <3>2. SelmonListed(a)
      BY <1>6 DEF SelmonListed, SelmonSettled
    <3> QED BY <1>6, <3>1, <3>2, UpdateMonsDoes
  <2>2. CASE ~ InLayout(a, m)
    BY <1>6, <2>2, KeptSelf DEF LayoutRemove
  <2> QED BY <2>1, <2>2
<1> HIDE DEF b
<1>8. Sound(b) /\ AllMapped(b) /\ b.mons = q /\ b.clients = s.clients /\ Base(b)
  BY <1>4, <1>6, <1>7, KeptMapped, KeptBase DEF Kept
<1>9. /\ Kept(b, d) /\ d.selmon = NextSelmon(b, m) /\ FocusTop(d)
      /\ \A c \in ToSet(s.clients) : d.win[c].mon =
           IF b.win[c].mon = m THEN d.selmon ELSE b.win[c].mon
  BY <1>8, CloseMonDoes
<1> HIDE DEF d
<1>10. Base(d) /\ Sound(d) /\ d \in StateType /\ d.mons = q /\ d.clients = s.clients
  BY <1>8, <1>9, KeptBase, BaseMapped DEF Kept
<1>11. /\ d.selmon # m /\ d.selmon \in Monitors \cup {NoMon}
       /\ d.selmon # NoMon => InLayout(d, d.selmon) /\ NoOrphan(d)
  <2>1. /\ d.selmon \in Monitors \cup {NoMon}
        /\ m # b.selmon => d.selmon \in {b.selmon, NoMon}
        /\ m = b.selmon => d.selmon = NoMon \/ (d.selmon \in ToSet(q) /\ Enabled(b, d.selmon))
    BY <1>8, <1>9, NextSelmonType DEF Sound
  <2>2. m # NoMon /\ m \notin ToSet(q)
    BY <1>3, ConstantsAssumption
  <2>3. d.selmon # m
    BY <2>1, <2>2
  <2>4. ASSUME d.selmon # NoMon PROVE InLayout(d, d.selmon) /\ NoOrphan(d)
    <3>1. InLayout(b, d.selmon) /\ NoOrphan(b)
      BY <1>7, <2>1, <2>2, <2>4 DEF SelmonSettled, Enabled, InLayout
    <3>2. InLayout(d, d.selmon)
      BY <1>9, <2>1, <2>4, <3>1, SameOutQueries DEF Kept
    <3>3. NoOrphan(d)
      BY <1>8, <1>9, <1>10, <2>4, <3>1 DEF NoOrphan
    <3> QED BY <3>2, <3>3
  <2> QED BY <2>1, <2>3, <2>4
<1>12. f \in MonitorType /\ f.power = "gone" /\ ~ f.scratchpad_visible
  BY FreshMonitorType
<1> HIDE DEF f
<1>13. /\ o \in [Monitors -> MonitorType] /\ o[m] = f
       /\ \A n \in Monitors : n # m => o[n] = d.out[n]
       /\ \A n \in Monitors : ~ o[n].scratchpad_visible
  BY <1>10, <1>12, StateFields DEF Base, NoScratch
<1> HIDE DEF o
<1>14. /\ Base(t) /\ t.mons = q /\ t.out = o
       /\ t.clients = s.clients /\ t.win = d.win /\ t.selmon = d.selmon /\ t.focus = d.focus
       /\ \A n \in Monitors : o[n] = d.out[n] => SameView(d, t, n)
  BY <1>3, <1>10, <1>13, OutputsDo
<1>15. [d EXCEPT !.out[m] = f] = t
  BY <1>10 DEF o, StateType, WithOutputs
<1> HIDE DEF t
<1>16. OutputsListed(t)
  <2>1. \A n \in Monitors : n # m => (o[n].power # "gone" <=> s.out[n].power # "gone")
    BY <1>4, <1>7, <1>9, <1>13 DEF Kept, SameButTree
  <2>2. {n \in Monitors : o[n].power # "gone"} = P \ {m}
    BY <1>12, <1>13, <2>1
  <2> QED BY <1>2, <1>14, <2>2 DEF OutputsListed
<1>17. \A n \in Monitors : Scene(t, n)
  <2>1. \A n \in Monitors : Scene(d, n)
    BY <1>6, <1>7, <1>9 DEF Kept
  <2>2. Scene(t, m)
    BY <1>12, <1>13, <1>14 DEF Scene, Enabled
  <2>3. Sound(t)
    BY <1>14, BaseMapped
  <2>4. ASSUME NEW n \in Monitors, n # m PROVE Scene(t, n)
    <3>1. SameView(d, t, n)
      BY <1>13, <1>14, <2>4
    <3> QED BY <1>10, <2>1, <2>3, <3>1, SameViewScene
  <2> QED BY <2>2, <2>4
<1>18. FocusTop(t)
  <2>1. CASE d.selmon = NoMon
    BY <1>9, <1>10, <1>14, <2>1, BaseMapped, FocustopNowhere DEF FocusTop
  <2>2. CASE d.selmon # NoMon
    <3>1. SameView(d, t, d.selmon)
      BY <1>11, <1>13, <1>14, <2>2
    <3> QED BY <1>9, <1>14, <3>1 DEF FocusTop, SameView
  <2> QED BY <2>1, <2>2
<1>19. SelmonSettled(t)
  BY <1>10, <1>11, <1>13, <1>14 DEF SelmonSettled, InLayout, NoOrphan
<1>20. TagsStay(s, t)
  <2>1. Kept(a, d)
    BY <1>7, <1>9, KeptTrans
  <2> QED BY <1>1, <1>4, <1>14, <2>1, SoundFacts DEF TagsStay, Kept
<1>21. Goes("desktop", s, t)
  BY <1>14, <1>16, <1>17, <1>18, <1>19, <1>20, DesktopIs DEF Goes
<1> QED BY <1>5, <1>15, <1>21 DEF f, d, b

(* Any change of powers that updatemons() follows.                          *)
LEMMA RepowerGoes ==
  ASSUME NEW s, DeskInv("desktop", s), NEW power,
         \A m \in ToSet(s.mons) :
           /\ power[m] \in {"on", "asleep", "off", "parked"}
           /\ InLayout(s, m) => power[m] # "parked"
  PROVE  Goes("desktop", s, UpdateMons([s EXCEPT !.out =
           [m \in Monitors |-> IF m \in ToSet(s.mons) THEN [s.out[m] EXCEPT !.power = power[m]]
                               ELSE s.out[m]]]))
<1> DEFINE o == [m \in Monitors |-> IF m \in ToSet(s.mons) THEN [s.out[m] EXCEPT !.power = power[m]]
                                    ELSE s.out[m]]
           a == WithOutputs(s, o, s.mons)
<1>1. /\ Base(s) /\ s \in StateType /\ OutputsListed(s) /\ FocusTop(s) /\ SelmonSettled(s)
      /\ s.out \in [Monitors -> MonitorType] /\ s.mons \in Seq(Monitors)
      /\ s.selmon \in Monitors \cup {NoMon} /\ Sound(s)
      /\ \A n \in Monitors : Scene(s, n)
  BY BaseMapped, StateFields, DesktopIs
<1>2. ToSet(s.mons) = {n \in Monitors : s.out[n].power # "gone"}
  BY <1>1 DEF OutputsListed, Lists
<1>3. \A n \in Monitors : n \notin ToSet(s.mons) => o[n] = s.out[n]
  OBVIOUS
<1>4. ASSUME NEW n \in Monitors, n \in ToSet(s.mons)
      PROVE  /\ o[n] \in MonitorType /\ o[n].power = power[n]
             /\ o[n].scratchpad_visible = s.out[n].scratchpad_visible
             /\ o[n].tagset = s.out[n].tagset /\ o[n].seltags = s.out[n].seltags
  <2>1. o[n] = [s.out[n] EXCEPT !.power = power[n]]
    BY <1>4
  <2>2. s.out[n] \in MonitorType
    BY <1>1
  <2> HIDE DEF o
  <2> QED BY <1>4, <2>1, <2>2 DEF MonitorType
<1>5. o = [n \in Monitors |-> o[n]]
  OBVIOUS
<1> HIDE DEF o
<1>6. o \in [Monitors -> MonitorType]
  BY <1>1, <1>3, <1>4, <1>5
<1>7. \A n \in Monitors : ~ o[n].scratchpad_visible
  BY <1>1, <1>3, <1>4 DEF Base, NoScratch
<1>8. /\ Base(a) /\ a.mons = s.mons /\ a.out = o
      /\ a.clients = s.clients /\ a.win = s.win /\ a.selmon = s.selmon
      /\ a.fstack = s.fstack /\ a.focus = s.focus
      /\ \A n \in Monitors : o[n] = s.out[n] => SameView(s, a, n)
  BY <1>1, <1>6, <1>7, OutputsDo
<1>9. [s EXCEPT !.out = o] = a
  BY <1>1 DEF StateType, WithOutputs
<1> HIDE DEF a
<1>10. {n \in Monitors : o[n].power # "gone"} = {n \in Monitors : s.out[n].power # "gone"}
  BY <1>2, <1>3, <1>4
<1>11. OutputsListed(a)
  BY <1>1, <1>8, <1>10 DEF OutputsListed
<1>12. \A n \in Monitors : Focustop(a, n) = Focustop(s, n)
  <2>1. \A n \in Monitors : CurTags(a, n) = CurTags(s, n)
    BY <1>3, <1>4, <1>8 DEF CurTags
  <2>2. \A n \in Monitors : \A c \in Clients : VisibleOn(a, c, n) <=> VisibleOn(s, c, n)
    BY <1>3, <1>4, <1>8, <2>1 DEF VisibleOn, Shows
  <2>3. \A n \in Monitors : {c \in Clients : VisibleOn(a, c, n)} = {c \in Clients : VisibleOn(s, c, n)}
    BY <2>2
  <2> QED BY <1>8, <2>3 DEF Focustop
<1>13. FocusTop(a)
  BY <1>1, <1>8, <1>12, BaseMapped, FocustopNowhere DEF FocusTop
<1>14. SelmonListed(a)
  <2> SUFFICES ASSUME s.selmon # NoMon
               PROVE  /\ \/ InLayout(a, s.selmon)
                         \/ s.selmon \in ToSet(a.mons) /\ a.out[s.selmon].power = "off"
                      /\ NoOrphan(a)
    BY <1>8 DEF SelmonListed
  <2>1. s.selmon \in Monitors /\ InLayout(s, s.selmon) /\ NoOrphan(s)
    BY <1>1 DEF SelmonSettled
  <2>2. s.selmon \in ToSet(s.mons)
    BY <1>2, <2>1 DEF InLayout
  <2>3. o[s.selmon].power \in {"on", "asleep", "off"}
    BY <1>4, <2>1, <2>2
  <2> QED BY <1>8, <2>1, <2>2, <2>3 DEF InLayout, NoOrphan
<1>15. \A n \in Monitors : n \in ToSet(a.mons) \/ Scene(a, n)
  BY <1>1, <1>3, <1>8, BaseMapped, SameViewScene
<1>16. DeskInv("desktop", UpdateMons(a)) /\ Kept(a, UpdateMons(a))
  BY <1>8, <1>11, <1>13, <1>14, <1>15, UpdateMonsInv
<1>17. TagsStay(s, UpdateMons(a))
  BY <1>1, <1>8, <1>16, SoundFacts DEF TagsStay, Kept
<1>18. Goes("desktop", s, UpdateMons(a))
  BY <1>16, <1>17 DEF Goes
<1> QED BY <1>9, <1>18 DEF o

-----------------------------------------------------------------------------
(* Windows                                                                 *)

(* No output was touched but for its trees.                                 *)
SameOutputs(s, t) ==
  t.mons = s.mons /\ \A m \in Monitors : t.out[m].power = s.out[m].power

LEMMA SameOutputsGo ==
  ASSUME NEW k, NEW s, NEW t, SameOutputs(s, t), DeskInv(k, t)
  PROVE  Goes(k, s, t)
BY DEF SameOutputs, Goes, TagsStay

(* An invisible window is another struct, or one less.                      *)
LEMMA FreshGoes ==
  ASSUME NEW k, NEW s, DeskInv(k, s), NEW c \in Clients, s.win[c].status # "mapped",
         NEW status \in {"none", "unmapped"}
  PROVE  Goes(k, s, [s EXCEPT !.win[c] = FreshWindow(status)])
<1> DEFINE v == FreshWindow(status)
           t == Put(s, c, v)
<1>1. Base(s) /\ Sound(s) /\ c \notin ToSet(s.clients)
  BY BaseMapped DEF DeskInv, Base, WindowsListed
<1>2. /\ v \in WindowType /\ v.status # "mapped" /\ v.mon = NoMon
      /\ ~ v.enabled /\ ~ v.isscratchpad
  BY DEF FreshWindow, WindowType
<1>3. [s EXCEPT !.win[c] = FreshWindow(status)] = t
  BY DEF Put
<1> HIDE DEF v
<1>4. /\ Sound(t)
      /\ t.mons = s.mons /\ t.out = s.out /\ t.selmon = s.selmon /\ t.clients = s.clients
      /\ t.fstack = s.fstack /\ t.focus = s.focus /\ t.grab = s.grab
      /\ t.win[c] = v
      /\ \A d \in Clients : d # c => t.win[d] = s.win[d]
      /\ \A n \in Monitors : SameView(s, t, n)
  BY <1>1, <1>2, PutDoes
<1> HIDE DEF t
<1>5. WindowsListed(t)
  <2>1. {d \in Clients : t.win[d].status = "mapped"} = {d \in Clients : s.win[d].status = "mapped"}
    BY <1>2, <1>4
  <2>2. \A d \in Clients : t.win[d].status # "mapped" => t.win[d].mon = NoMon /\ ~ t.win[d].enabled
    BY <1>1, <1>2, <1>4 DEF Base, WindowsListed
  <2> QED BY <1>1, <1>4, <2>1, <2>2 DEF Base, WindowsListed
<1>6. NoScratch(t)
  BY <1>1, <1>2, <1>4 DEF Base, NoScratch
<1>7. \A n \in Monitors : Fine(k, t, n)
  BY <1>1, <1>4, FineView DEF DeskInv
<1>8. Focused(k, t)
  <2>1. \A d \in Clients : t.win[d].mon = s.win[d].mon
    BY <1>1, <1>2, <1>4 DEF Base, WindowsListed
  <2> QED BY <1>1, <1>4, <2>1, FocusedKept DEF DeskInv, SameView
<1>9. SelmonSettled(t)
  BY <1>1, <1>4 DEF DeskInv, SelmonSettled, InLayout, NoOrphan, Base, WindowsListed
<1>10. Lit(k, t)
  <2>1. t.grab.client \in ToSet(s.clients) \cup {NoClient}
    BY <1>1, <1>4 DEF Base, WindowsListed
  <2>2. ASSUME DragInView(s), s.grab.client # NoClient PROVE DragInView(t)
    <3>1. s.grab.client \in Clients /\ s.grab.client # c
      BY <1>1, <1>4, <2>1, <2>2, SoundFacts
    <3>2. t.win[s.grab.client] = s.win[s.grab.client]
      BY <1>4, <3>1
    <3> QED BY <1>4, <2>2, <3>2 DEF DragInView, VisibleOn, Shows, CurTags
  <2>3. \A d \in ToSet(s.clients) : Housed(s, d) => Housed(t, d)
    BY <1>1, <1>4, SoundFacts DEF Housed
  <2>4. Lit(k, s)
    BY DEF DeskInv
  <2>5. s.grab.mode # "CurTileDrag" => DragInView(t)
    BY <1>4 DEF DragInView
  <2> QED BY <1>4, <2>2, <2>3, <2>4, <2>5 DEF Lit
<1>12. LayersFit(t)
  BY <1>1, <1>2, <1>4 DEF Base, LayersFit, Fits
<1>11. DeskInv(k, t) /\ SameOutputs(s, t)
  BY <1>4, <1>5, <1>6, <1>7, <1>8, <1>9, <1>10, <1>12 DEF DeskInv, Base, OutputsListed, SameOutputs
<1> QED BY <1>3, <1>11, SameOutputsGo

(* All is well but for window c, which has no output yet.                   *)
Homeless(k, s, c) ==
  /\ Base(s) /\ OutputsListed(s) /\ Focused(k, s) /\ Lit(k, s)
  /\ \A m \in Monitors : Fine(k, s, m)
  /\ c \in ToSet(s.clients)
  /\ s.selmon # NoMon =>
       InLayout(s, s.selmon) /\ \A d \in ToSet(s.clients) : d # c => s.win[d].mon # NoMon
  /\ k = "layouts" /\ s.grab.mode = "CurTileDrag" => s.grab.client # c

LEMMA SetMonHouses ==
  ASSUME NEW k, NEW s, NEW c, Homeless(k, s, c), NEW m \in Monitors \cup {NoMon},
         NEW newtags \in SUBSET Tags, s.selmon # NoMon => m # NoMon,
         k # "desktop" /\ m # NoMon => s.out[m].power # "gone"
  PROVE  LET t == SetMon(s, c, m, newtags) IN
         DeskInv(k, t) /\ SameOutputs(s, t)
<1> DEFINE t == SetMon(s, c, m, newtags)
<1>1. /\ Base(s) /\ Sound(s) /\ AllMapped(s) /\ c \in ToSet(s.clients)
      /\ s.selmon \in Monitors \cup {NoMon} /\ c \in Clients
  BY BaseMapped, StateFields, SoundFacts DEF Homeless
<1>2. CASE s.win[c].mon = m
  <2>1. t = s
    BY <1>2 DEF SetMon
  <2>2. SelmonSettled(s)
    BY <1>1, <1>2 DEF SelmonSettled, Homeless, NoOrphan
  <2> QED BY <2>1, <2>2 DEF Homeless, DeskInv, SameOutputs
<1>3. CASE s.win[c].mon # m
  <2>1. /\ Changed(s, t, c)
        /\ t.win[c].mon = m /\ Fits(c, t.win[c])
        /\ t.focus = Focustop(t, t.selmon)
        /\ \A n \in Monitors :
             /\ n # m /\ n # s.win[c].mon => SameView(s, t, n)
             /\ n = s.win[c].mon => Scene(t, n)
             /\ n = m => Scene(t, n) \/ (c \notin ToSet(s.clients) /\ SameView(s, t, n))
    BY <1>1, <1>3, SetMonDoes DEF AllMapped
  <2> HIDE DEF t
  <2>2. /\ Sound(t) /\ t.mons = s.mons /\ t.clients = s.clients /\ t.grab = s.grab
        /\ t.selmon = s.selmon
        /\ \A n \in Monitors : SameButTree(s.out[n], t.out[n])
        /\ \A d \in Clients : d # c => SameButShown(s.win[d], t.win[d])
        /\ \A d \in Clients : d \notin ToSet(s.clients) => t.win[d].enabled = s.win[d].enabled
        /\ t.win[c].status = s.win[c].status /\ t.win[c].isscratchpad = s.win[c].isscratchpad
    BY <2>1 DEF Changed
  <2>3. \A n \in Monitors : Fine(k, t, n)
    BY <1>1, <2>1, <2>2, FineView, SceneFine DEF Homeless
  <2>4. WindowsListed(t)
    <3>1. \A d \in Clients : t.win[d].status = s.win[d].status
      BY <2>2 DEF SameButShown
    <3>2. \A d \in Clients : t.win[d].status # "mapped" =>
            d # c /\ d \notin ToSet(s.clients) /\ s.win[d].status # "mapped"
      BY <1>1, <3>1 DEF AllMapped
    <3>3. \A d \in Clients : t.win[d].status # "mapped" => t.win[d].mon = NoMon /\ ~ t.win[d].enabled
      BY <1>1, <2>2, <3>2 DEF Base, WindowsListed, SameButShown
    <3>4. {d \in Clients : t.win[d].status = "mapped"} = {d \in Clients : s.win[d].status = "mapped"}
      BY <3>1
    <3> QED BY <1>1, <2>2, <3>3, <3>4 DEF Base, WindowsListed
  <2>5. NoScratch(t)
    BY <1>1, <2>2 DEF Base, NoScratch, SameButShown, SameButTree
  <2>6. SelmonSettled(t)
    <3> SUFFICES ASSUME s.selmon # NoMon PROVE InLayout(t, s.selmon) /\ NoOrphan(t)
      BY <2>2 DEF SelmonSettled
    <3>1. InLayout(t, s.selmon)
      BY <1>1, <2>2, SameOutQueries DEF Homeless
    <3>2. NoOrphan(t)
      BY <1>1, <2>1, <2>2, SoundFacts DEF NoOrphan, Homeless, SameButShown
    <3> QED BY <3>1, <3>2
  <2>7. SameOutputs(s, t)
    BY <2>2 DEF SameOutputs, SameButTree
  <2>8. OutputsListed(t)
    <3>1. {n \in Monitors : t.out[n].power # "gone"} = {n \in Monitors : s.out[n].power # "gone"}
      BY <2>2 DEF SameButTree
    <3> QED BY <2>2, <3>1 DEF Homeless, OutputsListed
  <2>9. Lit(k, t)
    <3>1. ASSUME k # "desktop" PROVE Housed(t, c)
      <4>1. m # NoMon
        <5> SUFFICES ASSUME m = NoMon PROVE FALSE
          OBVIOUS
        <5>1. s.win[c].mon \in Monitors
          BY <1>1, <1>3, StateFields DEF WindowType, Sound
        <5>2. s.out[s.win[c].mon].power = "gone" /\ Housed(s, c)
          BY <1>1, <3>1, <5>1 DEF Homeless, Lit
        <5> QED BY <5>1, <5>2, ConstantsAssumption DEF Housed
      <4>2. t.out[m].power = s.out[m].power /\ m \in Monitors
        BY <2>2, <4>1 DEF SameButTree
      <4> QED BY <2>1, <3>1, <4>1, <4>2 DEF Housed
    <3>2. Lit(k, s) /\ (k = "layouts" /\ s.grab.mode = "CurTileDrag" => s.grab.client # c)
      BY DEF Homeless
    <3> QED BY <1>1, <2>1, <3>1, <3>2, ChangedLit
  <2>11. LayersFit(t)
    BY <1>1, <2>1, <2>2, FitsBut DEF Base
  <2>10. Focused(k, t)
    BY <2>1, <2>2, FocusedTop DEF FocusTop
  <2> QED BY <2>2, <2>3, <2>4, <2>5, <2>6, <2>7, <2>8, <2>9, <2>10, <2>11 DEF DeskInv, Base, t
<1> QED BY <1>2, <1>3

(* What is said of a window without an output is seen nowhere.              *)
LEMMA PutHomeless ==
  ASSUME NEW k, NEW s, NEW c, Homeless(k, s, c), s.win[c].mon = NoMon,
         NEW v \in WindowType, v.status = "mapped", v.mon = NoMon, ~ v.isscratchpad,
         v.enabled = s.win[c].enabled
  PROVE  /\ Homeless(k, Put(s, c, v), c) /\ SameOutputs(s, Put(s, c, v))
         /\ Put(s, c, v).selmon = s.selmon /\ Put(s, c, v).mons = s.mons
<1> DEFINE t == Put(s, c, v)
<1>1. /\ Base(s) /\ Sound(s) /\ AllMapped(s) /\ c \in ToSet(s.clients)
      /\ s.selmon \in Monitors \cup {NoMon} /\ c \in Clients /\ NoMon \notin Monitors
  BY BaseMapped, StateFields, SoundFacts, ConstantsAssumption DEF Homeless
<1>2. /\ Sound(t)
      /\ t.mons = s.mons /\ t.out = s.out /\ t.selmon = s.selmon /\ t.clients = s.clients
      /\ t.fstack = s.fstack /\ t.focus = s.focus /\ t.grab = s.grab
      /\ t.win[c] = v
      /\ \A d \in Clients : d # c => t.win[d] = s.win[d]
      /\ \A n \in Monitors : SameView(s, t, n)
  BY <1>1, PutDoes
<1> HIDE DEF t
<1>3. WindowsListed(t)
  <2>1. \A d \in Clients : t.win[d].status = s.win[d].status
    BY <1>1, <1>2 DEF AllMapped
  <2>2. {d \in Clients : t.win[d].status = "mapped"} = {d \in Clients : s.win[d].status = "mapped"}
    BY <2>1
  <2>3. \A d \in Clients : t.win[d].status # "mapped" => t.win[d].mon = NoMon /\ ~ t.win[d].enabled
    BY <1>1, <1>2 DEF Base, WindowsListed
  <2> QED BY <1>1, <1>2, <2>2, <2>3 DEF Base, WindowsListed
<1>4. NoScratch(t)
  BY <1>1, <1>2 DEF Base, NoScratch
<1>5. \A n \in Monitors : Fine(k, t, n)
  BY <1>1, <1>2, FineView DEF Homeless
<1>6. Focused(k, t)
  <2>1. \A d \in Clients : t.win[d].mon = s.win[d].mon
    BY <1>2
  <2> QED BY <1>1, <1>2, <2>1, FocusedKept DEF Homeless, SameView
<1>7. t.selmon # NoMon =>
        InLayout(t, t.selmon) /\ \A d \in ToSet(t.clients) : d # c => t.win[d].mon # NoMon
  BY <1>1, <1>2, SoundFacts DEF Homeless, InLayout
<1>8. Lit(k, t)
  <2>1. v.status = s.win[c].status /\ v.isscratchpad = s.win[c].isscratchpad
    <3>1. v.isscratchpad \in BOOLEAN /\ s.win[c].isscratchpad \in BOOLEAN
      BY <1>1, StateFields DEF WindowType, Sound
    <3> QED BY <1>1, <3>1 DEF AllMapped, Base, NoScratch
  <2>2. Changed(s, t, c)
    BY <1>1, <2>1, PutChanges DEF t
  <2>3. Lit(k, s) /\ (k = "layouts" /\ s.grab.mode = "CurTileDrag" => s.grab.client # c)
    BY DEF Homeless
  <2>4. k # "desktop" => Housed(t, c)
    BY <1>1, <1>2, <2>3 DEF Lit, Housed
  <2> QED BY <1>1, <2>2, <2>3, <2>4, ChangedLit
<1>9. LayersFit(t)
  BY <1>1, <1>2 DEF Base, LayersFit, Fits
<1> QED BY <1>9, <1>1, <1>2, <1>3, <1>4, <1>5, <1>6, <1>7, <1>8
           DEF Homeless, Base, OutputsListed, SameOutputs, t

(* A window is put at the head of both lists.                               *)
ListedFirst(s, c) ==
  [s EXCEPT !.win[c].status = "mapped", !.win[c].layer = "LyrTile",
            !.clients = <<c>> \o s.clients, !.fstack = <<c>> \o s.fstack]

LEMMA ListedDoes ==
  ASSUME NEW s, Sound(s), NEW c \in Clients, c \notin ToSet(s.clients), s.win[c].mon = NoMon
  PROVE  LET a == ListedFirst(s, c) IN
         /\ Sound(a) /\ ToSet(a.clients) = ToSet(s.clients) \cup {c}
         /\ a.mons = s.mons /\ a.out = s.out /\ a.selmon = s.selmon
         /\ a.focus = s.focus /\ a.grab = s.grab
         /\ \A d \in Clients : d # c => a.win[d] = s.win[d]
         /\ a.win[c].status = "mapped" /\ a.win[c].mon = NoMon
         /\ a.win[c].tags = s.win[c].tags /\ a.win[c].enabled = s.win[c].enabled
         /\ a.win[c].isscratchpad = s.win[c].isscratchpad
         /\ \A n \in Monitors : SameView(s, a, n)
<1> DEFINE v == [s.win[c] EXCEPT !.status = "mapped", !.layer = "LyrTile"]
           w == [s.win EXCEPT ![c] = v]
           p == <<c>> \o s.clients
           q == <<c>> \o s.fstack
           a == ListedFirst(s, c)
           S == ToSet(s.clients)
<1>1. /\ s \in StateType /\ c \notin S /\ S \subseteq Clients
      /\ s.win \in [Clients -> WindowType] /\ s.win[c] \in WindowType
      /\ NoMon \notin Monitors
      /\ s.clients \in Seq(Clients) /\ s.fstack \in Seq(Clients)
      /\ Lists(s.clients, S) /\ Lists(s.fstack, S)
  BY StateFields, SoundFacts, ConstantsAssumption DEF Sound
<1>2. /\ v \in WindowType /\ v.status = "mapped" /\ v.mon = NoMon
      /\ v.tags = s.win[c].tags /\ v.enabled = s.win[c].enabled
      /\ v.isscratchpad = s.win[c].isscratchpad
  BY <1>1 DEF WindowType
<1>3. a = [s EXCEPT !.win = w, !.clients = p, !.fstack = q]
  BY <1>1 DEF StateType, ListedFirst
<1> HIDE DEF v, a, S
<1>4. /\ w \in [Clients -> WindowType] /\ w[c] = v
      /\ \A d \in Clients : d # c => w[d] = s.win[d]
  BY <1>1, <1>2
<1>5. Lists(p, S \cup {c}) /\ Lists(q, S \cup {c})
  BY <1>1, PutFirst
<1>6. p \in Seq(Clients) /\ q \in Seq(Clients)
  BY <1>1
<1> HIDE DEF w, p, q
<1>7. /\ a \in StateType /\ a.mons = s.mons /\ a.out = s.out /\ a.selmon = s.selmon
      /\ a.clients = p /\ a.fstack = q /\ a.win = w /\ a.focus = s.focus /\ a.grab = s.grab
  BY <1>1, <1>3, <1>4, <1>6 DEF StateType
<1>8. ToSet(a.clients) = S \cup {c} /\ Sound(a)
  BY <1>5, <1>7 DEF Sound, Lists
<1>9. \A n \in Monitors : SameView(s, a, n)
  <2> SUFFICES ASSUME NEW n \in Monitors PROVE SameView(s, a, n)
    OBVIOUS
  <2>1. \A d \in Clients : On(a, d, n) <=> On(s, d, n)
    BY <1>1, <1>2, <1>4, <1>7, <1>8 DEF On, S
  <2>2. \A d \in Clients : On(s, d, n) => a.win[d] = s.win[d]
    BY <1>1, <1>4, <1>7 DEF On, S
  <2>3. \A d \in Clients : VisibleOn(a, d, n) <=> VisibleOn(s, d, n)
    <3>1. CurTags(a, n) = CurTags(s, n)
      BY <1>7 DEF CurTags
    <3>2. ~ VisibleOn(a, c, n) /\ ~ VisibleOn(s, c, n)
      BY <1>1, <1>2, <1>4, <1>7 DEF VisibleOn, Shows
    <3>3. \A d \in Clients : d # c => (VisibleOn(a, d, n) <=> VisibleOn(s, d, n))
      BY <1>4, <1>7, <3>1 DEF VisibleOn, Shows
    <3> QED BY <3>2, <3>3
  <2>4. Focustop(a, n) = Focustop(s, n)
    <3> DEFINE X == {d \in Clients : VisibleOn(s, d, n)}
    <3>1. {d \in Clients : VisibleOn(a, d, n)} = X
      BY <2>3
    <3>2. c \notin X
      BY <1>1 DEF VisibleOn, Shows
    <3> HIDE DEF X
    <3>3. FirstOf(<<c>> \o s.fstack, X, NoClient) = FirstOf(s.fstack, X, NoClient)
      BY <1>1, <3>2, ConsPassedOver
    <3> QED BY <1>7, <3>1, <3>3 DEF Focustop, X, q
  <2> QED BY <1>7, <2>1, <2>2, <2>4 DEF SameView
<1> QED BY <1>2, <1>4, <1>7, <1>8, <1>9 DEF a, S

LEMMA ListedHomeless ==
  ASSUME NEW k, NEW s, DeskInv(k, s), NEW c \in Clients, s.win[c].status = "unmapped"
  PROVE  LET a == ListedFirst(s, c) IN
         /\ Homeless(k, a, c) /\ a.win[c].mon = NoMon
         /\ SameOutputs(s, a) /\ a.selmon = s.selmon
         /\ \A d \in ToSet(s.clients) : d # c /\ d \in ToSet(a.clients) /\ a.win[d] = s.win[d]
<1> DEFINE a == ListedFirst(s, c)
           S == ToSet(s.clients)
<1>1. /\ Base(s) /\ s \in StateType /\ Sound(s) /\ c \notin S /\ S \subseteq Clients
      /\ s.win \in [Clients -> WindowType] /\ s.win[c] \in WindowType
      /\ s.selmon \in Monitors \cup {NoMon} /\ NoMon \notin Monitors
      /\ s.win[c].mon = NoMon /\ ~ s.win[c].isscratchpad
      /\ s.clients \in Seq(Clients) /\ s.fstack \in Seq(Clients)
      /\ Lists(s.clients, S) /\ Lists(s.fstack, S)
  BY BaseMapped, StateFields, SoundFacts, ConstantsAssumption
     DEF DeskInv, Base, WindowsListed, NoScratch, Sound
<1> HIDE DEF a
<1>7. /\ Sound(a) /\ ToSet(a.clients) = S \cup {c}
      /\ a.mons = s.mons /\ a.out = s.out /\ a.selmon = s.selmon
      /\ a.focus = s.focus /\ a.grab = s.grab
      /\ \A d \in Clients : d # c => a.win[d] = s.win[d]
      /\ a.win[c].status = "mapped" /\ a.win[c].mon = NoMon
      /\ a.win[c].enabled = s.win[c].enabled
      /\ ~ a.win[c].isscratchpad
      /\ \A n \in Monitors : SameView(s, a, n)
  BY <1>1, ListedDoes DEF a
<1> HIDE DEF S
<1>10. \A n \in Monitors : Fine(k, a, n)
  BY <1>1, <1>7, FineView DEF DeskInv
<1>11. Focused(k, a)
  <2>1. \A d \in Clients : a.win[d].mon = s.win[d].mon
    BY <1>1, <1>7
  <2> QED BY <1>1, <1>7, <2>1, FocusedKept DEF DeskInv, SameView
<1>12. WindowsListed(a)
  <2>1. {d \in Clients : a.win[d].status = "mapped"} = S \cup {c}
    BY <1>1, <1>7 DEF Base, WindowsListed, S
  <2>2. \A d \in Clients : a.win[d].status # "mapped" => a.win[d].mon = NoMon /\ ~ a.win[d].enabled
    BY <1>1, <1>7 DEF Base, WindowsListed
  <2> QED BY <1>1, <1>7, <2>1, <2>2 DEF Base, WindowsListed, S
<1>13. NoScratch(a)
  BY <1>1, <1>7 DEF Base, NoScratch
<1>14. \A d \in S : d # c /\ d \in ToSet(a.clients) /\ a.win[d] = s.win[d]
  BY <1>1, <1>7
<1>15. a.selmon # NoMon =>
         InLayout(a, a.selmon) /\ \A d \in ToSet(a.clients) : d # c => a.win[d].mon # NoMon
  BY <1>7, <1>14 DEF DeskInv, SelmonSettled, InLayout, NoOrphan, S
<1>16. s.grab.client # c
  BY <1>1, ConstantsAssumption DEF Base, WindowsListed, S
<1>17. Lit(k, a)
  <2>1. Lit(k, s) /\ s.grab.client \in S \cup {NoClient}
    BY <1>1 DEF DeskInv, Base, WindowsListed, S
  <2>2. ASSUME DragInView(s), s.grab.client # NoClient PROVE DragInView(a)
    <3> SUFFICES ASSUME s.grab.mode = "CurTileDrag"
                 PROVE  VisibleOn(a, s.grab.client, a.win[s.grab.client].mon)
      BY <1>7 DEF DragInView
    <3>1. a.win[s.grab.client] = s.win[s.grab.client]
      BY <1>14, <2>1, <2>2
    <3> QED BY <1>7, <2>2, <3>1 DEF DragInView, VisibleOn, Shows, CurTags
  <2>3. s.grab.mode # "CurTileDrag" => DragInView(a)
    BY <1>7 DEF DragInView
  <2>4. Housed(a, c)
    <3>1. ~ s.win[c].enabled
      BY <1>1 DEF Base, WindowsListed
    <3> QED BY <1>7, <3>1 DEF Housed
  <2>5. \A d \in S : Housed(s, d) => Housed(a, d)
    BY <1>7, <1>14 DEF Housed
  <2> QED BY <1>7, <2>1, <2>2, <2>3, <2>4, <2>5 DEF Lit, S
<1>18. LayersFit(a)
  BY <1>1, <1>7 DEF Base, LayersFit, Fits
<1> QED BY <1>18, <1>7, <1>10, <1>11, <1>12, <1>13, <1>14, <1>15, <1>16, <1>17
           DEF Homeless, Base, SameOutputs, DeskInv, OutputsListed, a, S

LEMMA ApplyRulesHouses ==
  ASSUME NEW k, NEW s, NEW c, Homeless(k, s, c), s.win[c].mon = NoMon, NEW r \in Rules
  PROVE  DeskInv(k, ApplyRules(s, c, r)) /\ SameOutputs(s, ApplyRules(s, c, r))
<1> DEFINE w == s.win[c]
           v == [w EXCEPT !.isfloating = r.floating \/ (~ r.match /\ w.isfloating),
                          !.isfullscreen = IF r.match THEN r.fullscreen ELSE w.isfullscreen]
           a == Put(s, c, v)
           m == IF r.match /\ r.mon \in DOMAIN a.mons THEN a.mons[r.mon] ELSE a.selmon
           T == IF r.match THEN r.tags ELSE {}
<1>1. /\ s \in StateType /\ c \in Clients /\ w \in WindowType /\ w.status = "mapped"
      /\ ~ w.isscratchpad /\ s.mons \in Seq(Monitors)
      /\ s.selmon \in Monitors \cup {NoMon} /\ NoMon \notin Monitors
  BY BaseMapped, StateFields, SoundFacts, ConstantsAssumption
     DEF Homeless, Base, NoScratch, AllMapped
<1>2. r \in Rule
  BY ConstantsAssumption
<1>3. /\ v \in WindowType /\ v.status = "mapped" /\ v.mon = NoMon /\ ~ v.isscratchpad
      /\ v.enabled = w.enabled
  <2> DEFINE fl == r.floating \/ (~ r.match /\ w.isfloating)
             fs == IF r.match THEN r.fullscreen ELSE w.isfullscreen
  <2>1. fl \in BOOLEAN /\ fs \in BOOLEAN
    BY <1>1, <1>2 DEF Rule, WindowType
  <2>2. v = [w EXCEPT !.isfloating = fl, !.isfullscreen = fs]
    OBVIOUS
  <2> HIDE DEF fl, fs, v
  <2> QED BY <1>1, <2>1, <2>2 DEF WindowType
<1>4. Ruled(s, c, r) = a
  BY <1>1 DEF Ruled, Put, StateType
<1>5. ApplyRules(s, c, r) = SetMon(a, c, IF r.match /\ r.mon \in DOMAIN s.mons
                                         THEN s.mons[r.mon] ELSE s.selmon, T)
  BY <1>4 DEF ApplyRules
<1> HIDE DEF v
<1>6. Homeless(k, a, c) /\ SameOutputs(s, a) /\ a.selmon = s.selmon /\ a.mons = s.mons
  BY <1>1, <1>3, PutHomeless
<1> HIDE DEF a
<1>7. m \in Monitors \cup {NoMon} /\ (a.selmon # NoMon => m # NoMon)
  BY <1>1, <1>6
<1>8. T \in SUBSET Tags
  BY <1>2 DEF Rule
<1>9. ApplyRules(s, c, r) = SetMon(a, c, m, T)
  BY <1>5, <1>6
<1>11. k # "desktop" /\ m # NoMon => a.out[m].power # "gone"
  <2>1. r.mon \in DOMAIN a.mons => a.mons[r.mon] \in ToSet(a.mons)
    BY DEF ToSet
  <2>2. ToSet(a.mons) = {n \in Monitors : a.out[n].power # "gone"}
    BY <1>6 DEF Homeless, OutputsListed, Lists
  <2>3. a.selmon # NoMon => InLayout(a, a.selmon)
    BY <1>6 DEF Homeless
  <2> QED BY <2>1, <2>2, <2>3 DEF InLayout
<1> HIDE DEF m, T
<1>10. DeskInv(k, SetMon(a, c, m, T)) /\ SameOutputs(a, SetMon(a, c, m, T))
  BY <1>6, <1>7, <1>8, <1>11, SetMonHouses
<1> QED BY <1>6, <1>9, <1>10 DEF SameOutputs

LEMMA PlaceHouses ==
  ASSUME NEW k, NEW s, NEW c, Homeless(k, s, c), s.win[c].mon = NoMon, NEW r \in Rules,
         NEW p \in ToSet(s.clients) \cup {NoClient}, p # c
  PROVE  DeskInv(k, Place(s, c, p, r)) /\ SameOutputs(s, Place(s, c, p, r))
<1>1. CASE p = NoClient
  BY <1>1, ApplyRulesHouses DEF Place
<1>2. CASE p # NoClient
  <2> DEFINE w == s.win[c]
             v == [w EXCEPT !.isfloating = TRUE]
             a == Put(s, c, v)
             m == s.win[p].mon
             T == s.win[p].tags
             t == Place(s, c, p, r)
  <2>1. /\ s \in StateType /\ c \in Clients /\ w \in WindowType /\ w.status = "mapped"
        /\ ~ w.isscratchpad /\ p \in ToSet(s.clients) /\ p \in Clients
        /\ m \in Monitors \cup {NoMon} /\ T \in SUBSET Tags
    BY <1>2, BaseMapped, StateFields, SoundFacts
       DEF Homeless, Base, NoScratch, AllMapped, WindowType
  <2>2. /\ v \in WindowType /\ v.status = "mapped" /\ v.mon = NoMon /\ ~ v.isscratchpad
        /\ v.enabled = w.enabled
    BY <2>1 DEF WindowType
  <2>3. [s EXCEPT !.win[c].isfloating = TRUE] = a
    BY DEF Put
  <2>4. t = SetMon(a, c, m, T)
    BY <1>2, <2>3 DEF Place
  <2> HIDE DEF v, t
  <2>8. k # "desktop" /\ m # NoMon => s.out[m].power # "gone"
    BY <2>1 DEF Homeless, Lit, Housed
  <2>5. Homeless(k, a, c) /\ SameOutputs(s, a) /\ a.selmon = s.selmon
    BY <2>2, PutHomeless
  <2> HIDE DEF a
  <2>6. a.selmon # NoMon => m # NoMon
    BY <2>1, <2>5 DEF Homeless
  <2>9. k # "desktop" /\ m # NoMon => a.out[m].power # "gone"
    BY <2>1, <2>5, <2>8 DEF SameOutputs
  <2> HIDE DEF m, T
  <2>7. DeskInv(k, SetMon(a, c, m, T)) /\ SameOutputs(a, SetMon(a, c, m, T))
    BY <2>1, <2>5, <2>6, <2>9, SetMonHouses
  <2> QED BY <2>4, <2>5, <2>7 DEF SameOutputs, t
<1> QED BY <1>1, <1>2

(* One window changed, no output but for its display, and no lists.         *)
LEMMA ChangedWell ==
  ASSUME NEW k, NEW s, Base(s), OutputsListed(s), SelmonSettled(s), Lit(k, s),
         NEW c \in Clients, NEW t, Changed(s, t, c),
         t.win[c].mon = s.win[c].mon, Fits(c, t.win[c]),
         s.win[c].mon = NoMon => t.win[c].enabled = s.win[c].enabled,
         k # "layouts" \/ t.win[c].tags = s.win[c].tags
  PROVE  Base(t) /\ OutputsListed(t) /\ SelmonSettled(t) /\ Lit(k, t) /\ SameOutputs(s, t)
<1>1. /\ Sound(s) /\ s.selmon \in Monitors \cup {NoMon} /\ ToSet(s.clients) \subseteq Clients
  BY BaseMapped, StateFields, SoundFacts
<1>2. /\ Sound(t) /\ t.mons = s.mons /\ t.clients = s.clients /\ t.grab = s.grab
      /\ t.selmon = s.selmon
      /\ \A n \in Monitors : SameButTree(s.out[n], t.out[n])
      /\ \A d \in Clients : d \notin ToSet(s.clients) => t.win[d].enabled = s.win[d].enabled
      /\ \A d \in Clients : /\ t.win[d].mon = s.win[d].mon
                            /\ t.win[d].status = s.win[d].status
                            /\ t.win[d].isscratchpad = s.win[d].isscratchpad
  BY DEF Changed, SameButShown
<1>3. WindowsListed(t)
  <2>1. {d \in Clients : t.win[d].status = "mapped"} = {d \in Clients : s.win[d].status = "mapped"}
    BY <1>2
  <2>2. \A d \in Clients : t.win[d].status # "mapped" => t.win[d].mon = NoMon /\ ~ t.win[d].enabled
    BY <1>1, <1>2 DEF Base, WindowsListed
  <2> QED BY <1>1, <1>2, <2>1, <2>2 DEF Base, WindowsListed
<1>4. NoScratch(t)
  BY <1>1, <1>2 DEF Base, NoScratch, SameButTree
<1>5. SelmonSettled(t)
  BY <1>1, <1>2, SameOutQueries DEF SelmonSettled, NoOrphan
<1>6. SameOutputs(s, t)
  BY <1>2 DEF SameOutputs, SameButTree
<1>7. OutputsListed(t)
  <2>1. {n \in Monitors : t.out[n].power # "gone"} = {n \in Monitors : s.out[n].power # "gone"}
    BY <1>2 DEF SameButTree
  <2> QED BY <1>2, <2>1 DEF OutputsListed
<1>8. Lit(k, t)
  <2>1. ASSUME k # "desktop", c \in ToSet(s.clients) PROVE Housed(t, c)
    <3>1. Housed(s, c) /\ s.win[c].mon \in Monitors \cup {NoMon}
      BY <1>1, <2>1, StateFields DEF Lit, WindowType, Sound
    <3> QED BY <1>2, <3>1 DEF Housed, SameButTree
  <2> QED BY <1>1, <1>2, <2>1, ChangedLit
<1>9. LayersFit(t)
  BY FitsBut DEF Base, Changed
<1> QED BY <1>9, <1>2, <1>3, <1>4, <1>5, <1>6, <1>7, <1>8 DEF Base

(* A window changes without leaving its output or its tags.                 *)
LEMMA ChangedGoes ==
  ASSUME NEW k, NEW s, DeskInv(k, s), NEW c \in Clients, NEW t, Changed(s, t, c),
         t.fstack = s.fstack, t.focus = s.focus, Fits(c, t.win[c]),
         t.win[c].mon = s.win[c].mon, t.win[c].tags = s.win[c].tags,
         s.win[c].mon = NoMon => t.win[c].enabled = s.win[c].enabled,
         \A n \in Monitors : Fine(k, t, n)
  PROVE  DeskInv(k, t) /\ SameOutputs(s, t)
<1>1. Base(s) /\ Sound(s) /\ OutputsListed(s) /\ SelmonSettled(s) /\ Lit(k, s)
  BY BaseMapped DEF DeskInv
<1>2. Base(t) /\ OutputsListed(t) /\ SelmonSettled(t) /\ Lit(k, t) /\ SameOutputs(s, t)
  BY <1>1, ChangedWell
<1>3. /\ Sound(t) /\ t.selmon = s.selmon
      /\ \A n \in Monitors : SameButTree(s.out[n], t.out[n])
      /\ \A d \in Clients : /\ t.win[d].mon = s.win[d].mon /\ t.win[d].tags = s.win[d].tags
                            /\ t.win[d].isscratchpad = s.win[d].isscratchpad
  BY DEF Changed, SameButShown
<1>4. Focused(k, t)
  <2>1. \A n \in Monitors : \A d \in Clients : VisibleOn(t, d, n) <=> VisibleOn(s, d, n)
    BY <1>3, VisibleAlike
  <2>2. \A n \in Monitors : {d \in Clients : VisibleOn(t, d, n)} = {d \in Clients : VisibleOn(s, d, n)}
    BY <2>1
  <2>3. \A n \in Monitors : Focustop(t, n) = Focustop(s, n)
    BY <2>2 DEF Focustop
  <2> QED BY <1>1, <1>3, <2>3, FocusedKept DEF DeskInv
<1> QED BY <1>2, <1>4 DEF DeskInv

LEMMA SetFullscreenGoes ==
  ASSUME NEW k, NEW s, DeskInv(k, s), NEW c \in Clients, NEW b \in BOOLEAN
  PROVE  DeskInv(k, SetFullscreen(s, c, b)) /\ SameOutputs(s, SetFullscreen(s, c, b))
<1> DEFINE t == SetFullscreen(s, c, b)
<1>1. Sound(s) /\ AllMapped(s)
  BY BaseMapped DEF DeskInv
<1>2. /\ Changed(s, t, c) /\ t.fstack = s.fstack /\ t.focus = s.focus
      /\ Fits(c, t.win[c])
      /\ t.win[c].mon = s.win[c].mon /\ t.win[c].tags = s.win[c].tags
      /\ s.win[c].mon = NoMon => t.win[c].enabled = s.win[c].enabled
      /\ \A n \in Monitors : SameView(s, t, n) \/ Scene(t, n)
  BY <1>1, SetFullscreenDoes DEF AllMapped
<1> HIDE DEF t
<1>3. \A n \in Monitors : Fine(k, t, n)
  BY <1>1, <1>2, FineView, SceneFine DEF Changed, DeskInv
<1>4. DeskInv(k, t) /\ SameOutputs(s, t)
  BY <1>2, <1>3, ChangedGoes
<1> QED BY <1>4 DEF t

LEMMA UnsetFullscreenGoes ==
  ASSUME NEW k, NEW s, DeskInv(k, s), NEW c, NEW p, NEW m
  PROVE  DeskInv(k, UnsetFullscreen(s, c, p, m)) /\ SameOutputs(s, UnsetFullscreen(s, c, p, m))
<1> DEFINE q == s.clients
           n == Len(q)
<1>1. s \in StateType /\ q \in Seq(Clients) /\ n \in Nat
  BY BaseMapped, StateFields DEF DeskInv
<1>2. \A i \in 1 .. n : q[i] \in Clients
  BY <1>1
<1>3. PICK g : /\ g[0] = s /\ g[n] = UnsetFullscreen(s, c, p, m)
               /\ \A i \in 1 .. n : g[i] = Turn(4, g[i - 1], q[i], <<c, p, m>>)
  BY <1>1, UnsetFullscreenSteps DEF Steps
<1>4. \A i \in 1 .. n : g[i] = UnsetOne(g[i - 1], q[i], c, p, m)
  BY <1>3 DEF Turn
<1> DEFINE R(i) == DeskInv(k, g[i]) /\ SameOutputs(s, g[i])
           T == {i \in 0 .. n : R(i)}
<1>5. R(0)
  BY <1>3 DEF SameOutputs
<1>6. ASSUME NEW i \in 0 .. n - 1, R(i) PROVE R(i + 1)
  <2> DEFINE a == g[i]
             w == q[i + 1]
             t == g[i + 1]
  <2>1. i + 1 \in 1 .. n /\ w \in Clients
    BY <1>1, <1>2
  <2>2. t = UnsetOne(a, w, c, p, m)
    BY <1>1, <1>4, <2>1
  <2>3. t = a \/ t = SetFullscreen(a, w, FALSE)
    BY <2>2 DEF UnsetOne
  <2>4. DeskInv(k, a) /\ SameOutputs(s, a)
    BY <1>6
  <2> HIDE DEF a, t, w
  <2>5. DeskInv(k, SetFullscreen(a, w, FALSE)) /\ SameOutputs(a, SetFullscreen(a, w, FALSE))
    <3>1. FALSE \in BOOLEAN
      OBVIOUS
    <3> QED BY <2>1, <2>4, <3>1, SetFullscreenGoes, Zenon
  <2>6. DeskInv(k, t) /\ SameOutputs(a, t)
    BY <2>3, <2>4, <2>5 DEF SameOutputs
  <2> QED BY <2>4, <2>6 DEF SameOutputs, t
<1> HIDE DEF R
<1>7. \A i \in 0 .. n : i \in T
  <2>1. 0 \in T
    BY <1>1, <1>5
  <2>2. \A i \in 0 .. n - 1 : i \in T => i + 1 \in T
    BY <1>1, <1>6
  <2> HIDE DEF T
  <2> QED BY <1>1, <2>1, <2>2, InductionUpTo
<1>8. R(n)
  BY <1>1, <1>7
<1> QED BY <1>3, <1>8 DEF R

(* mapnotify().                                                             *)
LEMMA MapNotifyGoes ==
  ASSUME NEW k, NEW s, DeskInv(k, s), NEW c \in Clients, s.win[c].status = "unmapped",
         NEW r \in Rules, NEW m,
         NEW p \in ToSet(s.clients) \cup {NoClient}
  PROVE  Goes(k, s, UnsetFullscreen(AutoScratch(Place(ListedFirst(s, c), c, p, r), c), c, p, m))
<1> DEFINE a == ListedFirst(s, c)
           b == Place(a, c, p, r)
           d == AutoScratch(b, c)
           t == UnsetFullscreen(d, c, p, m)
<1>1. /\ Homeless(k, a, c) /\ a.win[c].mon = NoMon /\ SameOutputs(s, a)
      /\ \A x \in ToSet(s.clients) : x # c /\ x \in ToSet(a.clients)
  BY ListedHomeless
<1>2. p \in ToSet(a.clients) \cup {NoClient} /\ p # c
  BY <1>1, ConstantsAssumption
<1> HIDE DEF a
<1>3. DeskInv(k, b) /\ SameOutputs(a, b)
  BY <1>1, <1>2, PlaceHouses
<1> HIDE DEF b
<1>4. d = b
  <2>1. b.win[c].mon \in Monitors \cup {NoMon}
    <3>1. b.win[c] \in WindowType
      BY <1>3, BaseMapped, StateFields DEF DeskInv
    <3> QED BY <3>1 DEF WindowType
  <2> QED BY <1>3, <2>1 DEF DeskInv, Base, NoScratch, AutoScratch
<1> HIDE DEF d
<1>5. DeskInv(k, t) /\ SameOutputs(d, t)
  BY <1>3, <1>4, UnsetFullscreenGoes
<1> HIDE DEF t
<1>6. SameOutputs(s, t)
  BY <1>1, <1>3, <1>4, <1>5 DEF SameOutputs
<1>7. Goes(k, s, t)
  BY <1>5, <1>6, SameOutputsGo
<1> QED BY <1>7 DEF t, d, b, a

(* The window leaves the lists, its output's trees and scratchpad, the drag. *)
Unlisted(s, c) == ClearRefs(Unlink(s, c), c, s.win[c].mon)

(* The output m as it is then.                                              *)
Forgetful(o, c) ==
  [o EXCEPT !.dwindle_tree = [u \in Tags |-> o.dwindle_tree[u] \ {c}],
            !.scratchpad_current = IF o.scratchpad_current = c THEN NoClient ELSE o.scratchpad_current,
            !.scratchpad_prev_focus =
               IF o.scratchpad_prev_focus = c THEN NoClient ELSE o.scratchpad_prev_focus]

LEMMA ForgetfulType ==
  ASSUME NEW o \in MonitorType, NEW c
  PROVE  /\ Forgetful(o, c) \in MonitorType
         /\ Forgetful(o, c).power = o.power
         /\ Forgetful(o, c).scratchpad_visible = o.scratchpad_visible
         /\ Forgetful(o, c).tagset = o.tagset /\ Forgetful(o, c).seltags = o.seltags
         /\ Forgetful(o, c).scratchpad_current \in {o.scratchpad_current, NoClient} \ ({c} \ {NoClient})
         /\ Forgetful(o, c).scratchpad_prev_focus \in {o.scratchpad_prev_focus, NoClient} \ ({c} \ {NoClient})
<1> DEFINE d == [u \in Tags |-> o.dwindle_tree[u] \ {c}]
           p == IF o.scratchpad_current = c THEN NoClient ELSE o.scratchpad_current
           q == IF o.scratchpad_prev_focus = c THEN NoClient ELSE o.scratchpad_prev_focus
<1>1. d \in [Tags -> SUBSET Clients]
  BY DEF MonitorType
<1>2. p \in Clients \cup {NoClient} /\ q \in Clients \cup {NoClient}
  BY DEF MonitorType
<1>4. /\ p \in {o.scratchpad_current, NoClient} \ ({c} \ {NoClient})
      /\ q \in {o.scratchpad_prev_focus, NoClient} \ ({c} \ {NoClient})
  OBVIOUS
<1>3. Forgetful(o, c) = [o EXCEPT !.dwindle_tree = d, !.scratchpad_current = p,
                                  !.scratchpad_prev_focus = q]
  BY DEF Forgetful
<1> HIDE DEF d, p, q
<1> QED BY <1>1, <1>2, <1>3, <1>4 DEF MonitorType

(* The record with other lists, outputs and drag.                           *)
Relisted(s, o, p, q, g) ==
  [s EXCEPT !.out = o, !.clients = p, !.fstack = q, !.grab = g]

Cleared(o, c) ==
  [o EXCEPT !.scratchpad_current = IF o.scratchpad_current = c THEN NoClient ELSE o.scratchpad_current,
            !.scratchpad_prev_focus =
               IF o.scratchpad_prev_focus = c THEN NoClient ELSE o.scratchpad_prev_focus]

OutputAs(o, m, x) == [o EXCEPT ![m] = x]

LEMMA ClearRefsIs ==
  ASSUME NEW s \in StateType, NEW o \in [Monitors -> MonitorType], NEW p, NEW q, NEW g,
         NEW m \in Monitors, NEW c, m # NoMon
  PROVE  ClearRefs(Relisted(s, o, p, q, g), c, m) =
           Relisted(s, OutputAs(o, m, Cleared(o[m], c)), p, q, g)
<1> DEFINE r == Relisted(s, o, p, q, g)
           cur == IF o[m].scratchpad_current = c THEN NoClient ELSE o[m].scratchpad_current
           prev == IF o[m].scratchpad_prev_focus = c THEN NoClient ELSE o[m].scratchpad_prev_focus
           y == [o[m] EXCEPT !.scratchpad_current = cur]
           k == [o EXCEPT ![m] = y]
<1>1. /\ r.out = o
      /\ \A u : [r EXCEPT !.out = u] = Relisted(s, u, p, q, g)
      /\ \A u : [r EXCEPT !.out = u].out = u
  BY DEF Relisted, StateType
<1>2. ClearRefs(r, c, m) =
        [r EXCEPT !.out[m].scratchpad_current = IF @ = c THEN NoClient ELSE @,
                  !.out[m].scratchpad_prev_focus = IF @ = c THEN NoClient ELSE @]
  BY DEF ClearRefs
<1>3. y \in MonitorType /\ y.scratchpad_prev_focus = o[m].scratchpad_prev_focus
      /\ [y EXCEPT !.scratchpad_prev_focus = prev] = Cleared(o[m], c)
  BY DEF MonitorType, Cleared
<1>4. k[m] = y
  OBVIOUS
<1>5. [k EXCEPT ![m] = Cleared(o[m], c)] = [o EXCEPT ![m] = Cleared(o[m], c)]
  OBVIOUS
<1>6. ClearRefs(r, c, m) = [[r EXCEPT !.out = k] EXCEPT !.out[m].scratchpad_prev_focus = IF @ = c THEN NoClient ELSE @]
  <2> HIDE DEF r
  <2> QED BY <1>1, <1>2
<1>7. ClearRefs(r, c, m) =
        [Relisted(s, k, p, q, g) EXCEPT !.out = [k EXCEPT ![m] = [y EXCEPT !.scratchpad_prev_focus = prev]]]
  <2> DEFINE r2 == Relisted(s, k, p, q, g)
             f == [y EXCEPT !.scratchpad_prev_focus = prev]
  <2>1. ClearRefs(r, c, m) = [r2 EXCEPT !.out[m].scratchpad_prev_focus = IF @ = c THEN NoClient ELSE @]
    BY <1>1, <1>6
  <2>2. r2.out = k
    BY DEF Relisted, StateType
  <2>3. r2.out[m] = y
    BY <1>4, <2>2
  <2> HIDE DEF r, r2, k, y
  <2>4. ClearRefs(r, c, m) = [r2 EXCEPT !.out = [k EXCEPT ![m] =
          [y EXCEPT !.scratchpad_prev_focus = IF y.scratchpad_prev_focus = c THEN NoClient
                                              ELSE y.scratchpad_prev_focus]]]
    BY <2>1, <2>2, <2>3
  <2> QED BY <1>3, <2>4 DEF r2
<1>8. \A u : [Relisted(s, k, p, q, g) EXCEPT !.out = u] = Relisted(s, u, p, q, g)
  BY DEF Relisted, StateType
<1> HIDE DEF y, k
<1> QED BY <1>3, <1>5, <1>7, <1>8 DEF OutputAs

LEMMA UnlistedIs ==
  ASSUME NEW s \in StateType, NEW c \in Clients
  PROVE  LET m == s.win[c].mon IN
         Unlisted(s, c) =
           Relisted(s, IF m = NoMon THEN s.out ELSE [s.out EXCEPT ![m] = Forgetful(s.out[m], c)],
                    Without(s.clients, c), Without(s.fstack, c),
                    IF s.grab.client = c THEN NoGrab ELSE s.grab)
<1> DEFINE m == s.win[c].mon
           p == Without(s.clients, c)
           q == Without(s.fstack, c)
           g == IF s.grab.client = c THEN NoGrab ELSE s.grab
           d == [u \in Tags |-> s.out[m].dwindle_tree[u] \ {c}]
<1>1. m \in Monitors \cup {NoMon} /\ s.out \in [Monitors -> MonitorType] /\ NoMon \notin Monitors
  BY StateFields, ConstantsAssumption DEF WindowType
<1>2. CASE m = NoMon
  <2>1. Unlisted(s, c) = [s EXCEPT !.clients = p, !.fstack = q, !.grab = g]
    BY <1>2 DEF Unlisted, Unlink, RemoveFromTrees, ClearRefs, StateType
  <2> HIDE DEF p, q, g
  <2>2. [s EXCEPT !.clients = p, !.fstack = q, !.grab = g] = Relisted(s, s.out, p, q, g)
    BY DEF Relisted, StateType
  <2> QED BY <1>2, <2>1, <2>2 DEF p, q, g
<1>3. CASE m # NoMon
  <2> DEFINE a == [s EXCEPT !.out[m].dwindle_tree = d]
             b == [s EXCEPT !.out[m].dwindle_tree = d, !.clients = p, !.fstack = q, !.grab = g]
             o == [s.out EXCEPT ![m] = Forgetful(s.out[m], c)]
  <2>1. RemoveFromTrees(s, c) = a
    BY <1>1, <1>3 DEF RemoveFromTrees, StateType
  <2>2. Unlink(s, c) = b
    BY <2>1 DEF Unlink, StateType
  <2> HIDE DEF p, q, g
  <2>3. Unlisted(s, c) = ClearRefs(b, c, m)
    BY <2>2 DEF Unlisted
  <2>4. ClearRefs(b, c, m) = [b EXCEPT !.out[m].scratchpad_current = IF @ = c THEN NoClient ELSE @,
                 !.out[m].scratchpad_prev_focus = IF @ = c THEN NoClient ELSE @]
    BY <1>3 DEF ClearRefs
  <2>5. m \in Monitors /\ s.out[m] \in MonitorType
    BY <1>1, <1>3
  <2>6. ClearRefs(b, c, m) = Relisted(s, o, p, q, g)
    <3> DEFINE x == s.out[m]
               y == [x EXCEPT !.dwindle_tree = d]
               k == [s.out EXCEPT ![m] = y]
               r == Relisted(s, k, p, q, g)
    <3>1. b = r
      BY <2>5 DEF Relisted, StateType
    <3>2. /\ y \in MonitorType
          /\ y.scratchpad_current = x.scratchpad_current
          /\ y.scratchpad_prev_focus = x.scratchpad_prev_focus
      <4>1. d \in [Tags -> SUBSET Clients]
        BY <2>5 DEF MonitorType
      <4> HIDE DEF d
      <4> QED BY <2>5, <4>1 DEF MonitorType
    <3>3. Cleared(y, c) = Forgetful(x, c)
      BY <2>5, <3>2 DEF Forgetful, Cleared, MonitorType
    <3>4. k \in [Monitors -> MonitorType] /\ k[m] = y
      BY <1>1, <2>5, <3>2
    <3> HIDE DEF b, m
    <3>6. ClearRefs(r, c, m) = Relisted(s, OutputAs(k, m, Cleared(k[m], c)), p, q, g)
      <4> HIDE DEF k, y
      <4>1. s \in StateType /\ k \in [Monitors -> MonitorType] /\ m \in Monitors /\ m # NoMon
        BY <1>3, <2>5, <3>4
      <4> QED BY <4>1, ClearRefsIs
    <3>7. OutputAs(k, m, Cleared(y, c)) = [s.out EXCEPT ![m] = Cleared(y, c)]
      BY <1>1 DEF k, OutputAs
    <3> HIDE DEF k, y, r
    <3> QED BY <3>1, <3>3, <3>4, <3>6, <3>7
  <2> QED BY <1>3, <2>3, <2>6 DEF p, q, g
<1> QED BY <1>2, <1>3

LEMMA UnlistedDoes ==
  ASSUME NEW s, Sound(s), NEW c \in ToSet(s.clients),
         s.grab.client \in ToSet(s.clients) \cup {NoClient}
  PROVE  LET t == Unlisted(s, c) IN
         /\ Sound(t)
         /\ t.mons = s.mons /\ t.selmon = s.selmon /\ t.win = s.win /\ t.focus = s.focus
         /\ ToSet(t.clients) = ToSet(s.clients) \ {c}
         /\ t.grab.client \in ToSet(t.clients) \cup {NoClient}
         /\ t.grab = NoGrab \/ (t.grab = s.grab /\ s.grab.client # c)
         /\ \A n \in Monitors : /\ t.out[n].power = s.out[n].power
                                /\ t.out[n].scratchpad_visible = s.out[n].scratchpad_visible
                                /\ CurTags(t, n) = CurTags(s, n)
                                /\ n # s.win[c].mon => SameView(s, t, n)
         /\ \A n \in Monitors : n = s.win[c].mon =>
              /\ t.out[n].scratchpad_current
                   \in {s.out[n].scratchpad_current, NoClient} \ ({c} \ {NoClient})
              /\ t.out[n].scratchpad_prev_focus
                   \in {s.out[n].scratchpad_prev_focus, NoClient} \ ({c} \ {NoClient})
<1> DEFINE t == Unlisted(s, c)
           S == ToSet(s.clients)
           m == s.win[c].mon
           o == IF m = NoMon THEN s.out ELSE [s.out EXCEPT ![m] = Forgetful(s.out[m], c)]
           p == Without(s.clients, c)
           q == Without(s.fstack, c)
           g == IF s.grab.client = c THEN NoGrab ELSE s.grab
<1>1. /\ s \in StateType /\ Sound(s) /\ c \in S /\ S \subseteq Clients /\ c \in Clients
      /\ s.out \in [Monitors -> MonitorType]
      /\ m \in Monitors \cup {NoMon}
      /\ Lists(s.clients, S) /\ Lists(s.fstack, S)
      /\ s.grab.client \in S \cup {NoClient}
      /\ s.grab \in [mode : CursorModes, client : Clients \cup {NoClient}]
  BY StateFields, SoundFacts DEF Sound, WindowType
<1>2. t = Relisted(s, o, p, q, g)
  BY <1>1, UnlistedIs
<1>3. /\ o \in [Monitors -> MonitorType]
      /\ \A n \in Monitors : /\ n # m => o[n] = s.out[n]
                             /\ o[n].power = s.out[n].power
                             /\ o[n].scratchpad_visible = s.out[n].scratchpad_visible
                             /\ o[n].tagset = s.out[n].tagset /\ o[n].seltags = s.out[n].seltags
      /\ \A n \in Monitors : n = m =>
           /\ o[n].scratchpad_current
                \in {s.out[n].scratchpad_current, NoClient} \ ({c} \ {NoClient})
           /\ o[n].scratchpad_prev_focus
                \in {s.out[n].scratchpad_prev_focus, NoClient} \ ({c} \ {NoClient})
  <2>1. CASE m = NoMon
    BY <1>1, <2>1, ConstantsAssumption
  <2>2. CASE m # NoMon
    <3> DEFINE f == Forgetful(s.out[m], c)
    <3>1. m \in Monitors /\ s.out[m] \in MonitorType
      BY <1>1, <2>2
    <3>2. /\ f \in MonitorType /\ f.power = s.out[m].power
          /\ f.scratchpad_visible = s.out[m].scratchpad_visible
          /\ f.tagset = s.out[m].tagset /\ f.seltags = s.out[m].seltags
          /\ f.scratchpad_current \in {s.out[m].scratchpad_current, NoClient} \ ({c} \ {NoClient})
          /\ f.scratchpad_prev_focus
               \in {s.out[m].scratchpad_prev_focus, NoClient} \ ({c} \ {NoClient})
      BY <3>1, ForgetfulType
    <3> HIDE DEF f
    <3>3. o = [s.out EXCEPT ![m] = f]
      BY <2>2 DEF f
    <3> HIDE DEF o, m
    <3> QED BY <1>1, <3>1, <3>2, <3>3
  <2> QED BY <2>1, <2>2
<1>4. Lists(p, S \ {c}) /\ Lists(q, S \ {c})
  BY <1>1, TakenOut
<1>5. p \in Seq(Clients) /\ q \in Seq(Clients) /\ ToSet(p) = S \ {c}
  BY <1>1, <1>4 DEF Lists
<1>6. /\ g \in [mode : CursorModes, client : Clients \cup {NoClient}]
      /\ g.client \in (S \ {c}) \cup {NoClient}
      /\ g = NoGrab \/ (g = s.grab /\ s.grab.client # c)
  BY <1>1 DEF NoGrab, CursorModes
<1> HIDE DEF t, o, p, q, g, S
<1>7. /\ t \in StateType /\ t.mons = s.mons /\ t.out = o /\ t.selmon = s.selmon
      /\ t.clients = p /\ t.fstack = q /\ t.win = s.win /\ t.focus = s.focus /\ t.grab = g
  BY <1>1, <1>2, <1>3, <1>5, <1>6 DEF Relisted, StateType
<1>8. Sound(t)
  BY <1>4, <1>5, <1>7 DEF Sound
<1>9. ASSUME NEW n \in Monitors, n # m PROVE SameView(s, t, n)
  <2> DEFINE X == {d \in Clients : VisibleOn(s, d, n)}
  <2>1. CurTags(t, n) = CurTags(s, n)
    BY <1>3, <1>7, <1>9 DEF CurTags
  <2>2. {d \in Clients : VisibleOn(t, d, n)} = X
    BY <1>3, <1>7, <1>9, <2>1 DEF VisibleOn, Shows
  <2>3. c \notin X
    BY <1>9 DEF VisibleOn, Shows
  <2> HIDE DEF X
  <2>4. FirstOf(Without(s.fstack, c), X, NoClient) = FirstOf(s.fstack, X, NoClient)
    BY <1>1, <2>3, WithoutPassedOver
  <2>5. Focustop(t, n) = Focustop(s, n)
    BY <1>7, <2>2, <2>4 DEF Focustop, X, q
  <2>6. \A d \in Clients : On(t, d, n) <=> On(s, d, n)
    BY <1>5, <1>7, <1>9 DEF On, S
  <2> QED BY <1>3, <1>7, <1>9, <2>5, <2>6 DEF SameView, On
<1>10. \A n \in Monitors : CurTags(t, n) = CurTags(s, n)
  BY <1>3, <1>7 DEF CurTags
<1> QED BY <1>3, <1>5, <1>6, <1>7, <1>8, <1>9, <1>10 DEF t, S

(* unmapnotify().                                                           *)
LEMMA UnmapNotifyGoes ==
  ASSUME NEW k, NEW s, DeskInv(k, s), NEW c \in Clients, s.win[c].status = "mapped"
  PROVE  Goes(k, s, [Detach(ClearRefs(Unlink(s, c), c, s.win[c].mon), c, s.win[c].mon)
                  EXCEPT !.win[c].status = "unmapped", !.win[c].layer = "none",
                         !.win[c].enabled = FALSE])
<1> DEFINE m == s.win[c].mon
           a == Unlisted(s, c)
           b == SetMon(a, c, NoMon, {})
           v == [b.win[c] EXCEPT !.status = "unmapped", !.layer = "none", !.enabled = FALSE]
           t == Put(b, c, v)
<1>1. /\ Base(s) /\ s \in StateType /\ Sound(s) /\ c \in ToSet(s.clients)
      /\ s.grab.client \in ToSet(s.clients) \cup {NoClient}
      /\ m \in Monitors \cup {NoMon} /\ NoMon \notin Monitors
      /\ ~ s.win[c].isscratchpad
      /\ s.selmon \in Monitors \cup {NoMon}
  BY BaseMapped, StateFields, SoundFacts, ConstantsAssumption
     DEF DeskInv, Base, WindowsListed, NoScratch, WindowType
<1>2. /\ Sound(a)
      /\ a.mons = s.mons /\ a.selmon = s.selmon /\ a.win = s.win /\ a.focus = s.focus
      /\ ToSet(a.clients) = ToSet(s.clients) \ {c}
      /\ a.grab.client \in ToSet(a.clients) \cup {NoClient}
      /\ a.grab = NoGrab \/ (a.grab = s.grab /\ s.grab.client # c)
      /\ \A n \in Monitors : /\ a.out[n].power = s.out[n].power
                             /\ a.out[n].scratchpad_visible = s.out[n].scratchpad_visible
                             /\ CurTags(a, n) = CurTags(s, n)
                             /\ n # m => SameView(s, a, n)
  BY <1>1, UnlistedDoes
<1> HIDE DEF a
<1>3. c \notin ToSet(a.clients)
  BY <1>2
<1>4. /\ Changed(a, b, c) /\ b.win[c].mon = NoMon
      /\ Focused(k, b)
      /\ \A n \in Monitors : n = m \/ SameView(a, b, n)
      /\ \A n \in Monitors : Fine(k, b, n)
  <2>1. CASE m = NoMon
    <3>1. b = a
      BY <1>2, <2>1 DEF SetMon
    <3>2. \A n \in Monitors : SameView(s, a, n)
      BY <1>1, <1>2, <2>1
    <3>3. \A n \in Monitors : Fine(k, a, n)
      BY <1>1, <1>2, <3>2, FineView DEF DeskInv
    <3>4. Focused(k, a)
      BY <1>1, <1>2, <3>2, FocusedKept DEF DeskInv, SameView
    <3>5. Changed(a, a, c)
      BY <1>2 DEF Changed, SameButTree, SameButShown
    <3>6. \A n \in Monitors : SameView(a, a, n)
      BY DEF SameView
    <3> QED BY <1>2, <2>1, <3>1, <3>3, <3>4, <3>5, <3>6
  <2>2. CASE m # NoMon
    <3>1. {} \in SUBSET Tags /\ NoMon \in Monitors \cup {NoMon}
      OBVIOUS
    <3>2. /\ Changed(a, b, c) /\ b.win[c].mon = NoMon
          /\ b.focus = Focustop(b, b.selmon)
          /\ \A n \in Monitors :
               /\ n # NoMon /\ n # a.win[c].mon => SameView(a, b, n)
               /\ n = a.win[c].mon => Scene(b, n)
      BY <1>2, <1>3, <2>2, <3>1, SetMonDoes
    <3> HIDE DEF b
    <3>3. ASSUME NEW n \in Monitors, n # m PROVE Fine(k, b, n)
      <4>1. SameView(s, a, n) /\ SameView(a, b, n)
        BY <1>1, <1>2, <3>2, <3>3
      <4>2. Fine(k, s, n) /\ Sound(b)
        BY <3>2 DEF DeskInv, Changed
      <4> QED BY <1>1, <1>2, <4>1, <4>2, FineView
    <3>4. Focused(k, b)
      BY <3>2, FocusedTop DEF FocusTop, Changed
    <3>5. m \in Monitors => Fine(k, b, m)
      BY <1>2, <3>2, SceneFine DEF Changed
    <3> QED BY <1>1, <1>2, <3>2, <3>3, <3>4, <3>5
  <2> QED BY <2>1, <2>2
<1>5. Detach(a, c, m) = b
  BY <1>1, <1>2 DEF Detach
<1> HIDE DEF b
<1>6. /\ Sound(b) /\ b.mons = s.mons /\ b.clients = a.clients /\ b.selmon = s.selmon
      /\ b.grab = a.grab /\ b.win \in [Clients -> WindowType]
      /\ c \notin ToSet(b.clients)
      /\ \A n \in Monitors : SameButTree(a.out[n], b.out[n])
      /\ \A d \in Clients : d # c => SameButShown(s.win[d], b.win[d])
      /\ \A d \in Clients : d \notin ToSet(s.clients) => b.win[d].enabled = s.win[d].enabled
      /\ b \in StateType
  BY <1>2, <1>3, <1>4, SoundFacts, StateFields DEF Changed, Sound
<1>7. /\ v \in WindowType /\ v.status = "unmapped" /\ v.mon = NoMon /\ ~ v.enabled
      /\ ~ v.isscratchpad
  <2> DEFINE w == b.win[c]
  <2>1. w \in WindowType /\ w.mon = NoMon /\ ~ w.isscratchpad
    BY <1>1, <1>2, <1>4, <1>6 DEF Changed
  <2>2. v = [w EXCEPT !.status = "unmapped", !.layer = "none", !.enabled = FALSE]
    OBVIOUS
  <2> HIDE DEF w, v
  <2> QED BY <2>1, <2>2 DEF WindowType
<1>8. [b EXCEPT !.win[c].status = "unmapped", !.win[c].layer = "none", !.win[c].enabled = FALSE] = t
  BY <1>6 DEF StateType, Put
<1> HIDE DEF v
<1>9. /\ Sound(t)
      /\ t.mons = b.mons /\ t.out = b.out /\ t.selmon = b.selmon /\ t.clients = b.clients
      /\ t.fstack = b.fstack /\ t.focus = b.focus /\ t.grab = b.grab
      /\ t.win[c] = v
      /\ \A d \in Clients : d # c => t.win[d] = b.win[d]
      /\ \A n \in Monitors : SameView(b, t, n)
  BY <1>6, <1>7, PutDoes
<1> HIDE DEF t
<1>10. \A n \in Monitors : Fine(k, t, n)
  BY <1>4, <1>6, <1>9, FineView
<1>11. Focused(k, t)
  <2>1. \A d \in Clients : t.win[d].mon = b.win[d].mon
    BY <1>4, <1>7, <1>9
  <2> QED BY <1>4, <1>6, <1>9, <2>1, FocusedKept DEF SameView
<1>12. WindowsListed(t)
  <2>1. \A d \in Clients : d # c => t.win[d].status = s.win[d].status
    BY <1>6, <1>9 DEF SameButShown
  <2>2. {d \in Clients : t.win[d].status = "mapped"} = ToSet(s.clients) \ {c}
    BY <1>1, <1>7, <1>9, <2>1 DEF Base, WindowsListed
  <2>3. ASSUME NEW d \in Clients, t.win[d].status # "mapped"
        PROVE  t.win[d].mon = NoMon /\ ~ t.win[d].enabled
    <3>1. CASE d = c
      BY <1>7, <1>9, <3>1
    <3>2. CASE d # c
      <4>1. s.win[d].status # "mapped" /\ d \notin ToSet(s.clients)
        BY <1>1, <2>1, <2>3, <3>2 DEF Base, WindowsListed
      <4> QED BY <1>1, <1>6, <1>9, <3>2, <4>1 DEF Base, WindowsListed, SameButShown
    <3> QED BY <3>1, <3>2
  <2> QED BY <1>2, <1>6, <1>9, <2>2, <2>3 DEF WindowsListed
<1>13. NoScratch(t)
  <2>1. \A d \in Clients : ~ t.win[d].isscratchpad
    BY <1>1, <1>6, <1>7, <1>9 DEF Base, NoScratch, SameButShown
  <2>2. \A n \in Monitors : ~ t.out[n].scratchpad_visible
    BY <1>1, <1>2, <1>6, <1>9 DEF Base, NoScratch, SameButTree
  <2> QED BY <2>1, <2>2 DEF NoScratch
<1>14. \A n \in Monitors : t.out[n].power = s.out[n].power
  BY <1>2, <1>6, <1>9 DEF SameButTree
<1>15. OutputsListed(t) /\ SameOutputs(s, t)
  <2>1. {n \in Monitors : t.out[n].power # "gone"} = {n \in Monitors : s.out[n].power # "gone"}
    BY <1>14
  <2> QED BY <1>6, <1>9, <1>14, <2>1 DEF DeskInv, OutputsListed, SameOutputs
<1>16. SelmonSettled(t)
  <2>1. \A d \in ToSet(t.clients) : d \in ToSet(s.clients) /\ d # c /\ d \in Clients
    BY <1>1, <1>2, <1>6, <1>9, SoundFacts
  <2>2. \A d \in ToSet(t.clients) : t.win[d].mon = s.win[d].mon
    BY <1>6, <1>9, <2>1 DEF SameButShown
  <2> QED BY <1>1, <1>6, <1>9, <1>14, <2>1, <2>2 DEF DeskInv, SelmonSettled, InLayout, NoOrphan
<1>17. Lit(k, t)
  <2> SUFFICES ASSUME k # "desktop" PROVE Lit(k, t)
    BY DEF Lit
  <2>1. Lit(k, s)
    BY DEF DeskInv
  <2>2. ASSUME NEW d \in ToSet(t.clients) PROVE Housed(t, d)
    <3>1. d \in ToSet(s.clients) /\ d # c /\ d \in Clients /\ Housed(s, d)
      BY <1>1, <1>2, <1>6, <1>9, <2>1, SoundFacts DEF Lit
    <3>2. t.win[d].mon = s.win[d].mon
      BY <1>6, <1>9, <3>1 DEF SameButShown
    <3>3. s.win[d].mon = NoMon => t.win[d].enabled = s.win[d].enabled
      BY <1>2, <1>4, <1>9, <3>1 DEF Changed
    <3>4. s.win[d].mon \in Monitors \cup {NoMon}
      BY <1>1, <3>1, StateFields DEF WindowType
    <3> QED BY <1>14, <3>1, <3>2, <3>3, <3>4 DEF Housed
  <2>3. t.grab = NoGrab \/ (t.grab = s.grab /\ s.grab.client # c)
    BY <1>2, <1>6, <1>9
  <2>4. ASSUME DragInView(s) PROVE DragInView(t)
    <3> DEFINE d == s.grab.client
    <3> SUFFICES ASSUME t.grab = s.grab, s.grab.mode = "CurTileDrag", d # c
                 PROVE  VisibleOn(t, d, t.win[d].mon)
      BY <2>3 DEF DragInView, NoGrab
    <3>1. VisibleOn(s, d, s.win[d].mon) /\ d \in Clients
      BY <1>1, <2>1, <2>4, SoundFacts DEF Lit, DragInView, Base, WindowsListed
    <3>2. s.win[d].mon \in Monitors
      BY <1>1, <3>1, StateFields DEF VisibleOn, Shows, WindowType
    <3> DEFINE n == s.win[d].mon
    <3>3. SameButShown(s.win[d], t.win[d])
      BY <1>6, <1>9, <3>1
    <3>4. CurTags(t, n) = CurTags(s, n) /\ t.out[n].scratchpad_visible = s.out[n].scratchpad_visible
      <4>1. CurTags(b, n) = CurTags(a, n)
        BY <1>6, <3>2, SameOutQueries
      <4> QED BY <1>2, <1>6, <1>9, <3>2, <4>1 DEF CurTags, SameButTree
    <3> HIDE DEF d
    <3> QED BY <3>1, <3>3, <3>4 DEF VisibleOn, Shows, SameButShown
  <2>5. t.selmon = s.selmon
    BY <1>6, <1>9
  <2> QED BY <1>14, <2>1, <2>2, <2>3, <2>4, <2>5 DEF Lit, NoGrab
<1>20. LayersFit(t)
  <2>1. Fits(c, t.win[c])
    BY <1>7, <1>9 DEF Fits
  <2>2. \A d \in Clients : d # c => SameButShown(s.win[d], t.win[d])
    BY <1>6, <1>9
  <2> QED BY <1>1, <2>1, <2>2, FitsBut DEF Base
<1>18. DeskInv(k, t)
  BY <1>20, <1>9, <1>10, <1>11, <1>12, <1>13, <1>15, <1>16, <1>17 DEF DeskInv, Base
<1>19. Goes(k, s, t)
  BY <1>15, <1>18, SameOutputsGo
<1> QED BY <1>5, <1>8, <1>19 DEF t, b, a, Unlisted

-----------------------------------------------------------------------------
(* Bindings                                                                *)

SamePlace(w, v) ==
  /\ v.status = w.status /\ v.mon = w.mon /\ v.tags = w.tags
  /\ v.isscratchpad = w.isscratchpad

(* The same windows with the same tags on the same outputs, tiled, shown    *)
(* and focused otherwise.                                                   *)
Viewed(s, t) ==
  /\ Sound(t)
  /\ t.mons = s.mons /\ t.clients = s.clients /\ t.grab = s.grab
  /\ \A n \in Monitors : SameButTree(s.out[n], t.out[n])
  /\ \A d \in Clients : SamePlace(s.win[d], t.win[d])
  /\ \A d \in Clients : d \notin ToSet(s.clients) \/ s.win[d].mon = NoMon =>
       t.win[d].enabled = s.win[d].enabled
  /\ LayersFit(s) => LayersFit(t)

LEMMA ViewedTrans ==
  ASSUME NEW s, NEW t, NEW u, Viewed(s, t), Viewed(t, u)
  PROVE  Viewed(s, u)
BY DEF Viewed, SameButTree, SamePlace

LEMMA ArrangeViewed ==
  ASSUME NEW s, Sound(s), NEW m \in Monitors
  PROVE  LET t == Arrange(s, m) IN
         /\ Viewed(s, t) /\ t.selmon = s.selmon /\ t.focus = s.focus
         /\ Scene(t, m)
         /\ \A n \in Monitors : Focustop(t, n) = Focustop(s, n)
         /\ \A n \in Monitors : n # m => SameView(s, t, n)
<1> DEFINE t == Arrange(s, m)
<1>1. /\ Redrawn(s, t, m)
      /\ Enabled(s, m) => Arranged(s, t, m)
      /\ ~ Enabled(s, m) => t = s
  BY ArrangeDoes
<1>2. Scene(t, m) /\ \A n \in Monitors : n # m => SameView(s, t, n)
  BY ArrangeScene, ArrangeView
<1> HIDE DEF t
<1>3. \A d \in Clients : d \notin ToSet(s.clients) \/ s.win[d].mon = NoMon => t.win[d] = s.win[d]
  BY <1>1, ConstantsAssumption DEF Arranged, Redrawn
<1>6. LayersFit(s) => LayersFit(t)
  BY <1>1, FitsAlike DEF Redrawn, SameDesk
<1>4. Viewed(s, t)
  BY <1>6, <1>1, <1>3, RedrawnSound DEF Viewed, Redrawn, SameDesk, SameButShown, SamePlace
<1>5. \A n \in Monitors : Focustop(t, n) = Focustop(s, n)
  BY <1>1, RedrawnQueries
<1> QED BY <1>1, <1>2, <1>4, <1>5 DEF Redrawn, t

LEMMA FocusViewed ==
  ASSUME NEW s, Sound(s), NEW c \in ToSet(s.clients) \cup {NoClient}
  PROVE  /\ Viewed(s, FocusClient(s, c)) /\ FocusClient(s, c).win = s.win
         /\ FocusClient(s, c).focus = c
         /\ \A n \in Monitors : Alike(s, FocusClient(s, c), n)
<1>1. Refocused(s, FocusClient(s, c), c) /\ Sound(FocusClient(s, c))
  BY FocusClientDoes
<1> HIDE DEF FocusClient
<1> QED BY <1>1 DEF LayersFit, Refocused, Viewed, SameButTree, SamePlace, Alike, On

LEMMA RefreshDoes ==
  ASSUME NEW s, Sound(s), NEW m \in Monitors
  PROVE  LET t == Refresh(s, m) IN
         /\ Viewed(s, t) /\ t.selmon \in {s.selmon, m}
         /\ Scene(t, m)
         /\ \A n \in Monitors : n # m => SameView(s, t, n)
         /\ TopFocused(t)
         /\ s.selmon = m => FocusTop(t)
<1> DEFINE c == Focustop(s, m)
           b == FocusTopOf(s, m)
           t == Arrange(b, m)
<1>1. \/ c = NoClient
      \/ c \in ToSet(s.clients) /\ c \in Clients /\ s.win[c].mon = m
  BY FocustopIs
<1>2. /\ Refocused(s, b, c) /\ Sound(b) /\ b.selmon \in {s.selmon, m}
      /\ \A n \in Monitors : Focustop(b, n) = Focustop(s, n)
  BY FocusTopOfDoes
<1>3. Viewed(s, b)
  BY <1>1, FocusViewed DEF FocusTopOf
<1> HIDE DEF b
<1>4. \A n \in Monitors : SameView(s, b, n)
  BY <1>2 DEF SameView, Refocused, On
<1>5. /\ Viewed(b, t) /\ t.selmon = b.selmon /\ t.focus = b.focus
      /\ Scene(t, m)
      /\ \A n \in Monitors : Focustop(t, n) = Focustop(b, n)
      /\ \A n \in Monitors : n # m => SameView(b, t, n)
  BY <1>2, ArrangeViewed
<1>6. Refresh(s, m) = t
  BY DEF Refresh, b
<1> HIDE DEF t
<1>7. Viewed(s, t)
  BY <1>3, <1>5, ViewedTrans
<1>8. t.focus = c /\ Focustop(t, m) = c
  BY <1>2, <1>5 DEF Refocused
<1>9. TopFocused(t)
  BY <1>1, <1>7, <1>8 DEF TopFocused, Viewed, SamePlace
<1>10. s.selmon = m => FocusTop(t)
  BY <1>2, <1>5, <1>8 DEF FocusTop
<1>11. \A n \in Monitors : n # m => SameView(s, t, n)
  BY <1>4, <1>5, SameViewTrans
<1> QED BY <1>2, <1>5, <1>6, <1>7, <1>9, <1>10, <1>11

(* What a change of view or focus has to establish, from any state that is  *)
(* well but for view and focus.                                             *)
LEMMA ViewedGoes ==
  ASSUME NEW k, NEW s, Base(s), OutputsListed(s), Lit(k, s), NEW t, Viewed(s, t),
         \/ t.selmon = s.selmon /\ SelmonSettled(s)
         \/ InLayout(s, t.selmon) /\ NoOrphan(s),
         Focused(k, t),
         \A n \in Monitors : Fine(k, t, n)
  PROVE  DeskInv(k, t) /\ SameOutputs(s, t)
<1>1. /\ Sound(s) /\ s \in StateType /\ s.selmon \in Monitors \cup {NoMon}
      /\ ToSet(s.clients) \subseteq Clients /\ NoMon \notin Monitors
      /\ t \in StateType /\ t.selmon \in Monitors \cup {NoMon}
  BY BaseMapped, StateFields, SoundFacts, ConstantsAssumption DEF Viewed, Sound
<1>2. /\ Sound(t) /\ t.mons = s.mons /\ t.clients = s.clients /\ t.grab = s.grab
      /\ \A n \in Monitors : SameButTree(s.out[n], t.out[n])
      /\ \A n \in Monitors : t.out[n].power = s.out[n].power
      /\ \A d \in Clients : /\ t.win[d].mon = s.win[d].mon /\ t.win[d].tags = s.win[d].tags
                            /\ t.win[d].status = s.win[d].status
                            /\ t.win[d].isscratchpad = s.win[d].isscratchpad
      /\ \A d \in Clients : d \notin ToSet(s.clients) \/ s.win[d].mon = NoMon =>
           t.win[d].enabled = s.win[d].enabled
  BY DEF Viewed, SameButTree, SamePlace
<1>3. WindowsListed(t)
  <2>1. {d \in Clients : t.win[d].status = "mapped"} = {d \in Clients : s.win[d].status = "mapped"}
    BY <1>2
  <2>2. \A d \in Clients : t.win[d].status # "mapped" => t.win[d].mon = NoMon /\ ~ t.win[d].enabled
    BY <1>2 DEF Base, WindowsListed
  <2> QED BY <1>2, <2>1, <2>2 DEF Base, WindowsListed
<1>4. NoScratch(t)
  BY <1>2 DEF Base, NoScratch, SameButTree
<1>5. SelmonSettled(t)
  <2>1. NoOrphan(s) => NoOrphan(t)
    BY <1>1, <1>2 DEF NoOrphan
  <2> QED BY <1>1, <1>2, <2>1, SameOutQueries DEF SelmonSettled, InLayout
<1>6. SameOutputs(s, t)
  BY <1>2 DEF SameOutputs
<1>7. OutputsListed(t)
  <2>1. {n \in Monitors : t.out[n].power # "gone"} = {n \in Monitors : s.out[n].power # "gone"}
    BY <1>2
  <2> QED BY <1>2, <2>1 DEF OutputsListed
<1>8. Lit(k, t)
  <2> SUFFICES ASSUME k # "desktop" PROVE Lit(k, t)
    BY DEF Lit
  <2>1. \A d \in ToSet(t.clients) : Housed(t, d)
    <3> SUFFICES ASSUME NEW d \in ToSet(s.clients) PROVE Housed(t, d)
      BY <1>2
    <3>1. Housed(s, d) /\ d \in Clients /\ s.win[d].mon \in Monitors \cup {NoMon}
      BY <1>1, StateFields DEF Lit, WindowType
    <3> QED BY <1>2, <3>1 DEF Housed
  <2>2. t.selmon = NoMon => s.selmon = NoMon
    BY DEF InLayout
  <2>3. ASSUME k = "layouts" PROVE DragInView(t)
    <3> SUFFICES ASSUME s.grab.mode = "CurTileDrag"
                 PROVE  VisibleOn(t, s.grab.client, t.win[s.grab.client].mon)
      BY <1>2 DEF DragInView
    <3> DEFINE d == s.grab.client
    <3>1. VisibleOn(s, d, s.win[d].mon) /\ d \in Clients
      BY <1>1, <2>3 DEF Lit, DragInView, Base, WindowsListed
    <3>2. s.win[d].mon \in Monitors
      BY <1>1, <3>1, StateFields DEF VisibleOn, Shows, WindowType
    <3> HIDE DEF d
    <3>3. VisibleOn(t, d, s.win[d].mon)
      BY <1>2, <3>1, <3>2, VisibleAlike
    <3> QED BY <1>2, <3>1, <3>3 DEF d
  <2> QED BY <1>2, <2>1, <2>2, <2>3 DEF Lit
<1>9. LayersFit(t)
  BY DEF Base, Viewed
<1> QED BY <1>9, <1>2, <1>3, <1>4, <1>5, <1>6, <1>7, <1>8 DEF DeskInv, Base

(* Another output selected, by focusmon().                                  *)
LEMMA FocusMonGoes ==
  ASSUME NEW k, NEW s, DeskInv(k, s), NEW m \in Monitors, InLayout(s, m), s.selmon # NoMon
  PROVE  Goes(k, s, FocusTopOf([s EXCEPT !.selmon = m], m))
<1> DEFINE a == [s EXCEPT !.selmon = m]
           t == FocusTopOf(a, m)
<1>1. Base(s) /\ Sound(s) /\ s \in StateType /\ OutputsListed(s) /\ Lit(k, s) /\ NoOrphan(s)
  BY BaseMapped DEF DeskInv, SelmonSettled
<1>2. /\ Kept(s, a) /\ a.selmon = m /\ a.out = s.out /\ a.win = s.win
      /\ \A n \in Monitors : SameView(s, a, n)
  BY <1>1, SelectDoes
<1> HIDE DEF a
<1>3. FocusSelected(a) = t
  BY <1>2 DEF FocusSelected
<1>4. /\ Sound(t) /\ t.mons = a.mons /\ t.out = a.out /\ t.clients = a.clients
      /\ t.win = a.win /\ t.grab = a.grab /\ t.selmon = m
      /\ t.focus = Focustop(t, t.selmon)
      /\ \A n \in Monitors : SameView(a, t, n)
  BY <1>2, <1>3, FocusSelectedDoes DEF Kept
<1> HIDE DEF t
<1>5. Viewed(s, t)
  BY <1>2, <1>4 DEF LayersFit, Viewed, Kept, SameButTree, SamePlace
<1>6. \A n \in Monitors : Fine(k, t, n)
  BY <1>1, <1>2, <1>4, SameViewTrans, FineView DEF DeskInv
<1>7. Focused(k, t)
  BY <1>4, FocusedTop DEF FocusTop
<1>8. DeskInv(k, t) /\ SameOutputs(s, t)
  BY <1>1, <1>4, <1>5, <1>6, <1>7, ViewedGoes
<1> QED BY <1>8, SameOutputsGo DEF t, a

(* The focused window sent to another output.                               *)
LEMMA TagMonGoes ==
  ASSUME NEW k, k # "layouts", NEW s, DeskInv(k, s), NEW c \in ToSet(s.clients),
         NEW m \in Monitors, InLayout(s, m)
  PROVE  Goes(k, s, SetMon(s, c, m, {}))
<1>1. Homeless(k, s, c)
  BY DEF Homeless, DeskInv, SelmonSettled, NoOrphan
<1>2. {} \in SUBSET Tags /\ m \in Monitors \cup {NoMon} /\ m # NoMon /\ s.out[m].power # "gone"
  BY ConstantsAssumption DEF InLayout
<1>3. DeskInv(k, SetMon(s, c, m, {})) /\ SameOutputs(s, SetMon(s, c, m, {}))
  BY <1>1, <1>2, SetMonHouses
<1> QED BY <1>3, SameOutputsGo

(* The record with other fields of output m.                                *)
OutAs(s, m, x) == WithOutputs(s, [s.out EXCEPT ![m] = x], s.mons)

(* Tag set or layout of one output change; its display is yet to follow.    *)
LEMMA OutAsDoes ==
  ASSUME NEW k, NEW s, DeskInv(k, s), NEW m \in Monitors,
         NEW x \in MonitorType, x.power = s.out[m].power,
         x.scratchpad_visible = s.out[m].scratchpad_visible,
         k # "layouts" \/ CurTags(OutAs(s, m, x), m) = CurTags(s, m)
  PROVE  LET a == OutAs(s, m, x) IN
         /\ Base(a) /\ OutputsListed(a) /\ SelmonSettled(a) /\ SameOutputs(s, a) /\ Lit(k, a)
         /\ a.out[m] = x /\ a.selmon = s.selmon /\ a.win = s.win /\ a.focus = s.focus
         /\ a.clients = s.clients /\ a.grab = s.grab /\ a.fstack = s.fstack
         /\ \A n \in Monitors : n # m => SameView(s, a, n)
<1> DEFINE o == [s.out EXCEPT ![m] = x]
           a == WithOutputs(s, o, s.mons)
<1>1. /\ Base(s) /\ s \in StateType /\ s.out \in [Monitors -> MonitorType] /\ s.mons \in Seq(Monitors)
      /\ NoMon \notin Monitors /\ s.selmon \in Monitors \cup {NoMon}
      /\ ToSet(s.clients) \subseteq Clients
  BY BaseMapped, StateFields, SoundFacts, ConstantsAssumption DEF DeskInv
<1>2. /\ o \in [Monitors -> MonitorType] /\ \A n \in Monitors : n # m => o[n] = s.out[n]
      /\ o[m] = x
  BY <1>1
<1> HIDE DEF o
<1>3. \A n \in Monitors : ~ o[n].scratchpad_visible /\ o[n].power = s.out[n].power
  BY <1>1, <1>2 DEF Base, NoScratch
<1>4. /\ Base(a) /\ a.mons = s.mons /\ a.out = o
      /\ a.clients = s.clients /\ a.win = s.win /\ a.selmon = s.selmon
      /\ a.focus = s.focus /\ a.grab = s.grab /\ a.fstack = s.fstack
      /\ \A n \in Monitors : o[n] = s.out[n] => SameView(s, a, n)
  BY <1>1, <1>2, <1>3, OutputsDo
<1>5. OutAs(s, m, x) = a
  BY DEF OutAs, o
<1> HIDE DEF a
<1>6. OutputsListed(a) /\ SameOutputs(s, a)
  <2>1. {n \in Monitors : a.out[n].power # "gone"} = {n \in Monitors : s.out[n].power # "gone"}
    BY <1>3, <1>4
  <2> QED BY <1>3, <1>4, <2>1 DEF DeskInv, OutputsListed, SameOutputs
<1>7. SelmonSettled(a)
  BY <1>1, <1>3, <1>4 DEF DeskInv, SelmonSettled, InLayout, NoOrphan
<1>8. Lit(k, a)
  <2> SUFFICES ASSUME k # "desktop" PROVE Lit(k, a)
    BY DEF Lit
  <2>1. Lit(k, s)
    BY DEF DeskInv
  <2>2. \A d \in ToSet(s.clients) : Housed(s, d) => Housed(a, d)
    <3>1. \A d \in ToSet(s.clients) : s.win[d].mon \in Monitors \cup {NoMon}
      BY <1>1, StateFields DEF WindowType
    <3> QED BY <1>3, <1>4, <3>1 DEF Housed
  <2>3. ASSUME k = "layouts" PROVE DragInView(a)
    <3> SUFFICES ASSUME s.grab.mode = "CurTileDrag"
                 PROVE  VisibleOn(a, s.grab.client, s.win[s.grab.client].mon)
      BY <1>4 DEF DragInView
    <3> DEFINE d == s.grab.client
               n == s.win[d].mon
    <3>1. VisibleOn(s, d, n) /\ d \in Clients
      BY <1>1, <2>1, <2>3 DEF Lit, DragInView, Base, WindowsListed
    <3>2. n \in Monitors
      BY <1>1, <3>1, StateFields DEF VisibleOn, Shows, WindowType
    <3>3. CurTags(a, m) = CurTags(s, m)
      BY <1>5, <2>3
    <3>4. CurTags(a, n) = CurTags(s, n) /\ a.out[n].scratchpad_visible = s.out[n].scratchpad_visible
      BY <1>2, <1>4, <3>2, <3>3 DEF CurTags
    <3> HIDE DEF d
    <3> QED BY <1>4, <3>1, <3>4 DEF VisibleOn, Shows, d
  <2> QED BY <1>3, <1>4, <2>1, <2>2, <2>3 DEF Lit
<1> QED BY <1>2, <1>4, <1>5, <1>6, <1>7, <1>8

(* The tag set of one output changes.                                       *)
LEMMA RetagOutputGoes ==
  ASSUME NEW k, k # "layouts", NEW s, DeskInv(k, s), NEW m \in Monitors,
         s.out[m].power # "gone", k = "desktop" => m = s.selmon,
         NEW j \in 1 .. 2, NEW tags \in SUBSET Tags
  PROVE  Goes(k, s, Refresh(SetTagset(s, m, j, tags), m))
<1> DEFINE x == [s.out[m] EXCEPT !.seltags = j, !.tagset = [@ EXCEPT ![j] = tags]]
           a == OutAs(s, m, x)
           t == Refresh(a, m)
<1>1. /\ s \in StateType /\ Sound(s) /\ s.out[m] \in MonitorType /\ s.selmon \in Monitors \cup {NoMon}
  BY BaseMapped, StateFields DEF DeskInv
<1>2. SetTagset(s, m, j, tags) = a
  BY <1>1 DEF SetTagset, OutAs, WithOutputs, StateType, MonitorType
<1>3. /\ x \in MonitorType /\ x.power = s.out[m].power
      /\ x.scratchpad_visible = s.out[m].scratchpad_visible
  <2> DEFINE f == [s.out[m].tagset EXCEPT ![j] = tags]
  <2>1. f \in [1 .. 2 -> SUBSET Tags]
    BY <1>1 DEF MonitorType
  <2>2. x = [s.out[m] EXCEPT !.seltags = j, !.tagset = f]
    OBVIOUS
  <2> HIDE DEF f, x
  <2> QED BY <1>1, <2>1, <2>2 DEF MonitorType
<1> HIDE DEF x
<1>4. /\ Base(a) /\ OutputsListed(a) /\ SelmonSettled(a) /\ SameOutputs(s, a) /\ Lit(k, a)
      /\ a.out[m] = x /\ a.selmon = s.selmon
      /\ \A n \in Monitors : n # m => SameView(s, a, n)
  BY <1>3, OutAsDoes
<1>5. Sound(a)
  BY <1>4, BaseMapped
<1> HIDE DEF a
<1>6. /\ Viewed(a, t) /\ t.selmon \in {a.selmon, m}
      /\ Scene(t, m)
      /\ \A n \in Monitors : n # m => SameView(a, t, n)
      /\ TopFocused(t)
      /\ a.selmon = m => FocusTop(t)
  BY <1>5, RefreshDoes
<1> HIDE DEF t
<1>7. \A n \in Monitors : Fine(k, t, n)
  <2>1. Sound(t)
    BY <1>6 DEF Viewed
  <2>2. ASSUME NEW n \in Monitors, n # m PROVE Fine(k, t, n)
    <3>1. SameView(s, t, n) /\ Fine(k, s, n)
      BY <1>4, <1>6, <2>2, SameViewTrans DEF DeskInv
    <3> QED BY <1>1, <2>1, <3>1, FineView
  <2> QED BY <1>6, <2>1, <2>2, SceneFine
<1>8. Focused(k, t)
  <2>1. k = "desktop" \/ OneOutput => a.selmon = m
    BY <1>1, <1>4 DEF DeskInv, Lit, OneOutput
  <2> QED BY <1>6, <2>1 DEF Focused
<1>9. t.selmon = a.selmon \/ (InLayout(a, t.selmon) /\ NoOrphan(a))
  <2>1. CASE t.selmon # a.selmon
    <3>1. t.selmon = m /\ k # "desktop"
      BY <1>4, <1>6, <2>1
    <3>2. s.out[m].power = "on" /\ a.selmon # NoMon
      BY <1>4, <3>1 DEF DeskInv, Lit
    <3> QED BY <1>3, <1>4, <3>1, <3>2, ConstantsAssumption DEF SelmonSettled, InLayout
  <2> QED BY <2>1
<1>10. DeskInv(k, t) /\ SameOutputs(a, t)
  BY <1>4, <1>6, <1>7, <1>8, <1>9, ViewedGoes
<1>11. SameOutputs(s, t)
  BY <1>4, <1>10 DEF SameOutputs
<1>12. Goes(k, s, t)
  BY <1>10, <1>11, SameOutputsGo
<1> QED BY <1>2, <1>12 DEF t

(* Tags have no say in the layer.                                           *)
SameButTags(w, v) ==
  /\ v.status = w.status /\ v.mon = w.mon /\ v.isfloating = w.isfloating
  /\ v.isfullscreen = w.isfullscreen /\ v.isscratchpad = w.isscratchpad
  /\ v.layer = w.layer

LEMMA RetaggedFits ==
  ASSUME NEW c, NEW w, NEW v, SameButTags(w, v), Fits(c, w)
  PROVE  Fits(c, v)
BY DEF SameButTags, Fits

(* A window changed on its output, whose display and focus follow.          *)
LEMMA RefreshGoes ==
  ASSUME NEW k, k # "layouts", NEW s, DeskInv(k, s), NEW c \in ToSet(s.clients),
         NEW m \in Monitors, s.win[c].mon = m, k = "desktop" => m = s.selmon,
         NEW a, Changed(s, a, c), a.win[c].mon = m, Fits(c, a.win[c]),
         \A n \in Monitors : n # m => SameView(s, a, n)
  PROVE  Goes(k, s, Refresh(a, m))
<1> DEFINE t == Refresh(a, m)
<1>1. /\ Base(s) /\ OutputsListed(s) /\ SelmonSettled(s) /\ Lit(k, s) /\ Sound(s)
      /\ c \in Clients /\ NoMon \notin Monitors
  BY BaseMapped, SoundFacts, ConstantsAssumption DEF DeskInv
<1>2. Base(a) /\ OutputsListed(a) /\ SelmonSettled(a) /\ Lit(k, a) /\ SameOutputs(s, a)
  BY <1>1, ChangedWell
<1>3. Sound(a) /\ a.selmon = s.selmon
  BY DEF Changed
<1>4. /\ Viewed(a, t) /\ t.selmon \in {a.selmon, m}
      /\ Scene(t, m)
      /\ \A n \in Monitors : n # m => SameView(a, t, n)
      /\ TopFocused(t)
      /\ a.selmon = m => FocusTop(t)
  BY <1>3, RefreshDoes
<1> HIDE DEF t
<1>5. \A n \in Monitors : Fine(k, t, n)
  <2>1. Sound(t)
    BY <1>4 DEF Viewed
  <2>2. ASSUME NEW n \in Monitors, n # m PROVE Fine(k, t, n)
    <3>1. SameView(s, t, n) /\ Fine(k, s, n)
      BY <1>4, <2>2, SameViewTrans DEF DeskInv
    <3> QED BY <1>1, <2>1, <3>1, FineView
  <2> QED BY <1>4, <2>1, <2>2, SceneFine
<1>6. Focused(k, t)
  <2>1. k # "desktop" => s.selmon # NoMon
    BY <1>1 DEF Lit, Housed
  <2>2. s.selmon \in Monitors \cup {NoMon}
    BY <1>1, StateFields DEF Sound
  <2>3. k = "desktop" \/ OneOutput => a.selmon = m
    BY <1>3, <2>1, <2>2 DEF OneOutput
  <2> QED BY <1>4, <2>3 DEF Focused
<1>7. t.selmon = a.selmon \/ (InLayout(a, t.selmon) /\ NoOrphan(a))
  <2>1. CASE t.selmon # a.selmon
    <3>1. t.selmon = m /\ k # "desktop"
      BY <1>3, <1>4, <2>1
    <3>2. s.out[m].power = "on" /\ a.selmon # NoMon
      BY <1>1, <1>3, <3>1 DEF Lit, Housed
    <3>3. a.out[m].power = "on"
      BY <1>2, <3>2 DEF SameOutputs
    <3> QED BY <1>1, <1>2, <3>1, <3>2, <3>3 DEF SelmonSettled, InLayout
  <2> QED BY <2>1
<1>8. DeskInv(k, t) /\ SameOutputs(a, t)
  BY <1>2, <1>4, <1>5, <1>6, <1>7, ViewedGoes
<1>9. SameOutputs(s, t)
  BY <1>2, <1>8 DEF SameOutputs
<1> QED BY <1>8, <1>9, SameOutputsGo DEF t

(* tag(), toggletag(): the window leaves its trees, then its tags change.   *)
LEMMA RetagGoes ==
  ASSUME NEW k, k # "layouts", NEW s, DeskInv(k, s), NEW c \in ToSet(s.clients),
         s.win[c].mon = s.selmon, s.selmon \in Monitors, NEW new \in SUBSET Tags
  PROVE  Goes(k, s, Refresh([RemoveFromTrees(s, c) EXCEPT !.win[c].tags = new], s.selmon))
<1> DEFINE m == s.selmon
           x == [s.out[m] EXCEPT !.dwindle_tree = [u \in Tags |-> @[u] \ {c}]]
           o == [s.out EXCEPT ![m] = x]
           b == WithOutputs(s, o, s.mons)
           v == [s.win[c] EXCEPT !.tags = new]
           a == Put(b, c, v)
<1>1. /\ s \in StateType /\ Base(s) /\ Sound(s) /\ m \in Monitors /\ NoMon \notin Monitors
      /\ s.out \in [Monitors -> MonitorType] /\ s.mons \in Seq(Monitors)
      /\ s.win \in [Clients -> WindowType] /\ c \in Clients
  BY BaseMapped, StateFields, SoundFacts, ConstantsAssumption DEF DeskInv
<1>2. [RemoveFromTrees(s, c) EXCEPT !.win[c].tags = new] = a
  <2>1. RemoveFromTrees(s, c) = b
    BY <1>1 DEF RemoveFromTrees, StateType, WithOutputs
  <2>2. b.win = s.win
    BY <1>1 DEF StateType, WithOutputs
  <2> HIDE DEF b
  <2> QED BY <2>1, <2>2 DEF Put
<1>3. /\ x \in MonitorType /\ SameButTree(s.out[m], x)
  <2> DEFINE f == [u \in Tags |-> s.out[m].dwindle_tree[u] \ {c}]
  <2>1. f \in [Tags -> SUBSET Clients] /\ s.out[m] \in MonitorType
    BY <1>1 DEF MonitorType
  <2>2. x = [s.out[m] EXCEPT !.dwindle_tree = f]
    OBVIOUS
  <2> HIDE DEF f, x
  <2> QED BY <2>1, <2>2 DEF MonitorType, SameButTree
<1> HIDE DEF x
<1>4. /\ o \in [Monitors -> MonitorType] /\ o[m] = x
      /\ \A n \in Monitors : n # m => o[n] = s.out[n]
  BY <1>1, <1>3
<1> HIDE DEF o
<1>5. \A n \in Monitors : SameButTree(s.out[n], o[n])
  BY <1>3, <1>4 DEF SameButTree
<1>6. \A n \in Monitors : ~ o[n].scratchpad_visible
  BY <1>1, <1>5 DEF Base, NoScratch, SameButTree
<1>7. /\ Base(b) /\ b.mons = s.mons /\ b.out = o
      /\ b.clients = s.clients /\ b.win = s.win /\ b.selmon = s.selmon
      /\ b.fstack = s.fstack /\ b.focus = s.focus /\ b.grab = s.grab
      /\ \A n \in Monitors : o[n] = s.out[n] => SameView(s, b, n)
  BY <1>1, <1>4, <1>6, OutputsDo
<1> HIDE DEF b
<1>8. /\ v \in WindowType /\ v.status = s.win[c].status
      /\ v.isscratchpad = s.win[c].isscratchpad /\ v.enabled = s.win[c].enabled
      /\ v.mon = s.win[c].mon /\ SameButTags(s.win[c], v)
  BY <1>1 DEF WindowType, SameButTags
<1> HIDE DEF v
<1>9. Sound(b)
  BY <1>7, BaseMapped
<1>10. /\ Sound(a)
       /\ a.mons = b.mons /\ a.out = b.out /\ a.selmon = b.selmon /\ a.clients = b.clients
       /\ a.fstack = b.fstack /\ a.focus = b.focus /\ a.grab = b.grab
       /\ a.win[c] = v
       /\ \A d \in Clients : d # c => a.win[d] = b.win[d]
       /\ \A n \in Monitors : c \notin ToSet(b.clients) \/ (n # b.win[c].mon /\ n # v.mon)
                              => SameView(b, a, n)
  BY <1>1, <1>8, <1>9, PutDoes
<1> HIDE DEF a
<1>11. Changed(s, a, c) /\ a.win[c].mon = m
  BY <1>1, <1>5, <1>7, <1>8, <1>10 DEF Changed, SameButShown
<1>12. ASSUME NEW n \in Monitors, n # m PROVE SameView(s, a, n)
  BY <1>4, <1>7, <1>8, <1>10, <1>12, SameViewTrans
<1>14. Fits(c, a.win[c])
  BY <1>1, <1>8, <1>10, RetaggedFits DEF Base, LayersFit
<1> HIDE DEF m
<1>13. Goes(k, s, Refresh(a, m))
  BY <1>1, <1>11, <1>12, <1>14, RefreshGoes DEF m
<1> QED BY <1>2, <1>13 DEF m

(* set_client_tags: the topmost window of an output gets other tags.        *)
LEMMA TopTagsGo ==
  ASSUME NEW k, k # "layouts", NEW s, DeskInv(k, s), NEW m \in Monitors,
         k = "desktop" => m = s.selmon,
         NEW c \in ToSet(s.clients), s.win[c].mon = m, NEW new \in SUBSET Tags
  PROVE  Goes(k, s, Refresh([s EXCEPT !.win[c].tags = new], m))
<1> DEFINE v == [s.win[c] EXCEPT !.tags = new]
           a == Put(s, c, v)
<1>1. /\ s \in StateType /\ Sound(s) /\ s.win \in [Clients -> WindowType] /\ c \in Clients
  BY BaseMapped, StateFields, SoundFacts DEF DeskInv
<1>2. [s EXCEPT !.win[c].tags = new] = a
  BY DEF Put
<1>3. /\ v \in WindowType /\ v.status = s.win[c].status
      /\ v.isscratchpad = s.win[c].isscratchpad /\ v.enabled = s.win[c].enabled
      /\ v.mon = m /\ SameButTags(s.win[c], v)
  BY <1>1 DEF WindowType, SameButTags
<1> HIDE DEF v
<1>4. /\ a.win[c] = v
      /\ \A n \in Monitors : c \notin ToSet(s.clients) \/ (n # s.win[c].mon /\ n # v.mon)
                             => SameView(s, a, n)
  BY <1>1, <1>3, PutDoes
<1>5. Changed(s, a, c)
  BY <1>1, <1>3, PutChanges
<1> HIDE DEF a
<1>7. Fits(c, a.win[c])
  BY <1>1, <1>3, <1>4, BaseMapped, RetaggedFits DEF DeskInv, Base, LayersFit
<1>6. Goes(k, s, Refresh(a, m))
  BY <1>7, <1>3, <1>4, <1>5, RefreshGoes
<1> QED BY <1>2, <1>6

(* The initial commit of a window that is not mapped: rules give it an      *)
(* output and take it away again; nothing but the window and the focus      *)
(* changes.                                                                 *)
LEMMA InitialCommitGoes ==
  ASSUME NEW k, k # "layouts", NEW s, DeskInv(k, s), NEW c \in Clients,
         s.win[c].status = "unmapped", NEW r \in Rules
  PROVE  Goes(k, s, SetMon(ApplyRules(s, c, r), c, NoMon, {}))
<1> DEFINE m == IF r.match /\ r.mon \in DOMAIN s.mons THEN s.mons[r.mon] ELSE s.selmon
           T == IF r.match THEN r.tags ELSE {}
           v == [s.win[c] EXCEPT !.isfloating = r.floating \/ (~r.match /\ s.win[c].isfloating),
                                 !.isfullscreen = IF r.match THEN r.fullscreen
                                                  ELSE s.win[c].isfullscreen]
           a == Put(s, c, v)
           b == SetMon(a, c, m, T)
           t == SetMon(b, c, NoMon, {})
<1>1. /\ s \in StateType /\ Base(s) /\ Sound(s) /\ s.win \in [Clients -> WindowType]
      /\ s.mons \in Seq(Monitors) /\ s.selmon \in Monitors \cup {NoMon}
      /\ NoMon \notin Monitors /\ r \in Rule
      /\ c \notin ToSet(s.clients) /\ s.win[c].mon = NoMon
  BY BaseMapped, StateFields, ConstantsAssumption DEF DeskInv, Base, WindowsListed
<1>2. m \in Monitors \cup {NoMon} /\ T \in SUBSET Tags
  BY <1>1 DEF Rule
<1>3. /\ v \in WindowType /\ v.status = s.win[c].status
      /\ v.isscratchpad = s.win[c].isscratchpad /\ v.enabled = s.win[c].enabled
      /\ v.mon = NoMon
  <2> DEFINE f == r.floating \/ (~r.match /\ s.win[c].isfloating)
             g == IF r.match THEN r.fullscreen ELSE s.win[c].isfullscreen
  <2>1. s.win[c] \in WindowType
    BY <1>1
  <2>2. f \in BOOLEAN /\ g \in BOOLEAN
    BY <1>1, <2>1 DEF WindowType, Rule
  <2>3. v = [s.win[c] EXCEPT !.isfloating = f, !.isfullscreen = g]
    OBVIOUS
  <2> HIDE DEF f, g, v
  <2> QED BY <1>1, <2>1, <2>2, <2>3 DEF WindowType
<1>4. ApplyRules(s, c, r) = b
  BY DEF ApplyRules, Ruled, Put
<1> HIDE DEF m, T, v
<1>5. /\ Sound(a) /\ a.clients = s.clients /\ a.win[c] = v /\ a.focus = s.focus
      /\ \A n \in Monitors : SameView(s, a, n)
      /\ \A d \in Clients : d # c => a.win[d] = s.win[d]
      /\ a.selmon = s.selmon
  BY <1>1, <1>3, PutDoes
<1>6. Changed(s, a, c)
  BY <1>1, <1>3, PutChanges
<1> HIDE DEF a
<1>7. CASE m = NoMon
  <2>1. b = a
    BY <1>3, <1>5, <1>7 DEF SetMon
  <2>2. t = a
    BY <1>3, <1>5, <2>1 DEF SetMon
  <2>3. \A n \in Monitors : Fine(k, a, n)
    BY <1>1, <1>5, FineView DEF DeskInv
  <2>4. Focused(k, a)
    <3>1. \A d \in Clients : a.win[d].mon = s.win[d].mon
      BY <1>1, <1>3, <1>5
    <3> QED BY <1>1, <1>5, <3>1, FocusedKept DEF DeskInv, SameView
  <2>5. Base(a) /\ OutputsListed(a) /\ SelmonSettled(a) /\ Lit(k, a) /\ SameOutputs(s, a)
    BY <1>1, <1>3, <1>5, <1>6, ChangedWell DEF DeskInv, Fits
  <2>6. DeskInv(k, a)
    BY <2>3, <2>4, <2>5 DEF DeskInv
  <2> QED BY <1>4, <2>2, <2>5, <2>6, SameOutputsGo
<1>8. CASE m # NoMon
  <2>1. /\ Changed(a, b, c)
        /\ b.win[c].mon = m
        /\ \A n \in Monitors :
             /\ n # m => SameView(a, b, n)
             /\ n = m => Scene(b, n) \/ SameView(a, b, n)
    BY <1>1, <1>2, <1>3, <1>5, <1>8, SetMonDoes
  <2> HIDE DEF b
  <2>2. Sound(b) /\ b.clients = s.clients
    BY <1>5, <2>1 DEF Changed
  <2>3. {} \in SUBSET Tags /\ NoMon \in Monitors \cup {NoMon}
    OBVIOUS
  <2>4. /\ Changed(b, t, c)
        /\ t.win[c].mon = NoMon
        /\ t.focus = Focustop(t, t.selmon)
        /\ \A n \in Monitors :
             /\ n # NoMon /\ n # m => SameView(b, t, n)
             /\ n = m => Scene(t, n)
    BY <1>1, <1>8, <2>1, <2>2, <2>3, SetMonDoes
  <2> HIDE DEF t
  <2>5. Changed(s, t, c)
    BY <1>6, <2>1, <2>4, ChangedTrans
  <2>6. Sound(t)
    BY <2>4 DEF Changed
  <2>7. Focused(k, t)
    BY <2>4, <2>6, FocusedTop DEF FocusTop
  <2>8. ASSUME NEW n \in Monitors PROVE Fine(k, t, n)
    <3>1. CASE n = m
      BY <2>4, <2>6, <3>1, SceneFine
    <3>2. CASE n # m
      <4>1. SameView(a, b, n) /\ SameView(b, t, n) /\ SameView(s, a, n)
        BY <1>1, <1>5, <2>1, <2>4, <3>2
      <4>2. SameView(s, t, n)
        BY <4>1, SameViewTrans
      <4> QED BY <1>1, <2>6, <4>2, FineView DEF DeskInv
    <3> QED BY <3>1, <3>2
  <2>9. t.win[c].enabled = s.win[c].enabled
    BY <1>1, <2>5 DEF Changed
  <2>10. Base(t) /\ OutputsListed(t) /\ SelmonSettled(t) /\ Lit(k, t) /\ SameOutputs(s, t)
    BY <1>1, <2>4, <2>5, <2>9, ChangedWell DEF DeskInv, Fits
  <2>11. DeskInv(k, t)
    BY <2>7, <2>8, <2>10 DEF DeskInv
  <2> QED BY <1>4, <2>10, <2>11, SameOutputsGo DEF t
<1> QED BY <1>7, <1>8

-----------------------------------------------------------------------------
(* Layouts                                                                 *)

(* An output rearranged.                                                    *)
LEMMA ArrangeGoes ==
  ASSUME NEW k, NEW s, DeskInv(k, s), NEW m \in Monitors
  PROVE  DeskInv(k, Arrange(s, m)) /\ SameOutputs(s, Arrange(s, m))
<1> DEFINE t == Arrange(s, m)
<1>1. Base(s) /\ Sound(s) /\ OutputsListed(s) /\ SelmonSettled(s) /\ Lit(k, s)
  BY BaseMapped DEF DeskInv
<1>2. /\ Viewed(s, t) /\ t.selmon = s.selmon /\ t.focus = s.focus
      /\ Scene(t, m)
      /\ \A n \in Monitors : Focustop(t, n) = Focustop(s, n)
      /\ \A n \in Monitors : n # m => SameView(s, t, n)
  BY <1>1, ArrangeViewed
<1> HIDE DEF t
<1>3. Sound(t) /\ \A d \in Clients : t.win[d].mon = s.win[d].mon
  BY <1>2 DEF Viewed, SamePlace
<1>4. Focused(k, t)
  BY <1>1, <1>2, <1>3, FocusedKept DEF DeskInv
<1>5. \A n \in Monitors : Fine(k, t, n)
  <2>1. ASSUME NEW n \in Monitors, n # m PROVE Fine(k, t, n)
    BY <1>1, <1>2, <1>3, <2>1, FineView DEF DeskInv
  <2> QED BY <1>2, <1>3, <2>1, SceneFine
<1>6. DeskInv(k, t) /\ SameOutputs(s, t)
  BY <1>1, <1>2, <1>4, <1>5, ViewedGoes
<1> QED BY <1>6 DEF t

LEMMA UntileViewed ==
  ASSUME NEW s, Sound(s), NEW m \in Monitors
  PROVE  LET t == Untile(s, m) IN
         /\ Viewed(s, t) /\ t.selmon = s.selmon /\ t.focus = s.focus
         /\ \A n \in Monitors : Focustop(t, n) = Focustop(s, n)
         /\ \A n \in Monitors : n # m => SameView(s, t, n)
<1> DEFINE t == Untile(s, m)
           w == [c \in Clients |-> IF c \in Tileable(s, m)
                                   THEN [s.win[c] EXCEPT !.isfloating = TRUE] ELSE s.win[c]]
<1>1. s \in StateType /\ s.win \in [Clients -> WindowType]
  BY StateFields DEF Sound
<1>2. CASE CurLayout(s, m) # "floating"
  <2>1. t = s
    BY <1>2 DEF Untile
  <2> QED BY <2>1 DEF Viewed, SameButTree, SamePlace, SameView
<1>3. CASE CurLayout(s, m) = "floating"
  <2>1. t = [s EXCEPT !.win = w]
    BY <1>3 DEF Untile
  <2>2. \A c \in Clients : /\ w[c] \in WindowType /\ SamePlace(s.win[c], w[c])
                           /\ Fits(c, s.win[c]) => Fits(c, w[c])
                           /\ w[c].enabled = s.win[c].enabled
                           /\ c \notin Tileable(s, m) => w[c] = s.win[c]
    <3> SUFFICES ASSUME NEW c \in Clients
                 PROVE  /\ w[c] \in WindowType /\ SamePlace(s.win[c], w[c])
                        /\ Fits(c, s.win[c]) => Fits(c, w[c])
                        /\ w[c].enabled = s.win[c].enabled
                        /\ c \notin Tileable(s, m) => w[c] = s.win[c]
      OBVIOUS
    <3> DEFINE x == s.win[c]
               y == [x EXCEPT !.isfloating = TRUE]
    <3>1. x \in WindowType
      BY <1>1
    <3>2. y \in WindowType /\ SamePlace(x, y) /\ y.enabled = x.enabled
      BY <3>1 DEF WindowType, SamePlace
    <3>5. Fits(c, x) => Fits(c, y)
      BY <3>1 DEF WindowType, Fits
    <3>3. w[c] = IF c \in Tileable(s, m) THEN y ELSE x
      OBVIOUS
    <3>4. SamePlace(x, x)
      BY DEF SamePlace
    <3> HIDE DEF w, x, y
    <3> QED BY <3>1, <3>2, <3>3, <3>4, <3>5 DEF x
  <2>3. w \in [Clients -> WindowType]
    BY <2>2
  <2> HIDE DEF w, t
  <2>4. /\ t \in StateType
        /\ t.mons = s.mons /\ t.out = s.out /\ t.selmon = s.selmon /\ t.clients = s.clients
        /\ t.fstack = s.fstack /\ t.focus = s.focus /\ t.grab = s.grab /\ t.win = w
    BY <1>1, <2>1, <2>3 DEF StateType
  <2>5. Viewed(s, t)
    BY <2>2, <2>4 DEF LayersFit, Viewed, Sound, SameButTree
  <2>6. ASSUME NEW n \in Monitors, n # m PROVE SameView(s, t, n)
    <3>1. \A c \in ToSet(s.clients) : s.win[c].mon = n \/ t.win[c].mon = n => t.win[c] = s.win[c]
      BY <2>2, <2>4, <2>6, SoundFacts DEF SamePlace, Tileable, Shows
    <3> QED BY <2>4, <3>1, SameViewIf
  <2>7. ASSUME NEW n \in Monitors PROVE Focustop(t, n) = Focustop(s, n)
    <3>1. \A d \in Clients : VisibleOn(t, d, n) <=> VisibleOn(s, d, n)
      <4>1. SameButTree(s.out[n], t.out[n])
        BY <2>4 DEF SameButTree
      <4> QED BY <2>2, <2>4, <4>1, VisibleAlike DEF SamePlace
    <3>2. {d \in Clients : VisibleOn(t, d, n)} = {d \in Clients : VisibleOn(s, d, n)}
      BY <3>1
    <3> QED BY <2>4, <3>2 DEF Focustop
  <2> QED BY <2>4, <2>5, <2>6, <2>7 DEF t
<1> QED BY <1>2, <1>3

(* The layout of an output changes, with or without untiling its windows.   *)
LEMMA LayoutGoes ==
  ASSUME NEW k, NEW s, DeskInv(k, s), NEW m \in Monitors,
         NEW x \in MonitorType, x.power = s.out[m].power,
         x.scratchpad_visible = s.out[m].scratchpad_visible,
         x.tagset = s.out[m].tagset, x.seltags = s.out[m].seltags,
         NEW b, b \in {OutAs(s, m, x), Untile(OutAs(s, m, x), m)}
  PROVE  Goes(k, s, Arrange(b, m))
<1> DEFINE a == OutAs(s, m, x)
           t == Arrange(b, m)
<1>1. s \in StateType /\ Sound(s) /\ s.out \in [Monitors -> MonitorType]
  BY BaseMapped, StateFields DEF DeskInv
<1>2. a.out = [s.out EXCEPT ![m] = x]
  BY <1>1 DEF OutAs, WithOutputs, StateType
<1>3. CurTags(a, m) = CurTags(s, m)
  BY <1>1, <1>2 DEF CurTags
<1>4. /\ Base(a) /\ OutputsListed(a) /\ SelmonSettled(a) /\ SameOutputs(s, a) /\ Lit(k, a)
      /\ a.selmon = s.selmon /\ a.win = s.win /\ a.focus = s.focus /\ a.fstack = s.fstack
      /\ \A n \in Monitors : n # m => SameView(s, a, n)
  BY <1>3, OutAsDoes
<1>5. \A n \in Monitors : Focustop(a, n) = Focustop(s, n)
  <2>1. Focustop(a, m) = Focustop(s, m)
    <3>1. \A d \in Clients : VisibleOn(a, d, m) <=> VisibleOn(s, d, m)
      BY <1>1, <1>2, <1>3, <1>4 DEF VisibleOn, Shows
    <3>2. {d \in Clients : VisibleOn(a, d, m)} = {d \in Clients : VisibleOn(s, d, m)}
      BY <3>1
    <3> QED BY <1>4, <3>2 DEF Focustop
  <2> QED BY <1>4, <2>1 DEF SameView
<1>6. Sound(a)
  BY <1>4, BaseMapped
<1> HIDE DEF a
<1>7. /\ Viewed(a, b) /\ b.selmon = a.selmon /\ b.focus = a.focus
      /\ \A n \in Monitors : Focustop(b, n) = Focustop(a, n)
      /\ \A n \in Monitors : n # m => SameView(a, b, n)
  <2>1. CASE b = a
    BY <1>6, <2>1 DEF Viewed, SameButTree, SamePlace, SameView
  <2>2. CASE b = Untile(a, m)
    BY <1>6, <2>2, UntileViewed
  <2> QED BY <2>1, <2>2 DEF a
<1>8. Sound(b)
  BY <1>7 DEF Viewed
<1>9. /\ Viewed(b, t) /\ t.selmon = b.selmon /\ t.focus = b.focus
      /\ Scene(t, m)
      /\ \A n \in Monitors : Focustop(t, n) = Focustop(b, n)
      /\ \A n \in Monitors : n # m => SameView(b, t, n)
  BY <1>8, ArrangeViewed
<1> HIDE DEF t
<1>10. Viewed(a, t)
  BY <1>7, <1>9, ViewedTrans
<1>11. Sound(t) /\ \A d \in Clients : t.win[d].mon = s.win[d].mon
  BY <1>4, <1>10 DEF Viewed, SamePlace
<1>12. Focused(k, t)
  <2>1. /\ t.focus = s.focus /\ t.selmon = s.selmon
        /\ \A n \in Monitors : Focustop(t, n) = Focustop(s, n)
    BY <1>4, <1>5, <1>7, <1>9
  <2> QED BY <1>1, <1>11, <2>1, FocusedKept DEF DeskInv
<1>13. \A n \in Monitors : Fine(k, t, n)
  <2>1. ASSUME NEW n \in Monitors, n # m PROVE Fine(k, t, n)
    <3>1. SameView(s, t, n)
      BY <1>4, <1>7, <1>9, <2>1, SameViewTrans
    <3> QED BY <1>1, <1>11, <3>1, FineView DEF DeskInv
  <2> QED BY <1>9, <1>11, <2>1, SceneFine
<1>14. t.selmon = a.selmon
  BY <1>7, <1>9
<1>15. DeskInv(k, t) /\ SameOutputs(a, t)
  BY <1>4, <1>10, <1>12, <1>13, <1>14, ViewedGoes
<1>16. SameOutputs(s, t)
  BY <1>4, <1>15 DEF SameOutputs
<1> QED BY <1>15, <1>16, SameOutputsGo DEF t

(* The fields of an output with layout l in slot j of tag u, and that slot  *)
(* selected.                                                                *)
Laid(o, u, j, l) ==
  [o EXCEPT !.sellt = [o.sellt EXCEPT ![u] = j],
            !.lt = [o.lt EXCEPT ![u] = [o.lt[u] EXCEPT ![j] = l]]]

LEMMA LaidType ==
  ASSUME NEW o \in MonitorType, NEW u \in Tags, NEW j \in 1 .. 2, NEW l \in Layouts
  PROVE  LET x == Laid(o, u, j, l) IN
         /\ x \in MonitorType /\ x.power = o.power
         /\ x.scratchpad_visible = o.scratchpad_visible
         /\ x.tagset = o.tagset /\ x.seltags = o.seltags
<1> DEFINE f == [o.sellt EXCEPT ![u] = j]
           e == [o.lt[u] EXCEPT ![j] = l]
           g == [o.lt EXCEPT ![u] = e]
<1>1. f \in [Tags -> 1 .. 2]
  BY DEF MonitorType
<1>2. e \in [1 .. 2 -> Layouts]
  BY DEF MonitorType
<1> HIDE DEF e
<1>3. g \in [Tags -> [1 .. 2 -> Layouts]]
  BY <1>2 DEF MonitorType
<1>4. Laid(o, u, j, l) = [o EXCEPT !.sellt = f, !.lt = g]
  BY DEF Laid, e
<1> HIDE DEF f, g
<1> QED BY <1>1, <1>3, <1>4 DEF MonitorType

LEMMA WithLayoutIs ==
  ASSUME NEW s \in StateType, NEW m \in Monitors, NEW l \in Layouts
  PROVE  \E j \in 1 .. 2 :
           WithLayout(s, m, l) = OutAs(s, m, Laid(s.out[m], CurrentTag(s, m), j, l))
<1> DEFINE u == CurrentTag(s, m)
           j == IF CurLayout(s, m) = l THEN s.out[m].sellt[u] ELSE 3 - s.out[m].sellt[u]
<1>1. u \in Tags /\ s.out \in [Monitors -> MonitorType] /\ s.out[m] \in MonitorType
  BY CurrentTagType, StateFields
<1>2. j \in 1 .. 2
  <2>1. s.out[m].sellt[u] \in 1 .. 2
    BY <1>1 DEF MonitorType
  <2> QED BY <2>1
<1>3. WithLayout(s, m, l) = SelectLayout(s, m, u, j, l)
  BY DEF WithLayout
<1> HIDE DEF u, j
<1>4. SelectLayout(s, m, u, j, l) = OutAs(s, m, Laid(s.out[m], u, j, l))
  BY <1>1, <1>2 DEF SelectLayout, OutAs, Laid, WithOutputs, StateType, MonitorType
<1> QED BY <1>2, <1>3, <1>4 DEF u

(* setlayout() with a layout, and the request for one.                      *)
LEMMA WithLayoutGoes ==
  ASSUME NEW k, NEW s, DeskInv(k, s), NEW m \in Monitors, NEW l \in LayoutArgs
  PROVE  /\ Goes(k, s, Arrange(WithLayout(s, m, l), m))
         /\ Goes(k, s, Arrange(Untile(WithLayout(s, m, l), m), m))
<1>1. s \in StateType /\ s.out[m] \in MonitorType /\ l \in Layouts /\ CurrentTag(s, m) \in Tags
  BY BaseMapped, StateFields, ConstantsAssumption, CurrentTagType DEF DeskInv
<1>2. PICK j \in 1 .. 2 :
        WithLayout(s, m, l) = OutAs(s, m, Laid(s.out[m], CurrentTag(s, m), j, l))
  BY <1>1, WithLayoutIs
<1> DEFINE x == Laid(s.out[m], CurrentTag(s, m), j, l)
<1>3. /\ x \in MonitorType /\ x.power = s.out[m].power
      /\ x.scratchpad_visible = s.out[m].scratchpad_visible
      /\ x.tagset = s.out[m].tagset /\ x.seltags = s.out[m].seltags
  BY <1>1, LaidType
<1> HIDE DEF x
<1>4. \A b \in {OutAs(s, m, x), Untile(OutAs(s, m, x), m)} : Goes(k, s, Arrange(b, m))
  BY <1>3, LayoutGoes
<1> QED BY <1>2, <1>4 DEF x

(* setlayout() without one: the other slot as it is.                        *)
LEMMA ToggleLayoutGoes ==
  ASSUME NEW k, NEW s, DeskInv(k, s), NEW m \in Monitors
  PROVE  Goes(k, s, Arrange(Untile([s EXCEPT !.out[m].sellt[CurrentTag(s, m)] = 3 - @], m), m))
<1> DEFINE u == CurrentTag(s, m)
           j == 3 - s.out[m].sellt[u]
           f == [s.out[m].sellt EXCEPT ![u] = j]
           x == [s.out[m] EXCEPT !.sellt = f]
<1>1. /\ s \in StateType /\ s.out \in [Monitors -> MonitorType] /\ s.out[m] \in MonitorType
      /\ u \in Tags
  BY BaseMapped, StateFields, CurrentTagType DEF DeskInv
<1> HIDE DEF u
<1>2. f \in [Tags -> 1 .. 2]
  <2>1. j \in 1 .. 2
    <3>1. s.out[m].sellt[u] \in 1 .. 2
      BY <1>1 DEF MonitorType
    <3> QED BY <3>1
  <2> HIDE DEF j
  <2> QED BY <1>1, <2>1 DEF MonitorType
<1>3. [s EXCEPT !.out[m].sellt[u] = 3 - @] = OutAs(s, m, x)
  BY <1>1 DEF OutAs, WithOutputs, StateType, MonitorType
<1> HIDE DEF f
<1>4. /\ x \in MonitorType /\ x.power = s.out[m].power
      /\ x.scratchpad_visible = s.out[m].scratchpad_visible
      /\ x.tagset = s.out[m].tagset /\ x.seltags = s.out[m].seltags
  BY <1>1, <1>2 DEF MonitorType
<1> HIDE DEF x
<1>5. Goes(k, s, Arrange(Untile(OutAs(s, m, x), m), m))
  BY <1>4, LayoutGoes
<1> QED BY <1>3, <1>5 DEF u

-----------------------------------------------------------------------------
(* Focus by binding and pointer, and drags                                 *)

(* A window in view is focused: it is then on top of its output, and no     *)
(* window that a monocle layout shows is hidden for it yet.                 *)
LEMMA FocusGoes ==
  ASSUME NEW k, k # "desktop", NEW s, DeskInv(k, s), NEW c \in ToSet(s.clients),
         VisibleOn(s, c, s.win[c].mon),
         k = "front" /\ Enabled(s, s.win[c].mon) => s.win[c].enabled
  PROVE  DeskInv(k, FocusClient(s, c)) /\ SameOutputs(s, FocusClient(s, c))
<1> DEFINE t == FocusClient(s, c)
           m == s.win[c].mon
<1>1. /\ Base(s) /\ Sound(s) /\ s \in StateType /\ OutputsListed(s) /\ SelmonSettled(s) /\ Lit(k, s)
      /\ c \in Clients /\ c # NoClient /\ NoMon \notin Monitors
      /\ s.win \in [Clients -> WindowType] /\ s.selmon \in Monitors \cup {NoMon}
  BY BaseMapped, SoundFacts, StateFields, ConstantsAssumption DEF DeskInv
<1>2. m \in Monitors
  BY <1>1 DEF WindowType, VisibleOn, Shows
<1>3. /\ Refocused(s, t, c) /\ Sound(t)
      /\ \A n \in Monitors :
           Focustop(t, n) = IF c # s.focus /\ VisibleOn(s, c, n) THEN c ELSE Focustop(s, n)
  BY <1>1, FocusClientDoes
<1>4. /\ Viewed(s, t) /\ t.win = s.win /\ t.focus = c
      /\ \A n \in Monitors : Alike(s, t, n)
  BY <1>1, FocusViewed
<1>5. t.selmon = IF c = s.focus THEN s.selmon ELSE m
  BY <1>1, <1>3 DEF Refocused
<1> HIDE DEF t
<1>6. \A n \in Monitors : Fine(k, t, n)
  <2>1. ASSUME NEW n \in Monitors, k = "front" PROVE TopShown(t, n)
    <3>1. TopShown(s, n)
      BY <2>1 DEF DeskInv, Fine
    <3>2. Enabled(t, n) <=> Enabled(s, n)
      BY <1>1, <1>3, <1>4, AlikeQueries
    <3>3. VisibleOn(s, c, n) => n = m
      BY DEF VisibleOn, Shows
    <3> QED BY <1>3, <1>4, <2>1, <3>1, <3>2, <3>3 DEF TopShown
  <2>2. ASSUME NEW n \in Monitors PROVE LaxScene(t, n)
    BY <1>1, <1>3, <1>4, AlikeLax DEF DeskInv, Fine
  <2> QED BY <2>1, <2>2 DEF Fine
<1>7. Focused(k, t)
  <2>1. Focustop(t, m) = c
    <3>1. CASE c = s.focus
      BY <1>1, <1>2, <1>3, <3>1 DEF DeskInv, Focused, TopFocused
    <3>2. CASE c # s.focus
      BY <1>2, <1>3, <3>2
    <3> QED BY <3>1, <3>2
  <2>2. OneOutput => t.selmon = m
    BY <1>1, <1>2, <1>5 DEF OneOutput, Lit, Housed
  <2> QED BY <1>1, <1>4, <2>1, <2>2 DEF Focused, TopFocused, FocusTop
<1>8. \/ t.selmon = s.selmon /\ SelmonSettled(s)
      \/ InLayout(s, t.selmon) /\ NoOrphan(s)
  <2>1. CASE t.selmon # s.selmon
    <3>1. s.out[m].power = "on"
      BY <1>1, <1>2 DEF Lit, Housed
    <3>2. s.selmon # NoMon
      BY <1>1, <1>2, <3>1 DEF Lit
    <3> QED BY <1>1, <1>2, <1>5, <2>1, <3>1, <3>2 DEF SelmonSettled, InLayout
  <2> QED BY <1>1, <2>1
<1>9. DeskInv(k, t) /\ SameOutputs(s, t)
  BY <1>1, <1>4, <1>6, <1>7, <1>8, ViewedGoes
<1> QED BY <1>9 DEF t

(* What is shown is in view.                                                *)
LEMMA EnabledVisible ==
  ASSUME NEW k, k # "desktop", NEW s, DeskInv(k, s), NEW c \in Clients, s.win[c].enabled
  PROVE  /\ c \in ToSet(s.clients) /\ s.win[c].mon \in Monitors
         /\ VisibleOn(s, c, s.win[c].mon)
<1>1. /\ Base(s) /\ Lit(k, s) /\ s.win \in [Clients -> WindowType] /\ NoMon \notin Monitors
  BY BaseMapped, StateFields, ConstantsAssumption DEF DeskInv
<1>2. c \in ToSet(s.clients)
  BY <1>1 DEF Base, WindowsListed
<1>3. s.win[c].mon \in Monitors /\ s.out[s.win[c].mon].power = "on"
  BY <1>1, <1>2 DEF Lit, Housed, WindowType
<1>4. Enabled(s, s.win[c].mon)
  BY <1>1, <1>3 DEF Enabled
<1>5. LaxShown(s, s.win[c].mon)
  BY <1>3, <1>4 DEF DeskInv, Fine, LaxScene
<1> QED BY <1>2, <1>3, <1>5 DEF LaxShown

(* The output under the pointer is selected.                                *)
LEMMA SelectGoes ==
  ASSUME NEW k, k # "desktop", NEW s, DeskInv(k, s), NEW m \in Somewhere(s),
         (\E n \in Monitors : Enabled(s, n)) => m # NoMon
  PROVE  DeskInv(k, [s EXCEPT !.selmon = m]) /\ SameOutputs(s, [s EXCEPT !.selmon = m])
<1> DEFINE t == [s EXCEPT !.selmon = m]
<1>1. /\ Base(s) /\ Sound(s) /\ s \in StateType /\ OutputsListed(s) /\ SelmonSettled(s) /\ Lit(k, s)
      /\ m \in Monitors \cup {NoMon} /\ NoMon \notin Monitors
      /\ s.selmon \in Monitors \cup {NoMon}
  BY BaseMapped, StateFields, ConstantsAssumption DEF DeskInv, Somewhere
<1>2. /\ Kept(s, t) /\ t.selmon = m
      /\ t.out = s.out /\ t.win = s.win /\ t.fstack = s.fstack /\ t.focus = s.focus
      /\ \A n : Focustop(t, n) = Focustop(s, n)
      /\ \A n \in Monitors : SameView(s, t, n)
  BY <1>1, SelectDoes
<1> HIDE DEF t
<1>3. Viewed(s, t) /\ Sound(t)
  BY <1>2 DEF Kept, Viewed, SameButTree, SamePlace
<1>4. \A n \in Monitors : Fine(k, t, n)
  BY <1>1, <1>2, <1>3, FineView DEF DeskInv
<1>5. Focused(k, t)
  <2>1. ASSUME OneOutput PROVE m = s.selmon
    <3>1. CASE s.selmon = NoMon
      BY <1>1, <3>1 DEF Somewhere, InLayout, Lit
    <3>2. CASE s.selmon # NoMon
      <4>1. Enabled(s, s.selmon)
        BY <1>1, <3>2 DEF SelmonSettled, InLayout, Lit, Enabled
      <4> QED BY <1>1, <2>1, <3>2, <4>1 DEF OneOutput
    <3> QED BY <3>1, <3>2
  <2> QED BY <1>2, <2>1 DEF DeskInv, Focused, TopFocused, FocusTop
<1>6. \/ t.selmon = s.selmon /\ SelmonSettled(s)
      \/ InLayout(s, t.selmon) /\ NoOrphan(s)
  <2>1. CASE m = NoMon
    <3>1. \A n \in Monitors : s.out[n].power = "gone"
      BY <1>1, <2>1 DEF Lit, Enabled
    <3> QED BY <1>1, <1>2, <2>1, <3>1 DEF SelmonSettled, InLayout
  <2>2. CASE m # NoMon
    <3>1. m \in Monitors /\ InLayout(s, m)
      BY <2>2 DEF Somewhere
    <3>2. s.selmon # NoMon
      BY <1>1, <3>1 DEF Lit, InLayout
    <3> QED BY <1>1, <1>2, <3>1, <3>2 DEF SelmonSettled
  <2> QED BY <2>1, <2>2
<1>7. DeskInv(k, t) /\ SameOutputs(s, t)
  BY <1>1, <1>3, <1>4, <1>5, <1>6, ViewedGoes
<1> QED BY <1>7 DEF t

(* A drag begins or ends.                                                   *)
LEMMA GrabGoes ==
  ASSUME NEW k, NEW s, DeskInv(k, s),
         NEW g \in [mode : CursorModes, client : Clients \cup {NoClient}],
         \/ g = NoGrab
         \/ /\ g.client \in ToSet(s.clients)
            /\ g.mode = "CurTileDrag" => VisibleOn(s, g.client, s.win[g.client].mon)
  PROVE  DeskInv(k, [s EXCEPT !.grab = g]) /\ SameOutputs(s, [s EXCEPT !.grab = g])
<1> DEFINE t == [s EXCEPT !.grab = g]
<1>1. /\ Base(s) /\ Sound(s) /\ s \in StateType /\ OutputsListed(s) /\ SelmonSettled(s) /\ Lit(k, s)
      /\ NoClient \notin Clients /\ ToSet(s.clients) \subseteq Clients
  BY BaseMapped, SoundFacts, ConstantsAssumption DEF DeskInv
<1>2. /\ t \in StateType /\ t.grab = g
      /\ t.mons = s.mons /\ t.out = s.out /\ t.selmon = s.selmon /\ t.clients = s.clients
      /\ t.fstack = s.fstack /\ t.focus = s.focus /\ t.win = s.win
  BY <1>1 DEF StateType
<1> HIDE DEF t
<1>3. Sound(t) /\ Base(t)
  <2>1. g.client \in ToSet(s.clients) \cup {NoClient}
    BY DEF NoGrab
  <2>2. Sound(t)
    BY <1>1, <1>2 DEF Sound
  <2>3. WindowsListed(t)
    BY <1>1, <1>2, <2>1 DEF Base, WindowsListed
  <2>4. NoScratch(t)
    BY <1>1, <1>2 DEF Base, NoScratch
  <2>5. LayersFit(t)
    BY <1>1, <1>2 DEF Base, LayersFit
  <2> QED BY <2>2, <2>3, <2>4, <2>5 DEF Base
<1>4. \A n \in Monitors : Focustop(t, n) = Focustop(s, n)
  BY <1>2 DEF Focustop, VisibleOn, Shows, CurTags
<1>5. \A n \in Monitors : SameView(s, t, n)
  BY <1>2, <1>4 DEF SameView, On
<1>6. (\A n \in Monitors : Fine(k, t, n)) /\ Focused(k, t)
  BY <1>1, <1>2, <1>3, <1>4, <1>5, FineView, FocusedKept DEF DeskInv
<1>7. Lit(k, t)
  <2>1. g.mode # "CurNormal" => g.client # NoClient
    BY <1>1 DEF NoGrab
  <2>2. DragInView(t)
    <3> SUFFICES ASSUME g.mode = "CurTileDrag"
                 PROVE  VisibleOn(t, g.client, t.win[g.client].mon)
      BY <1>2 DEF DragInView
    <3>1. g # NoGrab
      BY DEF NoGrab
    <3>2. VisibleOn(s, g.client, s.win[g.client].mon)
      BY <3>1
    <3> QED BY <1>2, <3>2 DEF VisibleOn, Shows, CurTags
  <2> QED BY <1>1, <1>2, <2>1, <2>2 DEF Lit, Housed
<1>8. OutputsListed(t) /\ SelmonSettled(t) /\ SameOutputs(s, t)
  BY <1>1, <1>2 DEF OutputsListed, SelmonSettled, InLayout, NoOrphan, SameOutputs
<1> QED BY <1>3, <1>6, <1>7, <1>8 DEF DeskInv, t

(* A window floats or tiles again: in the floating layout nothing moves.    *)
LEMMA SetFloatingGoes ==
  ASSUME NEW k, k # "desktop", NEW s, DeskInv(k, s), NEW c \in ToSet(s.clients),
         NEW b \in BOOLEAN
  PROVE  DeskInv(k, SetFloating(s, c, b)) /\ SameOutputs(s, SetFloating(s, c, b))
<1> DEFINE t == SetFloating(s, c, b)
           m == s.win[c].mon
<1>1. /\ Base(s) /\ Sound(s) /\ AllMapped(s) /\ s \in StateType /\ c \in Clients
      /\ s.win \in [Clients -> WindowType]
      /\ ToSet(s.clients) \subseteq Clients
  BY BaseMapped, SoundFacts, StateFields DEF DeskInv
<1>2. /\ Changed(s, t, c)
      /\ m = NoMon => t.win[c].enabled = s.win[c].enabled
      /\ t.fstack = s.fstack /\ t.focus = s.focus
      /\ t.win[c].mon = m /\ t.win[c].tags = s.win[c].tags
      /\ \/ Fits(c, t.win[c])
         \/ CurLayout(s, m) = "floating" /\ t = Put(s, c, Floated(s.win[c], b))
      /\ \A n \in Monitors :
           /\ n # m => SameView(s, t, n)
           /\ n = m => \/ Scene(t, n)
                       \/ c \notin ToSet(s.clients) /\ SameView(s, t, n)
                       \/ CurLayout(s, n) = "floating"
  BY <1>1, SetFloatingDoes DEF AllMapped
<1>6. ASSUME m # NoMon
      PROVE  /\ m \in Monitors /\ s.win[c] \in WindowType /\ ~ s.win[c].isscratchpad
             /\ Fits(c, s.win[c]) /\ Enabled(s, m) /\ s.win[c].status = "mapped"
  <2>1. m \in Monitors
    BY <1>1, <1>6 DEF WindowType
  <2>2. Enabled(s, m)
    BY <1>6, <2>1 DEF DeskInv, Lit, Housed, Enabled
  <2> QED BY <1>1, <2>1, <2>2 DEF WindowType, Base, NoScratch, LayersFit, AllMapped
<1>7. ASSUME m # NoMon, CurLayout(s, m) = "floating"
      PROVE  s.win[c].layer \in {"LyrTile", "LyrFS"}
  <2>1. s.win[c].layer = ArrangedLayer(s.win[c], "floating")
    <3>1. LaxScene(s, m) /\ Enabled(s, m)
      BY <1>6, <1>7 DEF DeskInv, Fine
    <3> QED BY <1>7, <3>1 DEF LaxScene, Layered
  <2> QED BY <1>6, <1>7, <2>1 DEF ArrangedLayer, Fits, WindowType
<1>8. Fits(c, t.win[c])
  <2> SUFFICES ASSUME m # NoMon, CurLayout(s, m) = "floating",
                      t = Put(s, c, Floated(s.win[c], b))
               PROVE  Fits(c, t.win[c])
    BY <1>2 DEF Fits
  <2> DEFINE v == Floated(s.win[c], b)
  <2>1. /\ v \in WindowType /\ v.layer = s.win[c].layer /\ v.status = s.win[c].status
        /\ v.mon = s.win[c].mon /\ v.isscratchpad = s.win[c].isscratchpad
        /\ v.isfullscreen = s.win[c].isfullscreen
    BY <1>6 DEF Floated, WindowType
  <2> HIDE DEF v
  <2>2. Put(s, c, v).win[c] = v
    BY <1>1, <2>1, PutDoes
  <2>3. Fits(c, v)
    BY <1>6, <1>7, <2>1 DEF Fits
  <2> QED BY <2>2, <2>3 DEF v
<1>3. ASSUME NEW n \in Monitors, n = m, CurLayout(s, n) = "floating" PROVE LaxScene(t, n)
  <2> DEFINE v == [s.win[c] EXCEPT !.isfloating = b]
  <2>1. t = Put(s, c, v)
    BY <1>3 DEF SetFloating, Put
  <2>2. /\ v \in WindowType /\ v.enabled = s.win[c].enabled /\ v.layer = s.win[c].layer
        /\ v.mon = s.win[c].mon /\ v.tags = s.win[c].tags
        /\ v.isscratchpad = s.win[c].isscratchpad
    BY <1>1 DEF WindowType
  <2> HIDE DEF v, t
  <2> DEFINE u == Put(s, c, v)
  <2>8. /\ u.out = s.out /\ u.clients = s.clients /\ u.win[c] = v
        /\ \A d \in Clients : d # c => u.win[d] = s.win[d]
    BY <1>1, <2>2, PutDoes
  <2>3. /\ t.out = s.out /\ t.clients = s.clients /\ t.win[c] = v
        /\ \A d \in Clients : d # c => t.win[d] = s.win[d]
    BY <2>1, <2>8
  <2> HIDE DEF u
  <2>4. \A d \in Clients : /\ t.win[d].enabled = s.win[d].enabled
                           /\ t.win[d].mon = s.win[d].mon
                           /\ VisibleOn(t, d, n) <=> VisibleOn(s, d, n)
    BY <2>2, <2>3 DEF VisibleOn, Shows, CurTags
  <2>5. /\ Enabled(t, n) <=> Enabled(s, n)
        /\ CurLayout(t, n) = "floating"
    BY <1>3, <2>3 DEF Enabled, CurLayout, CurrentTag, CurTags
  <2>6. LaxScene(s, n)
    BY DEF DeskInv, Fine
  <2>7. LaxShown(s, n) => LaxShown(t, n)
    BY <1>1, <1>3, <2>3, <2>4, <2>5 DEF LaxShown, Stacked
  <2>9. Layered(s, n) => Layered(t, n)
    <3> SUFFICES ASSUME Layered(s, n), NEW d \in ToSet(s.clients), s.win[d].mon = n
                 PROVE  t.win[d].layer = ArrangedLayer(t.win[d], CurLayout(t, n))
      BY <1>1, <2>3, <2>4 DEF Layered
    <3>1. s.win[d].layer = ArrangedLayer(s.win[d], "floating")
      BY <1>3 DEF Layered
    <3>2. CASE d # c
      BY <1>1, <2>3, <2>5, <3>1, <3>2
    <3>3. CASE d = c
      BY <1>3, <1>6, <1>7, <2>2, <2>3, <2>5, <3>3, ConstantsAssumption DEF ArrangedLayer
    <3> QED BY <3>2, <3>3
  <2> QED BY <2>5, <2>6, <2>7, <2>9 DEF LaxScene, Planted
<1> HIDE DEF t
<1>4. \A n \in Monitors : Fine(k, t, n)
  <2>1. Sound(t)
    BY <1>2 DEF Changed
  <2>2. ASSUME NEW n \in Monitors, n = m PROVE Fine(k, t, n)
    <3>1. CASE CurLayout(s, n) = "floating"
      <4>1. LaxScene(t, n) /\ CurLayout(t, n) = "floating"
        BY <1>2, <1>3, <2>2, <3>1, SameOutQueries DEF Changed
      <4> QED BY <2>1, <4>1, LaxShowsTop DEF Fine
    <3>2. CASE CurLayout(s, n) # "floating"
      <4>1. Scene(t, n) \/ SameView(s, t, n)
        BY <1>2, <2>2, <3>2
      <4> QED BY <1>1, <2>1, <4>1, SceneFine, FineView DEF DeskInv
    <3> QED BY <3>1, <3>2
  <2>3. ASSUME NEW n \in Monitors, n # m PROVE Fine(k, t, n)
    BY <1>1, <1>2, <2>1, <2>3, FineView DEF DeskInv
  <2> QED BY <2>2, <2>3
<1>5. DeskInv(k, t) /\ SameOutputs(s, t)
  BY <1>1, <1>2, <1>4, <1>8, ChangedGoes
<1> QED BY <1>5 DEF t

(* A moved window is dropped: the output under the pointer is selected and  *)
(* takes the window.                                                        *)
LEMMA DropGoes ==
  ASSUME NEW k, k # "desktop", NEW s, DeskInv(k, s), NEW m \in Somewhere(s),
         (\E n \in Monitors : Enabled(s, n)) => m # NoMon,
         s.grab.mode \in {"CurMove", "CurResize"}
  PROVE  DeskInv(k, SetMon([s EXCEPT !.selmon = m], s.grab.client, m, {}))
<1> DEFINE a == [s EXCEPT !.selmon = m]
           c == s.grab.client
<1>1. s \in StateType /\ Base(s) /\ Lit(k, s)
  BY BaseMapped DEF DeskInv
<1>2. a.selmon = m /\ a.clients = s.clients /\ a.grab = s.grab /\ a.out = s.out
  BY <1>1 DEF StateType
<1>3. DeskInv(k, a)
  BY SelectGoes
<1> HIDE DEF a
<1>4. c \in ToSet(a.clients)
  BY <1>1, <1>2 DEF Lit, Base, WindowsListed
<1>5. Homeless(k, a, c)
  BY <1>2, <1>3, <1>4 DEF Homeless, DeskInv, SelmonSettled, NoOrphan
<1>6. /\ m \in Monitors \cup {NoMon} /\ {} \in SUBSET Tags
      /\ m # NoMon => a.out[m].power # "gone"
  BY <1>2 DEF Somewhere, InLayout
<1>7. DeskInv(k, SetMon(a, c, m, {}))
  BY <1>2, <1>5, <1>6, SetMonHouses
<1> QED BY <1>7 DEF a

-----------------------------------------------------------------------------
(* The specification                                                       *)

StateInv(k) == DeskInv(k, State)

LEMMA StateFieldsAre ==
  /\ State.mons = mons /\ State.out = out /\ State.selmon = selmon /\ State.clients = clients
  /\ State.fstack = fstack /\ State.win = win /\ State.focus = focus /\ State.grab = grab
BY DEF State

LEMMA GoesBecomes ==
  ASSUME NEW k, NEW t, Goes(k, State, t), Become(t)
  PROVE  DeskInv(k, State') /\ TagsStay(State, State')
<1>1. t \in StateType
  BY BaseMapped DEF Goes, DeskInv
<1>2. State' = t
  BY <1>1, BecomeState
<1> QED BY <1>2 DEF Goes

LEMMA InitGoes ==
  ASSUME NEW k, Init
  PROVE  DeskInv(k, State)
<1> DEFINE f == FreshMonitor("gone")
           w == FreshWindow("none")
<1>1. /\ State.mons = <<>> /\ State.out = [m \in Monitors |-> f] /\ State.selmon = NoMon
      /\ State.clients = <<>> /\ State.fstack = <<>> /\ State.win = [c \in Clients |-> w]
      /\ State.focus = NoClient /\ State.grab = NoGrab
  BY StateFieldsAre DEF Init
<1>2. f \in MonitorType /\ f.power = "gone" /\ ~ f.scratchpad_visible
  BY FreshMonitorType
<1>3. /\ w \in WindowType /\ w.status = "none" /\ w.mon = NoMon /\ ~ w.enabled
      /\ ~ w.isscratchpad
  BY DEF FreshWindow, WindowType
<1> HIDE DEF f, w
<1>4. State \in StateType
  <2>1. /\ mons \in Seq(Monitors) /\ selmon \in Monitors \cup {NoMon}
        /\ clients \in Seq(Clients) /\ fstack \in Seq(Clients)
        /\ focus \in Clients \cup {NoClient}
    BY DEF Init
  <2>2. out \in [Monitors -> MonitorType] /\ win \in [Clients -> WindowType]
    BY <1>1, <1>2, <1>3, StateFieldsAre
  <2>3. grab \in [mode : CursorModes, client : Clients \cup {NoClient}]
    BY DEF Init, NoGrab, CursorModes
  <2> QED BY <2>1, <2>2, <2>3 DEF State, StateType
<1>5. ToSet(State.clients) = {}
  BY <1>1, EmptyList DEF Lists
<1>6. Sound(State)
  BY <1>1, <1>4, <1>5, EmptyList DEF Sound
<1>7. WindowsListed(State)
  <2>1. {c \in Clients : State.win[c].status = "mapped"} = {}
    BY <1>1, <1>3
  <2>2. State.grab.client = NoClient
    BY <1>1 DEF NoGrab
  <2> QED BY <1>1, <1>3, <1>5, <2>1, <2>2 DEF WindowsListed
<1>8. NoScratch(State)
  BY <1>1, <1>2, <1>3 DEF NoScratch
<1>15. LayersFit(State)
  BY <1>1, <1>3 DEF LayersFit, Fits
<1>9. OutputsListed(State)
  <2>1. {m \in Monitors : State.out[m].power # "gone"} = {}
    BY <1>1, <1>2
  <2> QED BY <1>1, <2>1, EmptyList DEF OutputsListed
<1>10. \A m \in Monitors : Scene(State, m)
  BY <1>1, <1>2 DEF Scene, Enabled
<1>11. FocusTop(State)
  BY <1>1, <1>6, FocustopNowhere DEF FocusTop
<1>12. SelmonSettled(State)
  BY <1>1 DEF SelmonSettled
<1>13. Lit(k, State)
  BY <1>1, <1>2, <1>5 DEF Lit, NoGrab, DragInView
<1>14. (\A m \in Monitors : Fine(k, State, m)) /\ Focused(k, State)
  BY <1>6, <1>10, <1>11, SceneFine, FocusedTop
<1> QED BY <1>6, <1>7, <1>8, <1>9, <1>12, <1>13, <1>14, <1>15 DEF DeskInv, Base

LEMMA OutputsGo ==
  ASSUME DeskInv("desktop", State), OutputStep
  PROVE  DeskInv("desktop", State') /\ TagsStay(State, State')
<1> USE StateFieldsAre
<1>1. DeskInv("desktop", State)
  OBVIOUS
<1>2. ToSet(mons) = {n \in Monitors : out[n].power # "gone"}
  BY <1>1 DEF DeskInv, OutputsListed, Lists
<1>3. ASSUME NEW m \in Monitors, CreateMon(m) PROVE DeskInv("desktop", State') /\ TagsStay(State, State')
  <2> DEFINE t == UpdateMons([State EXCEPT !.out[m] = FreshMonitor("on"), !.mons = <<m>> \o mons])
  <2>1. Goes("desktop", State, t)
    BY <1>1, <1>3, CreateMonGoes DEF CreateMon
  <2>2. Become(t)
    BY <1>3 DEF CreateMon
  <2> HIDE DEF t
  <2> QED BY <2>1, <2>2, GoesBecomes
<1>4. ASSUME NEW m \in Monitors, CleanupMon(m) PROVE DeskInv("desktop", State') /\ TagsStay(State, State')
  <2> DEFINE t == [CloseMon(LayoutRemove([State EXCEPT !.mons = Without(mons, m)], m), m)
                   EXCEPT !.out[m] = FreshMonitor("gone")]
  <2>1. Goes("desktop", State, t)
    BY <1>1, <1>4, CleanupMonGoes DEF CleanupMon
  <2>2. Become(t)
    BY <1>4 DEF CleanupMon
  <2> HIDE DEF t
  <2> QED BY <2>1, <2>2, GoesBecomes
<1>5. ASSUME NEW power,
             \A m \in ToSet(mons) : /\ power[m] \in {"on", "asleep", "off", "parked"}
                                    /\ InLayout(State, m) => power[m] # "parked",
             Repower(power)
      PROVE  DeskInv("desktop", State') /\ TagsStay(State, State')
  <2> DEFINE t == UpdateMons([State EXCEPT !.out =
                    [m \in Monitors |-> IF m \in ToSet(mons) THEN [out[m] EXCEPT !.power = power[m]]
                                        ELSE out[m]]])
  <2>1. Goes("desktop", State, t)
    BY <1>1, <1>5, RepowerGoes
  <2>2. Become(t)
    BY <1>5 DEF Repower
  <2> HIDE DEF t
  <2> QED BY <2>1, <2>2, GoesBecomes
<1>6. ASSUME NEW On1 \in SUBSET Monitors, OutputMgrApply(On1)
      PROVE  DeskInv("desktop", State') /\ TagsStay(State, State')
  <2> DEFINE power == [m \in Monitors |-> IF m \in On1 THEN "on" ELSE "off"]
  <2>1. Repower(power)
    BY <1>6 DEF OutputMgrApply
  <2>2. \A m \in ToSet(mons) : power[m] \in {"on", "off"}
    BY <1>2
  <2> HIDE DEF power
  <2> QED BY <1>5, <2>1, <2>2
<1>7. ASSUME OutputMgrTest PROVE DeskInv("desktop", State') /\ TagsStay(State, State')
  <2> DEFINE power == [m \in Monitors |-> IF out[m].power = "on" THEN "on" ELSE "off"]
  <2>1. Repower(power)
    BY <1>7 DEF OutputMgrTest
  <2>2. \A m \in ToSet(mons) : power[m] \in {"on", "off"}
    BY <1>2
  <2> HIDE DEF power
  <2> QED BY <1>5, <2>1, <2>2
<1>8. ASSUME NEW m \in Monitors, NEW on \in BOOLEAN, PowerMgrSetMode(m, on)
      PROVE  DeskInv("desktop", State') /\ TagsStay(State, State')
  <2> DEFINE power == [n \in Monitors |->
               CASE n # m -> out[n].power
                 [] n = m /\ on -> "on"
                 [] OTHER -> IF InLayout(State, n) THEN "asleep" ELSE "parked"]
  <2>1. Repower(power)
    BY <1>8 DEF PowerMgrSetMode
  <2>2. State \in StateType
    BY <1>1, BaseMapped DEF DeskInv
  <2>3. \A n \in Monitors : out[n] \in MonitorType
    BY <2>2, StateFields
  <2>4. \A n \in ToSet(mons) : power[n] =
          IF n # m THEN out[n].power
          ELSE IF on THEN "on" ELSE IF InLayout(State, n) THEN "asleep" ELSE "parked"
    BY <1>2
  <2> HIDE DEF power
  <2>5. \A n \in ToSet(mons) : /\ power[n] \in {"on", "asleep", "off", "parked"}
                               /\ InLayout(State, n) => power[n] # "parked"
    BY <1>2, <2>3, <2>4 DEF MonitorType, InLayout
  <2> QED BY <1>5, <2>1, <2>5
<1> QED BY <1>3, <1>4, <1>6, <1>7, <1>8 DEF OutputStep

LEMMA WindowsGo ==
  ASSUME NEW k, DeskInv(k, State), WindowStep
  PROVE  DeskInv(k, State') /\ TagsStay(State, State')
<1> USE StateFieldsAre
<1>1. DeskInv(k, State) /\ State \in StateType
  BY BaseMapped DEF DeskInv
<1>2. ASSUME NEW c \in Clients, CreateNotify(c) PROVE DeskInv(k, State') /\ TagsStay(State, State')
  <2> DEFINE t == [State EXCEPT !.win[c] = FreshWindow("unmapped")]
  <2>1. Goes(k, State, t)
    BY <1>1, <1>2, FreshGoes DEF CreateNotify
  <2>2. Become(t)
    BY <1>2 DEF CreateNotify
  <2> HIDE DEF t
  <2> QED BY <2>1, <2>2, GoesBecomes
<1>3. ASSUME NEW c \in Clients, DestroyNotify(c) PROVE DeskInv(k, State') /\ TagsStay(State, State')
  <2> DEFINE t == [State EXCEPT !.win[c] = FreshWindow("none")]
  <2>1. Goes(k, State, t)
    BY <1>1, <1>3, FreshGoes DEF DestroyNotify
  <2>2. Become(t)
    BY <1>3 DEF DestroyNotify
  <2> HIDE DEF t
  <2> QED BY <2>1, <2>2, GoesBecomes
<1>4. ASSUME NEW c \in Clients, NEW r \in Rules, MapNotify(c, r)
      PROVE  DeskInv(k, State') /\ TagsStay(State, State')
  <2> DEFINE p == Parent(State, c)
             s == AutoScratch(Place(ListedFirst(State, c), c, p, r), c)
  <2>1. p \in ToSet(State.clients) \cup {NoClient}
    <3>1. ParentOf[c] \in Clients \cup {NoClient}
      BY ConstantsAssumption
    <3> QED BY <1>1, <3>1 DEF Parent, Mapped, DeskInv, Base, WindowsListed
  <2>2. PutUp(c, p, r) = s
    BY DEF PutUp, ListedFirst
  <2>3. PICK m : Become(UnsetFullscreen(s, c, p, m))
    BY <1>4, <2>2 DEF MapNotify
  <2> HIDE DEF p
  <2>4. Goes(k, State, UnsetFullscreen(s, c, p, m))
    BY <1>1, <1>4, <2>1, MapNotifyGoes DEF MapNotify
  <2> HIDE DEF s
  <2> QED BY <2>3, <2>4, GoesBecomes
<1>5. ASSUME NEW c \in Clients, UnmapNotify(c) PROVE DeskInv(k, State') /\ TagsStay(State, State')
  <2> DEFINE t == [Detach(ClearRefs(Unlink(State, c), c, win[c].mon), c, win[c].mon)
                   EXCEPT !.win[c].status = "unmapped", !.win[c].layer = "none",
                          !.win[c].enabled = FALSE]
  <2>1. Goes(k, State, t)
    BY <1>1, <1>5, UnmapNotifyGoes DEF UnmapNotify
  <2>2. Become(t)
    BY <1>5 DEF UnmapNotify
  <2> HIDE DEF t
  <2> QED BY <2>1, <2>2, GoesBecomes
<1> QED BY <1>2, <1>3, <1>4, <1>5 DEF WindowStep

(* View, TagMon and FocusMon, in a desktop session or one of tags.          *)
LEMMA ViewGoes ==
  ASSUME NEW k, k # "layouts", DeskInv(k, State), NEW tags \in TagArgs, View(tags)
  PROVE  DeskInv(k, State') /\ TagsStay(State, State')
<1> USE StateFieldsAre
<1> DEFINE j == 3 - out[selmon].seltags
           T == IF tags = {} THEN out[selmon].tagset[j] ELSE tags
           t == Refresh(SetTagset(State, selmon, j, T), selmon)
<1>1. selmon \in Monitors /\ out[selmon] \in MonitorType /\ out[selmon].power # "gone"
  BY BaseMapped, StateFields DEF View, DeskInv, SelmonSettled, InLayout
<1>2. j \in 1 .. 2
  BY <1>1 DEF MonitorType
<1>3. T \in SUBSET Tags
  BY <1>1, <1>2, ConstantsAssumption DEF MonitorType
<1>4. Become(t)
  BY DEF View
<1> HIDE DEF j, T
<1>5. Goes(k, State, t)
  BY <1>1, <1>2, <1>3, RetagOutputGoes
<1> HIDE DEF t
<1> QED BY <1>4, <1>5, GoesBecomes

LEMMA TagMonStep ==
  ASSUME NEW k, k # "layouts", DeskInv(k, State), NEW m \in Monitors, TagMon(m)
  PROVE  DeskInv(k, State') /\ TagsStay(State, State')
<1> USE StateFieldsAre
<1> DEFINE t == SetMon(State, Sel, m, {})
<1>1. Sel \in ToSet(State.clients)
  BY BaseMapped, FocustopIs DEF TagMon, Sel, DeskInv
<1>2. Goes(k, State, t)
  BY <1>1, TagMonGoes DEF TagMon
<1>3. Become(t)
  BY DEF TagMon
<1> HIDE DEF t
<1> QED BY <1>2, <1>3, GoesBecomes

LEMMA FocusMonStep ==
  ASSUME NEW k, DeskInv(k, State), NEW m \in Monitors, FocusMon(m)
  PROVE  DeskInv(k, State') /\ TagsStay(State, State')
<1> USE StateFieldsAre
<1> DEFINE t == FocusTopOf([State EXCEPT !.selmon = m], m)
<1>1. Goes(k, State, t)
  BY FocusMonGoes DEF FocusMon
<1>2. Become(t)
  BY DEF FocusMon
<1> HIDE DEF t
<1> QED BY <1>1, <1>2, GoesBecomes

(* Every step keeps the invariant, and those that change outputs leave the  *)
(* windows their tags.                                                      *)
LEMMA DesktopStep ==
  ASSUME StateInv("desktop"), [DesktopNext]_vars
  PROVE  StateInv("desktop")' /\ TagsStay(State, State')
<1> SUFFICES DeskInv("desktop", State') /\ TagsStay(State, State')
  BY DEF StateInv
<1> DEFINE k == "desktop"
<1>1. CASE DesktopNext
  <2>1. DeskInv(k, State) /\ k # "layouts"
    BY DEF StateInv
  <2>2. CASE WindowStep
    BY <2>1, <2>2, WindowsGo
  <2>3. CASE OutputStep
    BY <2>1, <2>3, OutputsGo
  <2>4. ASSUME NEW tags \in TagArgs, View(tags) PROVE DeskInv(k, State') /\ TagsStay(State, State')
    <3> HIDE DEF k
    <3> QED BY <2>1, <2>4, ViewGoes
  <2>5. ASSUME NEW m \in Monitors, TagMon(m) PROVE DeskInv(k, State') /\ TagsStay(State, State')
    <3> HIDE DEF k
    <3> QED BY <2>1, <2>5, TagMonStep
  <2>6. ASSUME NEW m \in Monitors, FocusMon(m) PROVE DeskInv(k, State') /\ TagsStay(State, State')
    <3> HIDE DEF k
    <3> QED BY <2>1, <2>6, FocusMonStep
  <2> QED BY <1>1, <2>2, <2>3, <2>4, <2>5, <2>6 DEF DesktopNext
<1>2. CASE UNCHANGED vars
  <2>1. State' = State
    BY <1>2 DEF State, vars
  <2> QED BY <2>1 DEF StateInv, TagsStay
<1> QED BY <1>1, <1>2

(* Whatever the outputs and windows of a desktop do, the lists are in step, *)
(* every lit output shows its tags, the focus is on top and every window    *)
(* has an output while one is selected.                                     *)
THEOREM DesktopInvariant == DesktopSpec => []StateInv("desktop")
<1>2. Init => StateInv("desktop")
  BY InitGoes DEF StateInv
<1>1. StateInv("desktop") /\ [DesktopNext]_vars => StateInv("desktop")'
  BY DesktopStep
<1> QED BY <1>1, <1>2, PTL DEF DesktopSpec

(* What the invariant says of the lists, the focus and the scene in any     *)
(* session.                                                                 *)
LEMMA InvTypeOK ==
  ASSUME NEW k, DeskInv(k, State)
  PROVE  TypeOK
<1> USE StateFieldsAre
<1>1. /\ State \in StateType /\ WindowsListed(State) /\ OutputsListed(State)
      /\ Lists(State.clients, ToSet(State.clients)) /\ Lists(State.fstack, ToSet(State.clients))
  BY DEF DeskInv, Base, Sound
<1>2. Lists(clients, {c \in Clients : win[c].status = "mapped"})
  BY <1>1 DEF WindowsListed
<1> QED BY <1>1, <1>2, StateFields DEF TypeOK, WindowsListed, OutputsListed

LEMMA InvNoOrphans ==
  ASSUME NEW k, DeskInv(k, State)
  PROVE  NoOrphans
BY StateFieldsAre DEF DeskInv, SelmonSettled, NoOrphan, NoOrphans

LEMMA InvLax ==
  ASSUME NEW k, DeskInv(k, State), NEW m \in Monitors
  PROVE  LaxScene(State, m)
BY SceneLax DEF DeskInv, Fine

LEMMA InvTopFocus ==
  ASSUME NEW k, DeskInv(k, State)
  PROVE  TopFocus
<1>1. TopFocused(State)
  <2>1. CASE k = "desktop"
    <3> DEFINE j == "tags"
    <3>1. Focused(j, State)
      <4>1. Sound(State) /\ FocusTop(State)
        BY <2>1, BaseMapped DEF DeskInv, Focused
      <4> QED BY <4>1, FocusedTop
    <3> QED BY <3>1 DEF Focused
  <2>2. CASE k # "desktop"
    BY <2>2 DEF DeskInv, Focused
  <2> QED BY <2>1, <2>2
<1> QED BY <1>1, StateFieldsAre DEF TopFocused, TopFocus

LEMMA InvSceneShowsTags ==
  ASSUME NEW k, DeskInv(k, State)
  PROVE  SceneShowsTags
<1> SUFFICES ASSUME NEW c \in ToSet(clients),
                    Enabled(State, win[c].mon), CurLayout(State, win[c].mon) # "monocle"
             PROVE  win[c].enabled = VisibleOn(State, c, win[c].mon)
  BY DEF SceneShowsTags
<1> USE StateFieldsAre
<1>1. Sound(State) /\ State \in StateType
  BY BaseMapped DEF DeskInv
<1>2. c \in Clients /\ win[c] \in WindowType
  BY <1>1, SoundFacts, StateFields
<1>3. win[c].mon \in Monitors
  BY <1>2 DEF WindowType, Enabled
<1>4. LaxShown(State, win[c].mon)
  BY <1>3, InvLax DEF LaxScene
<1>5. win[c].enabled <=> VisibleOn(State, c, win[c].mon)
  BY <1>4 DEF LaxShown, Stacked
<1>6. win[c].enabled \in BOOLEAN /\ VisibleOn(State, c, win[c].mon) \in BOOLEAN
  BY <1>2, <1>3 DEF WindowType, VisibleOn, Shows
<1> QED BY <1>5, <1>6

LEMMA InvLeavesAreTiled ==
  ASSUME NEW k, DeskInv(k, State)
  PROVE  LeavesAreTiled
<1> SUFFICES ASSUME NEW m \in Monitors, Enabled(State, m), CurLayout(State, m) = "dwindle",
                    Tileable(State, m) # {}
             PROVE  LET leaves == out[m].dwindle_tree[CurrentTag(State, m)]
                    IN  /\ Tileable(State, m) \subseteq leaves
                        /\ \A c \in leaves : VisibleOn(State, c, m) /\ ~ win[c].isfloating
  BY DEF LeavesAreTiled
<1>1. Planted(State, m)
  BY InvLax DEF LaxScene
<1> QED BY <1>1, StateFieldsAre DEF Planted

LEMMA InvMonocleShowsOne ==
  ASSUME NEW k, DeskInv(k, State)
  PROVE  MonocleShowsOne
<1> SUFFICES ASSUME NEW m \in Monitors, Enabled(State, m), CurLayout(State, m) = "monocle",
                    NEW c \in Tileable(State, m), NEW d \in Tileable(State, m),
                    win[c].enabled, win[d].enabled
             PROVE  c = d
  BY DEF MonocleShowsOne
<1>1. LaxShown(State, m)
  BY InvLax DEF LaxScene
<1>2. c \in ToSet(State.clients) /\ d \in ToSet(State.clients)
  BY DEF Tileable
<1> QED BY <1>1, <1>2, StateFieldsAre DEF LaxShown, Stacked

LEMMA InvFocusFollows ==
  ASSUME DeskInv("desktop", State)
  PROVE  FocusFollows
<1> USE StateFieldsAre
<1>1. Sound(State) /\ State \in StateType /\ FocusTop(State)
  BY BaseMapped, DesktopIs
<1>2. focus = Sel
  BY <1>1 DEF FocusTop, Sel
<1>3. ASSUME focus # NoClient, Enabled(State, win[focus].mon) PROVE win[focus].enabled
  <2>1. /\ focus \in ToSet(State.clients) /\ VisibleOn(State, focus, selmon)
        /\ win[focus].mon = selmon
    BY <1>1, <1>2, <1>3, FocustopIs DEF Sel
  <2>2. selmon \in Monitors
    BY <1>1, <2>1, StateFields DEF VisibleOn, Shows
  <2>3. Shown(State, selmon)
    BY <1>3, <2>1, <2>2, DesktopIs DEF Scene
  <2>4. OnDisplay(State, focus, selmon)
    BY <1>2, <2>1 DEF OnDisplay, Sel
  <2> QED BY <2>1, <2>3, <2>4 DEF Shown
<1> QED BY <1>2, <1>3 DEF FocusFollows, FocusShown

(* TypeOK for any number of windows, outputs and tags: the two lists of     *)
(* windows and the list of outputs are in step with the structs.            *)
THEOREM DesktopTypeOK == DesktopSpec => []TypeOK
<1>1. StateInv("desktop") => TypeOK
  BY InvTypeOK DEF StateInv
<1> QED BY DesktopInvariant, <1>1, PTL

(* Keyboard focus is on the topmost visible window of the selected output,  *)
(* and that window is on display: no order of plugging, closing and moving  *)
(* leaves input with a window that is hidden, gone or on another output.    *)
THEOREM DesktopFocusFollows == DesktopSpec => []FocusFollows
<1>1. StateInv("desktop") => FocusFollows
  BY InvFocusFollows DEF StateInv
<1> QED BY DesktopInvariant, <1>1, PTL

(* The scene of every lit output shows the windows of the tags in view and  *)
(* no other, whatever plugging, closing and moving came before.             *)
THEOREM DesktopSceneShowsTags == DesktopSpec => []SceneShowsTags
<1>1. StateInv("desktop") => SceneShowsTags
  BY InvSceneShowsTags DEF StateInv
<1> QED BY DesktopInvariant, <1>1, PTL

(* updatemons() and closemon() leave no mapped window without an output     *)
(* while one is selected, and select only outputs of the layout.            *)
THEOREM DesktopNoOrphans == DesktopSpec => []NoOrphans
<1>1. StateInv("desktop") => NoOrphans
  BY InvNoOrphans DEF StateInv
<1> QED BY DesktopInvariant, <1>1, PTL

(* Outputs that come, go and sleep never change the tags of a window.       *)
THEOREM DesktopOutputsKeepTags == DesktopSpec => OutputsKeepTags
<1> DEFINE Keep == mons' # mons \/ (\E m \in Monitors : out'[m].power # out[m].power)
             => \A c \in ToSet(clients) : win'[c].tags = win[c].tags \/ win[c].tags = {}
<1>1. StateInv("desktop") /\ [DesktopNext]_vars => [Keep]_vars
  <2> SUFFICES ASSUME StateInv("desktop"), [DesktopNext]_vars PROVE Keep
    OBVIOUS
  <2>1. TagsStay(State, State')
    BY DesktopStep
  <2> QED BY <2>1 DEF TagsStay, State
<1> QED BY DesktopInvariant, <1>1, PTL DEF DesktopSpec, OutputsKeepTags

-----------------------------------------------------------------------------
(* Sessions of tags and of layouts                                         *)

(* An output is plugged.                                                    *)
LEMMA PlugGoes ==
  ASSUME NEW k, DeskInv(k, State), PlugStep
  PROVE  DeskInv(k, State')
<1> USE StateFieldsAre
<1>1. PICK m \in Monitors : CreateMon(m)
  BY DEF PlugStep
<1> DEFINE t == UpdateMons([State EXCEPT !.out[m] = FreshMonitor("on"), !.mons = <<m>> \o mons])
<1>2. Goes(k, State, t)
  BY <1>1, CreateMonGoes DEF CreateMon
<1>3. Become(t)
  BY <1>1 DEF CreateMon
<1> HIDE DEF t
<1> QED BY <1>2, <1>3, GoesBecomes

LEMMA CommitGoes ==
  ASSUME NEW k, k # "layouts", DeskInv(k, State), CommitStep
  PROVE  DeskInv(k, State')
<1> USE StateFieldsAre
<1>1. PICK c \in Clients, r \in Rules : InitialCommit(c, r)
  BY DEF CommitStep
<1> DEFINE t == SetMon(ApplyRules(State, c, r), c, NoMon, {})
<1>2. Goes(k, State, t)
  BY <1>1, InitialCommitGoes DEF InitialCommit
<1>3. Become(t)
  BY <1>1 DEF InitialCommit
<1> HIDE DEF t
<1> QED BY <1>2, <1>3, GoesBecomes

LEMMA SelIs ==
  ASSUME NEW k, DeskInv(k, State), Sel # NoClient
  PROVE  /\ Sel \in ToSet(clients) /\ Sel \in Clients
         /\ VisibleOn(State, Sel, selmon) /\ win[Sel].mon = selmon
         /\ selmon \in Monitors
         /\ win[Sel] \in WindowType
<1> USE StateFieldsAre
<1>1. Sound(State) /\ State \in StateType
  BY BaseMapped DEF DeskInv
<1>2. /\ Sel \in ToSet(clients) /\ Sel \in Clients
      /\ VisibleOn(State, Sel, selmon) /\ win[Sel].mon = selmon
  BY <1>1, FocustopIs DEF Sel
<1> QED BY <1>1, <1>2, StateFields DEF VisibleOn, Shows

LEMMA RetagStep ==
  ASSUME NEW k, k # "layouts", DeskInv(k, State), NEW new \in SUBSET Tags, Retag(new)
  PROVE  DeskInv(k, State')
<1> USE StateFieldsAre
<1> DEFINE t == Refresh([RemoveFromTrees(State, Sel) EXCEPT !.win[Sel].tags = new], selmon)
<1>1. Sel \in ToSet(clients) /\ win[Sel].mon = selmon /\ selmon \in Monitors
  BY SelIs DEF Retag
<1>2. Goes(k, State, t)
  BY <1>1, RetagGoes
<1>3. Become(t)
  BY DEF Retag
<1> HIDE DEF t
<1> QED BY <1>2, <1>3, GoesBecomes

LEMMA TagsGo ==
  ASSUME NEW k, k # "layouts", DeskInv(k, State), TagStep
  PROVE  DeskInv(k, State')
<1> USE StateFieldsAre
<1>1. ASSUME NEW tags \in TagArgs, ToggleView(tags) PROVE DeskInv(k, State')
  <2> DEFINE new == SymDiff(CurTags(State, selmon), tags)
             j == out[selmon].seltags
             t == Refresh(SetTagset(State, selmon, j, new), selmon)
  <2>1. State \in StateType
    BY BaseMapped DEF DeskInv
  <2>2. selmon \in Monitors /\ out[selmon] \in MonitorType /\ out[selmon].power # "gone"
    BY <1>1, <2>1, StateFields DEF ToggleView, DeskInv, SelmonSettled, InLayout
  <2>3. j \in 1 .. 2
    BY <2>2 DEF MonitorType
  <2>4. new \in SUBSET Tags
    BY <2>1, <2>2, CurTagsType, ConstantsAssumption DEF SymDiff
  <2>5. Become(t)
    BY <1>1 DEF ToggleView
  <2> HIDE DEF j, new
  <2>6. Goes(k, State, t)
    BY <2>2, <2>3, <2>4, RetagOutputGoes
  <2> HIDE DEF t
  <2> QED BY <2>5, <2>6, GoesBecomes
<1>2. ASSUME NEW tags \in TagArgs, Tag(tags) PROVE DeskInv(k, State')
  <2>1. tags \in SUBSET Tags
    BY ConstantsAssumption
  <2> QED BY <1>2, <2>1, RetagStep DEF Tag
<1>3. ASSUME NEW tags \in TagArgs, ToggleTag(tags) PROVE DeskInv(k, State')
  <2> DEFINE new == SymDiff(win[Sel].tags, tags)
  <2>1. win[Sel] \in WindowType
    BY <1>3, SelIs DEF ToggleTag
  <2>2. new \in SUBSET Tags
    BY <2>1, ConstantsAssumption DEF SymDiff, WindowType
  <2>3. Retag(new)
    BY <1>3 DEF ToggleTag
  <2> HIDE DEF new
  <2> QED BY <2>2, <2>3, RetagStep
<1> QED BY <1>1, <1>2, <1>3, ViewGoes, TagMonStep, FocusMonStep DEF TagStep

(* Requests name any output.  In a session that keeps the focus on the top  *)
(* window of the selected output they must name that one.                   *)
LEMMA IpcGoes ==
  ASSUME NEW k, k # "layouts", DeskInv(k, State), IpcStep,
         k = "desktop" => \A m \in Monitors :
                            out[m].power # "gone" \/ Focustop(State, m) # NoClient => m = selmon
  PROVE  DeskInv(k, State')
<1> USE StateFieldsAre
<1>0. Sound(State) /\ State \in StateType
  BY BaseMapped DEF DeskInv
<1>1. ASSUME NEW m \in Monitors, NEW tags \in TagArgs, NEW toggle \in BOOLEAN,
             IpcSetTags(m, tags, toggle)
      PROVE  DeskInv(k, State')
  <2> DEFINE j == IF toggle THEN 3 - out[m].seltags ELSE out[m].seltags
             t == Refresh(SetTagset(State, m, j, tags), m)
  <2>1. out[m] \in MonitorType /\ out[m].power # "gone"
    BY <1>0, <1>1, StateFields DEF IpcSetTags
  <2>2. j \in 1 .. 2
    BY <2>1 DEF MonitorType
  <2>3. tags \in SUBSET Tags
    BY ConstantsAssumption
  <2>4. Become(t)
    BY <1>1 DEF IpcSetTags
  <2> HIDE DEF j
  <2>5. Goes(k, State, t)
    BY <2>1, <2>2, <2>3, RetagOutputGoes
  <2> HIDE DEF t
  <2> QED BY <2>4, <2>5, GoesBecomes
<1>2. ASSUME NEW m \in Monitors, NEW and \in TagArgs, NEW xor \in TagArgs,
             IpcSetClientTags(m, and, xor)
      PROVE  DeskInv(k, State')
  <2> DEFINE top == Focustop(State, m)
             new == SymDiff(win[top].tags \cap and, xor)
             t == Refresh([State EXCEPT !.win[top].tags = new], m)
  <2>1. top # NoClient /\ Become(t)
    BY <1>2 DEF IpcSetClientTags
  <2>2. top \in ToSet(clients) /\ win[top].mon = m
    BY <1>0, <2>1, FocustopIs
  <2>3. new \in SUBSET Tags
    BY ConstantsAssumption DEF SymDiff
  <2>4. k = "desktop" => m = selmon
    BY <2>1
  <2> HIDE DEF top, new
  <2>5. Goes(k, State, t)
    BY <2>2, <2>3, <2>4, TopTagsGo
  <2> HIDE DEF t
  <2> QED BY <2>1, <2>5, GoesBecomes
<1>3. ASSUME NEW m \in Monitors, NEW l \in LayoutArgs, IpcSetLayout(m, l)
      PROVE  DeskInv(k, State')
  <2> DEFINE t == Arrange(WithLayout(State, m, l), m)
  <2>1. Goes(k, State, t)
    BY WithLayoutGoes
  <2>2. Become(t)
    BY <1>3 DEF IpcSetLayout
  <2> HIDE DEF t
  <2> QED BY <2>1, <2>2, GoesBecomes
<1> QED BY <1>1, <1>2, <1>3 DEF IpcStep

LEMMA TagsStepKeeps ==
  ASSUME NEW k, k # "layouts", DeskInv(k, State), TagsNext,
         k = "desktop" => \A m \in Monitors :
                            out[m].power # "gone" \/ Focustop(State, m) # NoClient => m = selmon
  PROVE  DeskInv(k, State')
BY PlugGoes, WindowsGo, CommitGoes, TagsGo, IpcGoes DEF TagsNext

(* Tags set by keybindings and requests, in any order with windows and      *)
(* outputs coming: the lists stay in step, every lit output shows only the  *)
(* windows of its tags, and the focus is the top window of its output.      *)
THEOREM TagsInvariant == TagsSpec => []StateInv("tags")
<1>1. Init => StateInv("tags")
  BY InitGoes DEF StateInv
<1>2. StateInv("tags") /\ [TagsNext]_vars => StateInv("tags")'
  <2> SUFFICES ASSUME DeskInv("tags", State), [TagsNext]_vars PROVE DeskInv("tags", State')
    BY DEF StateInv
  <2>1. CASE TagsNext
    <3> DEFINE k == "tags"
    <3>1. DeskInv(k, State) /\ k # "layouts" /\ k # "desktop"
      OBVIOUS
    <3> HIDE DEF k
    <3>2. DeskInv(k, State')
      BY <2>1, <3>1, TagsStepKeeps
    <3> QED BY <3>2 DEF k
  <2>2. CASE UNCHANGED vars
    <3>1. State' = State
      BY <2>2 DEF State, vars
    <3> QED BY <3>1
  <2> QED BY <2>1, <2>2
<1> QED BY <1>1, <1>2, PTL DEF TagsSpec

(* A step whose outcome is as good as this session asks for.                *)
LEMMA KeepsBecomes ==
  ASSUME NEW k, NEW t, DeskInv(k, t), Become(t)
  PROVE  DeskInv(k, State')
<1>1. t \in StateType
  BY BaseMapped DEF DeskInv
<1> QED BY <1>1, BecomeState

LEMMA FullscreenNotifyGoes ==
  ASSUME NEW k, DeskInv(k, State), AnyFullscreenNotify
  PROVE  DeskInv(k, State')
<1>1. PICK c \in Clients, b \in BOOLEAN : FullscreenNotify(c, b)
  BY DEF AnyFullscreenNotify
<1>2. DeskInv(k, SetFullscreen(State, c, b)) /\ Become(SetFullscreen(State, c, b))
  BY <1>1, SetFullscreenGoes DEF FullscreenNotify
<1> QED BY <1>2, KeepsBecomes

LEMMA SelectedPlugged ==
  ASSUME NEW k, DeskInv(k, State), selmon # NoMon
  PROVE  selmon \in Monitors
BY BaseMapped, StateFields, StateFieldsAre DEF DeskInv

LEMMA SwapDirGoes ==
  ASSUME NEW k, k # "desktop", DeskInv(k, State), NEW rearranged \in BOOLEAN, SwapDir(rearranged)
  PROVE  DeskInv(k, State')
<1> USE StateFieldsAre
<1> DEFINE a == IF rearranged THEN Arrange(State, selmon) ELSE State
           t == FocusClient(a, Sel)
<1>1. Sound(State) /\ Sel \in ToSet(clients) /\ Shows(State, selmon, win[Sel])
  BY BaseMapped DEF SwapDir, Tileable, DeskInv
<1>2. /\ selmon \in Monitors /\ win[Sel].mon = selmon /\ VisibleOn(State, Sel, selmon)
      /\ Sel \in Clients
  BY <1>1, SoundFacts, StateFields DEF Shows, VisibleOn
<1>3. /\ DeskInv(k, a) /\ a.clients = clients
      /\ a.win[Sel].mon = selmon /\ VisibleOn(a, Sel, selmon)
      /\ Focustop(a, selmon) = Sel
  <2>1. CASE rearranged
    <3> DEFINE b == Arrange(State, selmon)
    <3>1. DeskInv(k, b)
      BY <1>2, ArrangeGoes
    <3>2. Viewed(State, b) /\ Focustop(b, selmon) = Sel
      BY <1>1, <1>2, ArrangeViewed DEF Sel
    <3> HIDE DEF b
    <3>3. b.clients = clients /\ SamePlace(win[Sel], b.win[Sel]) /\ SameButTree(out[selmon], b.out[selmon])
      BY <1>2, <3>2 DEF Viewed
    <3>4. /\ b.win[Sel].mon = win[Sel].mon /\ b.win[Sel].tags = win[Sel].tags
          /\ b.win[Sel].isscratchpad = win[Sel].isscratchpad
      BY <3>3 DEF SamePlace
    <3>5. VisibleOn(b, Sel, selmon)
      BY <1>2, <3>3, <3>4, VisibleAlike
    <3>6. a = b
      BY <2>1 DEF b
    <3> QED BY <1>2, <3>1, <3>2, <3>3, <3>4, <3>5, <3>6
  <2>2. CASE ~ rearranged
    BY <1>1, <1>2, <2>2 DEF Sel
  <2> QED BY <2>1, <2>2
<1>4. Become(t)
  BY DEF SwapDir
<1> HIDE DEF a
<1>5. DeskInv(k, t)
  <2>1. k = "front" => TopShown(a, selmon)
    BY <1>2, <1>3 DEF DeskInv, Fine
  <2>2. Sel # NoClient
    BY <1>2, ConstantsAssumption
  <2> QED BY <1>1, <1>3, <2>1, <2>2, FocusGoes DEF TopShown
<1> HIDE DEF t
<1> QED BY <1>4, <1>5, KeepsBecomes

(* A window of a monocle output is focused and then shown: until the output *)
(* is rearranged another may be on display.                                 *)
LEMMA FocusArrangeGoes ==
  ASSUME NEW k, k # "desktop", NEW s, DeskInv(k, s), NEW c \in ToSet(s.clients),
         NEW m \in Monitors, s.win[c].mon = m, VisibleOn(s, c, m)
  PROVE  DeskInv(k, Arrange(FocusClient(s, c), m))
<1> DEFINE a == FocusClient(s, c)
           t == Arrange(a, m)
<1>1. CASE k # "front"
  <2>1. DeskInv(k, a)
    BY <1>1, FocusGoes
  <2> HIDE DEF a
  <2>2. DeskInv(k, t)
    BY <2>1, ArrangeGoes
  <2> QED BY <2>2 DEF a
<1>2. CASE k = "front"
  <2> DEFINE j == "tags"
  <2>1. DeskInv(j, s)
    BY <1>2, FrontIs
  <2>2. j # "desktop" /\ j # "front"
    OBVIOUS
  <2>3. Sound(s) /\ c \in Clients /\ c # NoClient
    BY BaseMapped, SoundFacts, ConstantsAssumption DEF DeskInv
  <2>4. /\ Sound(a) /\ a.win = s.win
        /\ \A n \in Monitors : Alike(s, a, n)
        /\ \A n \in Monitors : n # m => Focustop(a, n) = Focustop(s, n)
    BY <2>3, FocusClientDoes, FocusViewed DEF VisibleOn, Shows
  <2> HIDE DEF j
  <2>5. DeskInv(j, a)
    BY <2>1, <2>2, FocusGoes
  <2> HIDE DEF a
  <2>6. DeskInv(j, t)
    BY <2>5, ArrangeGoes
  <2>7. Viewed(a, t) /\ Scene(t, m) /\ \A n \in Monitors : n # m => SameView(a, t, n)
    BY <2>4, ArrangeViewed
  <2> HIDE DEF t
  <2>8. Sound(t)
    BY <2>7 DEF Viewed
  <2>9. ASSUME NEW n \in Monitors PROVE Fine(k, t, n)
    <3>1. CASE n = m
      BY <2>7, <2>8, <3>1, SceneFine
    <3>2. CASE n # m
      <4>1. SameView(s, a, n)
        BY <2>4, <3>2 DEF Alike, SameView
      <4>2. SameView(s, t, n)
        BY <2>7, <3>2, <4>1, SameViewTrans
      <4> QED BY <2>3, <2>8, <4>2, FineView DEF DeskInv
    <3> QED BY <3>1, <3>2
  <2>10. \A n \in Monitors : TopShown(t, n)
    BY <1>2, <2>9 DEF Fine
  <2> QED BY <1>2, <2>6, <2>10, FrontIs DEF j, t, a
<1> QED BY <1>1, <1>2

LEMMA LayoutsGo ==
  ASSUME NEW k, k # "desktop", DeskInv(k, State), LayoutStep
  PROVE  DeskInv(k, State')
<1> USE StateFieldsAre
<1>0. Sound(State) /\ State \in StateType
  BY BaseMapped DEF DeskInv
<1>1. ASSUME ToggleGaps PROVE DeskInv(k, State')
  <2>1. DeskInv(k, Arrange(State, selmon)) /\ Become(Arrange(State, selmon))
    BY <1>1, SelectedPlugged, ArrangeGoes DEF ToggleGaps
  <2> QED BY <2>1, KeepsBecomes
<1>2. ASSUME ToggleFloating PROVE DeskInv(k, State')
  <2> DEFINE b == ~ win[Sel].isfloating
             t == SetFloating(State, Sel, b)
  <2>1. Sel \in ToSet(clients) /\ b \in BOOLEAN
    BY <1>2, SelIs DEF ToggleFloating
  <2>2. Become(t)
    BY <1>2 DEF ToggleFloating
  <2> HIDE DEF b
  <2>3. DeskInv(k, t)
    BY <2>1, SetFloatingGoes
  <2> HIDE DEF t
  <2> QED BY <2>2, <2>3, KeepsBecomes
<1>3. ASSUME ToggleFullscreen PROVE DeskInv(k, State')
  <2> DEFINE b == ~ win[Sel].isfullscreen
             t == SetFullscreen(State, Sel, b)
  <2>1. Sel \in Clients /\ b \in BOOLEAN
    BY <1>3, SelIs DEF ToggleFullscreen
  <2>2. Become(t)
    BY <1>3 DEF ToggleFullscreen
  <2> HIDE DEF b
  <2>3. DeskInv(k, t)
    BY <2>1, SetFullscreenGoes
  <2> HIDE DEF t
  <2> QED BY <2>2, <2>3, KeepsBecomes
<1>4. ASSUME NEW l \in LayoutArgs, SetLayout(l) PROVE DeskInv(k, State')
  <2> DEFINE t == Arrange(Untile(WithLayout(State, selmon, l), selmon), selmon)
  <2>1. Goes(k, State, t)
    BY <1>4, SelectedPlugged, WithLayoutGoes DEF SetLayout
  <2>2. Become(t)
    BY <1>4 DEF SetLayout
  <2> HIDE DEF t
  <2> QED BY <2>1, <2>2, GoesBecomes
<1>5. ASSUME ToggleLayout PROVE DeskInv(k, State')
  <2> DEFINE t == Arrange(Untile([State EXCEPT
                    !.out[selmon].sellt[CurrentTag(State, selmon)] = 3 - @], selmon), selmon)
  <2>1. Goes(k, State, t)
    BY <1>5, SelectedPlugged, ToggleLayoutGoes DEF ToggleLayout
  <2>2. Become(t)
    BY <1>5 DEF ToggleLayout
  <2> HIDE DEF t
  <2> QED BY <2>1, <2>2, GoesBecomes
<1>6. ASSUME NEW forward \in BOOLEAN, FocusDirMonocle(forward) PROVE DeskInv(k, State')
  <2> DEFINE c == Cycle(clients, Tileable(State, selmon), Sel, forward)
             a == FocusClient(State, c)
             t == Arrange(a, selmon)
  <2>1. selmon \in Monitors
    BY <1>6, SelIs DEF FocusDirMonocle
  <2>2. Tileable(State, selmon) \subseteq ToSet(clients) /\ Tileable(State, selmon) # {}
    BY <1>6 DEF FocusDirMonocle, Tileable
  <2>3. clients \in Seq(Clients)
    BY <1>0, StateFields
  <2>4. c \in ToSet(clients) \cap Tileable(State, selmon)
    BY <2>2, <2>3, CycleFinds
  <2>5. Become(t)
    BY <1>6 DEF FocusDirMonocle
  <2> HIDE DEF c
  <2>6. c \in ToSet(clients) /\ win[c].mon = selmon /\ VisibleOn(State, c, selmon)
    BY <2>4 DEF Tileable, Shows, VisibleOn
  <2>7. DeskInv(k, t)
    BY <2>1, <2>6, FocusArrangeGoes
  <2> HIDE DEF t
  <2> QED BY <2>5, <2>7, KeepsBecomes
<1>7. ASSUME NEW c \in Clients, FocusDirSpatial(c) PROVE DeskInv(k, State')
  <2>1. /\ c \in ToSet(clients) /\ VisibleOn(State, c, selmon)
        /\ Become(FocusClient(State, c))
    BY <1>7 DEF FocusDirSpatial
  <2>2. win[c].mon = selmon
    BY <2>1 DEF VisibleOn, Shows
  <2>3. Enabled(State, selmon) => win[c].enabled
    <3>1. selmon \in Monitors /\ CurLayout(State, selmon) # "monocle"
      BY <1>7, SelIs DEF FocusDirSpatial
    <3>2. LaxScene(State, selmon)
      BY <3>1, InvLax
    <3> QED BY <2>1, <2>2, <3>1, <3>2 DEF LaxScene, LaxShown, Stacked
  <2>4. DeskInv(k, FocusClient(State, c))
    BY <2>1, <2>2, <2>3, FocusGoes
  <2> QED BY <2>1, <2>4, KeepsBecomes
<1> QED BY <1>1, <1>2, <1>3, <1>4, <1>5, <1>6, <1>7, SwapDirGoes DEF LayoutStep

(* Some output of the layout is under the pointer: a lit one while there is *)
(* one.                                                                     *)
LEMMA CursorIs ==
  ASSUME NEW m \in CursorOn
  PROVE  m \in Somewhere(State) /\ ((\E n \in Monitors : Enabled(State, n)) => m # NoMon)
BY DEF CursorOn

LEMMA PointToGoes ==
  ASSUME NEW k, k # "desktop", DeskInv(k, State), NEW m, NEW c, Under(m, c)
  PROVE  DeskInv(k, PointTo(m, c))
<1> USE StateFieldsAre
<1> DEFINE a == [State EXCEPT !.selmon = m]
<1>1. m \in CursorOn /\ c \in Hit
  BY DEF Under
<1>2. DeskInv(k, a)
  BY <1>1, CursorIs, SelectGoes
<1>3. a.win = win
  OBVIOUS
<1>4. PointTo(m, c) = IF c = NoClient THEN a ELSE FocusClient(a, c)
  BY DEF PointTo
<1> HIDE DEF a
<1>5. CASE c = NoClient
  BY <1>2, <1>4, <1>5
<1>6. CASE c # NoClient
  <2>1. c \in Clients /\ a.win[c].enabled
    BY <1>1, <1>3, <1>6 DEF Hit
  <2>2. c \in ToSet(a.clients) /\ VisibleOn(a, c, a.win[c].mon)
    BY <1>2, <2>1, EnabledVisible
  <2>3. DeskInv(k, FocusClient(a, c))
    BY <1>2, <2>1, <2>2, FocusGoes
  <2> QED BY <1>4, <1>6, <2>3
<1> QED BY <1>5, <1>6

LEMMA UngrabGoes ==
  ASSUME NEW k, NEW s, DeskInv(k, s)
  PROVE  DeskInv(k, [s EXCEPT !.grab = NoGrab])
<1> DEFINE g == NoGrab
<1>1. g \in [mode : CursorModes, client : Clients \cup {NoClient}] /\ g = NoGrab
  BY DEF NoGrab, CursorModes
<1> HIDE DEF g
<1>2. DeskInv(k, [s EXCEPT !.grab = g])
  BY <1>1, GrabGoes
<1> QED BY <1>1, <1>2

LEMMA MoveResizeGoes ==
  ASSUME NEW k, k # "desktop", DeskInv(k, State),
         NEW mode \in {"CurMove", "CurResize"}, NEW c \in Clients, MoveResize(mode, c)
  PROVE  DeskInv(k, State')
<1> USE StateFieldsAre
<1>1. c \in ToSet(clients) /\ win[c].mon \in Monitors /\ VisibleOn(State, c, win[c].mon)
  BY EnabledVisible DEF MoveResize
<1>2. CASE TileDrags(mode, c)
  <2> DEFINE g == [mode |-> "CurTileDrag", client |-> c]
             t == [State EXCEPT !.grab = g]
  <2>1. g \in [mode : CursorModes, client : Clients \cup {NoClient}] /\ g.client = c
    BY DEF CursorModes
  <2>2. Become(t)
    BY <1>2 DEF MoveResize
  <2> HIDE DEF g
  <2>3. DeskInv(k, t)
    BY <1>1, <2>1, GrabGoes
  <2> HIDE DEF t
  <2> QED BY <2>2, <2>3, KeepsBecomes
<1>3. CASE ~ TileDrags(mode, c)
  <2> DEFINE b == TRUE
             a == SetFloating(State, c, b)
             g == [mode |-> mode, client |-> c]
             t == [a EXCEPT !.grab = g]
  <2>1. /\ g \in [mode : CursorModes, client : Clients \cup {NoClient}]
        /\ g.client = c /\ g.mode # "CurTileDrag"
    BY DEF CursorModes
  <2>2. Become(t)
    BY <1>3 DEF MoveResize
  <2>3. b \in BOOLEAN
    OBVIOUS
  <2> HIDE DEF g, b
  <2>4. DeskInv(k, a)
    BY <1>1, <2>3, SetFloatingGoes
  <2>5. a.clients = clients
    <3>1. Sound(State) /\ AllMapped(State)
      BY BaseMapped DEF DeskInv
    <3>2. Changed(State, a, c)
      BY <1>1, <2>3, <3>1, SetFloatingDoes DEF AllMapped
    <3> HIDE DEF a
    <3> QED BY <3>2 DEF Changed
  <2> HIDE DEF a
  <2>6. DeskInv(k, t)
    BY <1>1, <2>1, <2>4, <2>5, GrabGoes
  <2> HIDE DEF t
  <2> QED BY <2>2, <2>6, KeepsBecomes
<1> QED BY <1>2, <1>3

LEMMA DropTileGoes ==
  ASSUME NEW k, k = "layouts", DeskInv(k, State), NEW target, DropTile(target)
  PROVE  DeskInv(k, State')
<1> USE StateFieldsAre
<1> DEFINE a == IF SwapsWith(target) THEN FocusClient(State, grab.client) ELSE State
           t == [a EXCEPT !.grab = NoGrab]
<1>1. /\ grab.mode = "CurTileDrag" /\ Become(t)
  BY DEF DropTile
<1>2. Base(State) /\ Lit(k, State)
  BY DEF DeskInv
<1>3. grab.client \in ToSet(clients)
  BY <1>1, <1>2 DEF Lit, Base, WindowsListed
<1>4. VisibleOn(State, grab.client, win[grab.client].mon)
  BY <1>1, <1>2 DEF Lit, DragInView
<1>5. DeskInv(k, FocusClient(State, grab.client))
  BY <1>3, <1>4, FocusGoes
<1>6. DeskInv(k, a)
  BY <1>5
<1> HIDE DEF a
<1>7. DeskInv(k, t)
  BY <1>6, UngrabGoes
<1> HIDE DEF t
<1> QED BY <1>1, <1>7, KeepsBecomes

LEMMA PointerGoes ==
  ASSUME NEW k, k # "desktop", DeskInv(k, State), PointerStep,
         k = "layouts" \/ grab.mode # "CurTileDrag"
  PROVE  DeskInv(k, State')
<1> USE StateFieldsAre
<1>1. ASSUME NEW m, NEW c, ButtonPress(m, c) PROVE DeskInv(k, State')
  <2> DEFINE a == PointTo(m, c)
             t == [a EXCEPT !.grab = NoGrab]
  <2>1. DeskInv(k, a)
    BY <1>1, PointToGoes DEF ButtonPress
  <2>2. Become(t)
    BY <1>1 DEF ButtonPress
  <2> HIDE DEF a
  <2>3. DeskInv(k, t)
    BY <2>1, UngrabGoes
  <2> HIDE DEF t
  <2> QED BY <2>2, <2>3, KeepsBecomes
<1>2. ASSUME NEW m, NEW c, PointerMotion(m, c) PROVE DeskInv(k, State')
  <2>1. DeskInv(k, PointTo(m, c)) /\ Become(PointTo(m, c))
    BY <1>2, PointToGoes DEF PointerMotion
  <2> QED BY <2>1, KeepsBecomes
<1>3. ASSUME NEW m, DropWindow(m) PROVE DeskInv(k, State')
  <2> DEFINE a == SetMon([State EXCEPT !.selmon = m], grab.client, m, {})
             t == [a EXCEPT !.grab = NoGrab]
  <2>1. m \in CursorOn /\ grab.mode \in {"CurMove", "CurResize"} /\ Become(t)
    BY <1>3 DEF DropWindow
  <2>2. DeskInv(k, a)
    BY <2>1, CursorIs, DropGoes
  <2> HIDE DEF a
  <2>3. DeskInv(k, t)
    BY <2>2, UngrabGoes
  <2> HIDE DEF t
  <2> QED BY <2>1, <2>3, KeepsBecomes
<1>4. ASSUME NEW c, DropTile(c) PROVE DeskInv(k, State')
  <2>1. k = "layouts"
    BY <1>4 DEF DropTile
  <2> QED BY <1>4, <2>1, DropTileGoes
<1> QED BY <1>1, <1>2, <1>3, <1>4, MoveResizeGoes DEF PointerStep

(* Layouts, floating, fullscreen and dragged windows, in any order and with *)
(* the pointer anywhere: every lit output shows windows of its tags and no  *)
(* other, the dwindle trees hold the tiled ones, and the focus is the top   *)
(* window of its output.                                                    *)
THEOREM LayoutsInvariant == LayoutsSpec => []StateInv("layouts")
<1>1. Init => StateInv("layouts")
  BY InitGoes DEF StateInv
<1>2. StateInv("layouts") /\ [LayoutsNext]_vars => StateInv("layouts")'
  <2> SUFFICES ASSUME DeskInv("layouts", State), [LayoutsNext]_vars
               PROVE  DeskInv("layouts", State')
    BY DEF StateInv
  <2>1. CASE LayoutsNext
    <3> DEFINE k == "layouts"
    <3>1. DeskInv(k, State) /\ k = "layouts" /\ k # "desktop"
      OBVIOUS
    <3> HIDE DEF k
    <3>2. DeskInv(k, State')
      BY <2>1, <3>1, PlugGoes, WindowsGo, FullscreenNotifyGoes, LayoutsGo, PointerGoes
         DEF LayoutsNext
    <3> QED BY <3>2 DEF k
  <2>2. CASE UNCHANGED vars
    <3>1. State' = State
      BY <2>2 DEF State, vars
    <3> QED BY <3>1
  <2> QED BY <2>1, <2>2
<1> QED BY <1>1, <1>2, PTL DEF LayoutsSpec

(* Whatever output a request names and however tags are toggled, no lit     *)
(* output shows a window that is not in view, nor hides one that is.        *)
THEOREM TagsSceneShowsTags == TagsSpec => []SceneShowsTags
<1>1. StateInv("tags") => SceneShowsTags
  BY InvSceneShowsTags DEF StateInv
<1> QED BY TagsInvariant, <1>1, PTL

(* With several outputs, a request that names another output than the       *)
(* selected one moves the focus there; it is still never on a window that   *)
(* is covered, moved or closed.                                             *)
THEOREM TagsTopFocus == TagsSpec => []TopFocus
<1>1. StateInv("tags") => TopFocus
  BY InvTopFocus DEF StateInv
<1> QED BY TagsInvariant, <1>1, PTL

(* With one output, requests and keybindings leave the focus on the topmost *)
(* window in view, and it is on display.                                    *)
THEOREM TagsFocusFollows ==
  ASSUME \A m, n \in Monitors : m = n
  PROVE  TagsSpec => []FocusFollows
<1> DEFINE I == StateInv("tags") /\ StateInv("desktop")
<1>1. Init => I
  BY InitGoes DEF StateInv
<1>2. I /\ [TagsNext]_vars => I'
  <2> SUFFICES ASSUME DeskInv("tags", State), DeskInv("desktop", State), [TagsNext]_vars
               PROVE  DeskInv("tags", State') /\ DeskInv("desktop", State')
    BY DEF StateInv
  <2> USE StateFieldsAre
  <2>1. CASE TagsNext
    <3>1. \A m \in Monitors : out[m].power # "gone" \/ Focustop(State, m) # NoClient => m = selmon
      <4>1. Lit("tags", State) /\ Sound(State) /\ State \in StateType
        BY BaseMapped DEF DeskInv
      <4>2. ASSUME NEW m \in Monitors, Focustop(State, m) # NoClient PROVE out[m].power # "gone"
        <5>1. Focustop(State, m) \in ToSet(State.clients) /\ win[Focustop(State, m)].mon = m
          BY <4>1, <4>2, FocustopIs
        <5> QED BY <4>1, <5>1, ConstantsAssumption DEF Lit, Housed
      <4>3. ASSUME NEW m \in Monitors, out[m].power # "gone" PROVE m = selmon
        <5>1. selmon # NoMon
          BY <4>1, <4>3 DEF Lit
        <5>2. selmon \in Monitors
          BY <4>1, <5>1, StateFields
        <5> QED BY <5>2
      <4> QED BY <4>2, <4>3
    <3>2. DeskInv("tags", State')
      <4> DEFINE k == "tags"
      <4>1. DeskInv(k, State) /\ k # "layouts" /\ k # "desktop"
        OBVIOUS
      <4> HIDE DEF k
      <4>2. DeskInv(k, State')
        BY <2>1, <4>1, TagsStepKeeps
      <4> QED BY <4>2 DEF k
    <3>3. DeskInv("desktop", State')
      <4> DEFINE k == "desktop"
      <4>1. DeskInv(k, State) /\ k # "layouts"
        OBVIOUS
      <4> HIDE DEF k
      <4>2. DeskInv(k, State')
        BY <2>1, <3>1, <4>1, TagsStepKeeps
      <4> QED BY <4>2 DEF k
    <3> QED BY <3>2, <3>3
  <2>2. CASE UNCHANGED vars
    <3>1. State' = State
      BY <2>2 DEF State, vars
    <3> QED BY <3>1
  <2> QED BY <2>1, <2>2
<1>3. I => FocusFollows
  BY InvFocusFollows DEF StateInv
<1> QED BY <1>1, <1>2, <1>3, PTL DEF TagsSpec

(* Wherever the pointer goes and whatever is dragged, the focused window is *)
(* the topmost one in view on its own output.                               *)
THEOREM LayoutsTopFocus == LayoutsSpec => []TopFocus
<1>1. StateInv("layouts") => TopFocus
  BY InvTopFocus DEF StateInv
<1> QED BY LayoutsInvariant, <1>1, PTL

(* The dwindle tree of the tag in view has a leaf for every window it tiles *)
(* and none for a window that is hidden, floating, elsewhere or closed.     *)
THEOREM LayoutsLeavesAreTiled == LayoutsSpec => []LeavesAreTiled
<1>1. StateInv("layouts") => LeavesAreTiled
  BY InvLeavesAreTiled DEF StateInv
<1> QED BY LayoutsInvariant, <1>1, PTL

(* What a step leaves in front of its output is what it leaves there on     *)
(* display, when that was so before and the step does not end a tile drag.  *)
LEMMA FrontStays ==
  ASSUME DeskInv("front", State), LayoutsNext, grab.mode # "CurTileDrag"
  PROVE  DeskInv("front", State')
<1> DEFINE k == "front"
<1>1. DeskInv(k, State) /\ k # "desktop"
  OBVIOUS
<1> HIDE DEF k
<1>2. DeskInv(k, State')
  BY <1>1, PlugGoes, WindowsGo, FullscreenNotifyGoes, LayoutsGo, PointerGoes DEF LayoutsNext
<1> QED BY <1>2 DEF k

LEMMA FrontShowsFocus ==
  ASSUME NEW s, DeskInv("front", s), s.focus # NoClient, Enabled(s, s.win[s.focus].mon)
  PROVE  s.win[s.focus].enabled
<1>1. /\ s.focus \in Clients /\ s.focus = Focustop(s, s.win[s.focus].mon)
      /\ Sound(s)
  BY BaseMapped DEF DeskInv, Focused, TopFocused
<1>2. s.win[s.focus].mon \in Monitors
  BY <1>1, StateFields DEF Sound, Enabled, WindowType
<1>3. TopShown(s, s.win[s.focus].mon)
  BY <1>2 DEF DeskInv, Fine
<1> QED BY <1>1, <1>3 DEF TopShown

(* With one output, no step of bindings, listeners or pointer hides the     *)
(* focused window or focuses a hidden one, but the end of a tile drag.      *)
THEOREM LayoutsFocusStaysShown ==
  ASSUME \A m, n \in Monitors : m = n
  PROVE  LayoutsSpec => FocusStaysShown
<1> DEFINE Quietly == FocusShown /\ grab.mode # "CurTileDrag" => FocusShown'
<1>1. StateInv("layouts") /\ [LayoutsNext]_vars => [Quietly]_vars
  <2> SUFFICES ASSUME DeskInv("layouts", State), LayoutsNext, FocusShown,
                      grab.mode # "CurTileDrag"
               PROVE  FocusShown'
    BY DEF StateInv
  <2> USE StateFieldsAre
  <2>1. FocusTop(State) /\ Sound(State) /\ State \in StateType
    BY BaseMapped DEF DeskInv, Focused, OneOutput
  <2>2. ASSUME NEW m \in Monitors PROVE TopShown(State, m)
    <3> DEFINE c == Focustop(State, m)
    <3> SUFFICES ASSUME Enabled(State, m), c # NoClient PROVE win[c].enabled
      BY DEF TopShown
    <3>1. c \in Clients /\ win[c].mon = m
      BY <2>1, FocustopIs
    <3>2. selmon \in Monitors
      <4>1. selmon # NoMon
        BY DEF DeskInv, Lit, Enabled
      <4> QED BY <2>1, <4>1, StateFields
    <3>3. focus = c
      BY <2>1, <3>2 DEF FocusTop
    <3> HIDE DEF c
    <3> QED BY <3>1, <3>3 DEF FocusShown
  <2>3. DeskInv("tags", State)
    BY DEF DeskInv, Fine, Focused, Lit
  <2>4. DeskInv("front", State')
    BY <2>2, <2>3, FrontIs, FrontStays
  <2>5. /\ State'.focus = focus' /\ State'.win = win'
        /\ \A m : Enabled(State, m)' <=> Enabled(State', m)
    BY DEF State, Enabled
  <2> QED BY <2>4, <2>5, FrontShowsFocus DEF FocusShown
<1> QED BY <1>1, LayoutsInvariant, PTL DEF LayoutsSpec, FocusStaysShown

(* A lit output in the monocle layout never shows two tiled windows.        *)
THEOREM LayoutsMonocleShowsOne == LayoutsSpec => []MonocleShowsOne
<1>1. StateInv("layouts") => MonocleShowsOne
  BY InvMonocleShowsOne DEF StateInv
<1> QED BY LayoutsInvariant, <1>1, PTL

(* In a session of windows without a parent every layer follows from the    *)
(* window's state and its output's layout.                                  *)
LEMMA InvLayerFollowsState ==
  ASSUME NEW k, DeskInv(k, State), \A c \in Clients : ParentOf[c] = NoClient
  PROVE  LayerFollowsState
<1> USE StateFieldsAre
<1> SUFFICES ASSUME NEW c \in ToSet(clients), Enabled(State, win[c].mon), ~ win[c].isscratchpad
             PROVE  /\ win[c].layer = "LyrFS" <=> win[c].isfullscreen
                    /\ ~ win[c].isfullscreen /\ ~ win[c].isfloating => win[c].layer = "LyrTile"
                    /\ ~ win[c].isfullscreen /\ win[c].isfloating =>
                         win[c].layer = IF CurLayout(State, win[c].mon) = "floating"
                                        THEN "LyrTile" ELSE "LyrFloat"
  BY DEF LayerFollowsState
<1> DEFINE m == win[c].mon
           w == win[c]
<1>1. /\ Base(State) /\ c \in Clients /\ w \in WindowType /\ m # NoMon /\ m \in Monitors
      /\ w.status = "mapped"
  BY BaseMapped, SoundFacts, StateFields DEF DeskInv, AllMapped, Enabled, WindowType
<1>2. Fits(c, w)
  BY <1>1 DEF Base, LayersFit
<1>3. LaxScene(State, m)
  BY <1>1, SceneLax DEF DeskInv, Fine
<1>4. w.layer = ArrangedLayer(w, CurLayout(State, m))
  BY <1>3 DEF LaxScene, Layered
<1>5. w.layer = "LyrFS" <=> w.isfullscreen
  BY <1>1, <1>2 DEF Fits
<1>6. ~ w.isfullscreen /\ ~ w.isfloating => w.layer = "LyrTile"
  BY <1>1, <1>2, <1>5 DEF Fits
<1> DEFINE l == CurLayout(State, m)
<1> HIDE DEF l
<1>7. ~ w.isfullscreen /\ w.isfloating =>
        w.layer = IF l = "floating" THEN "LyrTile" ELSE "LyrFloat"
  <2>1. w.layer = ArrangedLayer(w, l)
    BY <1>4 DEF l
  <2> HIDE DEF w
  <2> QED BY <1>5, <2>1 DEF ArrangedLayer, w
<1> QED BY <1>5, <1>6, <1>7 DEF l

(* Whatever floats, goes fullscreen, is dragged or changes layout, every    *)
(* window on a lit output lies on the scene layer of its state, when no     *)
(* window has a parent (a fullscreen parent lifts its dialogs, below).      *)
THEOREM LayoutsLayerFollowsState ==
  ASSUME \A c \in Clients : ParentOf[c] = NoClient
  PROVE  LayoutsSpec => []LayerFollowsState
<1>1. StateInv("layouts") => LayerFollowsState
  BY InvLayerFollowsState DEF StateInv
<1> QED BY LayoutsInvariant, <1>1, PTL

(* updatemons() settles the outputs at the first call: called again, as it  *)
(* is for the change of layout it makes itself, it moves no window, focus,  *)
(* selection or scene node, whatever the outputs and windows were.          *)
THEOREM DesktopUpdateMonsSettles == DesktopSpec => []UpdateMonsSettles
<1>1. StateInv("desktop") => UpdateMonsSettles
  BY InvUpdateMonsSettles DEF StateInv
<1> QED BY DesktopInvariant, <1>1, PTL

(* The same in sessions of outputs and of tags.                             *)
THEOREM DesktopLayerFollowsState ==
  ASSUME \A c \in Clients : ParentOf[c] = NoClient
  PROVE  (DesktopSpec => []LayerFollowsState) /\ (TagsSpec => []LayerFollowsState)
<1>1. StateInv("desktop") => LayerFollowsState
  BY InvLayerFollowsState DEF StateInv
<1>2. StateInv("tags") => LayerFollowsState
  BY InvLayerFollowsState DEF StateInv
<1>3. DesktopSpec => []LayerFollowsState
  BY DesktopInvariant, <1>1, PTL
<1>4. TagsSpec => []LayerFollowsState
  BY TagsInvariant, <1>2, PTL
<1> QED BY <1>3, <1>4

(* The lists stay in step in sessions of tags and of layouts too, and no    *)
(* window is without an output while one is selected.                       *)
THEOREM SessionsSound ==
  /\ TagsSpec => [](TypeOK /\ NoOrphans)
  /\ LayoutsSpec => [](TypeOK /\ NoOrphans)
<1>1. StateInv("tags") => TypeOK /\ NoOrphans
  BY InvTypeOK, InvNoOrphans DEF StateInv
<1>2. StateInv("layouts") => TypeOK /\ NoOrphans
  BY InvTypeOK, InvNoOrphans DEF StateInv
<1>3. TagsSpec => [](TypeOK /\ NoOrphans)
  BY TagsInvariant, <1>1, PTL
<1>4. LayoutsSpec => [](TypeOK /\ NoOrphans)
  BY LayoutsInvariant, <1>2, PTL
<1> QED BY <1>3, <1>4
=============================================================================
