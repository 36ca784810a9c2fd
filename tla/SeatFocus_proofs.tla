------------------------- MODULE SeatFocus_proofs -------------------------
(***************************************************************************)
(* Proofs about SeatFocus for any windows, layer surfaces and outputs.     *)
(* Every handler that moves the focus of windows does so through           *)
(* FocusFrom, so what FocusFrom does is proved once, from the facts its    *)
(* callers have established.                                               *)
(***************************************************************************)
EXTENDS SeatFocus, TLAPS

Mapped(wn)  == {w \in Windows : wn[w].mon # None}
Created(ly) == {l \in Layers : ly[l].mon # None}

WinType   == [mon : Outputs \cup {None}, shown : BOOLEAN]
LayerType == [mon : Outputs \cup {None}, level : Levels,
              interactive : BOOLEAN, mapped : BOOLEAN]

\* An unmapped window is not shown, and an absent surface not mapped.
Clean == /\ \A w \in Windows : win[w].mon = None => ~win[w].shown
         /\ \A l \in Layers : layer[l].mon = None => ~layer[l].mapped

IInv == TypeOK /\ Clean /\ FocusReturns

-----------------------------------------------------------------------------
(* Lists                                                                   *)

LEMMA TakenOut ==
  ASSUME NEW S, NEW s, Lists(s, S), NEW x
  PROVE  Lists(Without(s, x), S \ {x})
<1> DEFINE I == {i \in DOMAIN s : s[i] = x}
           k == CHOOSE i \in I : TRUE
           t == [i \in 1 .. Len(s) - 1 |-> s[IF i < k THEN i ELSE i + 1]]
<1>1. s \in Seq(S) /\ Members(s) = S /\ \A i, j \in DOMAIN s : s[i] = s[j] => i = j
  BY DEF Lists
<1>2. CASE I = {}
  <2>1. Without(s, x) = s /\ x \notin S
    BY <1>1, <1>2 DEF Without, Members
  <2>2. S \ {x} = S
    BY <2>1
  <2> QED BY <2>1, <2>2
<1>3. CASE I # {}
  <2>1. Without(s, x) = t
    BY <1>3 DEF Without
  <2>2. k \in 1 .. Len(s) /\ s[k] = x /\ Len(s) \in Nat /\ DOMAIN s = 1 .. Len(s)
    BY <1>1, <1>3
  <2>3. \A i \in 1 .. Len(s) : s[i] \in S /\ (s[i] = x => i = k)
    BY <1>1, <2>2
  <2> HIDE DEF k, I
  <2>4. \A i \in 1 .. Len(s) - 1 : t[i] \in S \ {x}
    BY <2>2, <2>3
  <2>5. t \in Seq(S \ {x}) /\ DOMAIN t = 1 .. Len(s) - 1
    BY <2>2, <2>4
  <2>6. \A i, j \in DOMAIN t : t[i] = t[j] => i = j
    <3> SUFFICES ASSUME NEW i \in 1 .. Len(s) - 1, NEW j \in 1 .. Len(s) - 1, t[i] = t[j]
                 PROVE  i = j
      BY <2>5
    <3> DEFINE a == IF i < k THEN i ELSE i + 1
               b == IF j < k THEN j ELSE j + 1
    <3>1. a \in 1 .. Len(s) /\ b \in 1 .. Len(s) /\ s[a] = s[b]
      BY <2>2
    <3>2. a = b
      BY <3>1, <1>1, <2>2
    <3> QED BY <3>2, <2>2
  <2>7. \A y \in S \ {x} : \E i \in DOMAIN t : t[i] = y
    <3> SUFFICES ASSUME NEW y \in S \ {x} PROVE \E i \in DOMAIN t : t[i] = y
      OBVIOUS
    <3>1. PICK j \in 1 .. Len(s) : s[j] = y /\ j # k
      BY <1>1, <2>2 DEF Members
    <3> DEFINE i == IF j < k THEN j ELSE j - 1
    <3>2. i \in 1 .. Len(s) - 1 /\ t[i] = y
      BY <3>1, <2>2
    <3> QED BY <3>2, <2>5
  <2>8. Members(t) = S \ {x}
    BY <2>4, <2>5, <2>7 DEF Members
  <2> QED BY <2>1, <2>5, <2>6, <2>8 DEF Lists
<1> QED BY <1>2, <1>3

LEMMA PutFirst ==
  ASSUME NEW S, NEW s, NEW x, Lists(s, S), x \notin S
  PROVE  /\ Lists(<<x>> \o s, S \cup {x})
         /\ (<<x>> \o s)[1] = x
<1> DEFINE t == <<x>> \o s
<1>1. /\ s \in Seq(S) /\ Members(s) = S /\ DOMAIN s = 1 .. Len(s) /\ Len(s) \in Nat
      /\ \A i, j \in DOMAIN s : s[i] = s[j] => i = j
  BY DEF Lists
<1>2. /\ t \in Seq(S \cup {x}) /\ DOMAIN t = 1 .. Len(s) + 1 /\ t[1] = x
      /\ \A i \in 2 .. Len(s) + 1 : t[i] = s[i - 1]
  BY <1>1
<1>3. \A i \in 1 .. Len(s) : s[i] \in S /\ t[i + 1] = s[i]
  BY <1>1, <1>2
<1>4. \A i, j \in DOMAIN t : t[i] = t[j] => i = j
  BY <1>1, <1>2, <1>3
<1>5. Members(t) = S \cup {x}
  <2>1. Members(t) \subseteq S \cup {x}
    BY <1>2 DEF Members
  <2>2. ASSUME NEW y \in S PROVE y \in Members(t)
    <3>1. PICK i \in 1 .. Len(s) : s[i] = y
      BY <1>1 DEF Members
    <3>2. i + 1 \in DOMAIN t /\ t[i + 1] = y
      BY <1>1, <1>2, <1>3, <3>1
    <3> QED BY <3>2 DEF Members
  <2>3. x \in Members(t)
    BY <1>1, <1>2 DEF Members
  <2> QED BY <2>1, <2>2, <2>3
<1> QED BY <1>2, <1>4, <1>5 DEF Lists

LEMMA PutLast ==
  ASSUME NEW S, NEW s, NEW x, Lists(s, S), x \notin S
  PROVE  Lists(Append(s, x), S \cup {x})
<1> DEFINE t == Append(s, x)
<1>1. /\ s \in Seq(S) /\ Members(s) = S /\ DOMAIN s = 1 .. Len(s) /\ Len(s) \in Nat
      /\ \A i, j \in DOMAIN s : s[i] = s[j] => i = j
  BY DEF Lists
<1>2. /\ t \in Seq(S \cup {x}) /\ DOMAIN t = 1 .. Len(s) + 1 /\ t[Len(s) + 1] = x
      /\ \A i \in 1 .. Len(s) : t[i] = s[i] /\ s[i] \in S
  BY <1>1
<1>4. \A i, j \in DOMAIN t : t[i] = t[j] => i = j
  BY <1>1, <1>2
<1>5. Members(t) = S \cup {x}
  BY <1>1, <1>2 DEF Members
<1> QED BY <1>2, <1>4, <1>5 DEF Lists

\* The search finds one of those it looks for or None, and the head if that is one.
LEMMA Found ==
  ASSUME NEW X, NEW s
  PROVE  /\ FirstOf(s, X) \in X \cup {None}
         /\ (1 \in DOMAIN s /\ s[1] \in X /\ DOMAIN s \subseteq Nat \ {0}) => FirstOf(s, X) = s[1]
<1> DEFINE I == {i \in DOMAIN s : s[i] \in X /\ \A j \in 1 .. i - 1 : s[j] \notin X}
<1>1. FirstOf(s, X) = IF I = {} THEN None ELSE s[CHOOSE i \in I : TRUE]
  BY DEF FirstOf
<1>2. ASSUME 1 \in DOMAIN s, s[1] \in X, DOMAIN s \subseteq Nat \ {0}
      PROVE  I = {1}
  BY <1>2
<1>3. FirstOf(s, X) \in X \cup {None}
  BY <1>1
<1> QED BY <1>1, <1>2, <1>3

LEMMA TopShown ==
  ASSUME NEW wn, NEW fs, NEW m \in Outputs
  PROVE  LET c == FocusTop(wn, fs, m)
         IN  c # None => c \in Windows /\ wn[c].mon = m /\ wn[c].shown
BY Found DEF FocusTop

\* A shown window at the head of the focus stack is the top of its output.
LEMMA HeadIsTop ==
  ASSUME NEW wn, NEW fs, Lists(fs, Mapped(wn)), NEW c \in Mapped(wn), fs[1] = c, wn[c].shown
  PROVE  c = FocusTop(wn, fs, wn[c].mon)
<1>1. 1 \in DOMAIN fs /\ DOMAIN fs \subseteq Nat \ {0}
  BY DEF Lists, Members
<1> QED BY <1>1, Found DEF FocusTop, Mapped

-----------------------------------------------------------------------------
(* The focus                                                               *)

\* c is where focusclient() may put the keyboard when old has it: nowhere, or a
\* window shown, which old can only be if it is the top of its output.
MayFocus(c, old, wn, fs) ==
  \/ c = None
  \/ /\ c \in Windows /\ wn[c].shown /\ wn[c].mon # None
     /\ old = Window(c) /\ ~locked => c = FocusTop(wn, fs, wn[c].mon)

LEMMA TopMayFocus ==
  ASSUME NEW wn, NEW fs, NEW m \in Outputs, NEW old
  PROVE  MayFocus(FocusTop(wn, fs, m), old, wn, fs)
BY TopShown, SeatAssumption DEF MayFocus

LEMMA FocusMoves ==
  ASSUME NEW old, NEW c, NEW fs, NEW sel \in Outputs,
         win' \in [Windows -> WinType], Lists(fs, Mapped(win')),
         MayFocus(c, old, win', fs), FocusFrom(old, c, fs, sel)
  PROVE  /\ Lists(fstack', Mapped(win')) /\ selmon' \in Outputs
         /\ locked => keyboard' = old
         /\ ~locked =>
              \/ keyboard' = old /\ OverlayFocused(old, layer')
              \/ /\ ~OverlayFocused(old, layer')
                 /\ \/ keyboard' = Nobody
                    \/ /\ c \in Windows /\ keyboard' = Window(c)
                       /\ c = FocusTop(win', fstack', win'[c].mon)
<1>1. CASE locked
  BY <1>1 DEF FocusFrom
<1>2. CASE ~locked /\ c = None
  BY <1>2 DEF FocusFrom, Window
<1>3. CASE ~locked /\ c # None /\ old = Window(c)
  BY <1>3 DEF FocusFrom, MayFocus, OverlayFocused, Window
<1>4. CASE ~locked /\ c # None /\ old # Window(c)
  <2>1. c \in Mapped(win') /\ win'[c].shown /\ win'[c].mon \in Outputs
    BY <1>4 DEF MayFocus, Mapped, WinType
  <2>2. /\ fstack' = <<c>> \o Without(fs, c) /\ selmon' = win'[c].mon
        /\ keyboard' = IF OverlayFocused(old, layer') THEN old ELSE Window(c)
    BY <1>4 DEF FocusFrom
  <2>3. Lists(Without(fs, c), Mapped(win') \ {c})
    BY TakenOut
  <2>4. Lists(fstack', (Mapped(win') \ {c}) \cup {c}) /\ fstack'[1] = c
    BY <2>2, <2>3, PutFirst
  <2>5. (Mapped(win') \ {c}) \cup {c} = Mapped(win')
    BY <2>1
  <2>6. Lists(fstack', Mapped(win'))
    BY <2>4, <2>5
  <2>8. c = FocusTop(win', fstack', win'[c].mon)
    BY <2>1, <2>4, <2>6, HeadIsTop
  <2> QED BY <1>4, <2>1, <2>2, <2>6, <2>8 DEF Mapped
<1> QED BY <1>1, <1>2, <1>3, <1>4

-----------------------------------------------------------------------------
(* What a step may not do                                                  *)

UnderLock ==
  locked /\ locked' =>
    /\ keyboard' = keyboard \/ keyboard' \in {Nobody} \cup LockSurfaces(surfaces')
    /\ (keyboard.kind = "lock" /\ surfaces' # <<>>) => keyboard'.kind = "lock"

UnderOverlay ==
  (~locked /\ ~locked' /\ OverlayFocused(keyboard, layer) /\ OverlayFocused(keyboard, layer'))
    => keyboard'.kind = "layer"

\* Steps that leave layers and lock alone and end with focusclient().
LEMMA FocusStep ==
  ASSUME IInv, NEW old, NEW c, NEW fs, NEW sel \in Outputs,
         win' \in [Windows -> WinType], \A w \in Windows : win'[w].mon = None => ~win'[w].shown,
         Lists(fs, Mapped(win')), UNCHANGED <<shell, lock>>,
         \/ old = keyboard
         \/ ~locked /\ OverlayFocused(old, layer) /\ \E l \in Layers : old = LayerSurf(l),
         MayFocus(c, old, win', fs), FocusFrom(old, c, fs, sel)
  PROVE  IInv' /\ UnderLock /\ UnderOverlay
<1>1. /\ Lists(fstack', Mapped(win')) /\ selmon' \in Outputs
      /\ locked => keyboard' = old
      /\ ~locked =>
           \/ keyboard' = old /\ OverlayFocused(old, layer')
           \/ /\ ~OverlayFocused(old, layer')
              /\ \/ keyboard' = Nobody
                 \/ /\ c \in Windows /\ keyboard' = Window(c)
                    /\ c = FocusTop(win', fstack', win'[c].mon)
  BY FocusMoves
<1>2. /\ layer' = layer /\ order' = order /\ locked' = locked
      /\ cur_lock' = cur_lock /\ surfaces' = surfaces
  BY DEF shell, lock
<1>3. ~locked => surfaces = <<>>
  BY DEF IInv, TypeOK
<1>4. keyboard' \in {Nobody} \cup {Window(w) : w \in Windows}
                     \cup {LayerSurf(l) : l \in Layers} \cup LockSurfaces(surfaces')
  BY <1>1, <1>2 DEF IInv, TypeOK
<1>5. TypeOK'
  BY <1>1, <1>2, <1>4 DEF IInv, TypeOK, Mapped, WinType
<1>6. Clean'
  BY <1>2 DEF IInv, Clean
<1>7. FocusReturns'
  <2>1. CASE locked
    BY <1>2, <2>1 DEF FocusReturns
  <2>2. CASE ~locked /\ keyboard' = old /\ OverlayFocused(old, layer')
    BY <1>2, <2>2 DEF FocusReturns, OverlayFocused
  <2>3. CASE ~locked /\ c \in Windows /\ keyboard' = Window(c)
               /\ c = FocusTop(win', fstack', win'[c].mon)
    BY <2>3, SeatAssumption DEF FocusReturns, Window
  <2> QED BY <1>1, <2>1, <2>2, <2>3 DEF FocusReturns
<1>8. UnderLock
  BY <1>1, <1>2 DEF UnderLock
<1>9. UnderOverlay
  BY <1>1, <1>2 DEF UnderOverlay, OverlayFocused
<1> QED BY <1>5, <1>6, <1>7, <1>8, <1>9 DEF IInv

-----------------------------------------------------------------------------
(* Windows                                                                 *)

LEMMA WindowKeeps ==
  ASSUME IInv, WindowStep
  PROVE  IInv' /\ UnderLock /\ UnderOverlay
<1> USE SeatAssumption
<1>0. /\ win \in [Windows -> WinType] /\ Lists(fstack, Mapped(win)) /\ selmon \in Outputs
      /\ \A w \in Windows : win[w].mon = None => ~win[w].shown
  BY DEF IInv, TypeOK, Clean, WinType, Mapped
<1>1. ASSUME NEW w \in Windows, NEW m \in Outputs, NEW shown \in BOOLEAN, MapNotify(w, m, shown)
      PROVE  IInv' /\ UnderLock /\ UnderOverlay
  <2> DEFINE fs == <<w>> \o fstack
             c == FocusTop(win', fs, selmon)
  <2>1. /\ win[w].mon = None /\ win' = [win EXCEPT ![w] = [mon |-> m, shown |-> shown]]
        /\ UNCHANGED <<shell, lock>> /\ FocusFrom(keyboard, c, fs, selmon)
    BY <1>1 DEF MapNotify, FocusClient
  <2>2. /\ win' \in [Windows -> WinType] /\ w \notin Mapped(win)
        /\ \A v \in Windows : win'[v].mon = None => ~win'[v].shown
        /\ Mapped(win') = Mapped(win) \cup {w}
    BY <1>0, <2>1 DEF WinType, Mapped
  <2>3. Lists(fs, Mapped(win'))
    BY <1>0, <2>2, PutFirst
  <2>4. MayFocus(c, keyboard, win', fs)
    BY <1>0, TopMayFocus
  <2> HIDE DEF fs, c
  <2> QED BY <1>0, <2>1, <2>2, <2>3, <2>4, FocusStep
<1>2. ASSUME NEW w \in Windows, UnmapNotify(w)
      PROVE  IInv' /\ UnderLock /\ UnderOverlay
  <2> DEFINE fs == Without(fstack, w)
             c == FocusTop(win', fs, selmon)
  <2>1. /\ win[w].mon # None /\ win' = [win EXCEPT ![w] = Unmapped]
        /\ UNCHANGED <<shell, lock>> /\ FocusFrom(keyboard, c, fs, selmon)
    BY <1>2 DEF UnmapNotify, FocusClient
  <2>2. /\ win' \in [Windows -> WinType]
        /\ \A v \in Windows : win'[v].mon = None => ~win'[v].shown
        /\ Mapped(win') = Mapped(win) \ {w}
    BY <1>0, <2>1 DEF WinType, Mapped, Unmapped
  <2>3. Lists(fs, Mapped(win'))
    BY <1>0, <2>2, TakenOut
  <2>4. MayFocus(c, keyboard, win', fs)
    BY <1>0, TopMayFocus
  <2> HIDE DEF fs, c
  <2> QED BY <1>0, <2>1, <2>2, <2>3, <2>4, FocusStep
<1>3. ASSUME NEW w \in Windows, FocusWindow(w)
      PROVE  IInv' /\ UnderLock /\ UnderOverlay
  <2>1. /\ win[w].shown /\ win' = win
        /\ UNCHANGED <<shell, lock>> /\ FocusFrom(keyboard, w, fstack, selmon)
    BY <1>3 DEF FocusWindow, FocusClient
  <2>2. MayFocus(w, keyboard, win', fstack)
    BY <1>0, <2>1 DEF MayFocus, IInv, FocusReturns, Window, Nobody
  <2> QED BY <1>0, <2>1, <2>2, FocusStep
<1>4. ASSUME NEW m \in Outputs, NEW visible \in SUBSET Windows, Retag(m, visible)
      PROVE  IInv' /\ UnderLock /\ UnderOverlay
  <2> DEFINE c == FocusTop(win', fstack, m)
  <2>1. /\ win' = [w \in Windows |-> IF win[w].mon # m THEN win[w]
                                     ELSE [mon |-> m, shown |-> w \in visible]]
        /\ UNCHANGED <<shell, lock>> /\ FocusFrom(keyboard, c, fstack, selmon)
    BY <1>4 DEF Retag, FocusClient
  <2>2. /\ win' \in [Windows -> WinType]
        /\ \A v \in Windows : win'[v].mon = win[v].mon
    BY <1>0, <2>1 DEF WinType
  <2>3. Mapped(win') = Mapped(win) /\ \A v \in Windows : win'[v].mon = None => ~win'[v].shown
    BY <1>0, <2>1, <2>2 DEF Mapped
  <2>4. MayFocus(c, keyboard, win', fstack)
    BY <1>0, TopMayFocus
  <2> HIDE DEF c
  <2> QED BY <1>0, <2>1, <2>2, <2>3, <2>4, FocusStep
<1>5. ASSUME NEW m \in Outputs, NEW w \in Windows \cup {None}, ButtonPress(m, w)
      PROVE  IInv' /\ UnderLock /\ UnderOverlay
  <2>1. win' = win /\ UNCHANGED <<shell, lock>> /\ (w # None => win[w].shown)
    BY <1>5 DEF ButtonPress
  <2>2. CASE locked \/ w = None
    <3>1. UNCHANGED <<win, fstack, keyboard, shell, lock>> /\ selmon' = m
      BY <1>5, <2>1, <2>2 DEF ButtonPress
    <3>2. IInv'
      BY <3>1 DEF IInv, TypeOK, Clean, FocusReturns, FocusTop, shell, lock
    <3> QED BY <3>1, <3>2 DEF UnderLock, UnderOverlay, OverlayFocused, shell, lock
  <2>3. CASE ~locked /\ w # None
    <3>1. FocusFrom(keyboard, w, fstack, m)
      BY <1>5, <2>3 DEF ButtonPress, FocusClient
    <3>2. MayFocus(w, keyboard, win', fstack)
      BY <1>0, <2>1, <2>3 DEF MayFocus, IInv, FocusReturns, Window, Nobody
    <3> QED BY <1>0, <2>1, <3>1, <3>2, FocusStep
  <2> QED BY <2>2, <2>3
<1>6. ASSUME NEW m \in Outputs, TagMon(m)
      PROVE  IInv' /\ UnderLock /\ UnderOverlay
  <2> DEFINE w == FocusTop(win, fstack, selmon)
             c == FocusTop(win', fstack, selmon)
  <2>1. /\ w # None /\ win' = [win EXCEPT ![w] = [mon |-> m, shown |-> TRUE]]
        /\ UNCHANGED <<shell, lock>> /\ FocusFrom(keyboard, c, fstack, selmon)
    BY <1>6 DEF TagMon, FocusClient
  <2>2. w \in Windows /\ win[w].mon = selmon
    BY <1>0, <2>1, TopShown
  <2>3. MayFocus(c, keyboard, win', fstack)
    BY <1>0, TopMayFocus
  <2> HIDE DEF w, c
  <2>4. /\ win' \in [Windows -> WinType] /\ Mapped(win') = Mapped(win)
        /\ \A v \in Windows : win'[v].mon = None => ~win'[v].shown
    BY <1>0, <2>1, <2>2 DEF WinType, Mapped
  <2> QED BY <1>0, <2>1, <2>3, <2>4, FocusStep
<1>7. ASSUME NEW m \in Outputs, FocusMon(m)
      PROVE  IInv' /\ UnderLock /\ UnderOverlay
  <2> DEFINE c == FocusTop(win', fstack, m)
  <2>1. win' = win /\ UNCHANGED <<shell, lock>> /\ FocusFrom(keyboard, c, fstack, m)
    BY <1>7 DEF FocusMon, FocusClient
  <2>2. MayFocus(c, keyboard, win', fstack)
    BY TopMayFocus
  <2> HIDE DEF c
  <2> QED BY <1>0, <2>1, <2>2, FocusStep
<1> QED BY <1>1, <1>2, <1>3, <1>4, <1>5, <1>6, <1>7 DEF WindowStep

-----------------------------------------------------------------------------
(* Layer surfaces                                                          *)

LEMMA TopmostKeen ==
  ASSUME NEW ly, NEW od, NEW m \in Outputs
  PROVE  LET t == Topmost(ly, od, m)
         IN  t # None => /\ ~locked /\ t \in Layers /\ ly[t].mapped
                         /\ ly[t].level \in {"top", "overlay"}
<1> DEFINE Keen(level) == {l \in Layers : /\ ly[l].mon = m /\ ly[l].level = level
                                          /\ ly[l].mapped /\ ly[l].interactive}
<1>1. /\ FirstOf(od, Keen("overlay")) \in Keen("overlay") \cup {None}
      /\ FirstOf(od, Keen("top")) \in Keen("top") \cup {None}
  BY Found
<1> QED BY <1>1 DEF Topmost

\* Steps that leave windows, lock and selected output alone and move the keyboard
\* to a mapped surface, to nobody or not at all.
LEMMA LayerMoves ==
  ASSUME IInv, UNCHANGED <<windows, lock, selmon>>,
         layer' \in [Layers -> LayerType], Lists(order', Created(layer')),
         \A k \in Layers : layer'[k].mon = None => ~layer'[k].mapped,
         \/ keyboard' = Nobody
         \/ /\ keyboard' = keyboard
            /\ \A k \in Layers : keyboard = LayerSurf(k) /\ layer[k].mapped => layer'[k].mapped
         \/ \E t \in Layers : ~locked /\ keyboard' = LayerSurf(t) /\ layer'[t].mapped
  PROVE  IInv'
<1>1. /\ win' = win /\ fstack' = fstack /\ selmon' = selmon /\ locked' = locked
      /\ cur_lock' = cur_lock /\ surfaces' = surfaces
  BY DEF windows, lock
<1>2. keyboard' \in {Nobody} \cup {Window(w) : w \in Windows}
                     \cup {LayerSurf(l) : l \in Layers} \cup LockSurfaces(surfaces')
  BY <1>1 DEF IInv, TypeOK
<1>3. TypeOK'
  BY <1>1, <1>2 DEF IInv, TypeOK, LayerType, Created
<1>4. Clean'
  BY <1>1 DEF IInv, Clean
<1>5. keyboard.kind = "layer" => \E k \in Layers : keyboard = LayerSurf(k)
  BY DEF IInv, TypeOK, Nobody, Window, LayerSurf, LockSurfaces, LockSurface
<1>6. FocusReturns'
  <2>1. CASE keyboard' = Nobody \/ locked
    BY <1>1, <2>1 DEF FocusReturns
  <2>2. CASE ~locked /\ keyboard' = keyboard /\ keyboard.kind = "layer"
    BY <1>1, <1>5, <2>2 DEF IInv, FocusReturns, LayerSurf, Nobody
  <2>3. CASE ~locked /\ keyboard' = keyboard /\ keyboard.kind # "layer"
    BY <1>1, <2>3 DEF IInv, FocusReturns
  <2>4. CASE \E t \in Layers : keyboard' = LayerSurf(t) /\ layer'[t].mapped
    BY <2>4 DEF FocusReturns, LayerSurf
  <2> QED BY <2>1, <2>2, <2>3, <2>4
<1> QED BY <1>3, <1>4, <1>6 DEF IInv

LEMMA LayerKeeps ==
  ASSUME IInv, LayerStep
  PROVE  IInv' /\ UnderLock /\ UnderOverlay
<1> USE SeatAssumption
<1>0. /\ win \in [Windows -> WinType] /\ Lists(fstack, Mapped(win)) /\ selmon \in Outputs
      /\ layer \in [Layers -> LayerType] /\ Lists(order, Created(layer))
      /\ \A l \in Layers : layer[l].mon = None => ~layer[l].mapped
  BY DEF IInv, TypeOK, Clean, WinType, LayerType, Mapped, Created
<1>1. ASSUME NEW l \in Layers, NEW m \in Outputs, NEW level \in Levels,
             CreateLayerSurface(l, m, level)
      PROVE  IInv' /\ UnderLock /\ UnderOverlay
  <2>1. /\ layer[l].mon = None /\ order' = Append(order, l)
        /\ layer' = [layer EXCEPT ![l] = [Absent EXCEPT !.mon = m, !.level = level]]
        /\ UNCHANGED <<windows, lock, selmon, keyboard>>
    BY <1>1 DEF CreateLayerSurface
  <2>2. /\ layer' \in [Layers -> LayerType] /\ Created(layer') = Created(layer) \cup {l}
        /\ \A k \in Layers : layer'[k].mon = None => ~layer'[k].mapped
        /\ \A k \in Layers : layer[k].mapped => layer'[k].mapped
        /\ l \notin Created(layer)
    BY <1>0, <2>1 DEF LayerType, Absent, Created
  <2>3. Lists(Append(order, l), Created(layer) \cup {l})
    BY <1>0, <2>2, PutLast
  <2>4. Lists(order', Created(layer'))
    BY <2>1, <2>2, <2>3
  <2>5. IInv'
    BY <2>1, <2>2, <2>4, LayerMoves
  <2> QED BY <2>1, <2>5 DEF IInv, UnderLock, UnderOverlay, OverlayFocused, lock
<1>2. ASSUME NEW l \in Layers, NEW level \in Levels, NEW interactive \in BOOLEAN,
             NEW mapped \in BOOLEAN, CommitLayerSurface(l, level, interactive, mapped)
      PROVE  IInv' /\ UnderLock /\ UnderOverlay
  <2> DEFINE t == Topmost(layer', order', layer[l].mon)
  <2>1. /\ layer[l].mon # None /\ (layer[l].mapped => mapped)
        /\ layer' = [layer EXCEPT ![l] = [mon |-> layer[l].mon, level |-> level,
                                         interactive |-> interactive, mapped |-> mapped]]
        /\ order' = IF level = layer[l].level THEN order ELSE Append(Without(order, l), l)
        /\ keyboard' = IF t = None THEN keyboard ELSE LayerSurf(t)
        /\ UNCHANGED <<windows, lock, selmon>>
    BY <1>2 DEF CommitLayerSurface
  <2>2. /\ layer[l].mon \in Outputs /\ l \in Created(layer)
        /\ layer' \in [Layers -> LayerType] /\ Created(layer') = Created(layer)
        /\ \A k \in Layers : layer'[k].mon = None => ~layer'[k].mapped
        /\ \A k \in Layers : layer[k].mapped => layer'[k].mapped
    BY <1>0, <2>1 DEF LayerType, Created
  <2>3. Lists(order', Created(layer'))
    <3>1. Lists(Append(Without(order, l), l), (Created(layer) \ {l}) \cup {l})
      BY <1>0, TakenOut, PutLast
    <3>2. (Created(layer) \ {l}) \cup {l} = Created(layer)
      BY <2>2
    <3> QED BY <1>0, <2>1, <2>2, <3>1, <3>2
  <2>4. t # None => ~locked /\ t \in Layers /\ layer'[t].mapped
    BY <2>2, TopmostKeen
  <2> HIDE DEF t
  <2>5. IInv'
    BY <2>1, <2>2, <2>3, <2>4, LayerMoves
  <2> QED BY <2>1, <2>4, <2>5
         DEF IInv, UnderLock, UnderOverlay, OverlayFocused, lock, LayerSurf
<1>3. ASSUME NEW l \in Layers, UnmapLayerSurface(l)
      PROVE  IInv' /\ UnderLock /\ UnderOverlay
  <2> DEFINE t == Topmost(layer', order, layer[l].mon)
             c == FocusTop(win, fstack, selmon)
  <2>1. /\ layer[l].mapped /\ layer' = [layer EXCEPT ![l].mapped = FALSE]
        /\ UNCHANGED <<win, order, lock>>
    BY <1>3 DEF UnmapLayerSurface
  <2>2. /\ layer[l].mon \in Outputs
        /\ layer' \in [Layers -> LayerType] /\ Created(layer') = Created(layer)
        /\ \A k \in Layers : layer'[k].mon = None => ~layer'[k].mapped
        /\ \A k \in Layers \ {l} : layer'[k] = layer[k]
        /\ ~layer'[l].mapped
    BY <1>0, <2>1 DEF LayerType, Created
  <2>3. t # None => ~locked /\ t \in Layers /\ layer'[t].mapped
    BY <2>2, TopmostKeen
  <2>4. MayFocus(c, keyboard, win', fstack)
    BY <1>0, <2>1, TopMayFocus
  <2>5. CASE t = None /\ keyboard = LayerSurf(l)
    <3>1. FocusFrom(keyboard, c, fstack, selmon)
      BY <1>3, <2>5 DEF UnmapLayerSurface, FocusClient
    <3>2. ~OverlayFocused(keyboard, layer')
      BY <2>2, <2>5 DEF OverlayFocused, LayerSurf
    <3> HIDE DEF t, c
    <3>3. /\ Lists(fstack', Mapped(win')) /\ selmon' \in Outputs
          /\ locked => keyboard' = keyboard
          /\ ~locked => \/ keyboard' = Nobody
                        \/ /\ c \in Windows /\ keyboard' = Window(c)
                           /\ c = FocusTop(win', fstack', win'[c].mon)
      BY <1>0, <2>1, <2>4, <3>1, <3>2, FocusMoves
    <3>4. keyboard' \in {Nobody} \cup {Window(w) : w \in Windows}
                         \cup {LayerSurf(k) : k \in Layers} \cup LockSurfaces(surfaces')
      BY <2>5, <3>3
    <3>7. Lists(order', Created(layer')) /\ surfaces' = surfaces /\ win' = win
      BY <1>0, <2>1, <2>2 DEF lock
    <3>8. TypeOK'
      BY <2>1, <2>2, <3>3, <3>4, <3>7 DEF IInv, TypeOK, LayerType, Created, Mapped, lock
    <3>9. Clean'
      BY <2>1, <2>2 DEF IInv, Clean
    <3>5. FocusReturns'
      BY <2>1, <3>3 DEF FocusReturns, Window, Nobody, lock
    <3> QED BY <2>1, <2>5, <3>2, <3>3, <3>5, <3>8, <3>9 DEF IInv, UnderLock, UnderOverlay, lock, LayerSurf
  <2>6. CASE ~(t = None /\ keyboard = LayerSurf(l))
    <3>1. /\ keyboard' = IF t = None THEN keyboard ELSE LayerSurf(t)
          /\ UNCHANGED <<fstack, selmon>>
      BY <1>3, <2>6 DEF UnmapLayerSurface
    <3> HIDE DEF t, c
    <3>2. Lists(order', Created(layer')) /\ UNCHANGED <<windows, lock, selmon>>
      BY <1>0, <2>1, <2>2, <3>1 DEF windows
    <3>3. IInv'
      BY <2>2, <2>3, <2>6, <3>1, <3>2, LayerMoves
    <3> QED BY <2>1, <2>3, <3>1, <3>3
           DEF IInv, UnderLock, UnderOverlay, OverlayFocused, lock, LayerSurf
  <2> QED BY <2>5, <2>6
<1>4. ASSUME NEW l \in Layers, DestroyLayerSurface(l)
      PROVE  IInv' /\ UnderLock /\ UnderOverlay
  <2>1. /\ layer[l].mon # None /\ ~layer[l].mapped
        /\ layer' = [layer EXCEPT ![l] = Absent] /\ order' = Without(order, l)
        /\ keyboard' = IF keyboard = LayerSurf(l) THEN Nobody ELSE keyboard
        /\ UNCHANGED <<windows, lock, selmon>>
    BY <1>4 DEF DestroyLayerSurface
  <2>2. /\ layer' \in [Layers -> LayerType] /\ Created(layer') = Created(layer) \ {l}
        /\ \A k \in Layers : layer'[k].mon = None => ~layer'[k].mapped
        /\ \A k \in Layers \ {l} : layer'[k] = layer[k]
    BY <1>0, <2>1 DEF LayerType, Absent, Created, Levels
  <2>3. Lists(Without(order, l), Created(layer) \ {l})
    BY <1>0, TakenOut
  <2>4. Lists(order', Created(layer'))
    BY <2>1, <2>2, <2>3
  <2>5. IInv'
    BY <2>1, <2>2, <2>4, LayerMoves DEF LayerSurf
  <2> QED BY <2>1, <2>2, <2>5
         DEF IInv, UnderLock, UnderOverlay, OverlayFocused, lock, LayerSurf
<1> QED BY <1>1, <1>2, <1>3, <1>4 DEF LayerStep

-----------------------------------------------------------------------------
(* The session lock                                                        *)

\* Steps under a lock that leave windows and layer surfaces alone.
LEMMA LockMoves ==
  ASSUME IInv, UNCHANGED <<windows, shell, selmon>>,
         locked', cur_lock' \in BOOLEAN, surfaces' # <<>> => cur_lock',
         Lists(surfaces', Members(surfaces')), Members(surfaces') \subseteq Outputs,
         \/ keyboard' = Nobody \/ keyboard' \in LockSurfaces(surfaces')
         \/ keyboard' = keyboard /\ keyboard \notin LockSurfaces(surfaces) \ LockSurfaces(surfaces')
  PROVE  IInv'
<1>1. /\ win' = win /\ fstack' = fstack /\ selmon' = selmon
      /\ layer' = layer /\ order' = order
  BY DEF windows, shell
<1>2. keyboard' \in {Nobody} \cup {Window(w) : w \in Windows}
                     \cup {LayerSurf(l) : l \in Layers} \cup LockSurfaces(surfaces')
  BY <1>1 DEF IInv, TypeOK
<1>3. locked' \in BOOLEAN /\ locked' = TRUE
  BY <1>1
<1>4. TypeOK'
  BY <1>1, <1>2, <1>3 DEF IInv, TypeOK
<1> QED BY <1>1, <1>4 DEF IInv, Clean, FocusReturns

LEMMA NoneListed == Lists(<<>>, {}) /\ Members(<<>>) = {}
BY DEF Lists, Members

LEMMA LockKeeps ==
  ASSUME IInv, LockStep
  PROVE  IInv' /\ UnderLock /\ UnderOverlay
<1> USE SeatAssumption
<1>0. /\ win \in [Windows -> WinType] /\ Lists(fstack, Mapped(win)) /\ selmon \in Outputs
      /\ Lists(surfaces, Members(surfaces)) /\ Members(surfaces) \subseteq Outputs
      /\ (surfaces # <<>> => cur_lock) /\ (cur_lock => locked)
  BY DEF IInv, TypeOK, WinType, Mapped
<1>1. CASE LockSession
  <2>1. /\ ~cur_lock /\ UNCHANGED <<win, shell>> /\ locked' = TRUE
        /\ cur_lock' = TRUE /\ surfaces' = <<>> /\ surfaces = <<>>
        /\ FocusFrom(keyboard, None, fstack, selmon)
    BY <1>0, <1>1 DEF LockSession, FocusClient
  <2>2. /\ fstack' = fstack /\ selmon' = selmon
        /\ (keyboard' = keyboard \/ keyboard' = Nobody) /\ (locked => keyboard' = keyboard)
    BY <2>1 DEF FocusFrom, Window
  <2>3. IInv'
    <3>1. UNCHANGED <<windows, shell, selmon>> /\ LockSurfaces(surfaces) = {}
      BY <2>1, <2>2, NoneListed DEF windows, LockSurfaces
    <3>2. Lists(surfaces', Members(surfaces')) /\ Members(surfaces') \subseteq Outputs
      BY <1>0, <2>1
    <3> QED BY <2>1, <2>2, <3>1, <3>2, LockMoves
  <2> QED BY <2>1, <2>2, <2>3 DEF UnderLock, UnderOverlay
<1>2. ASSUME NEW m \in Outputs, CreateLockSurface(m)
      PROVE  IInv' /\ UnderLock /\ UnderOverlay
  <2>1. /\ cur_lock /\ LockSurface(m) \notin LockSurfaces(surfaces)
        /\ surfaces' = <<m>> \o surfaces
        /\ keyboard' = IF m = selmon THEN LockSurface(m) ELSE keyboard
        /\ UNCHANGED <<windows, shell, selmon, locked, cur_lock>>
    BY <1>2 DEF CreateLockSurface
  <2>2. m \notin Members(surfaces)
    BY <2>1 DEF LockSurfaces
  <2>3. Lists(surfaces', Members(surfaces) \cup {m})
    BY <1>0, <2>1, <2>2, PutFirst
  <2>4. Members(surfaces') = Members(surfaces) \cup {m}
    BY <2>3 DEF Lists
  <2>5. LockSurfaces(surfaces) \subseteq LockSurfaces(surfaces') /\ LockSurface(m) \in LockSurfaces(surfaces')
    BY <2>4 DEF LockSurfaces
  <2>6. IInv'
    <3>1. Lists(surfaces', Members(surfaces')) /\ Members(surfaces') \subseteq Outputs
      BY <1>0, <2>3, <2>4
    <3> QED BY <1>0, <2>1, <2>5, <3>1, LockMoves DEF IInv, TypeOK
  <2> QED BY <1>0, <2>1, <2>5, <2>6 DEF UnderLock, UnderOverlay, LockSurface
<1>3. ASSUME NEW m \in Outputs, DestroyLockSurface(m)
      PROVE  IInv' /\ UnderLock /\ UnderOverlay
  <2>1. /\ LockSurface(m) \in LockSurfaces(surfaces)
        /\ surfaces' = Without(surfaces, m)
        /\ keyboard' = IF keyboard # LockSurface(m) THEN keyboard
                       ELSE IF surfaces' = <<>> THEN Nobody ELSE LockSurface(Head(surfaces'))
        /\ UNCHANGED <<windows, shell, selmon, locked, cur_lock>>
    BY <1>3 DEF DestroyLockSurface
  <2>2. Lists(surfaces', Members(surfaces) \ {m})
    BY <1>0, <2>1, TakenOut
  <2>3. Members(surfaces') = Members(surfaces) \ {m} /\ surfaces' \in Seq(Members(surfaces'))
    BY <2>2 DEF Lists
  <2>4. surfaces # <<>> /\ cur_lock /\ locked
    BY <1>0, <2>1, NoneListed DEF LockSurfaces
  <2>5. surfaces' # <<>> => Head(surfaces') \in Members(surfaces')
    BY <2>3
  <2>6. /\ LockSurfaces(surfaces) \ LockSurfaces(surfaces') \subseteq {LockSurface(m)}
        /\ surfaces' # <<>> => LockSurface(Head(surfaces')) \in LockSurfaces(surfaces')
    BY <2>3, <2>5 DEF LockSurfaces
  <2>7. IInv'
    <3>1. Lists(surfaces', Members(surfaces')) /\ Members(surfaces') \subseteq Outputs
      BY <1>0, <2>2, <2>3
    <3> QED BY <2>1, <2>4, <2>6, <3>1, LockMoves DEF IInv, TypeOK
  <2> QED BY <2>1, <2>4, <2>6, <2>7 DEF UnderLock, UnderOverlay, LockSurface
<1>4. CASE UnlockSession
  <2> DEFINE c == FocusTop(win, fstack, selmon)
  <2>1. /\ cur_lock /\ ~locked' /\ locked' \in BOOLEAN /\ ~cur_lock' /\ cur_lock' \in BOOLEAN
        /\ surfaces' = <<>> /\ keyboard' = Window(c)
        /\ fstack' = IF c = None THEN fstack ELSE <<c>> \o Without(fstack, c)
        /\ UNCHANGED <<win, shell, selmon>> /\ locked
    BY <1>0, <1>4 DEF UnlockSession
  <2>2. c # None => c \in Windows /\ win[c].mon = selmon /\ win[c].shown
    BY <1>0, TopShown
  <2>3. c # None => /\ Lists(fstack', Mapped(win)) /\ fstack'[1] = c
    <3> HIDE DEF c
    <3> SUFFICES ASSUME c # None PROVE Lists(fstack', Mapped(win)) /\ fstack'[1] = c
      OBVIOUS
    <3>1. Lists(Without(fstack, c), Mapped(win) \ {c})
      BY <1>0, TakenOut
    <3>2. Lists(fstack', (Mapped(win) \ {c}) \cup {c}) /\ fstack'[1] = c
      BY <2>1, <3>1, PutFirst
    <3>3. (Mapped(win) \ {c}) \cup {c} = Mapped(win)
      BY <1>0, <2>2 DEF Mapped
    <3> QED BY <3>2, <3>3
  <2> HIDE DEF c
  <2>4. Lists(fstack', Mapped(win))
    BY <1>0, <2>1, <2>3
  <2>5. TypeOK'
    <3>1. /\ Lists(surfaces', Members(surfaces')) /\ Members(surfaces') \subseteq Outputs
      BY <2>1, NoneListed
    <3>2. keyboard' \in {Nobody} \cup {Window(w) : w \in Windows}
                     \cup {LayerSurf(l) : l \in Layers} \cup LockSurfaces(surfaces')
      BY <2>1, <2>2 DEF Window
    <3> QED BY <2>1, <2>4, <3>1, <3>2 DEF IInv, TypeOK, Mapped, shell
  <2>6. Clean'
    BY <2>1 DEF IInv, Clean, shell
  <2>7. FocusReturns'
    <3>1. CASE c = None
      BY <2>1, <3>1 DEF FocusReturns, Window
    <3>2. CASE c # None
      <4>1. c \in Mapped(win') /\ Lists(fstack', Mapped(win'))
        BY <1>0, <2>1, <2>2, <2>4, <3>2 DEF Mapped
      <4>2. c = FocusTop(win', fstack', win'[c].mon)
        BY <2>1, <2>2, <2>3, <3>2, <4>1, HeadIsTop
      <4> QED BY <2>1, <3>2, <4>2 DEF FocusReturns, Window
    <3> QED BY <3>1, <3>2
  <2> QED BY <2>1, <2>5, <2>6, <2>7 DEF IInv, UnderLock, UnderOverlay
<1>5. CASE DestroySessionLock
  <2>1. /\ cur_lock /\ locked /\ cur_lock' = FALSE /\ surfaces' = <<>> /\ keyboard' = Nobody
        /\ UNCHANGED <<windows, shell, selmon, locked>>
    BY <1>0, <1>5 DEF DestroySessionLock
  <2>2. Lists(surfaces', Members(surfaces')) /\ Members(surfaces') \subseteq Outputs
    BY <2>1, NoneListed
  <2>3. IInv'
    BY <2>1, <2>2, LockMoves DEF IInv, TypeOK
  <2> QED BY <2>1, <2>3 DEF UnderLock, UnderOverlay
<1> QED BY <1>1, <1>2, <1>3, <1>4, <1>5 DEF LockStep

LEMMA UpdateMonsKeeps ==
  ASSUME IInv, UpdateMons
  PROVE  IInv' /\ UnderLock /\ UnderOverlay
<1> USE SeatAssumption
<1> DEFINE tops == {Topmost(layer, order, m) : m \in Outputs} \ {None}
           c == FocusTop(win, fstack, selmon)
<1>0. /\ win \in [Windows -> WinType] /\ Lists(fstack, Mapped(win)) /\ selmon \in Outputs
      /\ \A w \in Windows : win[w].mon = None => ~win[w].shown
      /\ Lists(surfaces, Members(surfaces)) /\ Members(surfaces) \subseteq Outputs
      /\ (surfaces # <<>> => cur_lock) /\ (cur_lock => locked) /\ cur_lock \in BOOLEAN
  BY DEF IInv, TypeOK, Clean, WinType, Mapped
<1>1. CASE LockSurface(selmon) \in LockSurfaces(surfaces)
  <2>1. keyboard' = LockSurface(selmon) /\ UNCHANGED <<windows, shell, lock, selmon>>
    BY <1>1 DEF UpdateMons, windows
  <2>2. locked /\ surfaces # <<>>
    BY <1>0, <1>1, NoneListed DEF LockSurfaces
  <2>3. /\ locked' = locked /\ cur_lock' = cur_lock /\ surfaces' = surfaces
        /\ UNCHANGED <<windows, shell, selmon>> /\ keyboard' \in LockSurfaces(surfaces')
    BY <1>1, <2>1 DEF lock
  <2>4. IInv'
    BY <1>0, <2>2, <2>3, LockMoves
  <2> QED BY <1>1, <2>1, <2>2, <2>3, <2>4 DEF UnderLock, UnderOverlay, LockSurface
<1>2. CASE LockSurface(selmon) \notin LockSurfaces(surfaces)
  <2>1. PICK old : /\ old \in IF tops = {} THEN {keyboard} ELSE {LayerSurf(t) : t \in tops}
                   /\ FocusFrom(old, c, fstack, selmon)
    BY <1>2 DEF UpdateMons
  <2>2. \A t \in tops : /\ ~locked /\ t \in Layers /\ layer[t].mapped
                        /\ layer[t].level \in {"top", "overlay"}
    BY TopmostKeen
  <2>3. \/ old = keyboard
        \/ ~locked /\ OverlayFocused(old, layer) /\ \E l \in Layers : old = LayerSurf(l)
    <3> HIDE DEF tops
    <3> QED BY <2>1, <2>2 DEF OverlayFocused, LayerSurf
  <2>4. MayFocus(c, old, win, fstack)
    BY <1>0, TopMayFocus
  <2> HIDE DEF tops, c
  <2>5. win' = win /\ UNCHANGED <<shell, lock>>
    BY DEF UpdateMons
  <2>6. MayFocus(c, old, win', fstack)
    BY <2>4, <2>5
  <2> QED BY <1>0, <2>1, <2>3, <2>5, <2>6, FocusStep
<1> QED BY <1>1, <1>2

-----------------------------------------------------------------------------
LEMMA InitHolds == Init => IInv
<1> SUFFICES ASSUME Init PROVE IInv
  OBVIOUS
<1>1. /\ {w \in Windows : win[w].mon # None} = {} /\ {l \in Layers : layer[l].mon # None} = {}
      /\ fstack = <<>> /\ order = <<>> /\ surfaces = <<>>
  BY DEF Init, Unmapped, Absent
<1>2. TypeOK
  BY <1>1, NoneListed, SeatAssumption DEF TypeOK, Init, Unmapped, Absent, Levels
<1> QED BY <1>2 DEF IInv, Clean, FocusReturns, Init, Unmapped, Absent

LEMMA Stutter ==
  ASSUME IInv, UNCHANGED vars
  PROVE  IInv' /\ UnderLock /\ UnderOverlay
<1>1. /\ UNCHANGED <<win, fstack, layer, order, selmon>>
      /\ UNCHANGED <<locked, cur_lock, surfaces, keyboard>>
  BY DEF vars
<1>2. TypeOK'
  BY <1>1 DEF IInv, TypeOK
<1>3. Clean' /\ FocusReturns'
  BY <1>1 DEF IInv, Clean, FocusReturns, FocusTop
<1>4. UnderLock /\ UnderOverlay
  BY <1>1 DEF UnderLock, UnderOverlay, OverlayFocused
<1> QED BY <1>2, <1>3, <1>4 DEF IInv

LEMMA StepKeeps ==
  ASSUME IInv, [Next]_vars
  PROVE  IInv' /\ UnderLock /\ UnderOverlay
BY WindowKeeps, LayerKeeps, LockKeeps, UpdateMonsKeeps, Stutter DEF Next

LEMMA Inductive == Spec => []IInv
<1>1. IInv /\ [Next]_vars => IInv'
  BY StepKeeps
<1> QED BY <1>1, InitHolds, PTL DEF Spec

\* Type correctness: the focus stack lists the mapped windows, the layer lists the
\* surfaces that exist, and the keyboard is with a surface of a known kind.
THEOREM TypeCorrect == Spec => []TypeOK
<1>1. IInv => TypeOK
  BY DEF IInv
<1> QED BY <1>1, Inductive, PTL

\* focusclient() and unmaplayersurfacenotify() never leave the keyboard of an unlocked
\* session with something gone or hidden.
THEOREM FocusAlwaysReturns == Spec => []FocusReturns
<1>1. IInv => FocusReturns
  BY DEF IInv
<1> QED BY <1>1, Inductive, PTL

\* No handler takes the keyboard from the lock surfaces of a locked session.
THEOREM LockAlwaysHolds == Spec => LockHolds
<1>1. IInv /\ [Next]_vars => [UnderLock]_vars
  BY StepKeeps
<1>2. LockHolds <=> [][UnderLock]_vars
  BY DEF LockHolds, UnderLock
<1> QED BY <1>1, <1>2, Inductive, PTL DEF Spec

\* No step of the windows takes the keyboard from a mapped overlay.
THEOREM OverlayAlwaysHolds == Spec => OverlayHolds
<1>1. IInv /\ [Next]_vars => [UnderOverlay]_vars
  BY StepKeeps
<1>2. OverlayHolds <=> [][UnderOverlay]_vars
  BY DEF OverlayHolds, UnderOverlay
<1> QED BY <1>1, <1>2, Inductive, PTL DEF Spec
=============================================================================
