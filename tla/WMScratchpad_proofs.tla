-------------------------- MODULE WMScratchpad_proofs --------------------------
(***************************************************************************)
(* For any windows, outputs, tags, rules and layouts: a hidden scratchpad   *)
(* shows none of its windows, and the lists stay in step; with one output,  *)
(* no output's scratchpad remembers a window that was closed; and if its    *)
(* layouts all tile, focus stays on the topmost window and that one lit.    *)
(***************************************************************************)
EXTENDS PeachWM_proofs

-----------------------------------------------------------------------------
(* The invariant of a session with a scratchpad                            *)

(* The windows an output's scratchpad remembers.                            *)
Refs(o) == {o.scratchpad_current, o.scratchpad_prev_focus} \ {NoClient}

RefsHome(s) ==
  \A m \in Monitors : \A c \in Refs(s.out[m]) : c \in ToSet(s.clients) /\ s.win[c].mon = m

PadShown(s, c) == s.win[c].mon # NoMon /\ s.out[s.win[c].mon].scratchpad_visible

(* Of the windows not in X, none is lit in a scratchpad that is hidden.     *)
Hidden(s, X) ==
  \A c \in ToSet(s.clients) :
    c \notin X /\ s.win[c].isscratchpad /\ Enabled(s, s.win[c].mon) /\ ~ PadShown(s, c)
    => ~ s.win[c].enabled

(* Outputs are only plugged in these sessions.                              *)
AllOn(s) ==
  /\ \A m \in Monitors : s.out[m].power \in {"on", "gone"}
  /\ s.selmon # NoMon => Enabled(s, s.selmon)
  /\ \A c \in ToSet(s.clients) : s.win[c].mon # NoMon => Enabled(s, s.win[c].mon)

PadCore(s, X) ==
  /\ Sound(s) /\ OutputsListed(s) /\ AllOn(s) /\ Hidden(s, X)
  /\ OneOutput => RefsHome(s)

PadInv(s) == PadCore(s, {}) /\ WindowsListed(s)

-----------------------------------------------------------------------------
(* Steps inside a handler                                                  *)

(* The same windows in the same places.                                     *)
Near(s, t) ==
  /\ Sound(t)
  /\ t.mons = s.mons /\ t.clients = s.clients /\ t.grab = s.grab
  /\ \A d \in Clients : t.win[d].status = s.win[d].status /\ t.win[d].mon = s.win[d].mon
  /\ \A d \in Clients : d \notin ToSet(s.clients) => t.win[d].enabled = s.win[d].enabled

LEMMA NearTrans ==
  ASSUME NEW s, NEW t, NEW u, Near(s, t), Near(t, u)
  PROVE  Near(s, u)
BY DEF Near

LEMMA NearListed ==
  ASSUME NEW s, WindowsListed(s), NEW t, Near(s, t)
  PROVE  WindowsListed(t)
<1>1. {d \in Clients : t.win[d].status = "mapped"} = {d \in Clients : s.win[d].status = "mapped"}
  BY DEF Near
<1>2. ASSUME NEW d \in Clients, t.win[d].status # "mapped"
      PROVE  t.win[d].mon = NoMon /\ ~ t.win[d].enabled
  <2>1. d \notin ToSet(s.clients) /\ s.win[d].mon = NoMon /\ ~ s.win[d].enabled
    BY <1>2 DEF WindowsListed, Near
  <2> QED BY <2>1 DEF Near
<1> QED BY <1>1, <1>2 DEF WindowsListed, Near

SamePad(o, p) ==
  /\ p.power = o.power
  /\ p.scratchpad_visible = o.scratchpad_visible
  /\ p.scratchpad_prev_focus = o.scratchpad_prev_focus
  /\ p.scratchpad_current = o.scratchpad_current

(* Nothing joins or leaves a scratchpad, and none of its windows is lit but *)
(* where it is open.                                                        *)
Quiet(s, t) ==
  /\ Near(s, t)
  /\ t.selmon = s.selmon \/ \E c \in ToSet(s.clients) : t.selmon = s.win[c].mon
  /\ \A m \in Monitors : SamePad(s.out[m], t.out[m])
  /\ \A d \in Clients : t.win[d].isscratchpad = s.win[d].isscratchpad
  /\ \A d \in ToSet(s.clients) :
       t.win[d].isscratchpad /\ t.win[d].enabled => s.win[d].enabled \/ PadShown(s, d)

LEMMA QuietSelf ==
  ASSUME NEW s, Sound(s)
  PROVE  Quiet(s, s)
BY DEF Quiet, Near, SamePad

LEMMA PadShownKept ==
  ASSUME NEW s, Sound(s), NEW t, NEW d \in Clients, t.win[d].mon = s.win[d].mon,
         \A m \in Monitors : t.out[m].scratchpad_visible = s.out[m].scratchpad_visible
  PROVE  PadShown(t, d) <=> PadShown(s, d)
<1>1. s.win[d].mon \in Monitors \cup {NoMon}
  BY StateFields DEF Sound, WindowType
<1> QED BY <1>1 DEF PadShown

LEMMA QuietTrans ==
  ASSUME NEW s, Sound(s), NEW t, NEW u, Quiet(s, t), Quiet(t, u)
  PROVE  Quiet(s, u)
<1>1. Near(s, u)
  BY NearTrans DEF Quiet
<1>2. \A m \in Monitors : SamePad(s.out[m], u.out[m])
  BY DEF Quiet, SamePad
<1>3. u.selmon = s.selmon \/ \E c \in ToSet(s.clients) : u.selmon = s.win[c].mon
  <2>1. t.clients = s.clients /\ \A c \in ToSet(s.clients) : t.win[c].mon = s.win[c].mon
    BY SoundFacts DEF Quiet, Near
  <2> QED BY <2>1 DEF Quiet
<1>4. ASSUME NEW d \in ToSet(s.clients), u.win[d].isscratchpad, u.win[d].enabled
      PROVE  s.win[d].enabled \/ PadShown(s, d)
  <2>1. d \in Clients /\ t.clients = s.clients
    BY SoundFacts DEF Quiet, Near
  <2>2. PadShown(t, d) <=> PadShown(s, d)
    BY <2>1, PadShownKept DEF Quiet, Near, SamePad
  <2> QED BY <1>4, <2>1, <2>2 DEF Quiet
<1> QED BY <1>1, <1>2, <1>3, <1>4 DEF Quiet

(* Such a step keeps what the invariant says of lists and scratchpads.      *)
LEMMA QuietCore ==
  ASSUME NEW s, NEW X, PadCore(s, X), NEW t, Quiet(s, t)
  PROVE  PadCore(t, X) /\ Near(s, t)
<1>1. Sound(s) /\ Sound(t) /\ t.clients = s.clients /\ ToSet(s.clients) \subseteq Clients
  BY SoundFacts DEF PadCore, Quiet, Near
<1>2. \A m : Enabled(t, m) <=> m # NoMon /\ t.out[m].power = "on"
  BY DEF Enabled
<1>3. \A m \in Monitors \cup {NoMon} : Enabled(t, m) <=> Enabled(s, m)
  BY DEF Enabled, Quiet, SamePad
<1>4. \A c \in ToSet(s.clients) : s.win[c].mon \in Monitors \cup {NoMon}
  BY <1>1, StateFields DEF Sound, WindowType
<1>5. s.selmon \in Monitors \cup {NoMon}
  BY <1>1, StateFields DEF Sound
<1>6. OutputsListed(t)
  <2>1. {m \in Monitors : t.out[m].power # "gone"} = {m \in Monitors : s.out[m].power # "gone"}
    BY DEF Quiet, SamePad
  <2> QED BY <2>1 DEF PadCore, OutputsListed, Quiet, Near
<1>7. AllOn(t)
  <2>1. \A m \in Monitors : t.out[m].power \in {"on", "gone"}
    BY DEF PadCore, AllOn, Quiet, SamePad
  <2>2. t.selmon # NoMon => Enabled(t, t.selmon)
    BY <1>3, <1>4, <1>5 DEF PadCore, AllOn, Quiet
  <2>3. \A c \in ToSet(t.clients) : t.win[c].mon # NoMon => Enabled(t, t.win[c].mon)
    BY <1>1, <1>3, <1>4 DEF PadCore, AllOn, Quiet, Near
  <2> QED BY <2>1, <2>2, <2>3 DEF AllOn
<1>8. Hidden(t, X)
  <2> SUFFICES ASSUME NEW c \in ToSet(s.clients), c \notin X, t.win[c].isscratchpad,
                      Enabled(t, t.win[c].mon), ~ PadShown(t, c), t.win[c].enabled
               PROVE  FALSE
    BY <1>1 DEF Hidden
  <2>1. c \in Clients /\ t.win[c].mon = s.win[c].mon /\ s.win[c].isscratchpad
    BY <1>1 DEF Quiet, Near
  <2>2. Enabled(s, s.win[c].mon)
    BY <1>3, <1>4, <2>1
  <2>3. ~ PadShown(s, c)
    BY <1>1, <2>1, PadShownKept DEF Quiet, SamePad
  <2> QED BY <2>1, <2>2, <2>3 DEF PadCore, Hidden, Quiet
<1>9. RefsHome(s) => RefsHome(t)
  BY <1>1 DEF RefsHome, Refs, Quiet, Near, SamePad
<1> QED BY <1>1, <1>6, <1>7, <1>8, <1>9 DEF PadCore, Quiet

(* No window is left out of the account any more.                           *)
LEMMA PadDone ==
  ASSUME NEW s, NEW X, PadCore(s, X),
         \A c \in ToSet(s.clients) \cap X : ~ s.win[c].enabled \/ PadShown(s, c)
  PROVE  PadCore(s, {})
BY DEF PadCore, Hidden

LEMMA DeskQuiet ==
  ASSUME NEW s, NEW t, Sound(t), SameDesk(s, t), t.selmon = s.selmon,
         \A d \in Clients : d \notin ToSet(s.clients) => t.win[d].enabled = s.win[d].enabled,
         \A d \in ToSet(s.clients) :
           t.win[d].isscratchpad /\ t.win[d].enabled => s.win[d].enabled \/ PadShown(s, d)
  PROVE  Quiet(s, t)
BY DEF Quiet, Near, SamePad, SameDesk, SameButTree, SameButShown

LEMMA ArrangeQuiet ==
  ASSUME NEW s, Sound(s), NEW m \in Monitors
  PROVE  Quiet(s, Arrange(s, m))
<1> DEFINE t == Arrange(s, m)
<1>1. CASE ~ Enabled(s, m)
  BY <1>1, ArrangeDoes, QuietSelf
<1>2. CASE Enabled(s, m)
  <2>1. Redrawn(s, t, m) /\ Arranged(s, t, m) /\ Sound(t)
    BY <1>2, ArrangeDoes, RedrawnSound
  <2> HIDE DEF t
  <2>2. \A d \in Clients : d \notin ToSet(s.clients) => t.win[d].enabled = s.win[d].enabled
    BY <2>1 DEF Arranged
  <2>3. ASSUME NEW d \in ToSet(s.clients), t.win[d].isscratchpad, t.win[d].enabled
        PROVE  s.win[d].enabled \/ PadShown(s, d)
    <3>1. d \in Clients /\ m # NoMon
      BY SoundFacts, ConstantsAssumption
    <3>2. CASE s.win[d].mon # m
      BY <2>1, <2>3, <3>1, <3>2 DEF Redrawn
    <3>3. CASE s.win[d].mon = m
      <4>1. Node(s.win[d], t.win[d], OnDisplay(s, d, m),
                 ArrangedLayer(s.win[d], CurLayout(s, m)))
        BY <2>1, <3>1, <3>3 DEF Arranged
      <4>2. VisibleOn(s, d, m) /\ s.win[d].isscratchpad
        BY <2>3, <4>1 DEF Node, OnDisplay, SameButShown
      <4> QED BY <3>1, <3>3, <4>2 DEF VisibleOn, Shows, PadShown
    <3> QED BY <3>2, <3>3
  <2>4. Quiet(s, t)
    BY <2>1, <2>2, <2>3, DeskQuiet DEF Redrawn
  <2> QED BY <2>4 DEF t
<1> QED BY <1>1, <1>2

LEMMA PutQuiet ==
  ASSUME NEW s, Sound(s), NEW c \in Clients, NEW v \in WindowType,
         v.status = s.win[c].status, v.mon = s.win[c].mon,
         v.isscratchpad = s.win[c].isscratchpad, v.enabled = s.win[c].enabled
  PROVE  Quiet(s, Put(s, c, v))
<1> DEFINE t == Put(s, c, v)
<1>1. /\ Sound(t) /\ t.mons = s.mons /\ t.out = s.out /\ t.selmon = s.selmon
      /\ t.clients = s.clients /\ t.grab = s.grab /\ t.win[c] = v
      /\ \A d \in Clients : d # c => t.win[d] = s.win[d]
  BY PutDoes
<1> HIDE DEF t
<1>2. ToSet(s.clients) \subseteq Clients
  BY SoundFacts
<1>3. Near(s, t)
  BY <1>1 DEF Near
<1>4. \A m \in Monitors : SamePad(s.out[m], t.out[m])
  BY <1>1 DEF SamePad
<1>5. \A d \in Clients : t.win[d].isscratchpad = s.win[d].isscratchpad
                         /\ t.win[d].enabled = s.win[d].enabled
  BY <1>1
<1>6. Quiet(s, t)
  BY <1>1, <1>2, <1>3, <1>4, <1>5 DEF Quiet
<1> QED BY <1>6 DEF t

LEMMA PutArrangeQuiet ==
  ASSUME NEW s, Sound(s), NEW c \in Clients, NEW v \in WindowType,
         v.status = s.win[c].status, v.mon = s.win[c].mon,
         v.isscratchpad = s.win[c].isscratchpad, v.enabled = s.win[c].enabled,
         NEW m \in Monitors
  PROVE  Quiet(s, Arrange(Put(s, c, v), m))
<1> DEFINE a == Put(s, c, v)
<1>1. Quiet(s, a) /\ Sound(a)
  BY PutQuiet, PutDoes
<1> HIDE DEF a
<1>2. Quiet(a, Arrange(a, m))
  BY <1>1, ArrangeQuiet
<1>3. Quiet(s, Arrange(a, m))
  BY <1>1, <1>2, QuietTrans
<1> QED BY <1>3 DEF a

LEMMA FullscreenQuiet ==
  ASSUME NEW s, Sound(s), NEW c \in Clients, NEW b \in BOOLEAN
  PROVE  Quiet(s, SetFullscreen(s, c, b))
<1> DEFINE w == s.win[c]
           t == SetFullscreen(s, c, b)
<1>1. s \in StateType /\ s.win \in [Clients -> WindowType] /\ w \in WindowType
  BY StateFields DEF Sound
<1>2. CASE w.mon = NoMon \/ w.status # "mapped"
  <2> DEFINE v == [w EXCEPT !.isfullscreen = b]
  <2>1. /\ v \in WindowType
        /\ v.status = w.status /\ v.isscratchpad = w.isscratchpad /\ v.enabled = w.enabled
        /\ v.mon = w.mon
    BY <1>1 DEF WindowType
  <2>2. t = Put(s, c, v)
    BY <1>2 DEF SetFullscreen, Put
  <2> HIDE DEF v, t
  <2> QED BY <2>1, <2>2, PutQuiet DEF t
<1>3. CASE w.mon # NoMon /\ w.status = "mapped"
  <2> DEFINE l == FullscreenLayer(w, b)
             v == [w EXCEPT !.isfullscreen = b, !.layer = l]
  <2>1. l \in {"none", "LyrTile", "LyrFloat", "LyrFS", "LyrScratch"}
    BY DEF FullscreenLayer
  <2>2. t = Arrange([s EXCEPT !.win[c].isfullscreen = b, !.win[c].layer = l], w.mon)
    BY <1>3 DEF SetFullscreen
  <2> HIDE DEF l
  <2>3. /\ v \in WindowType
        /\ v.status = w.status /\ v.isscratchpad = w.isscratchpad /\ v.enabled = w.enabled
        /\ v.mon = w.mon
    BY <1>1, <2>1 DEF WindowType
  <2>4. [s EXCEPT !.win[c].isfullscreen = b, !.win[c].layer = l] = Put(s, c, v)
    BY <1>1 DEF Put, StateType
  <2> HIDE DEF v, t
  <2>5. w.mon \in Monitors
    BY <1>1, <1>3 DEF WindowType
  <2>6. t = Arrange(Put(s, c, v), w.mon)
    BY <2>2, <2>4
  <2> QED BY <2>3, <2>5, <2>6, PutArrangeQuiet DEF t
<1> QED BY <1>2, <1>3

LEMMA FloatingQuiet ==
  ASSUME NEW s, Sound(s), NEW c \in Clients, NEW b \in BOOLEAN
  PROVE  Quiet(s, SetFloating(s, c, b))
<1> DEFINE w == s.win[c]
           t == SetFloating(s, c, b)
<1>1. s \in StateType /\ s.win \in [Clients -> WindowType] /\ w \in WindowType
  BY StateFields DEF Sound
<1>2. CASE w.mon = NoMon \/ w.status # "mapped" \/ CurLayout(s, w.mon) = "floating"
  <2> DEFINE v == [w EXCEPT !.isfloating = b]
  <2>1. /\ v \in WindowType
        /\ v.status = w.status /\ v.isscratchpad = w.isscratchpad /\ v.enabled = w.enabled
        /\ v.mon = w.mon
    BY <1>1 DEF WindowType
  <2>2. t = Put(s, c, v)
    BY <1>2 DEF SetFloating, Put
  <2> HIDE DEF v, t
  <2> QED BY <2>1, <2>2, PutQuiet DEF t
<1>3. CASE ~ (w.mon = NoMon \/ w.status # "mapped" \/ CurLayout(s, w.mon) = "floating")
  <2> DEFINE l == FloatingLayer(w, UnderFullscreen(s, c), b)
             v == [w EXCEPT !.isfloating = b, !.layer = l]
  <2>1. l \in {"none", "LyrTile", "LyrFloat", "LyrFS", "LyrScratch"}
    BY DEF FloatingLayer
  <2>2. t = Arrange([s EXCEPT !.win[c].isfloating = b, !.win[c].layer = l], w.mon)
    BY <1>3 DEF SetFloating
  <2> HIDE DEF l
  <2>3. /\ v \in WindowType
        /\ v.status = w.status /\ v.isscratchpad = w.isscratchpad /\ v.enabled = w.enabled
        /\ v.mon = w.mon
    BY <1>1, <2>1 DEF WindowType
  <2>4. [s EXCEPT !.win[c].isfloating = b, !.win[c].layer = l] = Put(s, c, v)
    BY <1>1 DEF Put, StateType
  <2> HIDE DEF v, t
  <2>5. w.mon \in Monitors
    BY <1>1, <1>3 DEF WindowType
  <2>6. t = Arrange(Put(s, c, v), w.mon)
    BY <2>2, <2>4
  <2> QED BY <2>3, <2>5, <2>6, PutArrangeQuiet DEF t
<1> QED BY <1>2, <1>3

LEMMA DisableQuiet ==
  ASSUME NEW s, Sound(s), NEW C, C \subseteq ToSet(s.clients)
  PROVE  Quiet(s, SetEnabled(s, C, FALSE))
<1> DEFINE t == SetEnabled(s, C, FALSE)
<1>1. /\ Reshown(s, t)
      /\ \A c \in Clients \cap C : Node(s.win[c], t.win[c], FALSE, s.win[c].layer)
      /\ \A c \in Clients \ C : t.win[c] = s.win[c]
  BY DisableDoes DEF Sound
<1> HIDE DEF t
<1>2. Sound(t) /\ SameDesk(s, t) /\ t.selmon = s.selmon
  BY <1>1, ReshownSound, ReshownDesk DEF Reshown, Sound
<1>3. \A d \in Clients : d \notin ToSet(s.clients) => t.win[d].enabled = s.win[d].enabled
  BY <1>1
<1>4. \A d \in ToSet(s.clients) : t.win[d].enabled => s.win[d].enabled
  BY <1>1, SoundFacts DEF Node
<1>5. Quiet(s, t)
  BY <1>2, <1>3, <1>4, DeskQuiet
<1> QED BY <1>5 DEF t

LEMMA EnableQuiet ==
  ASSUME NEW s, Sound(s), NEW C, C \subseteq ToSet(s.clients), \A c \in C : PadShown(s, c)
  PROVE  Quiet(s, SetEnabled(s, C, TRUE))
<1> DEFINE t == SetEnabled(s, C, TRUE)
<1>1. /\ Reshown(s, t)
      /\ \A c \in Clients \ C : t.win[c] = s.win[c]
  BY EnableDoes DEF Sound
<1> HIDE DEF t
<1>2. Sound(t) /\ SameDesk(s, t) /\ t.selmon = s.selmon
  BY <1>1, ReshownSound, ReshownDesk DEF Reshown, Sound
<1>3. \A d \in Clients : d \notin ToSet(s.clients) => t.win[d].enabled = s.win[d].enabled
  BY <1>1
<1>4. \A d \in ToSet(s.clients) : t.win[d].enabled => s.win[d].enabled \/ PadShown(s, d)
  BY <1>1, SoundFacts
<1>5. Quiet(s, t)
  BY <1>2, <1>3, <1>4, DeskQuiet
<1> QED BY <1>5 DEF t

LEMMA FocusQuiet ==
  ASSUME NEW s, Sound(s), NEW c \in ToSet(s.clients) \cup {NoClient}
  PROVE  Quiet(s, FocusClient(s, c))
<1> DEFINE t == FocusClient(s, c)
<1>1. Refocused(s, t, c) /\ Sound(t)
  BY FocusClientDoes
<1> HIDE DEF t
<1>2. t.selmon = s.selmon \/ \E d \in ToSet(s.clients) : t.selmon = s.win[d].mon
  BY <1>1 DEF Refocused
<1>3. Quiet(s, t)
  BY <1>1, <1>2, SoundFacts DEF Refocused, Quiet, Near, SamePad
<1> QED BY <1>3 DEF t

LEMMA FocusTopQuiet ==
  ASSUME NEW s, Sound(s), NEW m
  PROVE  Quiet(s, FocusTopOf(s, m))
BY FocusQuiet, FocustopIs DEF FocusTopOf

LEMMA RefreshQuiet ==
  ASSUME NEW s, Sound(s), NEW m \in Monitors
  PROVE  Quiet(s, Refresh(s, m))
<1> DEFINE a == FocusTopOf(s, m)
<1>1. Quiet(s, a) /\ Sound(a)
  BY FocusTopQuiet DEF Quiet, Near
<1> HIDE DEF a
<1>2. Quiet(a, Arrange(a, m))
  BY <1>1, ArrangeQuiet
<1>3. Quiet(s, Arrange(a, m))
  BY <1>1, <1>2, QuietTrans
<1> QED BY <1>3 DEF a, Refresh

(* A change that every window's place, kind and node survive.               *)
LEMMA WinQuiet ==
  ASSUME NEW s, Sound(s), NEW w \in [Clients -> WindowType],
         \A d \in Clients :
           /\ w[d].status = s.win[d].status /\ w[d].mon = s.win[d].mon
           /\ w[d].isscratchpad = s.win[d].isscratchpad /\ w[d].enabled = s.win[d].enabled
  PROVE  Quiet(s, [s EXCEPT !.win = w])
<1> DEFINE t == [s EXCEPT !.win = w]
<1>1. /\ t \in StateType /\ t.win = w
      /\ t.mons = s.mons /\ t.out = s.out /\ t.selmon = s.selmon /\ t.clients = s.clients
      /\ t.fstack = s.fstack /\ t.grab = s.grab
  BY WithWin DEF Sound
<1> HIDE DEF t
<1>2. Sound(t) /\ ToSet(s.clients) \subseteq Clients
  BY <1>1, SoundFacts DEF Sound
<1>3. Quiet(s, t)
  BY <1>1, <1>2 DEF Quiet, Near, SamePad
<1> QED BY <1>3 DEF t

LEMMA PadArrangeQuiet ==
  ASSUME NEW s, Sound(s), NEW m
  PROVE  Quiet(s, ScratchpadArrange(s, m))
<1> DEFINE w == [c \in Clients |-> IF c \in Scratchpads(s, m)
                                   THEN [s.win[c] EXCEPT !.layer = "LyrScratch"] ELSE s.win[c]]
<1>1. s \in StateType /\ s.win \in [Clients -> WindowType]
  BY StateFields DEF Sound
<1>2. ASSUME NEW d \in Clients
      PROVE  /\ w[d] \in WindowType
             /\ w[d].status = s.win[d].status /\ w[d].mon = s.win[d].mon
             /\ w[d].isscratchpad = s.win[d].isscratchpad /\ w[d].enabled = s.win[d].enabled
  <2> DEFINE x == s.win[d]
             y == [x EXCEPT !.layer = "LyrScratch"]
  <2>1. x \in WindowType
    BY <1>1
  <2>2. /\ y \in WindowType /\ y.status = x.status /\ y.mon = x.mon
        /\ y.isscratchpad = x.isscratchpad /\ y.enabled = x.enabled
    BY <2>1 DEF WindowType
  <2>3. w[d] = y \/ w[d] = x
    OBVIOUS
  <2> HIDE DEF w, y
  <2> QED BY <2>1, <2>2, <2>3
<1>3. ScratchpadArrange(s, m) = [s EXCEPT !.win = w]
  BY DEF ScratchpadArrange
<1>4. w \in [Clients -> WindowType]
  BY <1>2
<1> HIDE DEF w
<1> QED BY <1>2, <1>3, <1>4, WinQuiet

LEMMA UntileQuiet ==
  ASSUME NEW s, Sound(s), NEW m
  PROVE  Quiet(s, Untile(s, m))
<1> DEFINE w == [c \in Clients |-> IF c \in Tileable(s, m)
                                   THEN [s.win[c] EXCEPT !.isfloating = TRUE] ELSE s.win[c]]
<1>1. s \in StateType /\ s.win \in [Clients -> WindowType]
  BY StateFields DEF Sound
<1>2. ASSUME NEW d \in Clients
      PROVE  /\ w[d] \in WindowType
             /\ w[d].status = s.win[d].status /\ w[d].mon = s.win[d].mon
             /\ w[d].isscratchpad = s.win[d].isscratchpad /\ w[d].enabled = s.win[d].enabled
  <2> DEFINE x == s.win[d]
             y == [x EXCEPT !.isfloating = TRUE]
  <2>1. x \in WindowType
    BY <1>1
  <2>2. /\ y \in WindowType /\ y.status = x.status /\ y.mon = x.mon
        /\ y.isscratchpad = x.isscratchpad /\ y.enabled = x.enabled
    BY <2>1 DEF WindowType
  <2>3. w[d] = y \/ w[d] = x
    OBVIOUS
  <2> HIDE DEF w, y
  <2> QED BY <2>1, <2>2, <2>3
<1>3. Untile(s, m) = s \/ Untile(s, m) = [s EXCEPT !.win = w]
  BY DEF Untile
<1>4. w \in [Clients -> WindowType]
  BY <1>2
<1> HIDE DEF w
<1> QED BY <1>2, <1>3, <1>4, WinQuiet, QuietSelf

LEMMA OutFields ==
  ASSUME NEW s, Sound(s), NEW m \in Monitors, NEW x \in MonitorType
  PROVE  LET t == OutAs(s, m, x) IN
         /\ Sound(t)
         /\ t.mons = s.mons /\ t.selmon = s.selmon
         /\ t.clients = s.clients /\ t.fstack = s.fstack /\ t.win = s.win
         /\ t.focus = s.focus /\ t.grab = s.grab
         /\ t.out[m] = x
         /\ \A n \in Monitors : n # m => t.out[n] = s.out[n]
<1> DEFINE o == [s.out EXCEPT ![m] = x]
           t == OutAs(s, m, x)
<1>1. s \in StateType /\ s.out \in [Monitors -> MonitorType]
  BY StateFields DEF Sound
<1>2. o \in [Monitors -> MonitorType] /\ o[m] = x /\ \A n \in Monitors : n # m => o[n] = s.out[n]
  BY <1>1
<1>3. t = [s EXCEPT !.out = o]
  BY <1>1 DEF OutAs, WithOutputs, StateType
<1> HIDE DEF o, t
<1>4. /\ t \in StateType /\ t.out = o
      /\ t.mons = s.mons /\ t.win = s.win
      /\ t.selmon = s.selmon /\ t.clients = s.clients
      /\ t.fstack = s.fstack /\ t.focus = s.focus
      /\ t.grab = s.grab
  BY <1>1, <1>2, <1>3, WithOut
<1> QED BY <1>2, <1>4 DEF Sound, t, o

LEMMA OutQuiet ==
  ASSUME NEW s, Sound(s), NEW m \in Monitors, NEW x \in MonitorType, SamePad(s.out[m], x)
  PROVE  Quiet(s, OutAs(s, m, x))
<1> DEFINE t == OutAs(s, m, x)
<1>1. /\ Sound(t) /\ t.mons = s.mons /\ t.selmon = s.selmon /\ t.clients = s.clients
      /\ t.win = s.win /\ t.grab = s.grab /\ t.out[m] = x
      /\ \A n \in Monitors : n # m => t.out[n] = s.out[n]
  BY OutFields
<1> HIDE DEF t
<1>2. \A n \in Monitors : SamePad(s.out[n], t.out[n])
  <2>1. \A n \in Monitors : n # m => SamePad(s.out[n], t.out[n])
    BY <1>1 DEF SamePad
  <2> QED BY <1>1, <2>1
<1>3. Quiet(s, t)
  BY <1>1, <1>2, SoundFacts DEF Quiet, Near
<1> QED BY <1>3 DEF t

(* An output whose trees have lost a leaf.                                  *)
Pruned(o, c) == [o EXCEPT !.dwindle_tree = [u \in Tags |-> o.dwindle_tree[u] \ {c}]]

LEMMA PrunedType ==
  ASSUME NEW o \in MonitorType, NEW c
  PROVE  Pruned(o, c) \in MonitorType /\ SamePad(o, Pruned(o, c))
<1> DEFINE d == [u \in Tags |-> o.dwindle_tree[u] \ {c}]
<1>1. d \in [Tags -> SUBSET Clients]
  BY DEF MonitorType
<1>2. Pruned(o, c) = [o EXCEPT !.dwindle_tree = d]
  BY DEF Pruned
<1> HIDE DEF d
<1> QED BY <1>1, <1>2 DEF MonitorType, SamePad

LEMMA RemoveIs ==
  ASSUME NEW s \in StateType, NEW c, s.win[c].mon # NoMon
  PROVE  RemoveFromTrees(s, c) = OutAs(s, s.win[c].mon, Pruned(s.out[s.win[c].mon], c))
BY DEF RemoveFromTrees, OutAs, WithOutputs, Pruned, StateType

LEMMA RemoveQuiet ==
  ASSUME NEW s, Sound(s), NEW c \in Clients
  PROVE  Quiet(s, RemoveFromTrees(s, c)) /\ RemoveFromTrees(s, c).win = s.win
<1> DEFINE m == s.win[c].mon
<1>1. CASE m = NoMon
  BY <1>1, QuietSelf DEF RemoveFromTrees
<1>2. CASE m # NoMon
  <2>1. s \in StateType /\ m \in Monitors /\ s.out[m] \in MonitorType
    BY <1>2, StateFields DEF Sound, WindowType
  <2>2. RemoveFromTrees(s, c) = OutAs(s, m, Pruned(s.out[m], c))
    BY <1>2, <2>1, RemoveIs
  <2>3. Pruned(s.out[m], c) \in MonitorType /\ SamePad(s.out[m], Pruned(s.out[m], c))
    BY <2>1, PrunedType
  <2> HIDE DEF m
  <2> QED BY <2>1, <2>2, <2>3, OutQuiet, OutFields
<1> QED BY <1>1, <1>2

LEMMA UnsetFullscreenQuiet ==
  ASSUME NEW s, Sound(s), NEW c, NEW p, NEW m
  PROVE  Quiet(s, UnsetFullscreen(s, c, p, m))
<1> DEFINE q == s.clients
           n == Len(q)
<1>1. s \in StateType /\ q \in Seq(Clients) /\ n \in Nat
  BY StateFields DEF Sound
<1>2. \A i \in 1 .. n : q[i] \in Clients
  BY <1>1
<1>3. PICK g : /\ g[0] = s /\ g[n] = UnsetFullscreen(s, c, p, m)
               /\ \A i \in 1 .. n : g[i] = Turn(4, g[i - 1], q[i], <<c, p, m>>)
  BY <1>1, UnsetFullscreenSteps DEF Steps
<1>4. \A i \in 1 .. n : g[i] = UnsetOne(g[i - 1], q[i], c, p, m)
  BY <1>3 DEF Turn
<1> DEFINE R(i) == Quiet(s, g[i])
           T == {i \in 0 .. n : R(i)}
<1>5. R(0)
  BY <1>3, QuietSelf
<1>6. ASSUME NEW i \in 0 .. n - 1, R(i) PROVE R(i + 1)
  <2> DEFINE a == g[i]
             w == q[i + 1]
             t == g[i + 1]
  <2>1. i + 1 \in 1 .. n /\ w \in Clients
    BY <1>1, <1>2
  <2>2. t = UnsetOne(a, w, c, p, m)
    BY <1>1, <1>4, <2>1
  <2>3. t = a \/ t = SetFullscreen(a, w, FALSE)
    BY <2>2 DEF UnsetOne
  <2>4. Quiet(s, a) /\ Sound(a)
    BY <1>6 DEF Quiet, Near
  <2> HIDE DEF a, t, w
  <2>5. Quiet(a, SetFullscreen(a, w, FALSE))
    <3>1. FALSE \in BOOLEAN
      OBVIOUS
    <3> QED BY <2>1, <2>4, <3>1, FullscreenQuiet, Zenon
  <2>6. Quiet(s, t)
    BY <2>3, <2>4, <2>5, QuietTrans
  <2> QED BY <2>6 DEF t
<1> HIDE DEF R
<1>7. \A i \in 0 .. n : i \in T
  <2>1. 0 \in T
    BY <1>1, <1>5
  <2>2. \A i \in 0 .. n - 1 : i \in T => i + 1 \in T
    BY <1>1, <1>6
  <2> HIDE DEF T
  <2> QED BY <1>1, <2>1, <2>2, InductionUpTo
<1>8. R(n)
  BY <1>1, <1>7
<1> QED BY <1>3, <1>8 DEF R

-----------------------------------------------------------------------------
(* Steps that move a window in or out of a scratchpad, or to an output     *)

(* A scratchpad opens, or closes once its windows are left out of account.  *)
LEMMA OutPad ==
  ASSUME NEW s, NEW X, PadCore(s, X), NEW m \in Monitors, NEW x \in MonitorType,
         x.power = s.out[m].power,
         s.out[m].scratchpad_visible => x.scratchpad_visible \/ Scratchpads(s, m) \subseteq X,
         OneOutput => \A c \in Refs(x) : c \in ToSet(s.clients) /\ s.win[c].mon = m
  PROVE  PadCore(OutAs(s, m, x), X) /\ Near(s, OutAs(s, m, x))
<1> DEFINE t == OutAs(s, m, x)
<1>1. /\ Sound(t) /\ t.mons = s.mons /\ t.selmon = s.selmon /\ t.clients = s.clients
      /\ t.win = s.win /\ t.grab = s.grab /\ t.out[m] = x
      /\ \A n \in Monitors : n # m => t.out[n] = s.out[n]
  BY OutFields DEF PadCore
<1> HIDE DEF t
<1>2. \A n \in Monitors : t.out[n].power = s.out[n].power
  BY <1>1
<1>3. /\ s.selmon \in Monitors \cup {NoMon} /\ ToSet(s.clients) \subseteq Clients
      /\ \A c \in ToSet(s.clients) : s.win[c].mon \in Monitors \cup {NoMon}
  BY SoundFacts, StateFields DEF PadCore, Sound, WindowType
<1>4. \A n \in Monitors \cup {NoMon} : Enabled(t, n) <=> Enabled(s, n)
  BY <1>2 DEF Enabled
<1>5. OutputsListed(t)
  <2>1. {n \in Monitors : t.out[n].power # "gone"} = {n \in Monitors : s.out[n].power # "gone"}
    BY <1>2
  <2> QED BY <1>1, <2>1 DEF PadCore, OutputsListed
<1>6. AllOn(t)
  BY <1>1, <1>2, <1>3, <1>4 DEF PadCore, AllOn
<1>7. Hidden(t, X)
  <2> SUFFICES ASSUME NEW c \in ToSet(s.clients), c \notin X, s.win[c].isscratchpad,
                      Enabled(t, s.win[c].mon), ~ PadShown(t, c), s.win[c].enabled
               PROVE  FALSE
    BY <1>1 DEF Hidden
  <2>1. Enabled(s, s.win[c].mon) /\ s.win[c].mon \in Monitors /\ s.win[c].mon # NoMon
    BY <1>3, <1>4 DEF Enabled
  <2>2. ~ PadShown(s, c)
    <3>1. CASE s.win[c].mon = m
      <4>1. c \in Scratchpads(s, m)
        BY <3>1 DEF Scratchpads
      <4> QED BY <1>1, <2>1, <3>1, <4>1 DEF PadShown
    <3>2. CASE s.win[c].mon # m
      BY <1>1, <2>1, <3>2 DEF PadShown
    <3> QED BY <3>1, <3>2
  <2> QED BY <2>1, <2>2 DEF PadCore, Hidden
<1>8. OneOutput => RefsHome(t)
  BY <1>1 DEF PadCore, RefsHome, OneOutput
<1>9. Near(s, t)
  BY <1>1 DEF Near
<1> QED BY <1>1, <1>5, <1>6, <1>7, <1>8, <1>9 DEF PadCore, t

(* A window joins a scratchpad, or leaves one.                              *)
LEMMA MarkPad ==
  ASSUME NEW s, NEW X, PadCore(s, X), NEW c \in Clients, NEW v \in WindowType,
         v.status = s.win[c].status, v.mon = s.win[c].mon, v.enabled = s.win[c].enabled
  PROVE  /\ PadCore(Put(s, c, v), X \cup {c}) /\ Near(s, Put(s, c, v))
         /\ ~ v.isscratchpad => PadCore(Put(s, c, v), X)
<1> DEFINE t == Put(s, c, v)
<1>1. /\ Sound(t) /\ t.mons = s.mons /\ t.out = s.out /\ t.selmon = s.selmon
      /\ t.clients = s.clients /\ t.grab = s.grab /\ t.win[c] = v
      /\ \A d \in Clients : d # c => t.win[d] = s.win[d]
  BY PutDoes DEF PadCore
<1> HIDE DEF t
<1>2. ToSet(s.clients) \subseteq Clients
  BY SoundFacts DEF PadCore
<1>3. \A d \in Clients : /\ t.win[d].mon = s.win[d].mon /\ t.win[d].enabled = s.win[d].enabled
                         /\ t.win[d].status = s.win[d].status
  BY <1>1
<1>4. OutputsListed(t)
  BY <1>1 DEF PadCore, OutputsListed
<1>5. AllOn(t)
  BY <1>1, <1>2, <1>3 DEF PadCore, AllOn, Enabled
<1>6. Hidden(t, X \cup {c}) /\ (~ v.isscratchpad => Hidden(t, X))
  <2>1. ASSUME NEW d \in ToSet(s.clients), d \notin X, d # c, t.win[d].isscratchpad,
               Enabled(t, t.win[d].mon), ~ PadShown(t, d)
        PROVE  ~ t.win[d].enabled
    BY <1>1, <1>2, <2>1 DEF PadCore, Hidden, Enabled, PadShown
  <2> QED BY <1>1, <2>1 DEF Hidden
<1>7. OneOutput => RefsHome(t)
  BY <1>1, <1>2, <1>3 DEF PadCore, RefsHome
<1>8. Near(s, t)
  BY <1>1, <1>2, <1>3 DEF Near
<1> QED BY <1>1, <1>4, <1>5, <1>6, <1>7, <1>8 DEF PadCore, t

LEMMA PutUnlisted ==
  ASSUME NEW s, NEW X, PadCore(s, X), NEW c \in Clients, c \notin ToSet(s.clients),
         NEW v \in WindowType
  PROVE  PadCore(Put(s, c, v), X)
<1> DEFINE t == Put(s, c, v)
<1>1. /\ Sound(t) /\ t.mons = s.mons /\ t.out = s.out /\ t.selmon = s.selmon
      /\ t.clients = s.clients /\ t.grab = s.grab
      /\ \A d \in Clients : d # c => t.win[d] = s.win[d]
  BY PutDoes DEF PadCore
<1> HIDE DEF t
<1>2. \A d \in ToSet(s.clients) : d \in Clients /\ t.win[d] = s.win[d]
  BY <1>1, SoundFacts DEF PadCore
<1>3. OutputsListed(t)
  BY <1>1 DEF PadCore, OutputsListed
<1>4. AllOn(t)
  BY <1>1, <1>2 DEF PadCore, AllOn, Enabled
<1>5. Hidden(t, X)
  BY <1>1, <1>2 DEF PadCore, Hidden, Enabled, PadShown
<1>6. OneOutput => RefsHome(t)
  BY <1>1, <1>2 DEF PadCore, RefsHome
<1> QED BY <1>1, <1>3, <1>4, <1>5, <1>6 DEF PadCore, t

LEMMA SetMonPad ==
  ASSUME NEW s, PadCore(s, {}), NEW c \in Clients, NEW m \in Monitors \cup {NoMon},
         NEW newtags \in SUBSET Tags,
         c \in ToSet(s.clients) => s.win[c].status = "mapped",
         m = NoMon => c \notin ToSet(s.clients) \/ s.win[c].mon = NoMon,
         m # NoMon => Enabled(s, m)
  PROVE  LET t == SetMon(s, c, m, newtags) IN
         /\ PadCore(t, {}) /\ t.win[c].mon = m
         /\ t.mons = s.mons /\ t.clients = s.clients /\ t.grab = s.grab
         /\ \A n \in Monitors : t.out[n].scratchpad_visible = s.out[n].scratchpad_visible
         /\ \A d \in Clients : /\ t.win[d].status = s.win[d].status
                               /\ t.win[d].isscratchpad = s.win[d].isscratchpad
                               /\ d # c => t.win[d].mon = s.win[d].mon
                               /\ d \notin ToSet(s.clients) => t.win[d].enabled = s.win[d].enabled
<1> DEFINE t == SetMon(s, c, m, newtags)
           old == s.win[c].mon
<1>1. CASE old = m
  BY <1>1 DEF SetMon
<1>2. CASE old # m
  <2>0. Sound(s) /\ NoMon \notin Monitors
    BY ConstantsAssumption DEF PadCore
  <2>1. /\ Changed(s, t, c)
        /\ t.win[c].mon = m
        /\ \A n \in Monitors :
             /\ n # m /\ n # old => SameView(s, t, n)
             /\ n = old => Scene(t, n)
             /\ n = m => Scene(t, n) \/ (c \notin ToSet(s.clients) /\ SameView(s, t, n))
    BY <1>2, <2>0, SetMonDoes
  <2> HIDE DEF t
  <2>2. /\ Sound(t) /\ t.mons = s.mons /\ t.clients = s.clients /\ t.grab = s.grab
        /\ t.selmon = s.selmon
        /\ \A n \in Monitors : SameButTree(s.out[n], t.out[n])
        /\ \A d \in Clients : d # c => SameButShown(s.win[d], t.win[d])
        /\ \A d \in Clients : d \notin ToSet(s.clients) => t.win[d].enabled = s.win[d].enabled
        /\ t.win[c].status = s.win[c].status /\ t.win[c].isscratchpad = s.win[c].isscratchpad
    BY <2>1 DEF Changed
  <2>3. \A d \in Clients : /\ t.win[d].status = s.win[d].status
                           /\ t.win[d].isscratchpad = s.win[d].isscratchpad
                           /\ d # c => t.win[d].mon = s.win[d].mon
    BY <2>2 DEF SameButShown
  <2>4. \A n \in Monitors :
          /\ t.out[n].power = s.out[n].power
          /\ t.out[n].scratchpad_visible = s.out[n].scratchpad_visible
          /\ Refs(t.out[n]) = Refs(s.out[n])
    BY <2>2 DEF SameButTree, Refs
  <2>5. /\ s.selmon \in Monitors \cup {NoMon} /\ ToSet(s.clients) \subseteq Clients
        /\ \A d \in Clients : s.win[d].mon \in Monitors \cup {NoMon}
        /\ \A d \in Clients : t.win[d].mon \in Monitors \cup {NoMon}
    BY <2>0, <2>2, SoundFacts, StateFields DEF Sound, WindowType
  <2>6. \A n \in Monitors \cup {NoMon} : Enabled(t, n) <=> Enabled(s, n)
    BY <2>4 DEF Enabled
  <2>7. OutputsListed(t)
    <3>1. {n \in Monitors : t.out[n].power # "gone"} = {n \in Monitors : s.out[n].power # "gone"}
      BY <2>4
    <3> QED BY <2>2, <3>1 DEF PadCore, OutputsListed
  <2>8. AllOn(t)
    <3>1. \A n \in Monitors : t.out[n].power \in {"on", "gone"}
      BY <2>4 DEF PadCore, AllOn
    <3>2. t.selmon # NoMon => Enabled(t, t.selmon)
      BY <2>2, <2>5, <2>6 DEF PadCore, AllOn
    <3>3. ASSUME NEW d \in ToSet(t.clients), t.win[d].mon # NoMon PROVE Enabled(t, t.win[d].mon)
      <4>1. d \in ToSet(s.clients) /\ d \in Clients
        BY <2>2, <2>5
      <4>2. CASE d = c
        BY <2>1, <2>6, <3>3, <4>2
      <4>3. CASE d # c
        BY <2>3, <2>5, <2>6, <3>3, <4>1, <4>3 DEF PadCore, AllOn
      <4> QED BY <4>2, <4>3
    <3> QED BY <3>1, <3>2, <3>3 DEF AllOn
  <2>9. Hidden(t, {})
    <3> SUFFICES ASSUME NEW d \in ToSet(s.clients), t.win[d].isscratchpad,
                        Enabled(t, t.win[d].mon), ~ PadShown(t, d), t.win[d].enabled
                 PROVE  FALSE
      BY <2>2 DEF Hidden
    <3> DEFINE n == t.win[d].mon
    <3>1. d \in Clients /\ n \in Monitors /\ n # NoMon
      BY <2>5 DEF Enabled
    <3>2. CASE Scene(t, n)
      <4>1. Shown(t, n)
        BY <3>2 DEF Scene
      <4>2. VisibleOn(t, d, n)
        BY <2>2, <4>1 DEF Shown, OnDisplay
      <4> QED BY <3>1, <4>2 DEF VisibleOn, Shows, PadShown
    <3>3. CASE SameView(s, t, n)
      <4>1. On(t, d, n)
        BY <2>2 DEF On
      <4>2. On(s, d, n) /\ t.win[d] = s.win[d] /\ t.out[n] = s.out[n]
        BY <3>1, <3>3, <4>1 DEF SameView
      <4>3. ~ PadShown(s, d) /\ Enabled(s, s.win[d].mon)
        BY <4>2 DEF PadShown, Enabled
      <4> QED BY <4>2, <4>3 DEF PadCore, Hidden
    <3> QED BY <2>1, <3>1, <3>2, <3>3
  <2>10. ASSUME OneOutput PROVE RefsHome(t)
    <3> SUFFICES ASSUME NEW n \in Monitors, NEW d \in Refs(s.out[n])
                 PROVE  d \in ToSet(s.clients) /\ t.win[d].mon = n
      BY <2>2, <2>4 DEF RefsHome
    <3>1. d \in ToSet(s.clients) /\ s.win[d].mon = n /\ d \in Clients
      BY <2>5, <2>10 DEF PadCore, RefsHome
    <3>2. d # c
      <4> SUFFICES ASSUME d = c PROVE FALSE
        OBVIOUS
      <4>1. m = NoMon
        BY <1>2, <2>10, <3>1 DEF OneOutput
      <4> QED BY <1>2, <3>1, <4>1
    <3> QED BY <2>3, <3>1, <3>2
  <2>11. PadCore(t, {})
    BY <2>2, <2>7, <2>8, <2>9, <2>10 DEF PadCore
  <2> QED BY <2>1, <2>2, <2>3, <2>4, <2>11 DEF t
<1> QED BY <1>1, <1>2

LEMMA PadInvFacts ==
  ASSUME NEW s, PadInv(s)
  PROVE  /\ PadCore(s, {}) /\ Sound(s) /\ s \in StateType /\ WindowsListed(s) /\ AllMapped(s)
         /\ ToSet(s.clients) \subseteq Clients /\ ToSet(s.fstack) = ToSet(s.clients)
         /\ s.selmon \in Monitors \cup {NoMon} /\ NoMon \notin Monitors /\ NoClient \notin Clients
         /\ \A c \in Clients : s.win[c] \in WindowType /\ s.win[c].mon \in Monitors \cup {NoMon}
         /\ \A m \in Monitors : s.out[m] \in MonitorType
         /\ s.grab.client \in ToSet(s.clients) \cup {NoClient}
<1>1. Sound(s) /\ PadCore(s, {}) /\ WindowsListed(s) /\ s \in StateType
  BY DEF PadInv, PadCore, Sound
<1>2. AllMapped(s)
  BY <1>1 DEF WindowsListed, AllMapped
<1>3. \A c \in Clients : s.win[c] \in WindowType /\ s.win[c].mon \in Monitors \cup {NoMon}
  BY <1>1, StateFields DEF WindowType
<1> QED BY <1>1, <1>2, <1>3, SoundFacts, StateFields, ConstantsAssumption DEF WindowsListed

LEMMA PadWeaken ==
  ASSUME NEW s, PadCore(s, {}), NEW X
  PROVE  PadCore(s, X)
BY DEF PadCore, Hidden

LEMMA QuietInv ==
  ASSUME NEW s, PadInv(s), NEW t, Quiet(s, t)
  PROVE  PadInv(t)
BY QuietCore, NearListed DEF PadInv

LEMMA OutputsFields ==
  ASSUME NEW s, Sound(s), NEW q \in Seq(Monitors), NEW o \in [Monitors -> MonitorType]
  PROVE  LET t == WithOutputs(s, o, q) IN
         /\ Sound(t) /\ t.mons = q /\ t.out = o
         /\ t.clients = s.clients /\ t.win = s.win /\ t.selmon = s.selmon /\ t.grab = s.grab
<1> DEFINE t == WithOutputs(s, o, q)
<1>1. s \in StateType
  BY DEF Sound
<1>2. /\ t \in StateType /\ t.mons = q /\ t.out = o
      /\ t.clients = s.clients /\ t.win = s.win /\ t.selmon = s.selmon
      /\ t.fstack = s.fstack /\ t.grab = s.grab
  BY <1>1 DEF StateType, WithOutputs
<1> HIDE DEF t
<1> QED BY <1>2 DEF Sound, t

LEMMA PlugPad ==
  ASSUME NEW s, PadInv(s), NEW m \in Monitors, s.out[m].power = "gone"
  PROVE  PadInv(UpdateMons([s EXCEPT !.out[m] = FreshMonitor("on"), !.mons = <<m>> \o s.mons]))
<1> DEFINE f == FreshMonitor("on")
           o == [s.out EXCEPT ![m] = f]
           q == <<m>> \o s.mons
           a == WithOutputs(s, o, q)
           t == UpdateMons(a)
<1>1. /\ Sound(s) /\ s \in StateType /\ OutputsListed(s) /\ AllOn(s) /\ WindowsListed(s)
      /\ s.out \in [Monitors -> MonitorType] /\ s.mons \in Seq(Monitors)
      /\ s.selmon \in Monitors \cup {NoMon} /\ AllMapped(s) /\ NoMon \notin Monitors
      /\ ToSet(s.clients) \subseteq Clients
      /\ \A c \in Clients : s.win[c].mon \in Monitors \cup {NoMon}
  BY PadInvFacts, StateFields DEF PadCore
<1>2. f \in MonitorType /\ f.power = "on" /\ Refs(f) = {}
  BY FreshMonitorType DEF Refs, FreshMonitor
<1>3. /\ o \in [Monitors -> MonitorType] /\ o[m] = f
      /\ \A n \in Monitors : n # m => o[n] = s.out[n]
  BY <1>1, <1>2
<1>4. q \in Seq(Monitors)
  BY <1>1
<1>5. Lists(q, {n \in Monitors : o[n].power # "gone"})
  <2> DEFINE P == {n \in Monitors : s.out[n].power # "gone"}
  <2>1. Lists(s.mons, P) /\ m \notin P
    BY <1>1 DEF OutputsListed
  <2>2. P \cup {m} = {n \in Monitors : o[n].power # "gone"}
    BY <1>2, <1>3
  <2> HIDE DEF P
  <2> QED BY <2>1, <2>2, PutFirst
<1>7. [s EXCEPT !.out[m] = f, !.mons = <<m>> \o s.mons] = a
  BY <1>1 DEF StateType, WithOutputs
<1> HIDE DEF q, o, f
<1>6. /\ Sound(a) /\ a.mons = q /\ a.out = o
      /\ a.clients = s.clients /\ a.win = s.win /\ a.selmon = s.selmon /\ a.grab = s.grab
  BY <1>1, <1>3, <1>4, OutputsFields
<1> HIDE DEF a
<1>8. \A n \in Monitors : Enabled(s, n) => n # m /\ Enabled(a, n) /\ a.out[n] = s.out[n]
  BY <1>3, <1>6 DEF Enabled
<1>9. OutputsListed(a) /\ ToSet(a.mons) = {n \in Monitors : o[n].power # "gone"} /\ m \in ToSet(a.mons)
  BY <1>2, <1>3, <1>5, <1>6 DEF Lists, OutputsListed
<1>10. \A n \in Monitors : a.out[n].power = IF n \in ToSet(a.mons) THEN "on" ELSE "gone"
  BY <1>1, <1>2, <1>3, <1>6, <1>9 DEF AllOn
<1>11. AllMapped(a) /\ (s.selmon = NoMon \/ Enabled(a, s.selmon))
  BY <1>1, <1>6, <1>8 DEF AllMapped, AllOn
<1>12. /\ Kept(a, t) /\ SelmonSettled(t)
       /\ \A n \in ToSet(a.mons) : Scene(t, n)
       /\ \A x \in ToSet(s.clients) :
            t.win[x].mon = IF s.win[x].mon = NoMon THEN t.selmon ELSE s.win[x].mon
  <2>1. \A n \in ToSet(a.mons) : a.out[n].power = "on"
    BY <1>9, <1>10
  <2> QED BY <1>6, <1>9, <1>11, <2>1, LitUpdateMonsDoes
<1> HIDE DEF t
<1>13. /\ Sound(t) /\ t.mons = a.mons /\ t.clients = s.clients /\ t.grab = s.grab
       /\ \A n \in Monitors : t.out[n].power = a.out[n].power /\ Refs(t.out[n]) = Refs(a.out[n])
       /\ \A d \in Clients : t.win[d].status = s.win[d].status
       /\ \A d \in Clients : d \notin ToSet(s.clients) =>
            t.win[d].mon = s.win[d].mon /\ t.win[d].enabled = s.win[d].enabled
       /\ OutputsListed(t)
  <2>1. /\ Sound(t) /\ t.mons = a.mons /\ t.clients = s.clients /\ t.grab = s.grab
        /\ \A d \in Clients : t.win[d].status = s.win[d].status
    BY <1>6, <1>12 DEF Kept
  <2>2. ASSUME NEW n \in Monitors
        PROVE  t.out[n].power = a.out[n].power /\ Refs(t.out[n]) = Refs(a.out[n])
    <3>1. SameButTree(a.out[n], t.out[n])
      BY <1>12 DEF Kept
    <3> QED BY <3>1 DEF SameButTree, Refs
  <2>3. ASSUME NEW d \in Clients, d \notin ToSet(s.clients)
        PROVE  t.win[d].mon = s.win[d].mon /\ t.win[d].enabled = s.win[d].enabled
    <3>1. SameButShown(a.win[d], t.win[d]) /\ t.win[d].enabled = a.win[d].enabled
      BY <1>6, <1>12, <2>3 DEF Kept
    <3> QED BY <1>6, <3>1 DEF SameButShown
  <2>4. OutputsListed(t)
    BY <1>9, <1>12, KeptOutputs
  <2> QED BY <2>1, <2>2, <2>3, <2>4
<1>14. t.selmon # NoMon => t.selmon \in Monitors /\ Enabled(t, t.selmon)
  <2> SUFFICES ASSUME t.selmon # NoMon PROVE t.selmon \in Monitors /\ Enabled(t, t.selmon)
    OBVIOUS
  <2>1. t.selmon \in Monitors
    BY <1>13, StateFields DEF Sound
  <2>2. InLayout(t, t.selmon)
    BY <1>12 DEF SelmonSettled
  <2> QED BY <1>10, <1>13, <2>1, <2>2 DEF InLayout, Enabled
<1>15. AllOn(t)
  <2>1. \A n \in Monitors : t.out[n].power \in {"on", "gone"}
    BY <1>10, <1>13
  <2>2. ASSUME NEW c \in ToSet(s.clients), t.win[c].mon # NoMon PROVE Enabled(t, t.win[c].mon)
    <3>1. CASE s.win[c].mon = NoMon
      BY <1>12, <1>14, <2>2, <3>1
    <3>2. CASE s.win[c].mon # NoMon
      <4>1. t.win[c].mon = s.win[c].mon /\ s.win[c].mon \in Monitors
        BY <1>1, <1>12, <3>2
      <4>2. Enabled(a, s.win[c].mon)
        BY <1>1, <1>8, <3>2, <4>1 DEF AllOn
      <4> QED BY <1>13, <3>2, <4>1, <4>2 DEF Enabled
    <3> QED BY <3>1, <3>2
  <2> QED BY <1>13, <1>14, <2>1, <2>2 DEF AllOn
<1>16. Hidden(t, {})
  <2> SUFFICES ASSUME NEW d \in ToSet(s.clients), t.win[d].isscratchpad,
                      Enabled(t, t.win[d].mon), ~ PadShown(t, d), t.win[d].enabled
               PROVE  FALSE
    BY <1>13 DEF Hidden
  <2> DEFINE n == t.win[d].mon
  <2>1. d \in Clients /\ n \in Monitors /\ n # NoMon
    BY <1>1, <1>13, StateFields DEF Enabled, Sound, WindowType
  <2>2. n \in ToSet(a.mons)
    BY <1>10, <1>13, <2>1 DEF Enabled
  <2>3. Scene(t, n)
    BY <1>12, <2>2
  <2>4. VisibleOn(t, d, n)
    BY <1>13, <2>3 DEF Scene, Shown, OnDisplay
  <2> QED BY <2>1, <2>4 DEF VisibleOn, Shows, PadShown
<1>17. OneOutput => RefsHome(t)
  <2> SUFFICES ASSUME OneOutput, NEW n \in Monitors, NEW d \in Refs(a.out[n])
               PROVE  d \in ToSet(s.clients) /\ t.win[d].mon = n
    BY <1>13 DEF RefsHome
  <2>1. n # m /\ a.out[n] = s.out[n]
    BY <1>2, <1>3, <1>6
  <2>2. d \in ToSet(s.clients) /\ s.win[d].mon = n
    BY <2>1, PadInvFacts DEF PadCore, RefsHome
  <2> QED BY <1>1, <1>12, <2>2
<1>18. WindowsListed(t)
  <2>1. {d \in Clients : t.win[d].status = "mapped"} = {d \in Clients : s.win[d].status = "mapped"}
    BY <1>13
  <2>2. \A d \in Clients : t.win[d].status # "mapped" => t.win[d].mon = NoMon /\ ~ t.win[d].enabled
    <3> SUFFICES ASSUME NEW d \in Clients, t.win[d].status # "mapped"
                 PROVE  t.win[d].mon = NoMon /\ ~ t.win[d].enabled
      OBVIOUS
    <3>1. d \notin ToSet(s.clients) /\ s.win[d].mon = NoMon /\ ~ s.win[d].enabled
      BY <1>1, <1>13 DEF WindowsListed
    <3> QED BY <1>13, <3>1
  <2> QED BY <1>1, <1>13, <2>1, <2>2 DEF WindowsListed
<1>19. PadInv(t)
  BY <1>13, <1>15, <1>16, <1>17, <1>18 DEF PadInv, PadCore
<1> QED BY <1>7, <1>19 DEF f, t

LEMMA FreshPad ==
  ASSUME NEW s, PadInv(s), NEW c \in Clients, s.win[c].status # "mapped",
         NEW status \in {"none", "unmapped"}
  PROVE  PadInv([s EXCEPT !.win[c] = FreshWindow(status)])
<1> DEFINE v == FreshWindow(status)
           t == Put(s, c, v)
<1>1. PadCore(s, {}) /\ Sound(s) /\ WindowsListed(s) /\ c \notin ToSet(s.clients)
  BY PadInvFacts DEF AllMapped
<1>2. /\ v \in WindowType /\ v.status # "mapped" /\ v.mon = NoMon
      /\ ~ v.enabled
  BY DEF FreshWindow, WindowType
<1>3. [s EXCEPT !.win[c] = FreshWindow(status)] = t
  BY DEF Put
<1> HIDE DEF v
<1>4. /\ t.clients = s.clients /\ t.grab = s.grab /\ t.win[c] = v
      /\ \A d \in Clients : d # c => t.win[d] = s.win[d]
  BY <1>1, <1>2, PutDoes
<1>5. PadCore(t, {})
  BY <1>1, <1>2, PutUnlisted
<1> HIDE DEF t
<1>6. WindowsListed(t)
  <2>1. {d \in Clients : t.win[d].status = "mapped"} = {d \in Clients : s.win[d].status = "mapped"}
    BY <1>2, <1>4
  <2>2. \A d \in Clients : t.win[d].status # "mapped" => t.win[d].mon = NoMon /\ ~ t.win[d].enabled
    BY <1>1, <1>2, <1>4 DEF WindowsListed
  <2> QED BY <1>1, <1>4, <2>1, <2>2 DEF WindowsListed
<1> QED BY <1>3, <1>5, <1>6 DEF PadInv

LEMMA ListedPad ==
  ASSUME NEW s, PadInv(s), NEW c \in Clients, s.win[c].status = "unmapped"
  PROVE  LET a == ListedFirst(s, c) IN
         /\ PadInv(a) /\ ToSet(a.clients) = ToSet(s.clients) \cup {c}
         /\ a.win[c].mon = NoMon /\ a.win[c].status = "mapped"
<1> DEFINE a == ListedFirst(s, c)
           S == ToSet(s.clients)
<1>1. /\ PadCore(s, {}) /\ Sound(s) /\ WindowsListed(s) /\ c \notin S /\ S \subseteq Clients
      /\ s.win[c].mon = NoMon
  BY PadInvFacts DEF AllMapped, WindowsListed
<1>2. /\ Sound(a) /\ ToSet(a.clients) = S \cup {c}
      /\ a.mons = s.mons /\ a.out = s.out /\ a.selmon = s.selmon
      /\ a.focus = s.focus /\ a.grab = s.grab
      /\ \A d \in Clients : d # c => a.win[d] = s.win[d]
      /\ a.win[c].status = "mapped" /\ a.win[c].mon = NoMon
  BY <1>1, ListedDoes
<1> HIDE DEF a, S
<1>3. \A d \in S : d # c /\ a.win[d] = s.win[d]
  BY <1>1, <1>2
<1>4. OutputsListed(a)
  BY <1>1, <1>2 DEF PadCore, OutputsListed
<1>5. AllOn(a)
  BY <1>1, <1>2, <1>3 DEF PadCore, AllOn, Enabled, S
<1>6. Hidden(a, {})
  BY <1>1, <1>2, <1>3 DEF PadCore, Hidden, Enabled, PadShown, S
<1>7. OneOutput => RefsHome(a)
  BY <1>1, <1>2, <1>3 DEF PadCore, RefsHome, S
<1>8. WindowsListed(a)
  <2>1. {d \in Clients : a.win[d].status = "mapped"} = S \cup {c}
    BY <1>1, <1>2 DEF WindowsListed, S
  <2>2. \A d \in Clients : a.win[d].status # "mapped" => a.win[d].mon = NoMon /\ ~ a.win[d].enabled
    BY <1>1, <1>2 DEF WindowsListed
  <2> QED BY <1>1, <1>2, <2>1, <2>2 DEF WindowsListed, S
<1> QED BY <1>2, <1>4, <1>5, <1>6, <1>7, <1>8 DEF PadInv, PadCore, a, S

LEMMA SetMonInv ==
  ASSUME NEW s, PadInv(s), NEW c \in ToSet(s.clients), NEW m \in Monitors \cup {NoMon},
         NEW newtags \in SUBSET Tags, m = NoMon => s.win[c].mon = NoMon,
         m # NoMon => Enabled(s, m)
  PROVE  PadInv(SetMon(s, c, m, newtags)) /\ SetMon(s, c, m, newtags).clients = s.clients
<1> DEFINE t == SetMon(s, c, m, newtags)
<1>1. /\ PadCore(s, {}) /\ WindowsListed(s) /\ c \in Clients /\ s.win[c].status = "mapped"
  BY PadInvFacts DEF AllMapped
<1>2. /\ PadCore(t, {})
      /\ t.clients = s.clients /\ t.grab = s.grab
      /\ \A d \in Clients : /\ t.win[d].status = s.win[d].status
                            /\ d # c => t.win[d].mon = s.win[d].mon
                            /\ d \notin ToSet(s.clients) => t.win[d].enabled = s.win[d].enabled
  BY <1>1, SetMonPad
<1> HIDE DEF t
<1>3. WindowsListed(t)
  <2>1. {d \in Clients : t.win[d].status = "mapped"} = {d \in Clients : s.win[d].status = "mapped"}
    BY <1>2
  <2>2. ASSUME NEW d \in Clients, t.win[d].status # "mapped"
        PROVE  t.win[d].mon = NoMon /\ ~ t.win[d].enabled
    <3>1. d \notin ToSet(s.clients) /\ d # c /\ s.win[d].mon = NoMon /\ ~ s.win[d].enabled
      BY <1>1, <1>2, <2>2 DEF WindowsListed
    <3> QED BY <1>2, <3>1
  <2> QED BY <1>1, <1>2, <2>1, <2>2 DEF WindowsListed
<1> QED BY <1>2, <1>3 DEF PadInv, t

LEMMA ApplyRulesPad ==
  ASSUME NEW s, PadInv(s), NEW c \in ToSet(s.clients), s.win[c].mon = NoMon, NEW r \in Rules
  PROVE  PadInv(ApplyRules(s, c, r)) /\ ApplyRules(s, c, r).clients = s.clients
<1> DEFINE w == s.win[c]
           v == [w EXCEPT !.isfloating = r.floating \/ (~ r.match /\ w.isfloating),
                          !.isfullscreen = IF r.match THEN r.fullscreen ELSE w.isfullscreen]
           a == Put(s, c, v)
           m == IF r.match /\ r.mon \in DOMAIN a.mons THEN a.mons[r.mon] ELSE a.selmon
           T == IF r.match THEN r.tags ELSE {}
<1>1. /\ s \in StateType /\ Sound(s) /\ c \in Clients /\ w \in WindowType
      /\ s.mons \in Seq(Monitors) /\ s.selmon \in Monitors \cup {NoMon}
  BY PadInvFacts, StateFields
<1>2. r \in Rule
  BY ConstantsAssumption
<1>3. /\ v \in WindowType /\ v.status = w.status /\ v.mon = w.mon
      /\ v.isscratchpad = w.isscratchpad /\ v.enabled = w.enabled
  <2> DEFINE fl == r.floating \/ (~ r.match /\ w.isfloating)
             fs == IF r.match THEN r.fullscreen ELSE w.isfullscreen
  <2>1. fl \in BOOLEAN /\ fs \in BOOLEAN
    BY <1>1, <1>2 DEF Rule, WindowType
  <2>2. v = [w EXCEPT !.isfloating = fl, !.isfullscreen = fs]
    OBVIOUS
  <2> HIDE DEF fl, fs, v
  <2> QED BY <1>1, <2>1, <2>2 DEF WindowType
<1>4. Ruled(s, c, r) = a
  BY <1>1 DEF Ruled, Put, StateType
<1> HIDE DEF v
<1>5. Quiet(s, a) /\ a.mons = s.mons /\ a.selmon = s.selmon
  BY <1>1, <1>3, PutQuiet, PutDoes
<1>6. ApplyRules(s, c, r) = SetMon(a, c, m, T)
  BY <1>4, <1>5 DEF ApplyRules
<1> HIDE DEF a
<1>7. PadInv(a) /\ a.clients = s.clients /\ a.win[c].mon = NoMon
  BY <1>1, <1>5, QuietInv DEF Quiet, Near
<1>8. m \in Monitors \cup {NoMon} /\ T \in SUBSET Tags
  BY <1>1, <1>2, <1>5 DEF Rule
<1>9. m # NoMon => Enabled(a, m)
  <2>1. r.mon \in DOMAIN a.mons => a.mons[r.mon] \in ToSet(a.mons)
    BY DEF ToSet
  <2>2. ToSet(a.mons) = {n \in Monitors : a.out[n].power # "gone"}
    BY <1>7 DEF PadInv, PadCore, OutputsListed, Lists
  <2>3. (a.selmon # NoMon => Enabled(a, a.selmon)) /\ \A n \in Monitors : a.out[n].power \in {"on", "gone"}
    BY <1>7 DEF PadInv, PadCore, AllOn
  <2> QED BY <1>8, <2>1, <2>2, <2>3 DEF Enabled
<1> HIDE DEF m, T
<1> QED BY <1>6, <1>7, <1>8, <1>9, SetMonInv

LEMMA PlacePad ==
  ASSUME NEW s, PadInv(s), NEW c \in ToSet(s.clients), s.win[c].mon = NoMon, NEW r \in Rules,
         NEW p \in ToSet(s.clients) \cup {NoClient}, p # c
  PROVE  PadInv(Place(s, c, p, r)) /\ Place(s, c, p, r).clients = s.clients
<1>1. CASE p = NoClient
  BY <1>1, ApplyRulesPad DEF Place
<1>2. CASE p # NoClient
  <2> DEFINE w == s.win[c]
             v == [w EXCEPT !.isfloating = TRUE]
             a == Put(s, c, v)
             m == s.win[p].mon
             T == s.win[p].tags
             t == Place(s, c, p, r)
  <2>1. /\ Sound(s) /\ c \in Clients /\ w \in WindowType
        /\ p \in ToSet(s.clients) /\ p \in Clients
        /\ m \in Monitors \cup {NoMon} /\ T \in SUBSET Tags
        /\ m # NoMon => Enabled(s, m)
    <3>1. /\ Sound(s) /\ c \in Clients /\ w \in WindowType /\ p \in ToSet(s.clients)
          /\ p \in Clients /\ s.win[p] \in WindowType
      BY <1>2, PadInvFacts
    <3> QED BY <3>1 DEF WindowType, PadInv, PadCore, AllOn
  <2>2. /\ v \in WindowType /\ v.status = w.status /\ v.mon = w.mon
        /\ v.isscratchpad = w.isscratchpad /\ v.enabled = w.enabled
    BY <2>1 DEF WindowType
  <2>3. [s EXCEPT !.win[c].isfloating = TRUE] = a
    BY DEF Put
  <2>4. t = SetMon(a, c, m, T)
    BY <1>2, <2>3 DEF Place
  <2> HIDE DEF v, t
  <2>5. Quiet(s, a)
    BY <2>1, <2>2, PutQuiet
  <2> HIDE DEF a
  <2>6. PadInv(a) /\ a.clients = s.clients /\ a.win[c].mon = NoMon
    BY <2>1, <2>5, QuietInv DEF Quiet, Near
  <2> HIDE DEF T, m
  <2>7. m # NoMon => Enabled(a, m)
    BY <2>1, <2>5 DEF Enabled, Quiet, SamePad
  <2> QED BY <2>1, <2>4, <2>6, <2>7, SetMonInv DEF t
<1> QED BY <1>1, <1>2

-----------------------------------------------------------------------------
(* In and out of the scratchpad                                            *)

(* The same window, in the scratchpad or not.                               *)
Kind(w, b) == [w EXCEPT !.isscratchpad = b]

LEMMA KindType ==
  ASSUME NEW w \in WindowType, NEW b \in BOOLEAN
  PROVE  /\ Kind(w, b) \in WindowType /\ Kind(w, b).status = w.status
         /\ Kind(w, b).mon = w.mon /\ Kind(w, b).enabled = w.enabled
         /\ (Kind(w, b).isscratchpad <=> b)
BY DEF Kind, WindowType

SamePads(s, t) == \A m \in Monitors : SamePad(s.out[m], t.out[m])

LEMMA SamePadsTrans ==
  ASSUME NEW s, NEW t, NEW u, SamePads(s, t), SamePads(t, u)
  PROVE  SamePads(s, u)
BY DEF SamePads, SamePad

LEMMA IntoPad ==
  ASSUME NEW s, PadInv(s), NEW c \in ToSet(s.clients)
  PROVE  LET t == IntoScratchpad(s, c) IN
         PadCore(t, {c}) /\ Near(s, t) /\ SamePads(s, t) /\ t.selmon \in {s.selmon, s.win[c].mon}
<1> DEFINE a == RemoveFromTrees(s, c)
           v == Kind(a.win[c], TRUE)
           b == Put(a, c, v)
           t == SetFloating(b, c, TRUE)
<1>1. Sound(s) /\ c \in Clients /\ PadCore(s, {})
  BY PadInvFacts
<1>2. Quiet(s, a) /\ a.win = s.win /\ a.selmon = s.selmon
  <2>1. a.selmon = s.selmon
    BY DEF RemoveFromTrees
  <2> QED BY <1>1, <2>1, RemoveQuiet
<1>3. b = [a EXCEPT !.win[c].isscratchpad = TRUE]
  BY DEF Put, Kind
<1>4. IntoScratchpad(s, c) = t
  BY <1>3 DEF IntoScratchpad
<1> HIDE DEF a
<1>5. Sound(a) /\ PadCore(a, {}) /\ Near(s, a)
  BY <1>1, <1>2, QuietCore DEF Quiet, Near
<1>6. /\ v \in WindowType /\ v.status = a.win[c].status /\ v.mon = a.win[c].mon
      /\ v.enabled = a.win[c].enabled
  <2>1. a.win[c] \in WindowType /\ TRUE \in BOOLEAN
    BY <1>1, <1>5, StateFields DEF Sound
  <2> QED BY <2>1, KindType
<1> HIDE DEF v
<1>7. PadCore(b, {c}) /\ Near(a, b)
  <2>1. PadCore(b, {} \cup {c}) /\ Near(a, b)
    BY <1>1, <1>5, <1>6, MarkPad
  <2> QED BY <2>1
<1>8. b.out = a.out /\ b.selmon = a.selmon /\ Sound(b)
  BY <1>1, <1>5, <1>6, PutDoes
<1> HIDE DEF b
<1>9. Quiet(b, t) /\ t.selmon = b.selmon
  <2>1. TRUE \in BOOLEAN /\ (c \in ToSet(b.clients) => b.win[c].status = "mapped")
    BY <1>1, <1>2, <1>5, <1>7, PadInvFacts DEF Near, AllMapped
  <2>2. Changed(b, t, c)
    BY <1>1, <1>8, <2>1, SetFloatingDoes
  <2> QED BY <1>1, <1>8, <2>1, <2>2, FloatingQuiet DEF Changed
<1> HIDE DEF t
<1>10. PadCore(t, {c}) /\ Near(b, t)
  BY <1>7, <1>9, QuietCore
<1>11. Near(s, t)
  BY <1>5, <1>7, <1>10, NearTrans
<1>12. SamePads(s, t)
  BY <1>2, <1>8, <1>9 DEF SamePads, SamePad, Quiet
<1> QED BY <1>2, <1>4, <1>8, <1>9, <1>10, <1>11, <1>12

(* The one window a scratchpad shows is written.                            *)
Current(o, c) == [o EXCEPT !.scratchpad_current = c]

LEMMA CurrentType ==
  ASSUME NEW o \in MonitorType, NEW c \in Clients \cup {NoClient}
  PROVE  /\ Current(o, c) \in MonitorType /\ Current(o, c).power = o.power
         /\ Current(o, c).scratchpad_visible = o.scratchpad_visible
         /\ Refs(Current(o, c)) \subseteq Refs(o) \cup ({c} \ {NoClient})
BY DEF Current, MonitorType, Refs

LEMMA CurrentPad ==
  ASSUME NEW s, NEW X, PadCore(s, X), NEW m \in Monitors,
         NEW c \in ToSet(s.clients) \cup {NoClient}, c # NoClient => s.win[c].mon = m
  PROVE  LET t == [s EXCEPT !.out[m].scratchpad_current = c] IN
         /\ PadCore(t, X) /\ Near(s, t) /\ t.win = s.win /\ t.selmon = s.selmon
         /\ t.fstack = s.fstack /\ t.focus = s.focus
         /\ \A n \in Monitors : t.out[n].scratchpad_visible = s.out[n].scratchpad_visible
<1> DEFINE x == Current(s.out[m], c)
           t == OutAs(s, m, x)
<1>1. Sound(s) /\ s \in StateType /\ s.out[m] \in MonitorType /\ c \in Clients \cup {NoClient}
  BY SoundFacts, StateFields DEF PadCore
<1>2. [s EXCEPT !.out[m].scratchpad_current = c] = t
  BY <1>1 DEF OutAs, WithOutputs, Current, StateType
<1>3. /\ x \in MonitorType /\ x.power = s.out[m].power
      /\ x.scratchpad_visible = s.out[m].scratchpad_visible
      /\ Refs(x) \subseteq Refs(s.out[m]) \cup ({c} \ {NoClient})
  BY <1>1, CurrentType
<1> HIDE DEF x
<1>4. OneOutput => \A d \in Refs(x) : d \in ToSet(s.clients) /\ s.win[d].mon = m
  BY <1>3 DEF PadCore, RefsHome
<1>5. PadCore(t, X) /\ Near(s, t)
  BY <1>1, <1>3, <1>4, OutPad
<1>6. /\ t.win = s.win /\ t.selmon = s.selmon /\ t.out[m] = x
      /\ t.fstack = s.fstack /\ t.focus = s.focus
      /\ \A n \in Monitors : n # m => t.out[n] = s.out[n]
  BY <1>1, <1>3, OutFields
<1> HIDE DEF t
<1>7. \A n \in Monitors : t.out[n].scratchpad_visible = s.out[n].scratchpad_visible
  BY <1>3, <1>6
<1> QED BY <1>2, <1>5, <1>6, <1>7

LEMMA DisableAtQuiet ==
  ASSUME NEW s, Sound(s), WindowsListed(s), NEW c \in Clients \cup {NoClient}
  PROVE  Quiet(s, SetEnabledAt(s, c, FALSE)) /\ SetEnabledAt(s, c, FALSE).out = s.out
         /\ SetEnabledAt(s, c, FALSE).selmon = s.selmon
<1>1. CASE Mapped(s, c)
  <2>1. {c} \subseteq ToSet(s.clients)
    BY <1>1 DEF Mapped, WindowsListed
  <2>2. Reshown(s, SetEnabled(s, {c}, FALSE))
    BY DisableDoes DEF Sound
  <2>3. SetEnabledAt(s, c, FALSE) = SetEnabled(s, {c}, FALSE)
    BY <1>1 DEF SetEnabledAt
  <2> QED BY <2>1, <2>2, <2>3, DisableQuiet DEF Reshown
<1>2. CASE ~ Mapped(s, c)
  BY <1>2, QuietSelf DEF SetEnabledAt
<1> QED BY <1>1, <1>2

LEMMA SupersedePad ==
  ASSUME NEW s, NEW X, PadCore(s, X), WindowsListed(s), NEW c \in ToSet(s.clients),
         NEW m \in Monitors, s.win[c].mon = m
  PROVE  LET t == Supersede(s, m, c) IN
         /\ PadCore(t, X) /\ Near(s, t) /\ t.selmon = s.selmon
         /\ \A n \in Monitors : t.out[n].scratchpad_visible = s.out[n].scratchpad_visible
<1> DEFINE d == s.out[m].scratchpad_current
           a == IF d = c THEN s ELSE SetEnabledAt(s, d, FALSE)
           b == ScratchpadArrange(a, m)
           t == [b EXCEPT !.out[m].scratchpad_current = c]
<1>1. Sound(s) /\ d \in Clients \cup {NoClient} /\ c \in Clients
  BY SoundFacts, StateFields DEF PadCore, Sound, MonitorType
<1>2. Quiet(s, a) /\ a.selmon = s.selmon
  BY <1>1, DisableAtQuiet, QuietSelf
<1>3. Supersede(s, m, c) = t
  BY DEF Supersede
<1> HIDE DEF a
<1>4. PadCore(a, X) /\ Near(s, a) /\ Sound(a)
  BY <1>2, QuietCore DEF Near
<1>5. Quiet(a, b) /\ b.selmon = a.selmon
  BY <1>4, PadArrangeQuiet DEF ScratchpadArrange
<1> HIDE DEF b
<1>6. PadCore(b, X) /\ Near(a, b) /\ Near(s, b)
  BY <1>4, <1>5, QuietCore, NearTrans
<1>7. c \in ToSet(b.clients) /\ b.win[c].mon = m
  BY <1>1, <1>6 DEF Near
<1>8. /\ PadCore(t, X) /\ Near(b, t) /\ t.selmon = b.selmon
      /\ \A n \in Monitors : t.out[n].scratchpad_visible = b.out[n].scratchpad_visible
  <2>1. c \in ToSet(b.clients) \cup {NoClient} /\ (c # NoClient => b.win[c].mon = m)
    BY <1>7
  <2> QED BY <1>6, <2>1, CurrentPad
<1> HIDE DEF t
<1>9. Near(s, t)
  BY <1>6, <1>8, NearTrans
<1>10. \A n \in Monitors : b.out[n].scratchpad_visible = s.out[n].scratchpad_visible
  BY <1>2, <1>5 DEF Quiet, SamePad
<1> QED BY <1>2, <1>3, <1>5, <1>8, <1>9, <1>10

-----------------------------------------------------------------------------
(* Windows come and go                                                     *)

LEMMA NearInv ==
  ASSUME NEW s, PadInv(s), NEW t, Near(s, t), PadCore(t, {})
  PROVE  PadInv(t)
BY NearListed DEF PadInv

LEMMA AutoScratchPad ==
  ASSUME NEW s, PadInv(s), NEW c \in ToSet(s.clients)
  PROVE  PadInv(AutoScratch(s, c))
<1> DEFINE m == s.win[c].mon
           a == IntoScratchpad(s, c)
           b == Supersede(a, m, c)
           t == FocusClient(b, c)
<1>1. CASE AutoScratch(s, c) = s
  BY <1>1
<1>2. CASE AutoScratch(s, c) = t /\ m # NoMon /\ s.out[m].scratchpad_visible
  <2>1. c \in Clients /\ m \in Monitors /\ WindowsListed(s)
    BY <1>2, PadInvFacts
  <2>2. PadCore(a, {c}) /\ Near(s, a) /\ SamePads(s, a)
    BY IntoPad
  <2> HIDE DEF a
  <2>3. c \in ToSet(a.clients) /\ a.win[c].mon = m /\ WindowsListed(a)
    BY <2>1, <2>2, NearListed DEF Near
  <2>4. /\ PadCore(b, {c}) /\ Near(a, b)
        /\ \A n \in Monitors : b.out[n].scratchpad_visible = a.out[n].scratchpad_visible
    BY <2>1, <2>2, <2>3, SupersedePad
  <2> HIDE DEF b
  <2>5. PadShown(b, c) /\ Sound(b) /\ c \in ToSet(b.clients)
    BY <1>2, <2>1, <2>2, <2>3, <2>4 DEF PadShown, Near, SamePads, SamePad
  <2>6. PadCore(b, {})
    BY <2>4, <2>5, PadDone
  <2>7. Quiet(b, t)
    BY <2>5, FocusQuiet
  <2> HIDE DEF t
  <2>8. PadCore(t, {}) /\ Near(b, t)
    BY <2>6, <2>7, QuietCore
  <2>9. Near(s, t)
    BY <2>2, <2>4, <2>8, NearTrans
  <2> QED BY <1>2, <2>8, <2>9, NearInv
<1> QED BY <1>1, <1>2 DEF AutoScratch

LEMMA AutoScratchListed ==
  ASSUME NEW s, PadInv(s), NEW c \in Clients, NEW r \in Rules, s.win[c].status = "unmapped",
         NEW p \in ToSet(s.clients) \cup {NoClient}, NEW m
  PROVE  PadInv(UnsetFullscreen(AutoScratch(Place(ListedFirst(s, c), c, p, r), c), c, p, m))
<1> DEFINE a == ListedFirst(s, c)
           b == Place(a, c, p, r)
           d == AutoScratch(b, c)
           t == UnsetFullscreen(d, c, p, m)
<1>1. PadInv(a) /\ ToSet(a.clients) = ToSet(s.clients) \cup {c} /\ a.win[c].mon = NoMon
  BY ListedPad
<1>2. c \in ToSet(a.clients) /\ p \in ToSet(a.clients) \cup {NoClient} /\ p # c
  BY <1>1, PadInvFacts DEF AllMapped
<1> HIDE DEF a
<1>3. PadInv(b) /\ c \in ToSet(b.clients)
  BY <1>1, <1>2, PlacePad
<1> HIDE DEF b
<1>4. PadInv(d) /\ Sound(d)
  BY <1>3, AutoScratchPad, PadInvFacts
<1> HIDE DEF d
<1>5. PadInv(t)
  BY <1>4, UnsetFullscreenQuiet, QuietInv
<1> QED BY <1>5 DEF t, d, b, a

LEMMA UnlistedPad ==
  ASSUME NEW s, PadInv(s), NEW c \in ToSet(s.clients)
  PROVE  LET a == Unlisted(s, c) IN
         /\ PadCore(a, {}) /\ a.win = s.win /\ ToSet(a.clients) = ToSet(s.clients) \ {c}
         /\ a.grab.client \in ToSet(a.clients) \cup {NoClient}
<1> DEFINE a == Unlisted(s, c)
           m == s.win[c].mon
<1>1. /\ Sound(s) /\ PadCore(s, {}) /\ c \in Clients /\ m \in Monitors \cup {NoMon}
      /\ NoMon \notin Monitors /\ ToSet(s.clients) \subseteq Clients
      /\ s.grab.client \in ToSet(s.clients) \cup {NoClient}
      /\ s.selmon \in Monitors \cup {NoMon}
      /\ \A d \in Clients : s.win[d].mon \in Monitors \cup {NoMon}
  BY PadInvFacts
<1>2. /\ Sound(a)
      /\ a.mons = s.mons /\ a.selmon = s.selmon /\ a.win = s.win /\ a.focus = s.focus
      /\ ToSet(a.clients) = ToSet(s.clients) \ {c}
      /\ a.grab.client \in ToSet(a.clients) \cup {NoClient}
      /\ a.grab = NoGrab \/ (a.grab = s.grab /\ s.grab.client # c)
      /\ \A n \in Monitors : /\ a.out[n].power = s.out[n].power
                             /\ a.out[n].scratchpad_visible = s.out[n].scratchpad_visible
                             /\ CurTags(a, n) = CurTags(s, n)
                             /\ n # s.win[c].mon => SameView(s, a, n)
      /\ \A n \in Monitors : n = s.win[c].mon =>
           /\ a.out[n].scratchpad_current
                \in {s.out[n].scratchpad_current, NoClient} \ ({c} \ {NoClient})
           /\ a.out[n].scratchpad_prev_focus
                \in {s.out[n].scratchpad_prev_focus, NoClient} \ ({c} \ {NoClient})
  BY <1>1, UnlistedDoes
<1> HIDE DEF a
<1>3. \A n \in Monitors \cup {NoMon} : Enabled(a, n) <=> Enabled(s, n)
  BY <1>2 DEF Enabled
<1>4. OutputsListed(a)
  <2>1. {n \in Monitors : a.out[n].power # "gone"} = {n \in Monitors : s.out[n].power # "gone"}
    BY <1>2
  <2> QED BY <1>1, <1>2, <2>1 DEF PadCore, OutputsListed
<1>5. AllOn(a)
  BY <1>1, <1>2, <1>3 DEF PadCore, AllOn
<1>6. Hidden(a, {})
  <2>1. \A d \in ToSet(a.clients) : d \in ToSet(s.clients) /\ d \in Clients
    BY <1>1, <1>2
  <2>2. \A d \in Clients : PadShown(a, d) <=> PadShown(s, d)
    BY <1>1, <1>2 DEF PadShown
  <2>3. \A d \in Clients : Enabled(a, a.win[d].mon) <=> Enabled(s, s.win[d].mon)
    BY <1>1, <1>2, <1>3
  <2> QED BY <1>1, <1>2, <2>1, <2>2, <2>3 DEF PadCore, Hidden
<1>7. ASSUME OneOutput PROVE RefsHome(a)
  <2> SUFFICES ASSUME NEW n \in Monitors, NEW d \in Refs(a.out[n])
               PROVE  d \in ToSet(s.clients) /\ d # c /\ s.win[d].mon = n
    BY <1>2 DEF RefsHome
  <2>1. \A x \in Refs(s.out[n]) : x \in ToSet(s.clients) /\ s.win[x].mon = n
    BY <1>1, <1>7 DEF PadCore, RefsHome
  <2>2. CASE n # m
    <3>1. a.out[n] = s.out[n]
      BY <1>2, <2>2 DEF SameView
    <3> QED BY <2>1, <2>2, <3>1
  <2>3. CASE n = m
    <3>1. d \in Refs(s.out[n]) /\ d # c
      BY <1>2, <2>3 DEF Refs
    <3> QED BY <2>1, <3>1
  <2> QED BY <2>2, <2>3
<1> QED BY <1>2, <1>4, <1>5, <1>6, <1>7 DEF PadCore, a

(* What is left of unmapnotify() once the window is off the lists.          *)
LEMMA DetachPad ==
  ASSUME NEW s, PadCore(s, {}), NEW c \in Clients, c \notin ToSet(s.clients),
         NEW m, m = s.win[c].mon
  PROVE  LET t == Detach(s, c, m) IN
         /\ PadCore(t, {}) /\ t.win[c].mon = NoMon
         /\ t.clients = s.clients /\ t.grab = s.grab
         /\ \A d \in Clients : /\ t.win[d].status = s.win[d].status
                               /\ d # c => t.win[d].mon = s.win[d].mon
                               /\ d # c /\ d \notin ToSet(s.clients) =>
                                    t.win[d].enabled = s.win[d].enabled
<1> DEFINE t == Detach(s, c, m)
<1>1. /\ Sound(s) /\ s.win[c] \in WindowType /\ m \in Monitors \cup {NoMon}
      /\ ToSet(s.fstack) = ToSet(s.clients) /\ s.fstack \in Seq(Clients)
  BY SoundFacts, StateFields DEF PadCore, WindowType
<1>2. CASE t = SetMon(s, c, NoMon, {})
  <2>1. {} \in SUBSET Tags /\ NoMon \in Monitors \cup {NoMon}
    OBVIOUS
  <2> QED BY <1>2, <2>1, SetMonPad
<1>3. CASE t = LeaveScratchpad(s, c, m) /\ m # NoMon
  <2> DEFINE next == FirstOf(s.fstack, Scratchpads(s, m), NoClient)
             a == FocusNextScratchpad(s, s.selmon, next)
             v == [a.win[c] EXCEPT !.mon = NoMon]
             b == Put(a, c, v)
  <2>1. next \in ToSet(s.clients) \cup {NoClient}
    BY <1>1, Found
  <2>2. t = Arrange(b, m)
    BY <1>3 DEF LeaveScratchpad, Put
  <2> HIDE DEF next
  <2>3. Quiet(s, a)
    BY <1>1, <2>1, FocusQuiet, FocusTopQuiet DEF FocusNextScratchpad
  <2> HIDE DEF a
  <2>4. PadCore(a, {}) /\ Near(s, a) /\ Sound(a) /\ c \notin ToSet(a.clients)
    BY <2>3, QuietCore DEF Near
  <2>5. v \in WindowType /\ v.mon = NoMon /\ v.status = a.win[c].status
    <3>1. a.win[c] \in WindowType
      BY <2>4, StateFields DEF Sound
    <3> QED BY <3>1 DEF WindowType
  <2> HIDE DEF v
  <2>6. PadCore(b, {})
    BY <2>4, <2>5, PutUnlisted
  <2>7. /\ b.clients = a.clients /\ b.grab = a.grab /\ b.win[c] = v
        /\ \A d \in Clients : d # c => b.win[d] = a.win[d]
    BY <2>4, <2>5, PutDoes
  <2> HIDE DEF b
  <2>8. Sound(b) /\ m \in Monitors
    BY <1>1, <1>3, <2>6 DEF PadCore
  <2>9. PadCore(t, {}) /\ Near(b, t)
    BY <2>2, <2>6, <2>8, ArrangeQuiet, QuietCore
  <2> HIDE DEF t
  <2>10. \A d \in Clients : /\ t.win[d].status = b.win[d].status /\ t.win[d].mon = b.win[d].mon
                            /\ d \notin ToSet(b.clients) => t.win[d].enabled = b.win[d].enabled
    BY <2>9 DEF Near
  <2>11. \A d \in Clients : /\ a.win[d].status = s.win[d].status /\ a.win[d].mon = s.win[d].mon
                            /\ d \notin ToSet(s.clients) => a.win[d].enabled = s.win[d].enabled
    BY <2>4 DEF Near
  <2>12. t.clients = s.clients /\ t.grab = s.grab /\ b.clients = s.clients
    BY <2>4, <2>7, <2>9 DEF Near
  <2> QED BY <2>5, <2>7, <2>9, <2>10, <2>11, <2>12 DEF t
<1> QED BY <1>2, <1>3 DEF Detach

LEMMA UnmapPad ==
  ASSUME NEW s, PadInv(s), NEW c \in Clients, s.win[c].status = "mapped"
  PROVE  PadInv([Detach(ClearRefs(Unlink(s, c), c, s.win[c].mon), c, s.win[c].mon)
                 EXCEPT !.win[c].status = "unmapped", !.win[c].layer = "none",
                        !.win[c].enabled = FALSE])
<1> DEFINE m == s.win[c].mon
           a == Unlisted(s, c)
           b == Detach(a, c, m)
           v == [b.win[c] EXCEPT !.status = "unmapped", !.layer = "none", !.enabled = FALSE]
           t == Put(b, c, v)
<1>1. WindowsListed(s) /\ c \in ToSet(s.clients) /\ ToSet(s.clients) \subseteq Clients
  BY PadInvFacts DEF WindowsListed
<1>2. /\ PadCore(a, {}) /\ a.win = s.win /\ ToSet(a.clients) = ToSet(s.clients) \ {c}
      /\ a.grab.client \in ToSet(a.clients) \cup {NoClient}
  BY <1>1, UnlistedPad
<1>3. Detach(ClearRefs(Unlink(s, c), c, s.win[c].mon), c, s.win[c].mon) = b
  BY DEF Unlisted
<1> HIDE DEF a
<1>4. /\ PadCore(b, {}) /\ b.win[c].mon = NoMon
      /\ b.clients = a.clients /\ b.grab = a.grab
      /\ \A d \in Clients : /\ b.win[d].status = s.win[d].status
                            /\ d # c => b.win[d].mon = s.win[d].mon
                            /\ d # c /\ d \notin ToSet(a.clients) =>
                                 b.win[d].enabled = s.win[d].enabled
  <2>1. c \notin ToSet(a.clients) /\ m = a.win[c].mon
    BY <1>2
  <2> HIDE DEF m
  <2>2. /\ PadCore(b, {}) /\ b.win[c].mon = NoMon
        /\ b.clients = a.clients /\ b.grab = a.grab
        /\ \A d \in Clients : /\ b.win[d].status = a.win[d].status
                              /\ d # c => b.win[d].mon = a.win[d].mon
                              /\ d # c /\ d \notin ToSet(a.clients) =>
                                   b.win[d].enabled = a.win[d].enabled
    BY <1>2, <2>1, DetachPad
  <2> HIDE DEF b
  <2> QED BY <1>2, <2>2
<1> HIDE DEF b
<1>5. b \in StateType /\ Sound(b) /\ b.win[c] \in WindowType
  BY <1>4, StateFields DEF PadCore, Sound
<1>6. v \in WindowType /\ v.status = "unmapped" /\ v.mon = NoMon /\ ~ v.enabled
  <2> DEFINE w == b.win[c]
  <2>1. w \in WindowType /\ w.mon = NoMon
    BY <1>4, <1>5
  <2>2. v = [w EXCEPT !.status = "unmapped", !.layer = "none", !.enabled = FALSE]
    OBVIOUS
  <2> HIDE DEF w, v
  <2> QED BY <2>1, <2>2 DEF WindowType
<1>7. [b EXCEPT !.win[c].status = "unmapped", !.win[c].layer = "none", !.win[c].enabled = FALSE] = t
  BY <1>5 DEF StateType, Put
<1> HIDE DEF v
<1>8. PadCore(t, {})
  BY <1>2, <1>4, <1>6, PutUnlisted
<1>9. /\ t.clients = b.clients /\ t.grab = b.grab /\ t.win[c] = v
      /\ \A d \in Clients : d # c => t.win[d] = b.win[d]
  BY <1>5, <1>6, PutDoes
<1> HIDE DEF t
<1>10. WindowsListed(t)
  <2>1. \A d \in Clients : d # c => t.win[d].status = s.win[d].status
    BY <1>4, <1>9
  <2>2. {d \in Clients : t.win[d].status = "mapped"} = ToSet(s.clients) \ {c}
    BY <1>1, <1>6, <1>9, <2>1 DEF WindowsListed
  <2>3. ASSUME NEW d \in Clients, t.win[d].status # "mapped"
        PROVE  t.win[d].mon = NoMon /\ ~ t.win[d].enabled
    <3>1. CASE d = c
      BY <1>6, <1>9, <3>1
    <3>2. CASE d # c
      <4>1. s.win[d].status # "mapped" /\ d \notin ToSet(s.clients)
        BY <1>1, <2>1, <2>3, <3>2 DEF WindowsListed
      <4>2. s.win[d].mon = NoMon /\ ~ s.win[d].enabled
        BY <1>1, <4>1 DEF WindowsListed
      <4> QED BY <1>2, <1>4, <1>9, <3>2, <4>1, <4>2
    <3> QED BY <3>1, <3>2
  <2> QED BY <1>2, <1>4, <1>9, <2>2, <2>3 DEF WindowsListed
<1> QED BY <1>3, <1>7, <1>8, <1>10 DEF PadInv
-----------------------------------------------------------------------------
(* The user's bindings on the scratchpad                                   *)

(* togglescratchpad() writes what its output remembers of the scratchpad.   *)
Opened(o, b, p) == [o EXCEPT !.scratchpad_prev_focus = p, !.scratchpad_visible = b]

Closed(o, b) == [o EXCEPT !.scratchpad_visible = b, !.scratchpad_current = NoClient]

LEMMA OpenedType ==
  ASSUME NEW o \in MonitorType, NEW b \in BOOLEAN, NEW p \in Clients \cup {NoClient}
  PROVE  /\ Opened(o, b, p) \in MonitorType /\ Opened(o, b, p).power = o.power
         /\ (Opened(o, b, p).scratchpad_visible <=> b)
         /\ Refs(Opened(o, b, p)) \subseteq Refs(o) \cup ({p} \ {NoClient})
BY DEF Opened, MonitorType, Refs

LEMMA ClosedType ==
  ASSUME NEW o \in MonitorType, NEW b \in BOOLEAN
  PROVE  /\ Closed(o, b) \in MonitorType /\ Closed(o, b).power = o.power
         /\ (Closed(o, b).scratchpad_visible <=> b)
         /\ Refs(Closed(o, b)) \subseteq Refs(o)
BY DEF Closed, MonitorType, Refs

LEMMA ShowOnlyPad ==
  ASSUME NEW s, PadCore(s, {}), NEW m \in Monitors, s.out[m].scratchpad_visible,
         NEW top \in Scratchpads(s, m) \cup {NoClient}
  PROVE  PadCore(ShowOnly(s, m, top), {}) /\ Near(s, ShowOnly(s, m, top))
<1> DEFINE a == [s EXCEPT !.out[m].scratchpad_current = top]
           b == SetEnabled(a, Scratchpads(s, m), FALSE)
           t == SetEnabled(b, {top} \ {NoClient}, TRUE)
<1>1. /\ Sound(s) /\ ToSet(s.clients) \subseteq Clients
      /\ Scratchpads(s, m) \subseteq ToSet(s.clients)
      /\ top \in ToSet(s.clients) \cup {NoClient} /\ (top # NoClient => s.win[top].mon = m)
      /\ m # NoMon
  BY SoundFacts, ConstantsAssumption DEF PadCore, Scratchpads
<1>2. /\ PadCore(a, {}) /\ Near(s, a)
      /\ \A n \in Monitors : a.out[n].scratchpad_visible = s.out[n].scratchpad_visible
  BY <1>1, CurrentPad
<1>3. ShowOnly(s, m, top) = t
  BY DEF ShowOnly
<1> HIDE DEF a
<1>4. Sound(a) /\ Scratchpads(s, m) \subseteq ToSet(a.clients)
  BY <1>1, <1>2 DEF Near
<1>5. Quiet(a, b)
  BY <1>4, DisableQuiet
<1> HIDE DEF b
<1>6. PadCore(b, {}) /\ Near(a, b) /\ Sound(b)
  BY <1>2, <1>5, QuietCore DEF Near
<1>7. \A c \in {top} \ {NoClient} : c \in ToSet(b.clients) /\ b.win[c].mon = m
  BY <1>1, <1>2, <1>6 DEF Near
<1>8. b.out[m].scratchpad_visible
  BY <1>2, <1>5 DEF Quiet, SamePad
<1>9. Quiet(b, t)
  <2>1. {top} \ {NoClient} \subseteq ToSet(b.clients)
    BY <1>7
  <2>2. \A c \in {top} \ {NoClient} : PadShown(b, c)
    BY <1>1, <1>7, <1>8 DEF PadShown
  <2> QED BY <1>6, <2>1, <2>2, EnableQuiet
<1> HIDE DEF t
<1>10. PadCore(t, {}) /\ Near(b, t)
  BY <1>6, <1>9, QuietCore
<1> QED BY <1>2, <1>3, <1>6, <1>10, NearTrans

LEMMA ShowScratchpadPad ==
  ASSUME PadInv(State), ShowScratchpad
  PROVE  PadInv(State')
<1> DEFINE s == State
           m == selmon
           p == Focustop(s, m)
           x == Opened(s.out[m], TRUE, p)
           a == OutAs(s, m, x)
           b == ScratchpadArrange(a, m)
           top == FirstOf(s.fstack, Scratchpads(s, m), NoClient)
           d == ShowOnly(b, m, top)
           t == IF top = NoClient THEN d ELSE FocusClient(d, top)
<1>1. /\ s.selmon = selmon /\ s.fstack = fstack /\ m \in Monitors
      /\ Sound(s) /\ s \in StateType /\ PadCore(s, {}) /\ s.out[m] \in MonitorType
      /\ ToSet(s.clients) \subseteq Clients /\ ToSet(s.fstack) = ToSet(s.clients)
      /\ s.fstack \in Seq(Clients)
  BY PadInvFacts, StateFieldsAre, StateFields DEF ShowScratchpad
<1>2. p \in ToSet(s.clients) \cup {NoClient} /\ (p # NoClient => s.win[p].mon = m)
  BY <1>1, FocustopIs
<1>3. Become(t)
  <2>1. a = [State EXCEPT !.out[selmon].scratchpad_prev_focus = Sel,
                          !.out[selmon].scratchpad_visible = TRUE]
    BY <1>1 DEF OutAs, WithOutputs, Opened, StateType, Sel
  <2> QED BY <1>1, <2>1 DEF ShowScratchpad
<1>4. top \in Scratchpads(s, m) \cup {NoClient}
  BY <1>1, Found
<1> HIDE DEF s, p, top
<1>5. /\ x \in MonitorType /\ x.power = s.out[m].power /\ x.scratchpad_visible
      /\ Refs(x) \subseteq Refs(s.out[m]) \cup ({p} \ {NoClient})
  <2>1. p \in Clients \cup {NoClient}
    BY <1>1, <1>2
  <2>2. TRUE \in BOOLEAN
    OBVIOUS
  <2> QED BY <1>1, <2>1, <2>2, OpenedType
<1> HIDE DEF x
<1>6. OneOutput => \A c \in Refs(x) : c \in ToSet(s.clients) /\ s.win[c].mon = m
  BY <1>1, <1>2, <1>5 DEF PadCore, RefsHome
<1>7. PadCore(a, {}) /\ Near(s, a) /\ a.out[m] = x /\ a.win = s.win
  BY <1>1, <1>5, <1>6, OutPad, OutFields
<1> HIDE DEF a
<1>8. Sound(a) /\ a.out[m].scratchpad_visible
  BY <1>5, <1>7 DEF Near
<1>9. Quiet(a, b)
  BY <1>8, PadArrangeQuiet
<1> HIDE DEF b
<1>10. PadCore(b, {}) /\ Near(a, b) /\ b.out[m].scratchpad_visible
  BY <1>1, <1>7, <1>8, <1>9, QuietCore DEF Quiet, SamePad
<1>11. Scratchpads(b, m) = Scratchpads(s, m)
  BY <1>1, <1>7, <1>9 DEF Scratchpads, Near, Quiet
<1>12. PadCore(d, {}) /\ Near(b, d)
  BY <1>1, <1>4, <1>10, <1>11, ShowOnlyPad
<1> HIDE DEF d
<1>13. Near(s, d)
  BY <1>7, <1>10, <1>12, NearTrans
<1>14. PadInv(d) /\ Sound(d) /\ ToSet(d.clients) = ToSet(s.clients)
  BY <1>12, <1>13, NearInv DEF s, Near
<1>15. PadInv(t)
  <2>1. top \in ToSet(d.clients) \cup {NoClient}
    BY <1>4, <1>14 DEF Scratchpads
  <2> QED BY <1>14, <2>1, FocusQuiet, QuietInv
<1> HIDE DEF t
<1> QED BY <1>3, <1>15, PadInvFacts, BecomeState

LEMMA HideScratchpadPad ==
  ASSUME PadInv(State), HideScratchpad
  PROVE  PadInv(State')
<1> DEFINE s == State
           m == selmon
           X == Scratchpads(s, m)
           prev == s.out[m].scratchpad_prev_focus
           x == Closed(s.out[m], FALSE)
           a == OutAs(s, m, x)
           b == SetEnabled(a, X, FALSE)
           f == IF prev # NoClient /\ VisibleOn(b, prev, m) THEN prev ELSE Focustop(b, m)
           t == FocusClient(b, f)
<1>1. /\ s.selmon = selmon /\ s.out = out /\ m \in Monitors
      /\ Sound(s) /\ s \in StateType /\ PadCore(s, {}) /\ s.out[m] \in MonitorType
      /\ ToSet(s.clients) \subseteq Clients /\ X \subseteq ToSet(s.clients)
      /\ WindowsListed(s) /\ NoMon \notin Monitors
  BY PadInvFacts, StateFieldsAre, StateFields DEF HideScratchpad, Scratchpads
<1>2. Become(t)
  <2>1. a = [State EXCEPT !.out[selmon].scratchpad_visible = FALSE,
                          !.out[selmon].scratchpad_current = NoClient]
    BY <1>1 DEF OutAs, WithOutputs, Closed, StateType
  <2> QED BY <1>1, <2>1 DEF HideScratchpad, RestoreFocus
<1> HIDE DEF s, X
<1>3. /\ x \in MonitorType /\ x.power = s.out[m].power /\ ~ x.scratchpad_visible
      /\ Refs(x) \subseteq Refs(s.out[m])
  <2>1. FALSE \in BOOLEAN
    BY Zenon
  <2> QED BY <1>1, <2>1, ClosedType
<1> HIDE DEF x
<1>4. OneOutput => \A c \in Refs(x) : c \in ToSet(s.clients) /\ s.win[c].mon = m
  BY <1>1, <1>3 DEF PadCore, RefsHome
<1>5. PadCore(a, X) /\ Near(s, a) /\ a.win = s.win
  <2>1. PadCore(s, X)
    BY <1>1, PadWeaken
  <2>2. Scratchpads(s, m) \subseteq X
    BY DEF X
  <2> QED BY <1>1, <1>3, <1>4, <2>1, <2>2, OutPad, OutFields
<1> HIDE DEF a
<1>6. Sound(a) /\ a \in StateType /\ X \subseteq ToSet(a.clients)
  BY <1>1, <1>5 DEF Near, Sound
<1>7. Quiet(a, b)
  BY <1>6, DisableQuiet
<1>8. \A c \in X : ~ b.win[c].enabled
  BY <1>1, <1>6, DisableDoes DEF Node
<1> HIDE DEF b
<1>9. PadCore(b, X) /\ Near(a, b) /\ Sound(b) /\ Near(s, b)
  BY <1>5, <1>7, QuietCore, NearTrans DEF Near
<1>10. PadCore(b, {})
  BY <1>8, <1>9, PadDone
<1>11. PadInv(b)
  BY <1>9, <1>10, NearInv DEF s
<1>12. f \in ToSet(b.clients) \cup {NoClient}
  <2>1. CASE prev # NoClient /\ VisibleOn(b, prev, m)
    <3>1. prev \in Clients /\ b.win[prev].mon # NoMon
      BY <1>1, <2>1 DEF VisibleOn, Shows, MonitorType
    <3>2. b.win[prev].status = "mapped"
      BY <1>11, <3>1 DEF PadInv, WindowsListed
    <3> QED BY <1>11, <2>1, <3>1, <3>2 DEF PadInv, WindowsListed
  <2>2. CASE ~ (prev # NoClient /\ VisibleOn(b, prev, m))
    BY <1>9, <2>2, FocustopIs
  <2> QED BY <2>1, <2>2
<1> HIDE DEF f
<1>13. PadInv(t)
  BY <1>9, <1>11, <1>12, FocusQuiet, QuietInv
<1> HIDE DEF t
<1> QED BY <1>2, <1>13, PadInvFacts, BecomeState

(* swapdirscratchpad() shows another of the scratchpad's windows, or the    *)
(* topmost one of the tags.                                                 *)
LEMMA FocusNextPad ==
  ASSUME NEW s, PadInv(s), NEW m, NEW c \in ToSet(s.clients) \cup {NoClient}
  PROVE  PadInv(FocusNextScratchpad(s, m, c))
<1>1. Sound(s)
  BY PadInvFacts
<1> QED BY <1>1, FocusQuiet, FocusTopQuiet, QuietInv DEF FocusNextScratchpad

(* The focused window of the selected output.                               *)
LEMMA PadSel ==
  ASSUME PadInv(State), Sel # NoClient
  PROVE  /\ Sel \in ToSet(State.clients) /\ Sel \in Clients /\ State.win[Sel].mon = selmon
         /\ selmon \in Monitors /\ selmon # NoMon /\ Enabled(State, selmon)
<1>1. Sound(State) /\ State.selmon \in Monitors \cup {NoMon} /\ AllOn(State)
  BY PadInvFacts DEF PadCore
<1>2. Sel \in ToSet(State.clients) /\ Sel \in Clients /\ VisibleOn(State, Sel, selmon)
      /\ State.win[Sel].mon = selmon
  BY <1>1, FocustopIs DEF Sel
<1>3. selmon # NoMon
  BY <1>2 DEF VisibleOn, Shows
<1>4. State.selmon = selmon
  BY StateFieldsAre
<1>5. Enabled(State, selmon)
  BY <1>1, <1>3, <1>4 DEF AllOn
<1>6. selmon \in Monitors
  BY <1>1, <1>3, <1>4
<1> QED BY <1>2, <1>3, <1>5, <1>6

(* A window taken out of its scratchpad joins the tags in view.             *)
Taken(w, b, f, tags) == [w EXCEPT !.isscratchpad = b, !.isfloating = f, !.tags = tags]

LEMMA TakenType ==
  ASSUME NEW w \in WindowType, NEW b \in BOOLEAN, NEW f \in BOOLEAN, NEW tags \in SUBSET Tags
  PROVE  /\ Taken(w, b, f, tags) \in WindowType /\ Taken(w, b, f, tags).status = w.status
         /\ Taken(w, b, f, tags).mon = w.mon /\ Taken(w, b, f, tags).enabled = w.enabled
         /\ (Taken(w, b, f, tags).isscratchpad <=> b)
BY DEF Taken, WindowType

LEMMA TakeFromScratchpadPad ==
  ASSUME PadInv(State), TakeFromScratchpad
  PROVE  PadInv(State')
<1> DEFINE s == State
           m == selmon
           c == Sel
           tags == CurTags(s, m)
           v == Taken(s.win[c], FALSE, FALSE, tags)
           next == IF out[m].scratchpad_visible
                   THEN FirstOf(fstack, Scratchpads(s, m) \ {c}, NoClient)
                   ELSE NoClient
           a == Put(s, c, v)
           b == [a EXCEPT !.out[m].scratchpad_current = next]
           d == IF next = NoClient THEN b ELSE ScratchpadArrange(b, m)
           e == SetFloating(d, c, FALSE)
           t == FocusNextScratchpad(e, m, next)
<1>1. /\ c \in ToSet(s.clients) /\ c \in Clients /\ s.win[c].mon = m
      /\ m \in Monitors /\ m # NoMon
  <2>1. Sel # NoClient
    BY DEF TakeFromScratchpad
  <2> QED BY <2>1, PadSel
<1>2. /\ s.selmon = selmon /\ s.fstack = fstack /\ s.out = out
      /\ Sound(s) /\ s \in StateType /\ PadCore(s, {}) /\ s.win[c] \in WindowType
      /\ ToSet(s.fstack) = ToSet(s.clients) /\ s.fstack \in Seq(Clients)
      /\ tags \in SUBSET Tags
  BY <1>1, PadInvFacts, StateFieldsAre, SoundFacts, CurTagsType
<1>3. next \in ToSet(s.clients) \cup {NoClient} /\ (next # NoClient => s.win[next].mon = m)
  <2>1. next \in (ToSet(s.clients) \cap (Scratchpads(s, m) \ {c})) \cup {NoClient}
    BY <1>2, Found
  <2> HIDE DEF next
  <2> QED BY <2>1 DEF Scratchpads
<1>4. Become(t)
  <2>1. b = [State EXCEPT !.win[Sel].isscratchpad = FALSE, !.win[Sel].isfloating = FALSE,
                          !.win[Sel].tags = CurTags(State, selmon),
                          !.out[selmon].scratchpad_current = next]
    BY <1>1, <1>2 DEF Put, Taken, StateType
  <2> HIDE DEF b
  <2> QED BY <2>1 DEF TakeFromScratchpad
<1> HIDE DEF s, c, next
<1>5. /\ v \in WindowType /\ v.status = s.win[c].status /\ v.mon = s.win[c].mon
      /\ v.enabled = s.win[c].enabled /\ ~ v.isscratchpad
  <2>1. FALSE \in BOOLEAN
    BY Zenon
  <2> QED BY <1>2, <2>1, TakenType
<1> HIDE DEF v
<1>6. PadCore(a, {}) /\ Near(s, a)
  BY <1>1, <1>2, <1>5, MarkPad
<1> HIDE DEF a
<1>7. PadCore(b, {}) /\ Near(a, b)
  <2>1. next \in ToSet(a.clients) \cup {NoClient} /\ (next # NoClient => a.win[next].mon = m)
    BY <1>2, <1>3, <1>6, SoundFacts DEF Near
  <2> QED BY <1>1, <1>6, <2>1, CurrentPad
<1> HIDE DEF b
<1>8. PadInv(b)
  <2>1. Near(s, b)
    BY <1>6, <1>7, NearTrans
  <2> QED BY <1>7, <2>1, NearInv DEF s
<1>9. PadInv(d) /\ d.clients = b.clients
  <2>1. Sound(b)
    BY <1>8, PadInvFacts
  <2>2. Quiet(b, d)
    BY <2>1, PadArrangeQuiet, QuietSelf
  <2> QED BY <1>8, <2>2, QuietInv DEF Quiet, Near
<1> HIDE DEF d
<1>10. PadInv(e) /\ e.clients = d.clients
  <2>1. Sound(d) /\ FALSE \in BOOLEAN
    BY <1>9, PadInvFacts, Zenon
  <2>2. Quiet(d, e)
    BY <1>1, <2>1, FloatingQuiet
  <2> QED BY <1>9, <2>2, QuietInv DEF Quiet, Near
<1> HIDE DEF e
<1>11. next \in ToSet(e.clients) \cup {NoClient}
  BY <1>3, <1>6, <1>7, <1>9, <1>10 DEF Near
<1>12. PadInv(t)
  BY <1>10, <1>11, FocusNextPad
<1> HIDE DEF t
<1> QED BY <1>4, <1>12, PadInvFacts, BecomeState

LEMMA SendToScratchpadPad ==
  ASSUME PadInv(State), SendToScratchpad
  PROVE  PadInv(State')
<1> DEFINE s == State
           m == selmon
           c == Sel
           a == IntoScratchpad(s, c)
<1>1. /\ c \in ToSet(s.clients) /\ c \in Clients /\ s.win[c].mon = m
      /\ m \in Monitors /\ m # NoMon
  <2>1. Sel # NoClient
    BY DEF SendToScratchpad
  <2> QED BY <2>1, PadSel
<1>2. s.selmon = selmon /\ s.out = out /\ WindowsListed(s)
  BY PadInvFacts, StateFieldsAre
<1>3. PadCore(a, {c}) /\ Near(s, a) /\ SamePads(s, a)
  BY <1>1, IntoPad
<1>4. c \in ToSet(a.clients) /\ a.win[c].mon = m /\ WindowsListed(a) /\ Sound(a)
  BY <1>1, <1>2, <1>3, NearListed DEF Near
<1>5. CASE out[m].scratchpad_visible
  <2> DEFINE b == Supersede(a, m, c)
             d == SetEnabled(b, {c}, TRUE)
             t == FocusClient(d, c)
  <2>1. Become(t)
    BY <1>5 DEF SendToScratchpad
  <2> HIDE DEF a, s, c
  <2>2. /\ PadCore(b, {c}) /\ Near(a, b)
        /\ \A n \in Monitors : b.out[n].scratchpad_visible = a.out[n].scratchpad_visible
    BY <1>1, <1>3, <1>4, SupersedePad
  <2> HIDE DEF b
  <2>3. PadShown(b, c) /\ Sound(b) /\ c \in ToSet(b.clients)
    BY <1>1, <1>2, <1>3, <1>4, <1>5, <2>2 DEF PadShown, Near, SamePads, SamePad
  <2>4. PadCore(b, {})
    BY <2>2, <2>3, PadDone
  <2>5. PadInv(b)
    <3>1. Near(s, b)
      BY <1>3, <2>2, NearTrans
    <3> QED BY <2>4, <3>1, NearInv DEF s
  <2>6. Quiet(b, d)
    <3>1. {c} \subseteq ToSet(b.clients) /\ \A y \in {c} : PadShown(b, y)
      BY <2>3
    <3> QED BY <2>3, <3>1, EnableQuiet
  <2>7. PadInv(d) /\ Sound(d) /\ c \in ToSet(d.clients) \cup {NoClient}
    BY <2>3, <2>5, <2>6, QuietInv DEF Quiet, Near
  <2> HIDE DEF d
  <2>8. PadInv(t)
    BY <2>7, FocusQuiet, QuietInv
  <2> HIDE DEF t
  <2> QED BY <2>1, <2>8, PadInvFacts, BecomeState
<1>6. CASE ~ out[m].scratchpad_visible
  <2> DEFINE b == SetEnabled(a, {c}, FALSE)
             d == Arrange(b, m)
             t == FocusTopOf(d, m)
  <2>1. Become(t)
    BY <1>6 DEF SendToScratchpad
  <2> HIDE DEF a, s, c
  <2>2. Quiet(a, b)
    <3>1. {c} \subseteq ToSet(a.clients)
      BY <1>4
    <3> QED BY <1>4, <3>1, DisableQuiet
  <2>3. ~ b.win[c].enabled
    <3>1. a \in StateType
      BY <1>4 DEF Sound
    <3> QED BY <1>1, <3>1, DisableDoes DEF Node
  <2> HIDE DEF b
  <2>4. PadCore(b, {c}) /\ Near(a, b) /\ Near(s, b)
    BY <1>3, <2>2, QuietCore, NearTrans
  <2>5. PadCore(b, {})
    <3>1. \A x \in ToSet(b.clients) \cap {c} : ~ b.win[x].enabled \/ PadShown(b, x)
      BY <2>3
    <3> QED BY <2>4, <3>1, PadDone
  <2>6. PadInv(b) /\ Sound(b)
    BY <2>4, <2>5, NearInv, PadInvFacts DEF s
  <2>7. PadInv(d)
    BY <1>1, <2>6, ArrangeQuiet, QuietInv
  <2> HIDE DEF d
  <2>8. PadInv(t)
    BY <2>7, PadInvFacts, FocusTopQuiet, QuietInv
  <2> HIDE DEF t
  <2> QED BY <2>1, <2>8, PadInvFacts, BecomeState
<1> QED BY <1>5, <1>6

LEMMA FocusDirScratchpadPad ==
  ASSUME PadInv(State), NEW forward, FocusDirScratchpad(forward)
  PROVE  PadInv(State')
<1> DEFINE s == State
           m == selmon
           old == s.out[m].scratchpad_current
           next == Cycle(s.clients, Scratchpads(s, m), Sel, forward)
           a == [s EXCEPT !.out[m].scratchpad_current = next]
           b == SetEnabledAt(a, old, FALSE)
           d == SetEnabled(b, {next}, TRUE)
           t == FocusClient(d, next)
<1>1. /\ Sel \in ToSet(s.clients) /\ Sel \in Clients /\ s.win[Sel].mon = m
      /\ m \in Monitors /\ m # NoMon
  <2>1. Sel # NoClient
    BY DEF FocusDirScratchpad
  <2> QED BY <2>1, PadSel
<1>2. /\ s.selmon = selmon /\ s.out = out /\ s.clients = clients /\ s.win = win
      /\ WindowsListed(s) /\ Sound(s) /\ PadCore(s, {}) /\ s.clients \in Seq(Clients)
      /\ old \in Clients \cup {NoClient}
      /\ s.out[m].scratchpad_visible
  BY <1>1, PadInvFacts, StateFieldsAre, StateFields
     DEF FocusDirScratchpad, CyclesScratchpad, MonitorType
<1>3. next \in ToSet(s.clients) /\ s.win[next].mon = m
  <2>1. Sel \in ToSet(s.clients) \cap Scratchpads(s, m)
    BY <1>1, <1>2 DEF Scratchpads, FocusDirScratchpad, CyclesScratchpad
  <2>2. ToSet(s.clients) \cap Scratchpads(s, m) # {}
    BY <2>1
  <2>3. next \in ToSet(s.clients) \cap Scratchpads(s, m)
    BY <1>2, <2>2, CycleFinds
  <2> QED BY <2>3 DEF Scratchpads
<1>4. Become(t)
  BY <1>2 DEF FocusDirScratchpad
<1> HIDE DEF s, next, old
<1>5. /\ PadCore(a, {}) /\ Near(s, a)
      /\ \A n \in Monitors : a.out[n].scratchpad_visible = s.out[n].scratchpad_visible
  <2>1. next \in ToSet(s.clients) \cup {NoClient}
    BY <1>3
  <2> QED BY <1>1, <1>2, <1>3, <2>1, CurrentPad
<1> HIDE DEF a
<1>6. PadInv(a) /\ Sound(a) /\ WindowsListed(a)
  BY <1>5, NearInv, PadInvFacts DEF s
<1>7. Quiet(a, b)
  BY <1>2, <1>6, DisableAtQuiet
<1> HIDE DEF b
<1>8. PadInv(b) /\ Sound(b) /\ next \in ToSet(b.clients) /\ b.win[next].mon = m
      /\ b.out[m].scratchpad_visible
  <2>1. PadInv(b) /\ Sound(b)
    BY <1>6, <1>7, QuietInv, PadInvFacts
  <2>2. next \in ToSet(b.clients) /\ next \in Clients
    BY <1>2, <1>3, <1>5, <1>7, SoundFacts DEF Quiet, Near
  <2>3. b.win[next].mon = m
    BY <1>3, <1>5, <1>7, <2>2 DEF Quiet, Near
  <2>4. b.out[m].scratchpad_visible
    BY <1>1, <1>2, <1>5, <1>7 DEF Quiet, SamePad
  <2> QED BY <2>1, <2>2, <2>3, <2>4
<1>9. Quiet(b, d)
  <2>1. {next} \subseteq ToSet(b.clients) /\ \A y \in {next} : PadShown(b, y)
    BY <1>1, <1>8 DEF PadShown
  <2> QED BY <1>8, <2>1, EnableQuiet
<1>10. PadInv(d) /\ Sound(d) /\ next \in ToSet(d.clients) \cup {NoClient}
  BY <1>8, <1>9, QuietInv DEF Quiet, Near
<1> HIDE DEF d
<1>11. PadInv(t)
  BY <1>10, FocusQuiet, QuietInv
<1> HIDE DEF t
<1> QED BY <1>4, <1>11, PadInvFacts, BecomeState

-----------------------------------------------------------------------------
(* The rest of a session with a scratchpad                                 *)

LEMMA PadBecomes ==
  ASSUME NEW t, PadInv(t), Become(t)
  PROVE  PadInv(State')
BY PadInvFacts, BecomeState

LEMMA SetTagsetIs ==
  ASSUME NEW s \in StateType, NEW m \in Monitors, NEW j \in 1 .. 2, NEW T
  PROVE  SetTagset(s, m, j, T) =
           OutAs(s, m, [s.out[m] EXCEPT !.seltags = j,
                                        !.tagset = [s.out[m].tagset EXCEPT ![j] = T]])
<1>1. s.out[m] \in MonitorType
  BY StateFields
<1> QED BY <1>1 DEF SetTagset, OutAs, WithOutputs, StateType, MonitorType

LEMMA ViewPad ==
  ASSUME PadInv(State), NEW tags \in TagArgs, View(tags)
  PROVE  PadInv(State')
<1> DEFINE s == State
           m == selmon
           j == 3 - out[m].seltags
           T == IF tags = {} THEN out[m].tagset[j] ELSE tags
           f == [s.out[m].tagset EXCEPT ![j] = T]
           x == [s.out[m] EXCEPT !.seltags = j, !.tagset = f]
           a == OutAs(s, m, x)
           t == Refresh(a, m)
<1>1. /\ s.out = out /\ m \in Monitors /\ Sound(s) /\ s \in StateType
      /\ s.out[m] \in MonitorType
  BY PadInvFacts, StateFieldsAre DEF View
<1>2. j \in 1 .. 2
  BY <1>1 DEF MonitorType
<1>3. T \in SUBSET Tags
  BY <1>1, <1>2, ConstantsAssumption DEF MonitorType
<1>4. Become(Refresh(SetTagset(s, m, j, T), m))
  BY DEF View
<1> HIDE DEF s, j, T
<1>5. SetTagset(s, m, j, T) = a
  <2>1. s \in StateType /\ m \in Monitors /\ j \in 1 .. 2
    BY <1>1, <1>2
  <2> QED BY <2>1, SetTagsetIs, Zenon
<1>6. f \in [1 .. 2 -> SUBSET Tags]
  BY <1>1, <1>2, <1>3 DEF MonitorType
<1> HIDE DEF f
<1>7. x \in MonitorType /\ SamePad(s.out[m], x)
  BY <1>1, <1>2, <1>6 DEF MonitorType, SamePad
<1> HIDE DEF x
<1>8. PadInv(a) /\ Sound(a)
  BY <1>1, <1>7, OutQuiet, QuietInv, PadInvFacts DEF s
<1> HIDE DEF a
<1>9. PadInv(t)
  BY <1>1, <1>8, RefreshQuiet, QuietInv
<1> HIDE DEF t
<1> QED BY <1>4, <1>5, <1>9, PadBecomes DEF t

(* An output of the layout is lit here: tagmon() takes the window to one.   *)
LEMMA TagMonPad ==
  ASSUME PadInv(State), NEW m \in Monitors, TagMon(m)
  PROVE  PadInv(State')
<1> DEFINE t == SetMon(State, Sel, m, {})
<1>1. Sel # NoClient /\ InLayout(State, m) /\ Become(t)
  BY DEF TagMon
<1>2. Sel \in ToSet(State.clients)
  BY <1>1, PadSel
<1>3. Enabled(State, m) /\ m # NoMon
  BY <1>1 DEF InLayout, Enabled, PadInv, PadCore, AllOn
<1>4. PadInv(t)
  <2>1. {} \in SUBSET Tags /\ m \in Monitors \cup {NoMon}
    OBVIOUS
  <2> QED BY <1>2, <1>3, <2>1, SetMonInv
<1> HIDE DEF t
<1> QED BY <1>1, <1>4, PadBecomes

LEMMA SetLayoutPad ==
  ASSUME PadInv(State), NEW l \in LayoutArgs, SetLayout(l)
  PROVE  PadInv(State')
<1> DEFINE s == State
           m == selmon
           a == WithLayout(s, m, l)
           b == Untile(a, m)
           t == Arrange(b, m)
<1>1. /\ m \in Monitors /\ Sound(s) /\ s \in StateType /\ s.out[m] \in MonitorType
      /\ l \in Layouts /\ CurrentTag(s, m) \in Tags
  BY PadInvFacts, StateFieldsAre, ConstantsAssumption, CurrentTagType DEF SetLayout
<1>2. Become(t)
  BY DEF SetLayout
<1>3. PICK j \in 1 .. 2 : a = OutAs(s, m, Laid(s.out[m], CurrentTag(s, m), j, l))
  BY <1>1, WithLayoutIs
<1> DEFINE x == Laid(s.out[m], CurrentTag(s, m), j, l)
<1>4. x \in MonitorType /\ SamePad(s.out[m], x)
  <2>1. x \in MonitorType /\ x.power = s.out[m].power
        /\ x.scratchpad_visible = s.out[m].scratchpad_visible
    BY <1>1, LaidType
  <2>2. x.scratchpad_prev_focus = s.out[m].scratchpad_prev_focus
        /\ x.scratchpad_current = s.out[m].scratchpad_current
    BY <1>1 DEF Laid, MonitorType
  <2> QED BY <2>1, <2>2 DEF SamePad
<1> HIDE DEF x, a, s
<1>5. PadInv(a) /\ Sound(a)
  BY <1>1, <1>3, <1>4, OutQuiet, QuietInv, PadInvFacts DEF s, x
<1>6. PadInv(b) /\ Sound(b)
  BY <1>5, UntileQuiet, QuietInv, PadInvFacts
<1> HIDE DEF b
<1>7. PadInv(t)
  BY <1>1, <1>6, ArrangeQuiet, QuietInv
<1> HIDE DEF t
<1> QED BY <1>2, <1>7, PadBecomes

LEMMA WindowsPad ==
  ASSUME PadInv(State), WindowStep
  PROVE  PadInv(State')
<1> USE StateFieldsAre
<1>1. PadInv(State)
  OBVIOUS
<1>2. ASSUME NEW c \in Clients, CreateNotify(c) PROVE PadInv(State')
  <2> DEFINE t == [State EXCEPT !.win[c] = FreshWindow("unmapped")]
  <2>1. PadInv(t)
    BY <1>1, <1>2, FreshPad DEF CreateNotify
  <2>2. Become(t)
    BY <1>2 DEF CreateNotify
  <2> HIDE DEF t
  <2> QED BY <2>1, <2>2, PadBecomes
<1>3. ASSUME NEW c \in Clients, DestroyNotify(c) PROVE PadInv(State')
  <2> DEFINE t == [State EXCEPT !.win[c] = FreshWindow("none")]
  <2>1. PadInv(t)
    BY <1>1, <1>3, FreshPad DEF DestroyNotify
  <2>2. Become(t)
    BY <1>3 DEF DestroyNotify
  <2> HIDE DEF t
  <2> QED BY <2>1, <2>2, PadBecomes
<1>4. ASSUME NEW c \in Clients, NEW r \in Rules, MapNotify(c, r) PROVE PadInv(State')
  <2> DEFINE p == Parent(State, c)
             s == AutoScratch(Place(ListedFirst(State, c), c, p, r), c)
  <2>1. p \in ToSet(State.clients) \cup {NoClient}
    <3>1. ParentOf[c] \in Clients \cup {NoClient}
      BY ConstantsAssumption
    <3> QED BY <1>1, <3>1 DEF Parent, Mapped, PadInv, WindowsListed
  <2>2. PutUp(c, p, r) = s
    BY DEF PutUp, ListedFirst
  <2>3. PICK m : Become(UnsetFullscreen(s, c, p, m))
    BY <1>4, <2>2 DEF MapNotify
  <2> HIDE DEF p
  <2>4. PadInv(UnsetFullscreen(s, c, p, m))
    BY <1>1, <1>4, <2>1, AutoScratchListed DEF MapNotify
  <2> HIDE DEF s
  <2> QED BY <2>3, <2>4, PadBecomes
<1>5. ASSUME NEW c \in Clients, UnmapNotify(c) PROVE PadInv(State')
  <2> DEFINE t == [Detach(ClearRefs(Unlink(State, c), c, win[c].mon), c, win[c].mon)
                   EXCEPT !.win[c].status = "unmapped", !.win[c].layer = "none",
                          !.win[c].enabled = FALSE]
  <2>1. PadInv(t)
    BY <1>1, <1>5, UnmapPad DEF UnmapNotify
  <2>2. Become(t)
    BY <1>5 DEF UnmapNotify
  <2> HIDE DEF t
  <2> QED BY <2>1, <2>2, PadBecomes
<1> QED BY <1>2, <1>3, <1>4, <1>5 DEF WindowStep

LEMMA PlugsPad ==
  ASSUME PadInv(State), PlugStep
  PROVE  PadInv(State')
<1> USE StateFieldsAre
<1>1. PICK m \in Monitors : CreateMon(m)
  BY DEF PlugStep
<1> DEFINE t == UpdateMons([State EXCEPT !.out[m] = FreshMonitor("on"), !.mons = <<m>> \o mons])
<1>2. PadInv(t)
  BY <1>1, PlugPad DEF CreateMon
<1>3. Become(t)
  BY <1>1 DEF CreateMon
<1> HIDE DEF t
<1> QED BY <1>2, <1>3, PadBecomes

LEMMA FullscreenPad ==
  ASSUME PadInv(State), NEW c \in Clients, NEW b \in BOOLEAN, FullscreenNotify(c, b)
  PROVE  PadInv(State')
<1> DEFINE t == SetFullscreen(State, c, b)
<1>1. PadInv(t)
  BY PadInvFacts, FullscreenQuiet, QuietInv
<1>2. Become(t)
  BY DEF FullscreenNotify
<1> HIDE DEF t
<1> QED BY <1>1, <1>2, PadBecomes

LEMMA InitPad ==
  ASSUME Init
  PROVE  PadInv(State)
<1>1. DeskInv("desktop", State)
  BY InitGoes
<1>2. Sound(State) /\ OutputsListed(State) /\ WindowsListed(State)
  BY <1>1, BaseMapped DEF DeskInv, Base
<1>3. /\ State.clients = <<>> /\ State.selmon = NoMon
      /\ State.out = [m \in Monitors |-> FreshMonitor("gone")]
  BY StateFieldsAre DEF Init
<1>4. ToSet(State.clients) = {}
  BY <1>3, EmptyList DEF Lists
<1>5. AllOn(State) /\ RefsHome(State)
  BY <1>3, <1>4 DEF AllOn, RefsHome, Refs, FreshMonitor
<1>6. Hidden(State, {})
  BY <1>4 DEF Hidden
<1> QED BY <1>2, <1>5, <1>6 DEF PadInv, PadCore

-----------------------------------------------------------------------------
(* Sessions with a scratchpad                                              *)

ScratchpadInv == PadInv(State)

LEMMA ScratchpadInvStep ==
  ASSUME ScratchpadInv, [ScratchpadNext]_vars
  PROVE  ScratchpadInv'
<1> SUFFICES PadInv(State')
  BY DEF ScratchpadInv
<1>1. PadInv(State)
  BY DEF ScratchpadInv
<1>2. CASE ScratchpadNext
  <2>1. CASE PlugStep
    BY <1>1, <2>1, PlugsPad
  <2>2. CASE WindowStep
    BY <1>1, <2>2, WindowsPad
  <2>3. CASE AnyFullscreenNotify
    BY <1>1, <2>3, FullscreenPad DEF AnyFullscreenNotify
  <2>4. CASE ScratchpadStep
    BY <1>1, <2>4, ShowScratchpadPad, HideScratchpadPad, TakeFromScratchpadPad,
       SendToScratchpadPad, FocusDirScratchpadPad DEF ScratchpadStep
  <2>5. ASSUME NEW tags \in TagArgs, View(tags) PROVE PadInv(State')
    BY <1>1, <2>5, ViewPad
  <2>6. ASSUME NEW m \in Monitors, TagMon(m) PROVE PadInv(State')
    BY <1>1, <2>6, TagMonPad
  <2>7. ASSUME NEW l \in LayoutArgs, SetLayout(l) PROVE PadInv(State')
    BY <1>1, <2>7, SetLayoutPad
  <2> QED BY <1>2, <2>1, <2>2, <2>3, <2>4, <2>5, <2>6, <2>7 DEF ScratchpadNext
<1>3. CASE UNCHANGED vars
  <2>1. State' = State
    BY <1>3 DEF State, vars
  <2> QED BY <1>1, <2>1
<1> QED BY <1>2, <1>3

(* Whatever is shown, hidden, sent to a scratchpad, taken out of one or     *)
(* moved to another output with it, no window of a hidden scratchpad is     *)
(* lit, and with one output its scratchpad remembers only windows there.    *)
THEOREM ScratchpadInvariant == ScratchpadSpec => []ScratchpadInv
<1>1. Init => ScratchpadInv
  BY InitPad DEF ScratchpadInv
<1>2. ScratchpadInv /\ [ScratchpadNext]_vars => ScratchpadInv'
  BY ScratchpadInvStep
<1> QED BY <1>1, <1>2, PTL DEF ScratchpadSpec

(* The lists of windows, of focus and of outputs stay in step while windows *)
(* move in and out of scratchpads.                                          *)
THEOREM ScratchpadTypeOK == ScratchpadSpec => []TypeOK
<1>1. ASSUME PadInv(State) PROVE TypeOK
  <2>1. /\ State \in StateType /\ Sound(State) /\ OutputsListed(State) /\ WindowsListed(State)
    BY <1>1, PadInvFacts DEF PadCore
  <2>2. /\ selmon \in Monitors \cup {NoMon} /\ win \in [Clients -> WindowType]
        /\ focus \in Clients \cup {NoClient}
    BY <2>1, StateFields, StateFieldsAre
  <2> QED BY <2>1, <2>2, StateFieldsAre DEF TypeOK, Sound, OutputsListed, WindowsListed
<1>2. ScratchpadInv => TypeOK
  BY <1>1 DEF ScratchpadInv
<1> QED BY ScratchpadInvariant, <1>2, PTL

(* togglescratchpad(), swapdirscratchpad(), mapnotify() and unmapnotify():  *)
(* a scratchpad that is hidden on a lit output shows none of its windows,   *)
(* for any number of windows and outputs, in any layout.                    *)
THEOREM ScratchpadStaysHidden == ScratchpadSpec => []HiddenScratchpadIsHidden
<1>1. ASSUME PadInv(State) PROVE HiddenScratchpadIsHidden
  <2>1. Hidden(State, {})
    BY <1>1 DEF PadInv, PadCore
  <2> QED BY <2>1, StateFieldsAre DEF Hidden, HiddenScratchpadIsHidden, PadShown
<1>2. ScratchpadInv => HiddenScratchpadIsHidden
  BY <1>1 DEF ScratchpadInv
<1> QED BY ScratchpadInvariant, <1>2, PTL

-----------------------------------------------------------------------------
(* Focus, with one output in layouts that show every window in view        *)

Tiles(o) == \A u \in Tags : o.lt[u][o.sellt[u]] \notin {"monocle", "floating"}

(* The output selected is the one that is lit, and it tiles.                *)
Setting(s) ==
  \A m \in Monitors : (Enabled(s, m) <=> s.selmon = m) /\ Tiles(s.out[m])

(* The window an open scratchpad shows is one of the scratchpad's.          *)
CurrentPads(s) ==
  \A m \in Monitors : \A c \in Clients :
    s.out[m].scratchpad_current = c => s.win[c].isscratchpad

InView(s, c) == VisibleOn(s, c, s.selmon)

AllLit(s) == \A c \in ToSet(s.clients) : InView(s, c) => s.win[c].enabled

(* The same of the windows that are in no scratchpad.                       *)
TagsLit(s) ==
  \A c \in ToSet(s.clients) : InView(s, c) /\ ~ s.win[c].isscratchpad => s.win[c].enabled

(* The focused window is the topmost in view and lit, and so are the        *)
(* windows of the tags in view.                                             *)
InFront(s) ==
  /\ Setting(s) /\ CurrentPads(s) /\ TagsLit(s) /\ FocusTop(s)
  /\ s.focus # NoClient => s.win[s.focus].enabled

(* What is in view stays in view and in its order, but for the windows in X. *)
Still(s, t, X) ==
  /\ Sound(t)
  /\ t.clients = s.clients /\ t.fstack = s.fstack /\ t.focus = s.focus /\ t.selmon = s.selmon
  /\ \A m \in Monitors :
       /\ t.out[m].power = s.out[m].power /\ CurTags(t, m) = CurTags(s, m)
       /\ t.out[m].scratchpad_visible = s.out[m].scratchpad_visible
       /\ Tiles(s.out[m]) => Tiles(t.out[m])
  /\ \A d \in Clients :
       /\ t.win[d].mon = s.win[d].mon
       /\ d \notin X => /\ t.win[d].tags = s.win[d].tags
                        /\ t.win[d].isscratchpad = s.win[d].isscratchpad

(* Nothing in view is put out.                                              *)
Steady(s, t) ==
  /\ Still(s, t, {})
  /\ \A d \in ToSet(s.clients) : InView(s, d) /\ s.win[d].enabled => t.win[d].enabled

LEMMA StillSelf ==
  ASSUME NEW s, Sound(s)
  PROVE  Steady(s, s)
BY DEF Still, Steady

LEMMA StillTrans ==
  ASSUME NEW s, NEW X, NEW t, NEW u, Still(s, t, X), Still(t, u, X)
  PROVE  Still(s, u, X)
BY DEF Still

LEMMA StillWeaken ==
  ASSUME NEW s, NEW X, NEW t, Still(s, t, {})
  PROVE  Still(s, t, X)
BY DEF Still

LEMMA StillViews ==
  ASSUME NEW s, Sound(s), NEW X, NEW t, Still(s, t, X)
  PROVE  /\ \A d \in Clients \ X : \A m \in Monitors \cup {NoMon} :
              VisibleOn(t, d, m) <=> VisibleOn(s, d, m)
         /\ \A d \in Clients \ X : InView(t, d) <=> InView(s, d)
<1>1. ASSUME NEW d \in Clients \ X, NEW m \in Monitors \cup {NoMon}
      PROVE  VisibleOn(t, d, m) <=> VisibleOn(s, d, m)
  <2>1. CASE m = NoMon
    BY <2>1 DEF VisibleOn, Shows
  <2>2. CASE m \in Monitors
    BY <2>2 DEF Still, VisibleOn, Shows
  <2> QED BY <2>1, <2>2
<1>2. s.selmon \in Monitors \cup {NoMon} /\ t.selmon = s.selmon
  BY StateFields DEF Sound, Still
<1> QED BY <1>1, <1>2 DEF InView

LEMMA StillSetting ==
  ASSUME NEW s, Setting(s), NEW X, NEW t, Still(s, t, X)
  PROVE  Setting(t)
BY DEF Setting, Still, Enabled

LEMMA StillTop ==
  ASSUME NEW s, Sound(s), NEW t, Still(s, t, {})
  PROVE  /\ Focustop(t, s.selmon) = Focustop(s, s.selmon)
         /\ FocusTop(s) => FocusTop(t)
<1>1. s.selmon \in Monitors \cup {NoMon} /\ t.selmon = s.selmon
      /\ t.fstack = s.fstack /\ t.focus = s.focus
  BY StateFields DEF Sound, Still
<1>2. {c \in Clients : VisibleOn(t, c, s.selmon)} = {c \in Clients : VisibleOn(s, c, s.selmon)}
  BY <1>1, StillViews
<1> QED BY <1>1, <1>2 DEF Focustop, FocusTop

LEMMA SteadyTrans ==
  ASSUME NEW s, Sound(s), NEW t, NEW u, Steady(s, t), Steady(t, u)
  PROVE  Steady(s, u)
<1>1. Still(s, u, {}) /\ Still(s, t, {}) /\ t.clients = s.clients /\ ToSet(s.clients) \subseteq Clients
  BY StillTrans, SoundFacts DEF Steady, Still
<1>2. \A d \in Clients : InView(t, d) <=> InView(s, d)
  BY <1>1, StillViews
<1> QED BY <1>1, <1>2 DEF Steady

LEMMA SteadyLit ==
  ASSUME NEW s, Sound(s), NEW t, Steady(s, t)
  PROVE  /\ AllLit(s) => AllLit(t)
         /\ TagsLit(s) => TagsLit(t)
<1>1. t.clients = s.clients /\ ToSet(s.clients) \subseteq Clients
  BY SoundFacts DEF Steady, Still
<1>2. \A d \in Clients : InView(t, d) <=> InView(s, d)
  BY StillViews DEF Steady
<1> QED BY <1>1, <1>2 DEF Steady, Still, AllLit, TagsLit

LEMMA QuietCurrent ==
  ASSUME NEW s, CurrentPads(s), NEW t,
         \A m \in Monitors : t.out[m].scratchpad_current = s.out[m].scratchpad_current,
         \A c \in Clients : s.win[c].isscratchpad => t.win[c].isscratchpad
  PROVE  CurrentPads(t)
BY DEF CurrentPads

(* Where the focus is, if it is the topmost window.                         *)
LEMMA TopIs ==
  ASSUME NEW s, Sound(s), FocusTop(s), s.focus # NoClient
  PROVE  /\ s.focus \in ToSet(s.clients) /\ s.focus \in Clients /\ InView(s, s.focus)
         /\ s.win[s.focus].mon = s.selmon /\ s.selmon \in Monitors
<1>1. /\ s.focus \in ToSet(s.clients) /\ s.focus \in Clients /\ VisibleOn(s, s.focus, s.selmon)
      /\ s.win[s.focus].mon = s.selmon
  BY FocustopIs DEF FocusTop
<1>2. s.selmon # NoMon /\ s.selmon \in Monitors \cup {NoMon}
  BY <1>1, StateFields DEF VisibleOn, Shows, Sound
<1> QED BY <1>1, <1>2 DEF InView

LEMMA SteadyFront ==
  ASSUME NEW s, Sound(s), InFront(s), NEW t, Steady(s, t), CurrentPads(t)
  PROVE  InFront(t)
<1>1. Still(s, t, {}) /\ t.focus = s.focus
  BY DEF Steady, Still
<1>2. Setting(t) /\ FocusTop(t) /\ TagsLit(t)
  BY <1>1, StillSetting, StillTop, SteadyLit DEF InFront
<1>3. t.focus # NoClient => t.win[t.focus].enabled
  BY <1>1, TopIs DEF InFront, Steady
<1> QED BY <1>2, <1>3 DEF InFront

LEMMA LitFront ==
  ASSUME NEW t, Sound(t), Setting(t), CurrentPads(t), FocusTop(t), AllLit(t)
  PROVE  InFront(t)
BY TopIs DEF InFront, AllLit, TagsLit

LEMMA SettingLayout ==
  ASSUME NEW s, Sound(s), NEW m \in Monitors, Tiles(s.out[m])
  PROVE  CurLayout(s, m) \notin {"monocle", "floating"}
<1>1. CurrentTag(s, m) \in Tags
  BY StateFields, CurrentTagType DEF Sound
<1> QED BY <1>1 DEF CurLayout, LayoutOf, Tiles

LEMMA SceneLit ==
  ASSUME NEW t, Sound(t), Setting(t), \A m \in Monitors : m = t.selmon => Scene(t, m)
  PROVE  AllLit(t)
<1> SUFFICES ASSUME NEW c \in ToSet(t.clients), InView(t, c) PROVE t.win[c].enabled
  BY DEF AllLit
<1> DEFINE m == t.selmon
<1>1. VisibleOn(t, c, m) /\ m # NoMon /\ t.win[c].mon = m
  BY DEF InView, VisibleOn, Shows
<1>2. m \in Monitors /\ Enabled(t, m) /\ Scene(t, m)
  BY <1>1, StateFields DEF Sound, Setting
<1>3. CurLayout(t, m) \notin {"monocle", "floating"}
  BY <1>2, SettingLayout DEF Setting
<1>4. OnDisplay(t, c, m)
  BY <1>1, <1>3 DEF OnDisplay
<1> QED BY <1>1, <1>2, <1>4 DEF Scene, Shown

(* A step that draws outputs anew, or leaves them as they were.             *)
LEMMA DrawnSteady ==
  ASSUME NEW s, Sound(s), Setting(s), NEW t, Still(s, t, {}),
         \A n \in Monitors : Scene(t, n) \/ SameView(s, t, n)
  PROVE  Steady(s, t)
<1> SUFFICES ASSUME NEW d \in ToSet(s.clients), InView(s, d), s.win[d].enabled
             PROVE  t.win[d].enabled
  BY DEF Steady
<1> DEFINE m == s.selmon
<1>1. /\ VisibleOn(s, d, m) /\ m # NoMon /\ s.win[d].mon = m /\ d \in Clients /\ m \in Monitors
      /\ t.clients = s.clients /\ t.win[d].mon = m /\ t.selmon = m
  BY SoundFacts, StateFields DEF InView, VisibleOn, Shows, Sound, Still
<1>2. CASE SameView(s, t, m)
  BY <1>1, <1>2 DEF SameView, On
<1>3. CASE Scene(t, m)
  <2>1. Setting(t) /\ Sound(t)
    BY StillSetting DEF Still
  <2>3. InView(t, d)
    BY <1>1, StillViews
  <2>2. AllLit(t)
    BY <1>1, <1>3, <2>1, SceneLit
  <2> QED BY <1>1, <2>2, <2>3 DEF AllLit
<1> QED BY <1>1, <1>2, <1>3

LEMMA DeskStill ==
  ASSUME NEW s, NEW t, Sound(t), t.clients = s.clients, t.fstack = s.fstack, t.focus = s.focus,
         t.selmon = s.selmon, \A n \in Monitors : SameButTree(s.out[n], t.out[n]),
         \A d \in Clients : /\ t.win[d].mon = s.win[d].mon /\ t.win[d].tags = s.win[d].tags
                            /\ t.win[d].isscratchpad = s.win[d].isscratchpad
  PROVE  Still(s, t, {})
BY DEF Still, SameButTree, CurTags, Tiles

LEMMA ArrangeStill ==
  ASSUME NEW s, Sound(s), NEW m \in Monitors
  PROVE  Still(s, Arrange(s, m), {})
<1> DEFINE t == Arrange(s, m)
<1>1. Redrawn(s, t, m) /\ Sound(t)
  BY ArrangeDoes, RedrawnSound
<1> HIDE DEF t
<1>2. Still(s, t, {})
  BY <1>1, DeskStill DEF Redrawn, SameDesk, SameButShown
<1> QED BY <1>2 DEF t

LEMMA ChangedStill ==
  ASSUME NEW s, NEW c \in Clients, NEW t, Changed(s, t, c),
         t.fstack = s.fstack, t.focus = s.focus,
         t.win[c].mon = s.win[c].mon, t.win[c].tags = s.win[c].tags
  PROVE  Still(s, t, {})
<1>1. \A d \in Clients : /\ t.win[d].mon = s.win[d].mon /\ t.win[d].tags = s.win[d].tags
                         /\ t.win[d].isscratchpad = s.win[d].isscratchpad
  BY DEF Changed, SameButShown
<1> QED BY <1>1, DeskStill DEF Changed

LEMMA FloatingStill ==
  ASSUME NEW s, Sound(s), AllMapped(s), NEW c \in Clients, NEW b \in BOOLEAN
  PROVE  Still(s, SetFloating(s, c, b), {})
<1> DEFINE t == SetFloating(s, c, b)
<1>1. /\ Changed(s, t, c) /\ t.fstack = s.fstack /\ t.focus = s.focus
      /\ t.win[c].mon = s.win[c].mon /\ t.win[c].tags = s.win[c].tags
  BY SetFloatingDoes DEF AllMapped
<1> HIDE DEF t
<1>2. Still(s, t, {})
  BY <1>1, ChangedStill
<1> QED BY <1>2 DEF t

LEMMA FullscreenStill ==
  ASSUME NEW s, Sound(s), AllMapped(s), NEW c \in Clients, NEW b \in BOOLEAN
  PROVE  Still(s, SetFullscreen(s, c, b), {})
<1> DEFINE t == SetFullscreen(s, c, b)
<1>1. /\ Changed(s, t, c) /\ t.fstack = s.fstack /\ t.focus = s.focus
      /\ t.win[c].mon = s.win[c].mon /\ t.win[c].tags = s.win[c].tags
  BY SetFullscreenDoes DEF AllMapped
<1> HIDE DEF t
<1>2. Still(s, t, {})
  BY <1>1, ChangedStill
<1> QED BY <1>2 DEF t

LEMMA ArrangeSteady ==
  ASSUME NEW s, Sound(s), Setting(s), NEW m \in Monitors
  PROVE  /\ Steady(s, Arrange(s, m))
         /\ m = s.selmon => AllLit(Arrange(s, m))
<1> DEFINE t == Arrange(s, m)
<1>1. Scene(t, m) /\ \A n \in Monitors : n # m => SameView(s, t, n)
  BY ArrangeViewed
<1>2. Still(s, t, {})
  BY ArrangeStill
<1> HIDE DEF t
<1>3. Steady(s, t)
  BY <1>1, <1>2, DrawnSteady
<1>4. m = s.selmon => AllLit(t)
  BY <1>1, <1>2, StillSetting, SceneLit DEF Still
<1> QED BY <1>3, <1>4 DEF t

LEMMA FullscreenSteady ==
  ASSUME NEW s, Sound(s), AllMapped(s), Setting(s), NEW c \in Clients, NEW b \in BOOLEAN
  PROVE  Steady(s, SetFullscreen(s, c, b))
<1> DEFINE t == SetFullscreen(s, c, b)
<1>1. \A n \in Monitors : Scene(t, n) \/ SameView(s, t, n)
  BY SetFullscreenDoes DEF AllMapped
<1>2. Still(s, t, {})
  BY FullscreenStill
<1> HIDE DEF t
<1>3. Steady(s, t)
  BY <1>1, <1>2, DrawnSteady
<1> QED BY <1>3 DEF t

(* Floating or not, a window of the output is arranged with the others.     *)
LEMMA FloatingLit ==
  ASSUME NEW s, Sound(s), AllMapped(s), Setting(s), NEW c \in ToSet(s.clients),
         s.win[c].mon = s.selmon, s.selmon \in Monitors, NEW b \in BOOLEAN
  PROVE  LET t == SetFloating(s, c, b) IN Still(s, t, {}) /\ AllLit(t)
<1> DEFINE t == SetFloating(s, c, b)
           m == s.selmon
<1>1. c \in Clients /\ CurLayout(s, m) # "floating"
  BY SoundFacts, SettingLayout DEF Setting
<1>2. Scene(t, m)
  BY <1>1, SetFloatingDoes DEF AllMapped
<1>3. Still(s, t, {})
  BY <1>1, FloatingStill
<1> HIDE DEF t
<1>4. AllLit(t)
  BY <1>2, <1>3, StillSetting, SceneLit DEF Still
<1> QED BY <1>3, <1>4 DEF t

LEMMA EnabledStill ==
  ASSUME NEW s, Sound(s), NEW t, Reshown(s, t)
  PROVE  Still(s, t, {}) /\ t.out = s.out
<1>1. Sound(t) /\ SameDesk(s, t)
  BY ReshownSound, ReshownDesk DEF Sound
<1>2. \A d \in Clients : /\ t.win[d].mon = s.win[d].mon /\ t.win[d].tags = s.win[d].tags
                         /\ t.win[d].isscratchpad = s.win[d].isscratchpad
  BY DEF Reshown, SameButShown
<1> QED BY <1>1, <1>2, DeskStill DEF Reshown, SameDesk

LEMMA DisableStill ==
  ASSUME NEW s, Sound(s), NEW C
  PROVE  LET t == SetEnabled(s, C, FALSE) IN
         /\ Still(s, t, {}) /\ t.out = s.out
         /\ \A d \in Clients \ C : t.win[d] = s.win[d]
         /\ TagsLit(s) /\ (\A d \in C : s.win[d].isscratchpad) => TagsLit(t)
<1> DEFINE t == SetEnabled(s, C, FALSE)
<1>1. /\ Reshown(s, t)
      /\ \A d \in Clients \ C : t.win[d] = s.win[d]
  BY DisableDoes DEF Sound
<1> HIDE DEF t
<1>2. Still(s, t, {}) /\ t.out = s.out
  BY <1>1, EnabledStill
<1>3. ASSUME TagsLit(s), \A d \in C : s.win[d].isscratchpad PROVE TagsLit(t)
  <2> SUFFICES ASSUME NEW d \in ToSet(s.clients), InView(t, d), ~ t.win[d].isscratchpad
               PROVE  t.win[d].enabled
    BY <1>2 DEF TagsLit, Still
  <2>1. d \in Clients /\ t.win[d].isscratchpad = s.win[d].isscratchpad
    BY <1>2, SoundFacts DEF Still
  <2>2. InView(s, d) /\ d \notin C
    BY <1>2, <1>3, <2>1, StillViews
  <2> QED BY <1>1, <1>3, <2>1, <2>2 DEF TagsLit
<1> QED BY <1>1, <1>2, <1>3 DEF t

LEMMA EnableSteady ==
  ASSUME NEW s, Sound(s), NEW C
  PROVE  LET t == SetEnabled(s, C, TRUE) IN
         Steady(s, t) /\ t.out = s.out /\ \A d \in Clients \cap C : t.win[d].enabled
<1> DEFINE t == SetEnabled(s, C, TRUE)
<1>1. /\ Reshown(s, t)
      /\ \A d \in Clients \cap C : t.win[d].enabled
      /\ \A d \in Clients \ C : t.win[d] = s.win[d]
  BY EnableDoes DEF Sound, Node
<1> HIDE DEF t
<1>2. Still(s, t, {}) /\ t.out = s.out /\ ToSet(s.clients) \subseteq Clients
  BY <1>1, EnabledStill, SoundFacts
<1>3. Steady(s, t)
  BY <1>1, <1>2 DEF Steady
<1> QED BY <1>1, <1>2, <1>3 DEF t

(* Only a window that may be in no scratchpad's account is put out.         *)
LEMMA DisableAtStill ==
  ASSUME NEW s, Sound(s), NEW c \in Clients \cup {NoClient}
  PROVE  LET t == SetEnabledAt(s, c, FALSE) IN
         /\ Still(s, t, {}) /\ t.out = s.out
         /\ \A d \in Clients : d # c => t.win[d] = s.win[d]
         /\ TagsLit(s) /\ (c # NoClient => s.win[c].isscratchpad) => TagsLit(t)
<1>1. CASE Mapped(s, c)
  <2>1. SetEnabledAt(s, c, FALSE) = SetEnabled(s, {c}, FALSE) /\ c # NoClient
    BY <1>1 DEF SetEnabledAt, Mapped
  <2> DEFINE t == SetEnabled(s, {c}, FALSE)
  <2>2. /\ Still(s, t, {}) /\ t.out = s.out
        /\ \A d \in Clients \ {c} : t.win[d] = s.win[d]
        /\ TagsLit(s) /\ (\A d \in {c} : s.win[d].isscratchpad) => TagsLit(t)
    BY DisableStill
  <2> HIDE DEF t
  <2>3. (c # NoClient => s.win[c].isscratchpad) => \A d \in {c} : s.win[d].isscratchpad
    BY <2>1
  <2>4. \A d \in Clients : d # c => t.win[d] = s.win[d]
    BY <2>2
  <2> QED BY <2>1, <2>2, <2>3, <2>4 DEF t
<1>2. CASE ~ Mapped(s, c)
  BY <1>2, StillSelf DEF SetEnabledAt, Steady
<1> QED BY <1>1, <1>2

(* A change of windows that concerns neither place nor node.                *)
LEMMA WinSteady ==
  ASSUME NEW s, Sound(s), NEW w \in [Clients -> WindowType],
         \A d \in Clients :
           /\ w[d].mon = s.win[d].mon /\ w[d].tags = s.win[d].tags
           /\ w[d].isscratchpad = s.win[d].isscratchpad /\ w[d].enabled = s.win[d].enabled
  PROVE  Steady(s, [s EXCEPT !.win = w]) /\ [s EXCEPT !.win = w].out = s.out
<1> DEFINE t == [s EXCEPT !.win = w]
<1>1. /\ t \in StateType /\ t.win = w
      /\ t.out = s.out /\ t.selmon = s.selmon /\ t.clients = s.clients
      /\ t.fstack = s.fstack /\ t.focus = s.focus
  BY WithWin DEF Sound
<1> HIDE DEF t
<1>2. Sound(t) /\ ToSet(s.clients) \subseteq Clients
  BY <1>1, SoundFacts DEF Sound
<1>3. \A n \in Monitors : SameButTree(s.out[n], t.out[n])
  BY <1>1 DEF SameButTree
<1>4. Still(s, t, {})
  BY <1>1, <1>2, <1>3, DeskStill
<1>5. Steady(s, t)
  BY <1>1, <1>2, <1>4 DEF Steady
<1> QED BY <1>1, <1>5 DEF t

LEMMA PutSteady ==
  ASSUME NEW s, Sound(s), NEW c \in Clients, NEW v \in WindowType,
         v.mon = s.win[c].mon, v.tags = s.win[c].tags,
         v.isscratchpad = s.win[c].isscratchpad, v.enabled = s.win[c].enabled
  PROVE  Steady(s, Put(s, c, v))
<1> DEFINE w == [s.win EXCEPT ![c] = v]
<1>1. /\ s.win \in [Clients -> WindowType] /\ w \in [Clients -> WindowType]
      /\ w[c] = v /\ \A d \in Clients : d # c => w[d] = s.win[d]
  BY StateFields DEF Sound
<1>2. Put(s, c, v) = [s EXCEPT !.win = w]
  BY DEF Put
<1> HIDE DEF w
<1>3. \A d \in Clients :
        /\ w[d].mon = s.win[d].mon /\ w[d].tags = s.win[d].tags
        /\ w[d].isscratchpad = s.win[d].isscratchpad /\ w[d].enabled = s.win[d].enabled
  BY <1>1
<1> QED BY <1>1, <1>2, <1>3, WinSteady

LEMMA PadArrangeSteady ==
  ASSUME NEW s, Sound(s), NEW m
  PROVE  Steady(s, ScratchpadArrange(s, m)) /\ ScratchpadArrange(s, m).out = s.out
<1> DEFINE w == [c \in Clients |-> IF c \in Scratchpads(s, m)
                                   THEN [s.win[c] EXCEPT !.layer = "LyrScratch"] ELSE s.win[c]]
<1>1. s \in StateType /\ s.win \in [Clients -> WindowType]
  BY StateFields DEF Sound
<1>2. ASSUME NEW d \in Clients
      PROVE  /\ w[d] \in WindowType
             /\ w[d].mon = s.win[d].mon /\ w[d].tags = s.win[d].tags
             /\ w[d].isscratchpad = s.win[d].isscratchpad /\ w[d].enabled = s.win[d].enabled
  <2> DEFINE x == s.win[d]
             y == [x EXCEPT !.layer = "LyrScratch"]
  <2>1. x \in WindowType
    BY <1>1
  <2>2. /\ y \in WindowType /\ y.mon = x.mon /\ y.tags = x.tags
        /\ y.isscratchpad = x.isscratchpad /\ y.enabled = x.enabled
    BY <2>1 DEF WindowType
  <2>3. w[d] = y \/ w[d] = x
    OBVIOUS
  <2> HIDE DEF w, y
  <2> QED BY <2>1, <2>2, <2>3
<1>3. ScratchpadArrange(s, m) = [s EXCEPT !.win = w]
  BY DEF ScratchpadArrange
<1>4. w \in [Clients -> WindowType]
  BY <1>2
<1> HIDE DEF w
<1> QED BY <1>2, <1>3, <1>4, WinSteady

(* An output whose fields other than what is in view change.                *)
LEMMA OutStill ==
  ASSUME NEW s, Sound(s), NEW m \in Monitors, NEW x \in MonitorType,
         x.power = s.out[m].power, x.tagset = s.out[m].tagset, x.seltags = s.out[m].seltags,
         x.scratchpad_visible = s.out[m].scratchpad_visible,
         Tiles(s.out[m]) => Tiles(x)
  PROVE  Steady(s, OutAs(s, m, x))
<1> DEFINE t == OutAs(s, m, x)
<1>1. /\ Sound(t) /\ t.selmon = s.selmon /\ t.clients = s.clients /\ t.fstack = s.fstack
      /\ t.win = s.win /\ t.focus = s.focus /\ t.out[m] = x
      /\ \A n \in Monitors : n # m => t.out[n] = s.out[n]
  BY OutFields
<1> HIDE DEF t
<1>2. \A n \in Monitors :
        /\ t.out[n].power = s.out[n].power /\ CurTags(t, n) = CurTags(s, n)
        /\ t.out[n].scratchpad_visible = s.out[n].scratchpad_visible
        /\ Tiles(s.out[n]) => Tiles(t.out[n])
  <2>1. \A n \in Monitors : n = m \/ t.out[n] = s.out[n]
    BY <1>1
  <2> QED BY <1>1, <2>1 DEF CurTags
<1>3. Still(s, t, {})
  BY <1>1, <1>2 DEF Still
<1>4. Steady(s, t)
  BY <1>1, <1>3, SoundFacts DEF Steady
<1> QED BY <1>4 DEF t

LEMMA RemoveSteady ==
  ASSUME NEW s, Sound(s), NEW c \in Clients
  PROVE  Steady(s, RemoveFromTrees(s, c))
<1> DEFINE m == s.win[c].mon
<1>1. CASE m = NoMon
  BY <1>1, StillSelf DEF RemoveFromTrees
<1>2. CASE m # NoMon
  <2>1. s \in StateType /\ m \in Monitors /\ s.out[m] \in MonitorType
    BY <1>2, StateFields DEF Sound, WindowType
  <2> DEFINE o == s.out[m]
             x == Pruned(o, c)
  <2>2. RemoveFromTrees(s, c) = OutAs(s, m, x)
    BY <1>2, <2>1, RemoveIs
  <2>3. x \in MonitorType /\ SamePad(o, x)
    BY <2>1, PrunedType
  <2>4. x.tagset = o.tagset /\ x.seltags = o.seltags /\ x.lt = o.lt /\ x.sellt = o.sellt
    BY <2>1 DEF Pruned, MonitorType
  <2> HIDE DEF x
  <2>5. Tiles(o) => Tiles(x)
    BY <2>4 DEF Tiles
  <2>6. Steady(s, OutAs(s, m, x))
    BY <2>1, <2>3, <2>4, <2>5, OutStill DEF SamePad
  <2> QED BY <2>2, <2>6
<1> QED BY <1>1, <1>2

(* Focus moves to a window in view, which comes to the top, or leaves.      *)
LEMMA FocusTops ==
  ASSUME NEW s, Sound(s), NEW c \in ToSet(s.clients) \cup {NoClient},
         c = NoClient \/ c = s.focus => c = Focustop(s, s.selmon),
         c # NoClient => InView(s, c)
  PROVE  LET t == FocusClient(s, c) IN
         /\ Sound(t) /\ FocusTop(t) /\ t.focus = c
         /\ t.out = s.out /\ t.win = s.win /\ t.clients = s.clients /\ t.selmon = s.selmon
<1> DEFINE t == FocusClient(s, c)
           m == s.selmon
<1>1. /\ Refocused(s, t, c) /\ Sound(t)
      /\ \A n \in Monitors :
           Focustop(t, n) = IF c # NoClient /\ c # s.focus /\ VisibleOn(s, c, n) THEN c
                            ELSE Focustop(s, n)
  BY FocusClientDoes
<1> HIDE DEF t
<1>2. t.selmon = m /\ t.focus = c
  BY <1>1 DEF Refocused, InView, VisibleOn, Shows
<1>3. m \in Monitors \cup {NoMon}
  BY StateFields DEF Sound
<1>4. Focustop(t, m) = c
  <2>1. CASE m = NoMon
    <3>1. c = NoClient
      BY <2>1 DEF InView, VisibleOn, Shows
    <3>2. \A d \in ToSet(t.clients) : ~ VisibleOn(t, d, m)
      BY <2>1 DEF VisibleOn, Shows
    <3> QED BY <1>1, <3>1, <3>2, FocustopIs
  <2>2. CASE m \in Monitors
    BY <1>1, <2>2 DEF InView
  <2> QED BY <1>3, <2>1, <2>2
<1> QED BY <1>1, <1>2, <1>4 DEF FocusTop, Refocused, t

LEMMA FocusBrings ==
  ASSUME NEW s, Sound(s), Setting(s), CurrentPads(s), TagsLit(s),
         NEW c \in ToSet(s.clients) \cup {NoClient},
         c = NoClient \/ c = s.focus => c = Focustop(s, s.selmon),
         c # NoClient => InView(s, c) /\ s.win[c].enabled
  PROVE  InFront(FocusClient(s, c))
<1> DEFINE t == FocusClient(s, c)
<1>1. /\ Sound(t) /\ FocusTop(t) /\ t.focus = c
      /\ t.out = s.out /\ t.win = s.win /\ t.clients = s.clients /\ t.selmon = s.selmon
  BY FocusTops
<1> HIDE DEF t
<1>2. Setting(t) /\ CurrentPads(t)
  BY <1>1, QuietCurrent DEF Setting, Enabled
<1>3. TagsLit(t)
  BY <1>1 DEF TagsLit, InView, VisibleOn, Shows, CurTags
<1>4. InFront(t)
  BY <1>1, <1>2, <1>3 DEF InFront
<1> QED BY <1>4 DEF t

LEMMA FocusTopBrings ==
  ASSUME NEW s, Sound(s), Setting(s), CurrentPads(s), AllLit(s)
  PROVE  InFront(FocusTopOf(s, s.selmon))
<1> DEFINE c == Focustop(s, s.selmon)
<1>1. c \in ToSet(s.clients) \cup {NoClient} /\ (c # NoClient => InView(s, c))
  BY FocustopIs DEF InView
<1>2. TagsLit(s) /\ (c # NoClient => s.win[c].enabled)
  BY <1>1 DEF AllLit, TagsLit
<1> QED BY <1>1, <1>2, FocusBrings DEF FocusTopOf

LEMMA IntoLit ==
  ASSUME NEW s, PadInv(s), NEW c \in ToSet(s.clients)
  PROVE  LET t == IntoScratchpad(s, c) IN
         /\ Still(s, t, {c}) /\ t.win[c].isscratchpad
         /\ CurrentPads(s) => CurrentPads(t)
         /\ Setting(s) /\ s.win[c].mon = s.selmon /\ s.selmon \in Monitors => AllLit(t)
<1> DEFINE a == RemoveFromTrees(s, c)
           v == Kind(a.win[c], TRUE)
           b == Put(a, c, v)
           t == SetFloating(b, c, TRUE)
<1>1. Sound(s) /\ c \in Clients /\ AllMapped(s)
  BY PadInvFacts
<1>2. Steady(s, a) /\ Quiet(s, a) /\ a.win = s.win
  BY <1>1, RemoveSteady, RemoveQuiet
<1>3. b = [a EXCEPT !.win[c].isscratchpad = TRUE]
  BY DEF Put, Kind
<1>4. IntoScratchpad(s, c) = t
  BY <1>3 DEF IntoScratchpad
<1> HIDE DEF a
<1>5. Still(s, a, {}) /\ Sound(a) /\ a.clients = s.clients
  BY <1>2 DEF Steady, Still
<1>6. /\ v \in WindowType /\ v.status = a.win[c].status /\ v.mon = a.win[c].mon
      /\ v.isscratchpad /\ v.tags = a.win[c].tags
  <2>1. a.win[c] \in WindowType /\ TRUE \in BOOLEAN
    BY <1>1, <1>5, StateFields DEF Sound
  <2>2. v.tags = a.win[c].tags
    BY <2>1 DEF Kind, WindowType
  <2> QED BY <2>1, <2>2, KindType
<1> HIDE DEF v
<1>7. /\ Sound(b) /\ b.out = a.out /\ b.selmon = a.selmon /\ b.clients = a.clients
      /\ b.fstack = a.fstack /\ b.focus = a.focus
      /\ b.win[c] = v /\ \A d \in Clients : d # c => b.win[d] = a.win[d]
  BY <1>1, <1>5, <1>6, PutDoes
<1> HIDE DEF b
<1>8. Still(s, b, {c})
  <2>1. \A d \in Clients :
          /\ b.win[d].mon = a.win[d].mon
          /\ d \notin {c} => /\ b.win[d].tags = a.win[d].tags
                             /\ b.win[d].isscratchpad = a.win[d].isscratchpad
    BY <1>6, <1>7
  <2>2. Still(a, b, {c})
    BY <1>7, <2>1 DEF Still, CurTags
  <2> QED BY <1>5, <2>2, StillTrans, StillWeaken
<1>9. /\ Still(b, t, {})
      /\ Setting(s) /\ s.win[c].mon = s.selmon /\ s.selmon \in Monitors => AllLit(t)
  <2>1. b.clients = s.clients /\ b.selmon = s.selmon /\ b.win[c].mon = s.win[c].mon
    BY <1>2, <1>6, <1>7, <1>8 DEF Still
  <2>2. AllMapped(b)
    <3>1. ASSUME NEW d \in Clients PROVE b.win[d].status = s.win[d].status
      <4>1. CASE d = c
        BY <1>2, <1>6, <1>7, <4>1
      <4>2. CASE d # c
        BY <1>2, <1>7, <4>2
      <4> QED BY <4>1, <4>2
    <3> QED BY <1>1, <2>1, <3>1, SoundFacts DEF AllMapped
  <2>3. TRUE \in BOOLEAN
    OBVIOUS
  <2>4. Still(b, t, {})
    BY <1>1, <1>7, <2>2, <2>3, FloatingStill
  <2>5. ASSUME Setting(s), s.win[c].mon = s.selmon, s.selmon \in Monitors PROVE AllLit(t)
    <3>1. Setting(b)
      BY <1>8, <2>5, StillSetting
    <3> QED BY <1>7, <2>1, <2>2, <2>3, <2>5, <3>1, FloatingLit
  <2> QED BY <2>4, <2>5
<1>10. Quiet(b, t)
  <2>1. TRUE \in BOOLEAN
    OBVIOUS
  <2> QED BY <1>1, <1>7, <2>1, FloatingQuiet
<1> HIDE DEF t
<1>11. Still(s, t, {c})
  BY <1>8, <1>9, StillTrans, StillWeaken
<1>12. t.win[c].isscratchpad
  BY <1>1, <1>6, <1>7, <1>9 DEF Still
<1>13. ASSUME CurrentPads(s) PROVE CurrentPads(t)
  <2>1. \A m \in Monitors : t.out[m].scratchpad_current = s.out[m].scratchpad_current
    BY <1>2, <1>7, <1>10 DEF Quiet, SamePad
  <2>2. \A d \in Clients : s.win[d].isscratchpad => t.win[d].isscratchpad
    BY <1>11, <1>12 DEF Still
  <2> QED BY <1>13, <2>1, <2>2, QuietCurrent
<1> QED BY <1>4, <1>9, <1>11, <1>12, <1>13

(* The window a scratchpad shows is written.                                *)
LEMMA CurrentSteady ==
  ASSUME NEW s, Sound(s), NEW m \in Monitors, NEW c \in Clients \cup {NoClient}
  PROVE  LET t == [s EXCEPT !.out[m].scratchpad_current = c] IN
         /\ Steady(s, t) /\ t.win = s.win
         /\ t.out[m].scratchpad_current = c
         /\ \A n \in Monitors : n # m => t.out[n] = s.out[n]
<1> DEFINE o == s.out[m]
           x == Current(o, c)
           t == OutAs(s, m, x)
<1>1. s \in StateType /\ o \in MonitorType
  BY StateFields DEF Sound
<1>2. [s EXCEPT !.out[m].scratchpad_current = c] = t
  BY <1>1 DEF OutAs, WithOutputs, Current, StateType
<1>3. /\ x \in MonitorType /\ x.power = o.power /\ x.scratchpad_visible = o.scratchpad_visible
      /\ x.tagset = o.tagset /\ x.seltags = o.seltags /\ x.lt = o.lt /\ x.sellt = o.sellt
      /\ x.scratchpad_current = c
  BY <1>1, CurrentType DEF Current, MonitorType
<1> HIDE DEF x
<1>4. Tiles(o) => Tiles(x)
  BY <1>3 DEF Tiles
<1>5. /\ t.win = s.win /\ t.out[m] = x
      /\ \A n \in Monitors : n # m => t.out[n] = s.out[n]
  BY <1>3, OutFields
<1>6. Steady(s, t)
  BY <1>3, <1>4, OutStill
<1> HIDE DEF t
<1> QED BY <1>2, <1>3, <1>5, <1>6

LEMMA SupersedeStill ==
  ASSUME NEW s, Sound(s), NEW c \in Clients, NEW m \in Monitors
  PROVE  LET t == Supersede(s, m, c) IN
         /\ Still(s, t, {})
         /\ TagsLit(s) /\ CurrentPads(s) /\ s.win[c].isscratchpad /\ s.win[c].enabled =>
              /\ TagsLit(t) /\ CurrentPads(t)
              /\ c \in ToSet(s.clients) /\ InView(s, c) => t.win[c].enabled
<1> DEFINE d == s.out[m].scratchpad_current
           a == IF d = c THEN s ELSE SetEnabledAt(s, d, FALSE)
           b == ScratchpadArrange(a, m)
           t == [b EXCEPT !.out[m].scratchpad_current = c]
<1>1. d \in Clients \cup {NoClient} /\ NoClient \notin Clients
  BY StateFields, ConstantsAssumption DEF Sound, MonitorType
<1> DEFINE H == TagsLit(s) /\ CurrentPads(s) /\ s.win[c].isscratchpad /\ s.win[c].enabled
<1>2. /\ Still(s, a, {}) /\ a.out = s.out
      /\ H => TagsLit(a) /\ a.win[c].enabled
  <2>1. CASE d = c
    BY <2>1, StillSelf DEF Steady
  <2>2. CASE d # c
    <3>1. /\ Still(s, a, {}) /\ a.out = s.out /\ a.win[c] = s.win[c]
          /\ TagsLit(s) /\ (d # NoClient => s.win[d].isscratchpad) => TagsLit(a)
      BY <1>1, <2>2, DisableAtStill
    <3>2. CurrentPads(s) => (d # NoClient => s.win[d].isscratchpad)
      BY <1>1 DEF CurrentPads
    <3> QED BY <3>1, <3>2
  <2> QED BY <2>1, <2>2
<1>3. Supersede(s, m, c) = t
  BY DEF Supersede
<1> HIDE DEF a, d
<1>4. Sound(a)
  BY <1>2 DEF Still
<1>5. Steady(a, b) /\ b.out = a.out
  BY <1>4, PadArrangeSteady
<1> HIDE DEF b
<1>6. Sound(b)
  BY <1>5 DEF Steady, Still
<1>7. /\ Steady(b, t) /\ t.win = b.win
      /\ t.out[m].scratchpad_current = c
      /\ \A n \in Monitors : n # m => t.out[n] = b.out[n]
  BY <1>6, CurrentSteady
<1> HIDE DEF t
<1>8. Steady(a, t)
  BY <1>4, <1>5, <1>7, SteadyTrans
<1>9. Still(s, t, {})
  BY <1>2, <1>8, StillTrans DEF Steady
<1>10. H => TagsLit(t)
  BY <1>2, <1>4, <1>8, SteadyLit
<1>11. ASSUME H PROVE CurrentPads(t)
  <2> SUFFICES ASSUME NEW n \in Monitors, NEW x \in Clients, t.out[n].scratchpad_current = x
               PROVE  t.win[x].isscratchpad
    BY DEF CurrentPads
  <2>1. t.win[x].isscratchpad = s.win[x].isscratchpad
    BY <1>9 DEF Still
  <2>2. CASE n = m
    BY <1>7, <1>11, <2>1, <2>2
  <2>3. CASE n # m
    BY <1>2, <1>5, <1>7, <1>11, <2>1, <2>3 DEF CurrentPads
  <2> QED BY <2>2, <2>3
<1>12. ASSUME H, c \in ToSet(s.clients), InView(s, c) PROVE t.win[c].enabled
  <2>1. InView(a, c)
    BY <1>2, <1>12, StillViews
  <2>2. c \in ToSet(a.clients)
    BY <1>2, <1>12 DEF Still
  <2> QED BY <1>2, <1>8, <1>12, <2>1, <2>2 DEF Steady
<1> QED BY <1>3, <1>9, <1>10, <1>11, <1>12

(* A window of the selected output joins its open scratchpad.               *)
LEMMA JoinsFront ==
  ASSUME NEW s, PadInv(s), InFront(s), NEW c \in ToSet(s.clients), NEW m \in Monitors,
         m = s.selmon, s.win[c].mon = m, s.out[m].scratchpad_visible
  PROVE  LET t == Supersede(IntoScratchpad(s, c), m, c) IN
         /\ Sound(t) /\ Setting(t) /\ CurrentPads(t) /\ TagsLit(t)
         /\ c \in ToSet(t.clients) /\ InView(t, c) /\ t.win[c].enabled
         /\ c = t.focus => c = Focustop(t, t.selmon)
<1> DEFINE a == IntoScratchpad(s, c)
           t == Supersede(a, m, c)
<1>1. Sound(s) /\ c \in Clients /\ s.selmon \in Monitors /\ m # NoMon /\ s.fstack \in Seq(Clients)
  BY PadInvFacts, SoundFacts
<1>2. Still(s, a, {c}) /\ AllLit(a) /\ a.win[c].isscratchpad /\ CurrentPads(a)
  BY <1>1, IntoLit DEF InFront
<1> HIDE DEF a
<1>3. /\ Sound(a) /\ a.clients = s.clients /\ a.selmon = m /\ a.win[c].mon = m
      /\ a.out[m].scratchpad_visible
  BY <1>1, <1>2 DEF Still
<1>4. InView(a, c) /\ a.win[c].enabled /\ TagsLit(a)
  <2>1. InView(a, c)
    BY <1>1, <1>2, <1>3 DEF InView, VisibleOn, Shows
  <2> QED BY <1>2, <1>3, <2>1 DEF AllLit, TagsLit
<1>5. Still(a, t, {}) /\ TagsLit(t) /\ CurrentPads(t) /\ t.win[c].enabled
  BY <1>1, <1>2, <1>3, <1>4, SupersedeStill
<1> HIDE DEF t
<1>6. Setting(t) /\ Sound(t)
  <2>1. Setting(a)
    BY <1>2, StillSetting DEF InFront
  <2> QED BY <1>5, <2>1, StillSetting DEF Still
<1>7. Still(s, t, {c})
  BY <1>2, <1>5, StillTrans, StillWeaken
<1>8. InView(t, c) /\ t.clients = s.clients /\ t.focus = s.focus /\ t.selmon = m /\ t.fstack = s.fstack
  <2>1. InView(t, c)
    BY <1>1, <1>3, <1>4, <1>5, StillViews
  <2> QED BY <1>7, <2>1 DEF Still
<1>9. ASSUME c = t.focus PROVE c = Focustop(t, m)
  <2>1. c = Focustop(s, m)
    BY <1>8, <1>9 DEF InFront, FocusTop
  <2>2. VisibleOn(s, c, m)
    BY <1>1, <2>1, FocustopIs, ConstantsAssumption
  <2>3. \A d \in Clients \ {c} : VisibleOn(t, d, m) <=> VisibleOn(s, d, m)
    BY <1>1, <1>7, StillViews
  <2>4. VisibleOn(t, c, m)
    BY <1>8 DEF InView
  <2>5. {d \in Clients : VisibleOn(t, d, m)} = {d \in Clients : VisibleOn(s, d, m)}
    BY <2>2, <2>3, <2>4
  <2>6. Focustop(t, m) = Focustop(s, m)
    BY <1>8, <2>5 DEF Focustop
  <2> QED BY <2>1, <2>6
<1> QED BY <1>5, <1>6, <1>8, <1>9 DEF t, a

LEMMA AutoScratchFront ==
  ASSUME NEW s, PadInv(s), InFront(s), NEW c \in ToSet(s.clients)
  PROVE  InFront(AutoScratch(s, c))
<1> DEFINE m == s.win[c].mon
           b == Supersede(IntoScratchpad(s, c), m, c)
<1>1. CASE AutoScratch(s, c) = s
  BY <1>1
<1>2. CASE AutoScratch(s, c) = FocusClient(b, c) /\ m # NoMon /\ s.out[m].scratchpad_visible
  <2>1. m \in Monitors /\ m = s.selmon /\ c \in Clients /\ NoClient \notin Clients
    <3>1. m \in Monitors /\ Enabled(s, m) /\ c \in Clients /\ NoClient \notin Clients
      BY <1>2, PadInvFacts DEF PadCore, AllOn
    <3> QED BY <3>1 DEF InFront, Setting
  <2>2. /\ Sound(b) /\ Setting(b) /\ CurrentPads(b) /\ TagsLit(b)
        /\ c \in ToSet(b.clients) /\ InView(b, c) /\ b.win[c].enabled
        /\ c = b.focus => c = Focustop(b, b.selmon)
    BY <1>2, <2>1, JoinsFront
  <2> HIDE DEF b, m
  <2>3. InFront(FocusClient(b, c))
    BY <2>1, <2>2, FocusBrings
  <2> QED BY <1>2, <2>3
<1> QED BY <1>1, <1>2 DEF AutoScratch

LEMMA UnsetFullscreenSteady ==
  ASSUME NEW s, PadInv(s), NEW c, NEW p, NEW m
  PROVE  LET t == UnsetFullscreen(s, c, p, m) IN
         Still(s, t, {}) /\ (Setting(s) => Steady(s, t))
<1> DEFINE q == s.clients
           n == Len(q)
<1>1. /\ s \in StateType /\ q \in Seq(Clients) /\ n \in Nat /\ Sound(s) /\ AllMapped(s)
      /\ ToSet(s.clients) \subseteq Clients
  BY PadInvFacts, StateFields
<1>2. \A i \in 1 .. n : q[i] \in Clients
  BY <1>1
<1>3. PICK g : /\ g[0] = s /\ g[n] = UnsetFullscreen(s, c, p, m)
               /\ \A i \in 1 .. n : g[i] = Turn(4, g[i - 1], q[i], <<c, p, m>>)
  BY <1>1, UnsetFullscreenSteps DEF Steps
<1>4. \A i \in 1 .. n : g[i] = UnsetOne(g[i - 1], q[i], c, p, m)
  BY <1>3 DEF Turn
<1> DEFINE R(i) == Still(s, g[i], {}) /\ (Setting(s) => Steady(s, g[i])) /\ AllMapped(g[i])
           T == {i \in 0 .. n : R(i)}
<1>5. R(0)
  BY <1>1, <1>3, StillSelf DEF Steady
<1>6. ASSUME NEW i \in 0 .. n - 1, R(i) PROVE R(i + 1)
  <2> DEFINE a == g[i]
             w == q[i + 1]
             t == g[i + 1]
  <2>1. i + 1 \in 1 .. n /\ w \in Clients
    BY <1>1, <1>2
  <2>2. t = UnsetOne(a, w, c, p, m)
    BY <1>1, <1>4, <2>1
  <2>3. t = a \/ t = SetFullscreen(a, w, FALSE)
    BY <2>2 DEF UnsetOne
  <2>4. /\ Still(s, a, {}) /\ AllMapped(a) /\ Sound(a) /\ a.clients = s.clients
        /\ Setting(s) => Steady(s, a) /\ Setting(a)
    BY <1>6, StillSetting DEF Still
  <2> HIDE DEF a, t, w
  <2>5. /\ Still(a, SetFullscreen(a, w, FALSE), {}) /\ Quiet(a, SetFullscreen(a, w, FALSE))
        /\ Setting(a) => Steady(a, SetFullscreen(a, w, FALSE))
    <3>1. FALSE \in BOOLEAN
      OBVIOUS
    <3> QED BY <2>1, <2>4, <3>1, FullscreenStill, FullscreenSteady, FullscreenQuiet, Zenon
  <2>6. Still(s, t, {}) /\ (Setting(s) => Steady(s, t))
    BY <1>1, <2>3, <2>4, <2>5, StillTrans, SteadyTrans
  <2>7. AllMapped(t)
    BY <1>1, <2>3, <2>4, <2>5 DEF AllMapped, Quiet, Near
  <2> QED BY <2>6, <2>7 DEF t
<1> HIDE DEF R
<1>7. \A i \in 0 .. n : i \in T
  <2>1. 0 \in T
    BY <1>1, <1>5
  <2>2. \A i \in 0 .. n - 1 : i \in T => i + 1 \in T
    BY <1>1, <1>6
  <2> HIDE DEF T
  <2> QED BY <1>1, <2>1, <2>2, InductionUpTo
<1>8. R(n)
  BY <1>1, <1>7
<1> QED BY <1>3, <1>8 DEF R

-----------------------------------------------------------------------------
(* Focus while windows come and go                                         *)

(* Changing one window touches no output but its trees.                     *)
LEMMA ChangedSetting ==
  ASSUME NEW s, Setting(s), CurrentPads(s), NEW c \in Clients, NEW t, Changed(s, t, c)
  PROVE  Setting(t) /\ CurrentPads(t)
<1>1. /\ t.selmon = s.selmon
      /\ \A n \in Monitors : /\ t.out[n].power = s.out[n].power
                             /\ t.out[n].lt = s.out[n].lt /\ t.out[n].sellt = s.out[n].sellt
                             /\ t.out[n].scratchpad_current = s.out[n].scratchpad_current
      /\ \A d \in Clients : t.win[d].isscratchpad = s.win[d].isscratchpad
  BY DEF Changed, SameButTree, SameButShown
<1>2. Setting(t)
  BY <1>1 DEF Setting, Enabled, Tiles
<1> QED BY <1>1, <1>2, QuietCurrent

(* A window without an output is given one.                                 *)
LEMMA SetMonFront ==
  ASSUME NEW s, PadInv(s), InFront(s), NEW c \in ToSet(s.clients), s.win[c].mon = NoMon,
         NEW m \in Monitors \cup {NoMon}, NEW newtags \in SUBSET Tags,
         m # NoMon => Enabled(s, m)
  PROVE  InFront(SetMon(s, c, m, newtags))
<1> DEFINE t == SetMon(s, c, m, newtags)
<1>1. CASE m = NoMon
  BY <1>1 DEF SetMon
<1>2. CASE m # NoMon
  <2>1. Sound(s) /\ c \in Clients /\ s.win[c].status = "mapped" /\ m \in Monitors
    BY <1>2, PadInvFacts DEF AllMapped
  <2>2. /\ Changed(s, t, c) /\ t.focus = Focustop(t, t.selmon)
        /\ \A n \in Monitors : n = m => Scene(t, n) \/ (c \notin ToSet(s.clients) /\ SameView(s, t, n))
    BY <1>2, <2>1, SetMonDoes
  <2> HIDE DEF t
  <2>3. Setting(t) /\ CurrentPads(t)
    BY <2>1, <2>2, ChangedSetting DEF InFront
  <2>4. Sound(t) /\ t.selmon = s.selmon /\ m = s.selmon
    BY <1>2, <2>1, <2>2 DEF Changed, InFront, Setting
  <2>5. AllLit(t)
    BY <2>1, <2>2, <2>3, <2>4, SceneLit
  <2>6. InFront(t)
    BY <2>2, <2>3, <2>4, <2>5, LitFront DEF FocusTop
  <2> QED BY <2>6 DEF t
<1> QED BY <1>1, <1>2

(* The state in which a new window is handed to setmon().                   *)
Readied(s, a, c, m) ==
  /\ PadInv(a) /\ Quiet(s, a) /\ Steady(s, a)
  /\ a.clients = s.clients /\ a.win[c].mon = NoMon /\ (m # NoMon => Enabled(a, m))

LEMMA ApplyRulesIs ==
  ASSUME NEW s, PadInv(s), NEW c \in ToSet(s.clients), s.win[c].mon = NoMon,
         NEW r \in Rules
  PROVE  \E a : \E m \in Monitors \cup {NoMon}, T \in SUBSET Tags :
           ApplyRules(s, c, r) = SetMon(a, c, m, T) /\ Readied(s, a, c, m)
<1> DEFINE w == s.win[c]
           v == [w EXCEPT !.isfloating = r.floating \/ (~ r.match /\ w.isfloating),
                          !.isfullscreen = IF r.match THEN r.fullscreen ELSE w.isfullscreen]
           a == Put(s, c, v)
           m == IF r.match /\ r.mon \in DOMAIN a.mons THEN a.mons[r.mon] ELSE a.selmon
           T == IF r.match THEN r.tags ELSE {}
<1>1. /\ s \in StateType /\ Sound(s) /\ c \in Clients /\ w \in WindowType
      /\ s.mons \in Seq(Monitors) /\ s.selmon \in Monitors \cup {NoMon}
  BY PadInvFacts, StateFields
<1>2. r \in Rule
  BY ConstantsAssumption
<1>3. /\ v \in WindowType /\ v.status = w.status /\ v.mon = w.mon /\ v.tags = w.tags
      /\ v.isscratchpad = w.isscratchpad /\ v.enabled = w.enabled
  <2> DEFINE fl == r.floating \/ (~ r.match /\ w.isfloating)
             fs == IF r.match THEN r.fullscreen ELSE w.isfullscreen
  <2>1. fl \in BOOLEAN /\ fs \in BOOLEAN
    BY <1>1, <1>2 DEF Rule, WindowType
  <2>2. v = [w EXCEPT !.isfloating = fl, !.isfullscreen = fs]
    OBVIOUS
  <2> HIDE DEF fl, fs, v
  <2> QED BY <1>1, <2>1, <2>2 DEF WindowType
<1>4. Ruled(s, c, r) = a
  BY <1>1 DEF Ruled, Put, StateType
<1> HIDE DEF v
<1>5. Quiet(s, a) /\ a.mons = s.mons /\ a.selmon = s.selmon
  BY <1>1, <1>3, PutQuiet, PutDoes
<1>6. ApplyRules(s, c, r) = SetMon(a, c, m, T)
  BY <1>4, <1>5 DEF ApplyRules
<1>7. Steady(s, a)
  BY <1>1, <1>3, PutSteady
<1> HIDE DEF a
<1>8. PadInv(a) /\ a.clients = s.clients /\ a.win[c].mon = NoMon
  BY <1>1, <1>5, QuietInv DEF Quiet, Near
<1>9. m \in Monitors \cup {NoMon} /\ T \in SUBSET Tags
  BY <1>1, <1>2, <1>5 DEF Rule
<1>10. m # NoMon => Enabled(a, m)
  <2>1. r.mon \in DOMAIN a.mons => a.mons[r.mon] \in ToSet(a.mons)
    BY DEF ToSet
  <2>2. ToSet(a.mons) = {n \in Monitors : a.out[n].power # "gone"}
    BY <1>8 DEF PadInv, PadCore, OutputsListed, Lists
  <2>3. (a.selmon # NoMon => Enabled(a, a.selmon)) /\ \A n \in Monitors : a.out[n].power \in {"on", "gone"}
    BY <1>8 DEF PadInv, PadCore, AllOn
  <2> QED BY <1>9, <2>1, <2>2, <2>3 DEF Enabled
<1> HIDE DEF m, T
<1> QED BY <1>5, <1>6, <1>7, <1>8, <1>9, <1>10 DEF Readied

LEMMA PlaceIs ==
  ASSUME NEW s, PadInv(s), NEW c \in ToSet(s.clients), s.win[c].mon = NoMon,
         NEW r \in Rules, NEW p \in ToSet(s.clients) \cup {NoClient}, p # c
  PROVE  \E a : \E m \in Monitors \cup {NoMon}, T \in SUBSET Tags :
           Place(s, c, p, r) = SetMon(a, c, m, T) /\ Readied(s, a, c, m)
<1>1. CASE p = NoClient
  BY <1>1, ApplyRulesIs DEF Place
<1>2. CASE p # NoClient
  <2> DEFINE w == s.win[c]
             v == [w EXCEPT !.isfloating = TRUE]
             a == Put(s, c, v)
             m == s.win[p].mon
             T == s.win[p].tags
             t == Place(s, c, p, r)
  <2>1. /\ Sound(s) /\ c \in Clients /\ w \in WindowType
        /\ p \in ToSet(s.clients) /\ p \in Clients
        /\ m \in Monitors \cup {NoMon} /\ T \in SUBSET Tags
        /\ m # NoMon => Enabled(s, m)
    <3>1. /\ Sound(s) /\ c \in Clients /\ w \in WindowType /\ p \in ToSet(s.clients)
          /\ p \in Clients /\ s.win[p] \in WindowType
      BY <1>2, PadInvFacts
    <3> QED BY <3>1 DEF WindowType, PadInv, PadCore, AllOn
  <2>2. /\ v \in WindowType /\ v.status = w.status /\ v.mon = w.mon /\ v.tags = w.tags
        /\ v.isscratchpad = w.isscratchpad /\ v.enabled = w.enabled
    BY <2>1 DEF WindowType
  <2>3. [s EXCEPT !.win[c].isfloating = TRUE] = a
    BY DEF Put
  <2>4. t = SetMon(a, c, m, T)
    BY <1>2, <2>3 DEF Place
  <2> HIDE DEF v, t
  <2>5. Quiet(s, a) /\ Steady(s, a)
    BY <2>1, <2>2, PutQuiet, PutSteady
  <2> HIDE DEF a
  <2>6. PadInv(a) /\ a.clients = s.clients /\ a.win[c].mon = NoMon
    BY <2>1, <2>5, QuietInv DEF Quiet, Near
  <2> HIDE DEF T, m
  <2>9. m # NoMon => Enabled(a, m)
    BY <2>1, <2>5 DEF Enabled, Quiet, SamePad
  <2> QED BY <2>1, <2>4, <2>5, <2>6, <2>9 DEF Readied, t
<1> QED BY <1>1, <1>2

LEMMA PlaceFront ==
  ASSUME NEW s, PadInv(s), InFront(s), NEW c \in ToSet(s.clients), s.win[c].mon = NoMon,
         NEW r \in Rules, NEW p \in ToSet(s.clients) \cup {NoClient}, p # c
  PROVE  InFront(Place(s, c, p, r))
<1>1. PICK a : \E m \in Monitors \cup {NoMon}, T \in SUBSET Tags :
                 Place(s, c, p, r) = SetMon(a, c, m, T) /\ Readied(s, a, c, m)
  BY PlaceIs
<1>2. PICK m \in Monitors \cup {NoMon}, T \in SUBSET Tags :
        Place(s, c, p, r) = SetMon(a, c, m, T) /\ Readied(s, a, c, m)
  BY <1>1
<1>3. CurrentPads(a)
  BY <1>2, QuietCurrent DEF Readied, Quiet, SamePad, InFront
<1>4. InFront(a)
  BY <1>2, <1>3, SteadyFront, PadInvFacts DEF Readied
<1> QED BY <1>2, <1>4, SetMonFront DEF Readied

(* mapnotify() lists a window that is on no output yet.                     *)
LEMMA ListedFront ==
  ASSUME NEW s, PadInv(s), InFront(s), NEW c \in Clients, s.win[c].status = "unmapped"
  PROVE  InFront(ListedFirst(s, c))
<1> DEFINE a == ListedFirst(s, c)
<1>1. /\ Sound(s) /\ c \notin ToSet(s.clients) /\ s.win[c].mon = NoMon
      /\ s.selmon \in Monitors \cup {NoMon} /\ NoMon \notin Monitors
  BY PadInvFacts DEF WindowsListed
<1>2. /\ Sound(a) /\ ToSet(a.clients) = ToSet(s.clients) \cup {c}
      /\ a.out = s.out /\ a.selmon = s.selmon /\ a.focus = s.focus
      /\ \A d \in Clients : d # c => a.win[d] = s.win[d]
      /\ a.win[c].mon = NoMon /\ a.win[c].isscratchpad = s.win[c].isscratchpad
      /\ \A n \in Monitors : SameView(s, a, n)
  BY <1>1, ListedDoes
<1> HIDE DEF a
<1>3. Setting(a)
  BY <1>2 DEF InFront, Setting, Enabled
<1>4. CurrentPads(a)
  <2>1. \A d \in Clients : a.win[d].isscratchpad = s.win[d].isscratchpad
    BY <1>2
  <2> QED BY <1>2, <2>1, QuietCurrent DEF InFront
<1>5. TagsLit(a)
  <2> SUFFICES ASSUME NEW d \in ToSet(a.clients), InView(a, d), ~ a.win[d].isscratchpad
               PROVE  a.win[d].enabled
    BY DEF TagsLit
  <2>1. d \in Clients
    BY <1>2, SoundFacts
  <2>2. d # c
    BY <1>2 DEF InView, VisibleOn, Shows
  <2>3. d \in ToSet(s.clients) /\ a.win[d] = s.win[d]
    BY <1>2, <2>1, <2>2
  <2>4. InView(s, d)
    BY <1>2, <2>3 DEF InView, VisibleOn, Shows, CurTags
  <2> QED BY <2>3, <2>4 DEF InFront, TagsLit
<1>6. FocusTop(a)
  <2>1. CASE s.selmon = NoMon
    BY <1>1, <1>2, <2>1, FocustopNowhere DEF InFront, FocusTop
  <2>2. CASE s.selmon \in Monitors
    BY <1>2, <2>2 DEF InFront, FocusTop, SameView
  <2> QED BY <1>1, <2>1, <2>2
<1>7. a.focus # NoClient => a.win[a.focus].enabled
  <2> SUFFICES ASSUME s.focus # NoClient PROVE a.win[s.focus].enabled
    BY <1>2
  <2>1. s.focus \in ToSet(s.clients) /\ s.focus \in Clients
    BY <1>1, TopIs DEF InFront
  <2> QED BY <1>1, <1>2, <2>1 DEF InFront
<1>8. InFront(a)
  BY <1>3, <1>4, <1>5, <1>6, <1>7 DEF InFront
<1> QED BY <1>8 DEF a

LEMMA MappedFront ==
  ASSUME NEW s, PadInv(s), InFront(s), NEW c \in Clients, NEW r \in Rules,
         s.win[c].status = "unmapped",
         NEW p \in ToSet(s.clients) \cup {NoClient}, NEW m
  PROVE  InFront(UnsetFullscreen(AutoScratch(Place(ListedFirst(s, c), c, p, r), c), c, p, m))
<1> DEFINE a == ListedFirst(s, c)
           b == Place(a, c, p, r)
           d == AutoScratch(b, c)
           t == UnsetFullscreen(d, c, p, m)
<1>1. /\ PadInv(a) /\ ToSet(a.clients) = ToSet(s.clients) \cup {c} /\ a.win[c].mon = NoMon
      /\ InFront(a)
  BY ListedPad, ListedFront
<1>2. c \in ToSet(a.clients) /\ p \in ToSet(a.clients) \cup {NoClient} /\ p # c
  BY <1>1, PadInvFacts DEF AllMapped
<1> HIDE DEF a
<1>3. PadInv(b) /\ c \in ToSet(b.clients) /\ InFront(b)
  BY <1>1, <1>2, PlacePad, PlaceFront
<1> HIDE DEF b
<1>4. PadInv(d) /\ Sound(d) /\ InFront(d)
  BY <1>3, AutoScratchPad, AutoScratchFront, PadInvFacts
<1> HIDE DEF d
<1>5. Quiet(d, t) /\ Steady(d, t)
  BY <1>4, UnsetFullscreenQuiet, UnsetFullscreenSteady DEF InFront
<1> HIDE DEF t
<1>6. CurrentPads(t)
  BY <1>4, <1>5, QuietCurrent DEF Quiet, SamePad, InFront
<1>7. InFront(t)
  BY <1>4, <1>5, <1>6, SteadyFront
<1> QED BY <1>7 DEF t, d, b, a

(* The first of a set stays first in a part of the set that keeps it.       *)
LEMMA FirstShrunk ==
  ASSUME NEW S, NEW q \in Seq(S), NEW X, NEW Y, NEW none, Y \subseteq X,
         ToSet(q) \cap X # {}, FirstOf(q, X, none) \in Y
  PROVE  FirstOf(q, Y, none) = FirstOf(q, X, none)
<1> DEFINE x == FirstOf(q, X, none)
<1>1. IsFirst(q, X, x)
  BY FirstExists
<1> HIDE DEF x
<1>2. IsFirst(q, Y, x)
  BY <1>1 DEF IsFirst, x
<1> QED BY <1>2, FirstIs DEF x

LEMMA ViewsTop ==
  ASSUME NEW s, Sound(s), FocusTop(s), NEW t, Sound(t), t.selmon = s.selmon, t.focus = s.focus,
         \A n \in Monitors : SameView(s, t, n)
  PROVE  FocusTop(t)
<1>1. s.selmon \in Monitors \cup {NoMon}
  BY StateFields DEF Sound
<1>2. CASE s.selmon = NoMon
  BY <1>2, FocustopNowhere DEF FocusTop
<1>3. CASE s.selmon \in Monitors
  BY <1>3 DEF FocusTop, SameView
<1> QED BY <1>1, <1>2, <1>3

(* A window that is not listed changes.                                     *)
LEMMA PutUnlistedFront ==
  ASSUME NEW s, Sound(s), InFront(s), NEW c \in Clients, c \notin ToSet(s.clients),
         NEW v \in WindowType,
         \A m \in Monitors : s.out[m].scratchpad_current = c => v.isscratchpad
  PROVE  InFront(Put(s, c, v))
<1> DEFINE t == Put(s, c, v)
<1>1. /\ Sound(t) /\ t.out = s.out /\ t.selmon = s.selmon /\ t.clients = s.clients
      /\ t.focus = s.focus /\ t.win[c] = v
      /\ \A d \in Clients : d # c => t.win[d] = s.win[d]
      /\ \A n \in Monitors : SameView(s, t, n)
  BY PutDoes
<1> HIDE DEF t
<1>2. Setting(t)
  BY <1>1 DEF InFront, Setting, Enabled
<1>3. CurrentPads(t)
  BY <1>1 DEF InFront, CurrentPads
<1>4. TagsLit(t)
  <2> SUFFICES ASSUME NEW d \in ToSet(t.clients), InView(t, d), ~ t.win[d].isscratchpad
               PROVE  t.win[d].enabled
    BY DEF TagsLit
  <2>1. d \in ToSet(s.clients) /\ t.win[d] = s.win[d]
    BY <1>1, SoundFacts
  <2>2. InView(s, d)
    BY <1>1, <2>1 DEF InView, VisibleOn, Shows, CurTags
  <2> QED BY <2>1, <2>2 DEF InFront, TagsLit
<1>5. FocusTop(t)
  BY <1>1, ViewsTop DEF InFront
<1>6. t.focus # NoClient => t.win[t.focus].enabled
  BY <1>1, TopIs DEF InFront
<1>7. InFront(t)
  BY <1>2, <1>3, <1>4, <1>5, <1>6 DEF InFront
<1> QED BY <1>7 DEF t

(* unmapnotify() first takes the window off the lists.                      *)
LEMMA UnlistedRest ==
  ASSUME NEW s, Sound(s), NEW c \in Clients
  PROVE  LET a == Unlisted(s, c) IN
         /\ a.fstack = Without(s.fstack, c)
         /\ \A n \in Monitors : a.out[n].lt = s.out[n].lt /\ a.out[n].sellt = s.out[n].sellt
<1> DEFINE m == s.win[c].mon
           a == Unlisted(s, c)
           o == IF m = NoMon THEN s.out ELSE [s.out EXCEPT ![m] = Forgetful(s.out[m], c)]
           p == Without(s.clients, c)
           q == Without(s.fstack, c)
           g == IF s.grab.client = c THEN NoGrab ELSE s.grab
<1>1. s \in StateType /\ s.out \in [Monitors -> MonitorType]
  BY StateFields DEF Sound
<1>2. a = Relisted(s, o, p, q, g)
  BY <1>1, UnlistedIs
<1>3. \A n \in Monitors : /\ Forgetful(s.out[n], c).lt = s.out[n].lt
                          /\ Forgetful(s.out[n], c).sellt = s.out[n].sellt
  BY <1>1 DEF Forgetful, MonitorType
<1>4. \A n \in Monitors : o[n].lt = s.out[n].lt /\ o[n].sellt = s.out[n].sellt
  BY <1>1, <1>3
<1> HIDE DEF a, o, p, q, g
<1>5. a.out = o /\ a.fstack = q
  BY <1>1, <1>2 DEF Relisted, StateType
<1> QED BY <1>4, <1>5 DEF a, q

LEMMA UnlistedTop ==
  ASSUME NEW s, PadInv(s), FocusTop(s), NEW c \in ToSet(s.clients)
  PROVE  LET a == Unlisted(s, c) IN
         /\ \A d \in Clients : InView(a, d) <=> InView(s, d)
         /\ a.focus # c /\ a.focus # NoClient => a.focus = Focustop(a, a.selmon)
         /\ s.win[c].mon = NoMon => FocusTop(a)
<1> DEFINE a == Unlisted(s, c)
<1>1. /\ Sound(s) /\ c \in Clients /\ ToSet(s.clients) \subseteq Clients
      /\ s.grab.client \in ToSet(s.clients) \cup {NoClient}
      /\ NoClient \notin Clients /\ s.fstack \in Seq(Clients) /\ Lists(s.fstack, ToSet(s.clients))
  BY PadInvFacts, SoundFacts DEF Sound
<1>2. /\ Sound(a) /\ a.selmon = s.selmon /\ a.win = s.win /\ a.focus = s.focus
      /\ ToSet(a.clients) = ToSet(s.clients) \ {c}
      /\ \A n \in Monitors : /\ a.out[n].power = s.out[n].power
                             /\ a.out[n].scratchpad_visible = s.out[n].scratchpad_visible
                             /\ CurTags(a, n) = CurTags(s, n)
                             /\ n # s.win[c].mon => SameView(s, a, n)
      /\ \A n \in Monitors : n = s.win[c].mon =>
           a.out[n].scratchpad_current \in {s.out[n].scratchpad_current, NoClient}
  BY <1>1, UnlistedDoes
<1>3. /\ a.fstack = Without(s.fstack, c)
      /\ \A n \in Monitors : a.out[n].lt = s.out[n].lt /\ a.out[n].sellt = s.out[n].sellt
  BY <1>1, UnlistedRest
<1> HIDE DEF a
<1>4. \A d \in Clients : InView(a, d) <=> InView(s, d)
  <2>1. s.selmon \in Monitors \cup {NoMon}
    BY PadInvFacts
  <2>2. CASE s.selmon = NoMon
    BY <1>2, <2>2 DEF InView, VisibleOn, Shows
  <2>3. CASE s.selmon \in Monitors
    BY <1>2, <2>3 DEF InView, VisibleOn, Shows
  <2> QED BY <2>1, <2>2, <2>3
<1>5. ASSUME s.focus # c, s.focus # NoClient
      PROVE  s.focus = Focustop(a, s.selmon)
  <2> DEFINE x == s.focus
             X == {d \in Clients : VisibleOn(s, d, s.selmon)}
             Y == X \ {c}
  <2>1. x = FirstOf(s.fstack, X, NoClient)
    BY DEF FocusTop, Focustop
  <2>2. x \in X /\ x \in ToSet(s.clients)
    BY <1>1, <1>5, TopIs DEF InView
  <2>3. x \in ToSet(s.fstack)
    BY <1>1, <2>2, SoundFacts
  <2>4. {d \in Clients : VisibleOn(a, d, s.selmon)} = X
    BY <1>2, <1>4 DEF InView
  <2> HIDE DEF X
  <2>5. Y \subseteq X /\ ToSet(s.fstack) \cap X # {} /\ FirstOf(s.fstack, X, NoClient) \in Y
    BY <1>5, <2>1, <2>2, <2>3
  <2>6. a.fstack \in Seq(Clients) /\ c \notin ToSet(a.fstack)
    BY <1>2, SoundFacts
  <2>7. ToSet(a.fstack) \cap X = ToSet(a.fstack) \cap Y /\ c \notin Y
    BY <2>6
  <2> HIDE DEF Y, x
  <2>8. FirstOf(s.fstack, Y, NoClient) = x
    <3>1. FirstOf(s.fstack, Y, NoClient) = FirstOf(s.fstack, X, NoClient)
      BY <1>1, <2>5, FirstShrunk
    <3> QED BY <2>1, <3>1
  <2>9. FirstOf(a.fstack, Y, NoClient) = x
    BY <1>1, <1>3, <2>8, <2>7, WithoutPassedOver
  <2>10. FirstOf(a.fstack, X, NoClient) = x
    BY <2>9, <2>6, <2>7, FirstAlike
  <2> QED BY <2>1, <2>4, <2>10 DEF Focustop, x
<1>6. ASSUME s.win[c].mon = NoMon PROVE FocusTop(a)
  <2>1. \A n \in Monitors : SameView(s, a, n)
    BY <1>2, <1>6, ConstantsAssumption
  <2> QED BY <1>1, <1>2, <2>1, ViewsTop
<1> QED BY <1>2, <1>4, <1>5, <1>6 DEF a

LEMMA UnlistedFront ==
  ASSUME NEW s, PadInv(s), InFront(s), NEW c \in ToSet(s.clients)
  PROVE  LET a == Unlisted(s, c) IN
         /\ Setting(a) /\ CurrentPads(a) /\ TagsLit(a)
         /\ a.focus # c /\ a.focus # NoClient =>
              a.focus = Focustop(a, a.selmon) /\ a.win[a.focus].enabled
         /\ s.win[c].mon = NoMon => InFront(a)
<1> DEFINE a == Unlisted(s, c)
<1>1. /\ Sound(s) /\ c \in Clients /\ ToSet(s.clients) \subseteq Clients
      /\ s.grab.client \in ToSet(s.clients) \cup {NoClient}
      /\ NoClient \notin Clients /\ s.fstack \in Seq(Clients) /\ Lists(s.fstack, ToSet(s.clients))
  BY PadInvFacts, SoundFacts DEF Sound
<1>2. /\ Sound(a) /\ a.selmon = s.selmon /\ a.win = s.win /\ a.focus = s.focus
      /\ ToSet(a.clients) = ToSet(s.clients) \ {c}
      /\ \A n \in Monitors : /\ a.out[n].power = s.out[n].power
                             /\ a.out[n].scratchpad_visible = s.out[n].scratchpad_visible
                             /\ CurTags(a, n) = CurTags(s, n)
                             /\ n # s.win[c].mon => SameView(s, a, n)
      /\ \A n \in Monitors : n = s.win[c].mon =>
           a.out[n].scratchpad_current \in {s.out[n].scratchpad_current, NoClient}
  BY <1>1, UnlistedDoes
<1>3. /\ a.fstack = Without(s.fstack, c)
      /\ \A n \in Monitors : a.out[n].lt = s.out[n].lt /\ a.out[n].sellt = s.out[n].sellt
  BY <1>1, UnlistedRest
<1> HIDE DEF a
<1>4. Setting(a)
  BY <1>2, <1>3 DEF InFront, Setting, Enabled, Tiles
<1>5. CurrentPads(a)
  <2>1. \A n \in Monitors : a.out[n].scratchpad_current \in {s.out[n].scratchpad_current, NoClient}
    BY <1>2 DEF SameView
  <2> QED BY <1>1, <1>2, <2>1 DEF InFront, CurrentPads
<1>6. /\ \A d \in Clients : InView(a, d) <=> InView(s, d)
      /\ a.focus # c /\ a.focus # NoClient => a.focus = Focustop(a, a.selmon)
      /\ s.win[c].mon = NoMon => FocusTop(a)
  BY UnlistedTop DEF InFront, a
<1>7. TagsLit(a)
  BY <1>1, <1>2, <1>6 DEF InFront, TagsLit
<1>8. s.focus # NoClient => s.win[s.focus].enabled
  BY DEF InFront
<1>9. s.win[c].mon = NoMon => InFront(a)
  BY <1>2, <1>4, <1>5, <1>6, <1>7, <1>8 DEF InFront
<1> QED BY <1>2, <1>4, <1>5, <1>6, <1>7, <1>8, <1>9 DEF a

(* A window of an open scratchpad makes way for the next one.               *)
LEMMA LeaveFront ==
  ASSUME NEW s, Sound(s), Setting(s), CurrentPads(s),
         NEW c \in Clients, c \notin ToSet(s.clients),
         s.focus # c /\ s.focus # NoClient => s.focus = Focustop(s, s.selmon),
         NEW m \in Monitors, m = s.selmon, s.out[m].scratchpad_visible
  PROVE  InFront(LeaveScratchpad(s, c, m))
<1> DEFINE next == FirstOf(s.fstack, Scratchpads(s, m), NoClient)
           a == FocusNextScratchpad(s, s.selmon, next)
           v == [a.win[c] EXCEPT !.mon = NoMon]
           b == Put(a, c, v)
           t == Arrange(b, m)
<1>1. /\ ToSet(s.fstack) = ToSet(s.clients) /\ s.fstack \in Seq(Clients)
      /\ ToSet(s.clients) \subseteq Clients /\ NoClient \notin Clients /\ m # NoMon
  BY SoundFacts, ConstantsAssumption
<1>2. LeaveScratchpad(s, c, m) = t
  BY DEF LeaveScratchpad, Put
<1>3. \/ next = NoClient
      \/ /\ next \in ToSet(s.clients) /\ next # NoClient /\ next # c
         /\ InView(s, next)
  <2>1. next = NoClient \/ next \in ToSet(s.fstack) \cap Scratchpads(s, m)
    BY <1>1, Found
  <2> QED BY <1>1, <2>1 DEF Scratchpads, InView, VisibleOn, Shows
<1> HIDE DEF next
<1>4. /\ Sound(a) /\ FocusTop(a) /\ a.out = s.out /\ a.win = s.win
      /\ a.clients = s.clients /\ a.selmon = s.selmon
  <2>1. CASE next = NoClient
    <3> DEFINE x == Focustop(s, s.selmon)
    <3>1. x \in ToSet(s.clients) \cup {NoClient} /\ (x # NoClient => InView(s, x))
      BY FocustopIs DEF InView
    <3>2. a = FocusClient(s, x)
      BY <2>1 DEF FocusNextScratchpad, FocusTopOf
    <3> HIDE DEF x, a
    <3> QED BY <3>1, <3>2, FocusTops DEF x
  <2>2. CASE next # NoClient
    <3>1. a = FocusClient(s, next)
      BY <2>2 DEF FocusNextScratchpad
    <3> HIDE DEF a
    <3>2. next = s.focus => next = Focustop(s, s.selmon)
      BY <1>3, <2>2
    <3> QED BY <1>3, <2>2, <3>1, <3>2, FocusTops
  <2> QED BY <2>1, <2>2
<1> HIDE DEF a
<1>5. v \in WindowType /\ v.isscratchpad = s.win[c].isscratchpad
  <2>1. a.win[c] \in WindowType
    BY <1>4, StateFields DEF Sound
  <2> QED BY <1>4, <2>1 DEF WindowType
<1> HIDE DEF v
<1>6. /\ Sound(b) /\ b.out = a.out /\ b.selmon = a.selmon /\ b.clients = a.clients
      /\ b.focus = a.focus /\ b.win[c] = v
      /\ \A d \in Clients : d # c => b.win[d] = a.win[d]
      /\ \A n \in Monitors : SameView(a, b, n)
  BY <1>4, <1>5, PutDoes
<1> HIDE DEF b
<1>7. Setting(b)
  BY <1>4, <1>6 DEF Setting, Enabled
<1>8. CurrentPads(b)
  <2>1. \A d \in Clients : b.win[d].isscratchpad = s.win[d].isscratchpad
    BY <1>4, <1>5, <1>6
  <2> QED BY <1>4, <1>6, <2>1, QuietCurrent
<1>9. FocusTop(b)
  BY <1>4, <1>6, ViewsTop
<1>10. Steady(b, t) /\ AllLit(t) /\ Quiet(b, t)
  BY <1>4, <1>6, <1>7, ArrangeSteady, ArrangeQuiet
<1> HIDE DEF t
<1>11. Sound(t) /\ Setting(t)
  BY <1>7, <1>10, StillSetting DEF Steady, Still
<1>12. FocusTop(t)
  BY <1>6, <1>9, <1>10, StillTop DEF Steady
<1>13. CurrentPads(t)
  BY <1>8, <1>10, QuietCurrent DEF Quiet, SamePad
<1>14. InFront(t)
  BY <1>10, <1>11, <1>12, <1>13, LitFront
<1> QED BY <1>2, <1>14

LEMMA DetachFront ==
  ASSUME NEW s, PadInv(s), InFront(s), NEW c \in ToSet(s.clients), NEW m, m = s.win[c].mon
  PROVE  InFront(Detach(Unlisted(s, c), c, m))
<1> DEFINE a == Unlisted(s, c)
           t == Detach(a, c, m)
<1>1. /\ PadCore(a, {}) /\ a.win = s.win /\ ToSet(a.clients) = ToSet(s.clients) \ {c}
      /\ c \in Clients /\ m \in Monitors \cup {NoMon} /\ Sound(a)
  BY UnlistedPad, PadInvFacts DEF PadCore
<1>2. /\ Setting(a) /\ CurrentPads(a) /\ TagsLit(a)
      /\ a.focus # c /\ a.focus # NoClient => a.focus = Focustop(a, a.selmon)
      /\ m = NoMon => InFront(a)
  BY UnlistedFront
<1>3. m # NoMon => m = a.selmon
  <2> SUFFICES ASSUME m # NoMon PROVE m = a.selmon
    OBVIOUS
  <2>1. Enabled(s, m)
    BY PadInvFacts DEF PadCore, AllOn
  <2>2. m = s.selmon
    BY <1>1, <2>1 DEF InFront, Setting
  <2>3. a.selmon = s.selmon
    BY PadInvFacts, UnlistedDoes
  <2> QED BY <2>2, <2>3
<1> SUFFICES InFront(t)
  OBVIOUS
<1> HIDE DEF a
<1>4. CASE t = SetMon(a, c, NoMon, {}) /\ m = NoMon
  BY <1>1, <1>2, <1>4 DEF SetMon
<1>5. CASE t = SetMon(a, c, NoMon, {}) /\ m # NoMon
  <2>1. {} \in SUBSET Tags /\ NoMon \in Monitors \cup {NoMon} /\ a.win[c].mon # NoMon
        /\ c \notin ToSet(a.clients) /\ a.win[c].mon = m /\ Sound(a) /\ c \in Clients
    BY <1>1, <1>5
  <2>2. /\ Changed(a, t, c) /\ t.focus = Focustop(t, t.selmon)
        /\ \A n \in Monitors : n = m => Scene(t, n)
    <3> DEFINE u == SetMon(a, c, NoMon, {})
    <3>1. /\ Changed(a, u, c) /\ u.focus = Focustop(u, u.selmon)
          /\ \A n \in Monitors : n = a.win[c].mon => Scene(u, n)
      BY <2>1, SetMonDoes
    <3> HIDE DEF u
    <3>2. t = u
      BY <1>5 DEF u
    <3> HIDE DEF t
    <3> QED BY <2>1, <3>1, <3>2
  <2> HIDE DEF t
  <2>3. Setting(t) /\ CurrentPads(t) /\ Sound(t) /\ t.selmon = m
    BY <1>1, <1>2, <1>3, <1>5, <2>2, ChangedSetting DEF Changed
  <2>4. AllLit(t)
    BY <2>2, <2>3, SceneLit
  <2>5. InFront(t)
    BY <2>2, <2>3, <2>4, LitFront DEF FocusTop
  <2> QED BY <2>5
<1>6. CASE t = LeaveScratchpad(a, c, m) /\ m # NoMon /\ a.out[m].scratchpad_visible
  BY <1>1, <1>2, <1>3, <1>6, LeaveFront
<1> QED BY <1>4, <1>5, <1>6 DEF Detach

(* No layout that is configured or asked for floats or stacks windows.      *)
Tiling == ({FirstLayout(t) : t \in Tags} \cup LayoutArgs) \cap {"monocle", "floating"} = {}

LEMMA FrontBecomes ==
  ASSUME NEW t, Sound(t), InFront(t), Become(t)
  PROVE  InFront(State')
BY BecomeState DEF Sound

LEMMA UnmapFront ==
  ASSUME NEW s, PadInv(s), InFront(s), NEW c \in Clients, s.win[c].status = "mapped"
  PROVE  InFront([Detach(ClearRefs(Unlink(s, c), c, s.win[c].mon), c, s.win[c].mon)
                  EXCEPT !.win[c].status = "unmapped", !.win[c].layer = "none",
                         !.win[c].enabled = FALSE])
<1> DEFINE m == s.win[c].mon
           a == Unlisted(s, c)
           b == Detach(a, c, m)
           v == [b.win[c] EXCEPT !.status = "unmapped", !.layer = "none", !.enabled = FALSE]
           t == Put(b, c, v)
<1>1. c \in ToSet(s.clients)
  BY PadInvFacts DEF WindowsListed
<1>2. Detach(ClearRefs(Unlink(s, c), c, s.win[c].mon), c, s.win[c].mon) = b
  BY DEF Unlisted
<1>3. InFront(b)
  BY <1>1, DetachFront
<1>4. PadCore(a, {}) /\ a.win = s.win /\ ToSet(a.clients) = ToSet(s.clients) \ {c}
  BY <1>1, UnlistedPad
<1> HIDE DEF a
<1>5. PadCore(b, {}) /\ b.clients = a.clients
  <2>1. c \notin ToSet(a.clients) /\ m = a.win[c].mon
    BY <1>4
  <2> HIDE DEF m
  <2> QED BY <1>4, <2>1, DetachPad
<1> HIDE DEF b
<1>6. Sound(b) /\ b \in StateType /\ b.win[c] \in WindowType /\ c \notin ToSet(b.clients)
  BY <1>4, <1>5, StateFields DEF PadCore, Sound
<1>7. v \in WindowType /\ v.isscratchpad = b.win[c].isscratchpad
  <2> DEFINE w == b.win[c]
  <2>1. w \in WindowType
    BY <1>6
  <2>2. v = [w EXCEPT !.status = "unmapped", !.layer = "none", !.enabled = FALSE]
    OBVIOUS
  <2>3. w.isscratchpad = b.win[c].isscratchpad
    OBVIOUS
  <2> HIDE DEF w, v
  <2> QED BY <2>1, <2>2, <2>3 DEF WindowType
<1>8. [b EXCEPT !.win[c].status = "unmapped", !.win[c].layer = "none", !.win[c].enabled = FALSE] = t
  BY <1>6 DEF StateType, Put
<1> HIDE DEF v
<1>9. \A n \in Monitors : b.out[n].scratchpad_current = c => v.isscratchpad
  BY <1>3, <1>7 DEF InFront, CurrentPads
<1>10. InFront(t)
  BY <1>3, <1>6, <1>7, <1>9, PutUnlistedFront
<1> HIDE DEF t
<1> QED BY <1>2, <1>8, <1>10

LEMMA FreshFront ==
  ASSUME OneOutput, NEW s, PadInv(s), InFront(s), NEW c \in Clients, s.win[c].status # "mapped",
         NEW status \in {"none", "unmapped"}
  PROVE  InFront([s EXCEPT !.win[c] = FreshWindow(status)])
<1> DEFINE v == FreshWindow(status)
           t == Put(s, c, v)
<1>1. /\ Sound(s) /\ c \notin ToSet(s.clients) /\ RefsHome(s) /\ NoClient \notin Clients
  BY PadInvFacts DEF AllMapped, PadCore
<1>2. v \in WindowType
  BY DEF FreshWindow, WindowType
<1>3. [s EXCEPT !.win[c] = FreshWindow(status)] = t
  BY DEF Put
<1>4. \A n \in Monitors : s.out[n].scratchpad_current # c
  BY <1>1 DEF RefsHome, Refs
<1> HIDE DEF v
<1>5. InFront(t)
  BY <1>1, <1>2, <1>4, PutUnlistedFront
<1> QED BY <1>3, <1>5

LEMMA WindowsFront ==
  ASSUME OneOutput, PadInv(State), InFront(State), WindowStep
  PROVE  InFront(State')
<1> USE StateFieldsAre
<1>1. PadInv(State) /\ InFront(State) /\ OneOutput
  OBVIOUS
<1>2. ASSUME NEW c \in Clients, CreateNotify(c) PROVE InFront(State')
  <2> DEFINE t == [State EXCEPT !.win[c] = FreshWindow("unmapped")]
  <2>1. InFront(t) /\ PadInv(t)
    BY <1>1, <1>2, FreshFront, FreshPad DEF CreateNotify
  <2>2. Become(t)
    BY <1>2 DEF CreateNotify
  <2> HIDE DEF t
  <2> QED BY <2>1, <2>2, FrontBecomes, PadInvFacts
<1>3. ASSUME NEW c \in Clients, DestroyNotify(c) PROVE InFront(State')
  <2> DEFINE t == [State EXCEPT !.win[c] = FreshWindow("none")]
  <2>1. InFront(t) /\ PadInv(t)
    BY <1>1, <1>3, FreshFront, FreshPad DEF DestroyNotify
  <2>2. Become(t)
    BY <1>3 DEF DestroyNotify
  <2> HIDE DEF t
  <2> QED BY <2>1, <2>2, FrontBecomes, PadInvFacts
<1>4. ASSUME NEW c \in Clients, NEW r \in Rules, MapNotify(c, r) PROVE InFront(State')
  <2> DEFINE p == Parent(State, c)
             s == AutoScratch(Place(ListedFirst(State, c), c, p, r), c)
  <2>1. p \in ToSet(State.clients) \cup {NoClient}
    <3>1. ParentOf[c] \in Clients \cup {NoClient}
      BY ConstantsAssumption
    <3> QED BY <1>1, <3>1 DEF Parent, Mapped, PadInv, WindowsListed
  <2>2. PutUp(c, p, r) = s
    BY DEF PutUp, ListedFirst
  <2>3. PICK m : Become(UnsetFullscreen(s, c, p, m))
    BY <1>4, <2>2 DEF MapNotify
  <2> HIDE DEF p
  <2>4. InFront(UnsetFullscreen(s, c, p, m)) /\ PadInv(UnsetFullscreen(s, c, p, m))
    BY <1>1, <1>4, <2>1, MappedFront, AutoScratchListed DEF MapNotify
  <2> HIDE DEF s
  <2> QED BY <2>3, <2>4, FrontBecomes, PadInvFacts
<1>5. ASSUME NEW c \in Clients, UnmapNotify(c) PROVE InFront(State')
  <2> DEFINE t == [Detach(ClearRefs(Unlink(State, c), c, win[c].mon), c, win[c].mon)
                   EXCEPT !.win[c].status = "unmapped", !.win[c].layer = "none",
                          !.win[c].enabled = FALSE]
  <2>1. InFront(t) /\ PadInv(t)
    BY <1>1, <1>5, UnmapFront, UnmapPad DEF UnmapNotify
  <2>2. Become(t)
    BY <1>5 DEF UnmapNotify
  <2> HIDE DEF t
  <2> QED BY <2>1, <2>2, FrontBecomes, PadInvFacts
<1> QED BY <1>2, <1>3, <1>4, <1>5 DEF WindowStep

LEMMA FullscreenFront ==
  ASSUME PadInv(State), InFront(State), NEW c \in Clients, NEW b \in BOOLEAN,
         FullscreenNotify(c, b)
  PROVE  InFront(State')
<1> DEFINE t == SetFullscreen(State, c, b)
<1>1. Sound(State) /\ AllMapped(State)
  BY PadInvFacts
<1>2. Quiet(State, t) /\ Steady(State, t)
  BY <1>1, FullscreenQuiet, FullscreenSteady DEF InFront
<1>3. Become(t)
  BY DEF FullscreenNotify
<1> HIDE DEF t
<1>4. CurrentPads(t)
  BY <1>2, QuietCurrent DEF Quiet, SamePad, InFront
<1>5. InFront(t) /\ Sound(t)
  BY <1>1, <1>2, <1>4, SteadyFront DEF Steady, Still
<1> QED BY <1>3, <1>5, FrontBecomes

LEMMA ViewFront ==
  ASSUME PadInv(State), InFront(State), NEW tags \in TagArgs, View(tags)
  PROVE  InFront(State')
<1> DEFINE s == State
           m == selmon
           j == 3 - out[m].seltags
           T == IF tags = {} THEN out[m].tagset[j] ELSE tags
           f == [s.out[m].tagset EXCEPT ![j] = T]
           x == [s.out[m] EXCEPT !.seltags = j, !.tagset = f]
           a == OutAs(s, m, x)
           t == Refresh(a, m)
<1>1. /\ s.out = out /\ s.selmon = m /\ m \in Monitors /\ Sound(s) /\ s \in StateType
      /\ s.out[m] \in MonitorType
  BY PadInvFacts, StateFieldsAre DEF View
<1>2. j \in 1 .. 2
  BY <1>1 DEF MonitorType
<1>3. T \in SUBSET Tags
  BY <1>1, <1>2, ConstantsAssumption DEF MonitorType
<1>4. Become(Refresh(SetTagset(s, m, j, T), m))
  BY DEF View
<1> HIDE DEF s, j, T
<1>5. SetTagset(s, m, j, T) = a
  <2>1. s \in StateType /\ m \in Monitors /\ j \in 1 .. 2
    BY <1>1, <1>2
  <2> QED BY <2>1, SetTagsetIs, Zenon
<1>6. f \in [1 .. 2 -> SUBSET Tags]
  BY <1>1, <1>2, <1>3 DEF MonitorType
<1> HIDE DEF f
<1>7. /\ x \in MonitorType /\ x.power = s.out[m].power
      /\ x.lt = s.out[m].lt /\ x.sellt = s.out[m].sellt
      /\ x.scratchpad_current = s.out[m].scratchpad_current
  BY <1>1, <1>2, <1>6 DEF MonitorType
<1> HIDE DEF x
<1>8. /\ Sound(a) /\ a.selmon = m /\ a.out[m] = x /\ a.win = s.win
      /\ \A n \in Monitors : n # m => a.out[n] = s.out[n]
  BY <1>1, <1>7, OutFields
<1> HIDE DEF a
<1>9. /\ Viewed(a, t) /\ t.selmon \in {a.selmon, m} /\ Scene(t, m)
      /\ a.selmon = m => FocusTop(t)
  BY <1>1, <1>8, RefreshDoes
<1> HIDE DEF t
<1>10. /\ Sound(t) /\ t.selmon = m /\ FocusTop(t)
       /\ \A n \in Monitors : /\ t.out[n].power = s.out[n].power
                              /\ t.out[n].lt = s.out[n].lt /\ t.out[n].sellt = s.out[n].sellt
                              /\ t.out[n].scratchpad_current = s.out[n].scratchpad_current
       /\ \A d \in Clients : t.win[d].isscratchpad = s.win[d].isscratchpad
  BY <1>7, <1>8, <1>9 DEF Viewed, SameButTree, SamePlace
<1>11. Setting(s) /\ CurrentPads(s)
  BY DEF InFront, s
<1>12. Setting(t) /\ CurrentPads(t)
  <2>1. Setting(t)
    BY <1>1, <1>10, <1>11 DEF Setting, Enabled, Tiles
  <2> QED BY <1>10, <1>11, <2>1, QuietCurrent
<1>13. AllLit(t)
  BY <1>9, <1>10, <1>12, SceneLit
<1>14. InFront(t)
  BY <1>10, <1>12, <1>13, LitFront
<1> QED BY <1>4, <1>5, <1>10, <1>14, FrontBecomes DEF t

LEMMA SetLayoutFront ==
  ASSUME Tiling, PadInv(State), InFront(State), NEW l \in LayoutArgs, SetLayout(l)
  PROVE  InFront(State')
<1> DEFINE s == State
           m == selmon
           a == WithLayout(s, m, l)
           b == Untile(a, m)
           t == Arrange(b, m)
<1>1. /\ m \in Monitors /\ Sound(s) /\ s \in StateType /\ s.out[m] \in MonitorType
      /\ l \in Layouts /\ CurrentTag(s, m) \in Tags
  BY PadInvFacts, StateFieldsAre, ConstantsAssumption, CurrentTagType DEF SetLayout
<1>2. Become(t)
  BY DEF SetLayout
<1>3. PICK j \in 1 .. 2 : a = OutAs(s, m, Laid(s.out[m], CurrentTag(s, m), j, l))
  BY <1>1, WithLayoutIs
<1> DEFINE x == Laid(s.out[m], CurrentTag(s, m), j, l)
           u == CurrentTag(s, m)
<1>4. l \notin {"monocle", "floating"} /\ InFront(s)
  BY DEF Tiling
<1>5. /\ x \in MonitorType /\ x.power = s.out[m].power
      /\ x.scratchpad_visible = s.out[m].scratchpad_visible
      /\ x.tagset = s.out[m].tagset /\ x.seltags = s.out[m].seltags
      /\ x.scratchpad_current = s.out[m].scratchpad_current
      /\ Tiles(s.out[m]) => Tiles(x)
  <2>1. /\ x \in MonitorType /\ x.power = s.out[m].power
        /\ x.scratchpad_visible = s.out[m].scratchpad_visible
        /\ x.tagset = s.out[m].tagset /\ x.seltags = s.out[m].seltags
    BY <1>1, LaidType
  <2>2. x.scratchpad_current = s.out[m].scratchpad_current
    BY <1>1 DEF Laid, MonitorType
  <2>3. \A v \in Tags : x.lt[v][x.sellt[v]] \in {s.out[m].lt[v][s.out[m].sellt[v]], l}
    BY <1>1 DEF Laid, MonitorType
  <2>4. Tiles(s.out[m]) => Tiles(x)
    BY <1>4, <2>3 DEF Tiles
  <2> QED BY <2>1, <2>2, <2>4
<1> HIDE DEF x, a, s
<1>6. Steady(s, a)
  BY <1>1, <1>3, <1>5, OutStill DEF x
<1>7. CurrentPads(a)
  <2>1. a = OutAs(s, m, x)
    BY <1>3 DEF x
  <2>2. /\ a.win = s.win /\ a.out[m] = x
        /\ \A n \in Monitors : n # m => a.out[n] = s.out[n]
    BY <1>1, <1>5, <2>1, OutFields
  <2> QED BY <1>4, <1>5, <2>2, QuietCurrent DEF InFront
<1>8. InFront(a) /\ Sound(a)
  BY <1>1, <1>4, <1>6, <1>7, SteadyFront DEF Steady, Still
<1>9. b = a
  BY <1>1, <1>8, SettingLayout DEF InFront, Setting, Untile
<1>10. Steady(a, t) /\ Quiet(a, t)
  BY <1>1, <1>8, <1>9, ArrangeSteady, ArrangeQuiet DEF InFront
<1> HIDE DEF b, t
<1>11. CurrentPads(t)
  BY <1>8, <1>10, QuietCurrent DEF Quiet, SamePad, InFront
<1>12. InFront(t) /\ Sound(t)
  BY <1>8, <1>10, <1>11, SteadyFront DEF Steady, Still
<1> QED BY <1>2, <1>12, FrontBecomes

(* With one output there is none to send a window to.                       *)
LEMMA TagMonFront ==
  ASSUME OneOutput, PadInv(State), InFront(State), NEW m \in Monitors, TagMon(m)
  PROVE  InFront(State')
<1>1. Sel # NoClient /\ m # selmon
  BY DEF TagMon
<1>2. selmon \in Monitors
  BY <1>1, PadSel
<1> QED BY <1>1, <1>2 DEF OneOutput

(* The only output is plugged in.                                           *)
LEMMA PlugFront ==
  ASSUME OneOutput, Tiling, PadInv(State), InFront(State), PlugStep
  PROVE  InFront(State')
<1> DEFINE s == State
           f == FreshMonitor("on")
<1> USE StateFieldsAre
<1>1. PICK m \in Monitors : CreateMon(m)
  BY DEF PlugStep
<1> DEFINE o == [s.out EXCEPT ![m] = f]
           q == <<m>> \o s.mons
           a == WithOutputs(s, o, q)
           t == UpdateMons(a)
<1>2. /\ Become(UpdateMons([s EXCEPT !.out[m] = f, !.mons = <<m>> \o s.mons]))
      /\ s.out[m].power = "gone"
  BY <1>1 DEF CreateMon
<1>3. /\ Sound(s) /\ s \in StateType /\ OutputsListed(s) /\ AllOn(s) /\ AllMapped(s)
      /\ s.out \in [Monitors -> MonitorType] /\ s.mons \in Seq(Monitors)
      /\ s.selmon \in Monitors \cup {NoMon} /\ NoMon \notin Monitors /\ NoClient \notin Clients
      /\ \A n \in Monitors : n = m
  BY PadInvFacts, StateFields DEF PadCore, OneOutput
<1>4. /\ f \in MonitorType /\ f.power = "on" /\ f.scratchpad_current = NoClient /\ Tiles(f)
  <2>1. Tiles(f)
    <3>1. \A v \in Tags : f.lt[v][f.sellt[v]] = FirstLayout(v)
      BY DEF FreshMonitor
    <3> QED BY <3>1 DEF Tiles, Tiling
  <2> QED BY <2>1, FreshMonitorType DEF FreshMonitor
<1>5. o \in [Monitors -> MonitorType] /\ o[m] = f
  BY <1>3, <1>4
<1>6. q \in Seq(Monitors) /\ ToSet(q) = {m}
  <2>1. Lists(s.mons, {})
    <3>1. {n \in Monitors : s.out[n].power # "gone"} = {}
      BY <1>2, <1>3
    <3> QED BY <1>3, <3>1 DEF OutputsListed
  <2>2. Lists(q, {} \cup {m})
    BY <2>1, PutFirst
  <2> QED BY <1>3, <2>2 DEF Lists
<1>7. [s EXCEPT !.out[m] = f, !.mons = <<m>> \o s.mons] = a
  BY <1>3 DEF StateType, WithOutputs
<1> HIDE DEF q, o, f, s
<1>8. /\ Sound(a) /\ a.mons = q /\ a.out = o /\ a.clients = s.clients /\ a.win = s.win
      /\ a.selmon = s.selmon
  BY <1>3, <1>5, <1>6, OutputsFields
<1> HIDE DEF a
<1>9. /\ Kept(a, t) /\ FocusTop(t) /\ SelmonSettled(t) /\ t.selmon # NoMon
      /\ Scene(t, m)
  <2>1. AllMapped(a)
    BY <1>3, <1>8 DEF AllMapped
  <2>2. /\ ToSet(a.mons) # {} /\ m \in ToSet(a.mons)
        /\ \A n \in ToSet(a.mons) : a.out[n].power = "on"
    BY <1>4, <1>5, <1>6, <1>8
  <2>3. a.selmon = NoMon \/ Enabled(a, a.selmon)
    BY <1>3, <1>4, <1>5, <1>8 DEF Enabled
  <2> QED BY <1>8, <2>1, <2>2, <2>3, LitUpdateMonsDoes
<1> HIDE DEF t
<1>10. /\ Sound(t) /\ t.out[m].power = "on" /\ t.out[m].lt = f.lt /\ t.out[m].sellt = f.sellt
       /\ t.out[m].scratchpad_current = NoClient
  BY <1>4, <1>5, <1>8, <1>9 DEF Kept, SameButTree
<1>11. t.selmon = m
  BY <1>3, <1>9, <1>10, StateFields DEF Sound
<1>12. Setting(t) /\ CurrentPads(t)
  BY <1>3, <1>4, <1>10, <1>11 DEF Setting, Enabled, Tiles, CurrentPads
<1>13. AllLit(t)
  BY <1>9, <1>10, <1>11, <1>12, SceneLit
<1>14. InFront(t)
  BY <1>9, <1>10, <1>12, <1>13, LitFront
<1>15. Become(t)
  BY <1>2, <1>7 DEF t, f, s
<1> QED BY <1>10, <1>14, <1>15, FrontBecomes

LEMMA InitFront ==
  ASSUME Tiling, Init
  PROVE  InFront(State)
<1>1. Sound(State)
  BY InitPad, PadInvFacts
<1>2. /\ State.clients = <<>> /\ State.selmon = NoMon /\ State.focus = NoClient
      /\ State.out = [m \in Monitors |-> FreshMonitor("gone")]
  BY StateFieldsAre DEF Init
<1>3. ToSet(State.clients) = {}
  BY <1>2, EmptyList DEF Lists
<1>4. Setting(State)
  <2> DEFINE f == FreshMonitor("gone")
  <2>1. \A v \in Tags : f.lt[v][f.sellt[v]] = FirstLayout(v)
    BY DEF FreshMonitor
  <2>3. Tiles(f)
    BY <2>1 DEF Tiles, Tiling
  <2>4. FreshMonitor("gone").power # "on"
    BY DEF FreshMonitor
  <2> QED BY <1>2, <2>3, <2>4, ConstantsAssumption DEF Setting, Enabled
<1>5. CurrentPads(State)
  BY <1>2, ConstantsAssumption DEF CurrentPads, FreshMonitor
<1>6. TagsLit(State)
  BY <1>3 DEF TagsLit
<1>7. FocusTop(State)
  BY <1>1, <1>2, FocustopNowhere DEF FocusTop
<1> QED BY <1>2, <1>4, <1>5, <1>6, <1>7 DEF InFront

-----------------------------------------------------------------------------
(* Focus under the user's bindings on the scratchpad                       *)

LEMMA StillCurrent ==
  ASSUME NEW s, CurrentPads(s), NEW t, Still(s, t, {}), t.out = s.out
  PROVE  CurrentPads(t)
BY QuietCurrent DEF Still

(* Only what an output knows of its scratchpad changes.                     *)
LEMMA PadWritten ==
  ASSUME NEW s, Sound(s), NEW m \in Monitors, NEW x \in MonitorType,
         x.power = s.out[m].power, x.tagset = s.out[m].tagset, x.seltags = s.out[m].seltags,
         x.lt = s.out[m].lt, x.sellt = s.out[m].sellt
  PROVE  LET t == OutAs(s, m, x) IN
         /\ Setting(s) => Setting(t)
         /\ TagsLit(s) => TagsLit(t)
         /\ \A d \in Clients, n \in Monitors :
              ~ s.win[d].isscratchpad => (VisibleOn(t, d, n) <=> VisibleOn(s, d, n))
<1> DEFINE t == OutAs(s, m, x)
<1>1. /\ Sound(t) /\ t.selmon = s.selmon /\ t.clients = s.clients /\ t.win = s.win
      /\ \A n \in Monitors : /\ t.out[n].power = s.out[n].power
                             /\ t.out[n].lt = s.out[n].lt /\ t.out[n].sellt = s.out[n].sellt
                             /\ CurTags(t, n) = CurTags(s, n)
  BY OutFields DEF CurTags
<1> HIDE DEF t
<1>2. Setting(s) => Setting(t)
  BY <1>1 DEF Setting, Enabled, Tiles
<1>3. \A d \in Clients, n \in Monitors :
        ~ s.win[d].isscratchpad => (VisibleOn(t, d, n) <=> VisibleOn(s, d, n))
  BY <1>1 DEF VisibleOn, Shows
<1>4. ASSUME TagsLit(s) PROVE TagsLit(t)
  <2> SUFFICES ASSUME NEW d \in ToSet(s.clients), InView(t, d), ~ s.win[d].isscratchpad
               PROVE  s.win[d].enabled
    BY <1>1 DEF TagsLit
  <2>1. d \in Clients /\ s.selmon \in Monitors
    <3>1. d \in Clients /\ s.selmon \in Monitors \cup {NoMon}
      BY SoundFacts, StateFields DEF Sound
    <3> QED BY <1>1, <3>1 DEF InView, VisibleOn, Shows
  <2>2. InView(s, d)
    BY <1>1, <1>3, <2>1 DEF InView
  <2> QED BY <1>4, <2>2 DEF TagsLit
<1> QED BY <1>2, <1>3, <1>4 DEF t

(* togglescratchpad() lights one window of the scratchpad.                  *)
LEMMA ShowOnlyLit ==
  ASSUME NEW s, Sound(s), NEW m \in Monitors,
         NEW top \in Scratchpads(s, m) \cup {NoClient}
  PROVE  LET t == ShowOnly(s, m, top) IN
         /\ Still(s, t, {})
         /\ TagsLit(s) => TagsLit(t)
         /\ CurrentPads(s) => CurrentPads(t)
         /\ top # NoClient => t.win[top].enabled
<1> DEFINE a == [s EXCEPT !.out[m].scratchpad_current = top]
           X == Scratchpads(s, m)
           b == SetEnabled(a, X, FALSE)
           Y == {top} \ {NoClient}
           t == SetEnabled(b, Y, TRUE)
<1>1. /\ ToSet(s.clients) \subseteq Clients /\ X \subseteq Clients
      /\ top \in Clients \cup {NoClient} /\ NoClient \notin Clients
      /\ \A d \in X : s.win[d].isscratchpad
  BY SoundFacts, ConstantsAssumption DEF Scratchpads
<1>2. ShowOnly(s, m, top) = t
  BY DEF ShowOnly
<1>3. /\ Steady(s, a) /\ a.win = s.win /\ a.out[m].scratchpad_current = top
      /\ \A n \in Monitors : n # m => a.out[n] = s.out[n]
  BY <1>1, CurrentSteady
<1>4. top = NoClient \/ top \in X
  OBVIOUS
<1> HIDE DEF a, X
<1>5. Sound(a) /\ (TagsLit(s) => TagsLit(a))
  BY <1>3, SteadyLit DEF Steady, Still
<1>6. ASSUME CurrentPads(s) PROVE CurrentPads(a)
  <2> SUFFICES ASSUME NEW n \in Monitors, NEW d \in Clients, a.out[n].scratchpad_current = d
               PROVE  s.win[d].isscratchpad
    BY <1>3 DEF CurrentPads
  <2>1. CASE n = m
    BY <1>1, <1>3, <1>4, <2>1
  <2>2. CASE n # m
    BY <1>3, <1>6, <2>2 DEF CurrentPads
  <2> QED BY <2>1, <2>2
<1>7. Still(a, b, {}) /\ b.out = a.out /\ (TagsLit(s) => TagsLit(b))
  BY <1>1, <1>3, <1>5, DisableStill
<1> HIDE DEF b
<1>8. Sound(b)
  BY <1>7 DEF Still
<1>9. Steady(b, t) /\ t.out = b.out /\ \A d \in Clients \cap Y : t.win[d].enabled
  BY <1>8, EnableSteady
<1> HIDE DEF t
<1>10. TagsLit(s) => TagsLit(t)
  BY <1>7, <1>8, <1>9, SteadyLit
<1>11. Still(s, t, {})
  BY <1>3, <1>7, <1>9, StillTrans DEF Steady
<1>12. ASSUME CurrentPads(s) PROVE CurrentPads(t)
  <2>1. CurrentPads(b)
    BY <1>6, <1>7, <1>12, StillCurrent
  <2> QED BY <1>9, <2>1, StillCurrent DEF Steady
<1>13. top # NoClient => t.win[top].enabled
  BY <1>1, <1>9
<1> QED BY <1>2, <1>10, <1>11, <1>12, <1>13

LEMMA ShowScratchpadFront ==
  ASSUME PadInv(State), InFront(State), ShowScratchpad
  PROVE  InFront(State')
<1> DEFINE s == State
           m == selmon
           p == Focustop(s, m)
           x == Opened(s.out[m], TRUE, p)
           a == OutAs(s, m, x)
           b == ScratchpadArrange(a, m)
           top == FirstOf(s.fstack, Scratchpads(s, m), NoClient)
           d == ShowOnly(b, m, top)
           t == IF top = NoClient THEN d ELSE FocusClient(d, top)
<1>1. /\ s.selmon = m /\ s.fstack = fstack /\ s.out = out /\ m \in Monitors
      /\ Sound(s) /\ s \in StateType /\ s.out[m] \in MonitorType
      /\ ToSet(s.clients) \subseteq Clients /\ ToSet(s.fstack) = ToSet(s.clients)
      /\ s.fstack \in Seq(Clients) /\ ~ s.out[m].scratchpad_visible
      /\ NoClient \notin Clients /\ InFront(s) /\ m # NoMon
  BY PadInvFacts, StateFieldsAre, StateFields, SoundFacts DEF ShowScratchpad
<1>2. p \in Clients \cup {NoClient}
  BY <1>1, FocustopIs
<1>3. Become(t)
  <2>1. a = [State EXCEPT !.out[selmon].scratchpad_prev_focus = Sel,
                          !.out[selmon].scratchpad_visible = TRUE]
    BY <1>1 DEF OutAs, WithOutputs, Opened, StateType, Sel
  <2> QED BY <1>1, <2>1 DEF ShowScratchpad
<1>4. \/ top \in Scratchpads(s, m) /\ top # NoClient
      \/ top = NoClient /\ Scratchpads(s, m) = {}
  <2>1. \/ top = NoClient /\ ToSet(s.fstack) \cap Scratchpads(s, m) = {}
        \/ top \in ToSet(s.fstack) \cap Scratchpads(s, m)
    BY <1>1, Found
  <2>2. Scratchpads(s, m) \subseteq ToSet(s.fstack)
    BY <1>1 DEF Scratchpads
  <2> HIDE DEF s, top
  <2> QED BY <1>1, <2>1, <2>2
<1> HIDE DEF s, p, top
<1>5. /\ x \in MonitorType /\ x.power = s.out[m].power /\ x.scratchpad_visible
      /\ x.tagset = s.out[m].tagset /\ x.seltags = s.out[m].seltags
      /\ x.lt = s.out[m].lt /\ x.sellt = s.out[m].sellt
      /\ x.scratchpad_current = s.out[m].scratchpad_current
  <2>1. TRUE \in BOOLEAN
    OBVIOUS
  <2>2. x \in MonitorType /\ x.power = s.out[m].power /\ (x.scratchpad_visible <=> TRUE)
    BY <1>1, <1>2, <2>1, OpenedType
  <2>3. /\ x.tagset = s.out[m].tagset /\ x.seltags = s.out[m].seltags
        /\ x.lt = s.out[m].lt /\ x.sellt = s.out[m].sellt
        /\ x.scratchpad_current = s.out[m].scratchpad_current
    BY <1>1 DEF Opened, MonitorType
  <2> QED BY <2>2, <2>3
<1> HIDE DEF x
<1>6. /\ Sound(a) /\ a.out[m] = x /\ a.win = s.win /\ a.selmon = m /\ a.clients = s.clients
      /\ a.fstack = s.fstack /\ a.focus = s.focus
      /\ \A n \in Monitors : n # m => a.out[n] = s.out[n]
  BY <1>1, <1>5, OutFields
<1>7. /\ Setting(a) /\ TagsLit(a)
      /\ \A c \in Clients, n \in Monitors :
           ~ s.win[c].isscratchpad => (VisibleOn(a, c, n) <=> VisibleOn(s, c, n))
  BY <1>1, <1>5, PadWritten DEF InFront
<1> HIDE DEF a
<1>8. CurrentPads(a)
  <2>1. \A n \in Monitors : a.out[n].scratchpad_current = s.out[n].scratchpad_current
    BY <1>5, <1>6
  <2> QED BY <1>1, <1>6, <2>1, QuietCurrent DEF InFront
<1>9. Steady(a, b) /\ b.out = a.out
  BY <1>6, PadArrangeSteady
<1> HIDE DEF b
<1>10. Sound(b) /\ TagsLit(b) /\ CurrentPads(b) /\ Still(a, b, {})
  BY <1>6, <1>7, <1>8, <1>9, SteadyLit, StillCurrent DEF Steady, Still
<1>11. Scratchpads(b, m) = Scratchpads(s, m)
  BY <1>1, <1>6, <1>10 DEF Scratchpads, Still
<1>12. /\ Still(b, d, {}) /\ TagsLit(d) /\ CurrentPads(d)
       /\ top # NoClient => d.win[top].enabled
  <2>1. top \in Scratchpads(b, m) \cup {NoClient}
    BY <1>4, <1>11
  <2> QED BY <1>1, <1>10, <2>1, ShowOnlyLit
<1> HIDE DEF d
<1>13. Still(a, d, {}) /\ Sound(d) /\ Setting(d)
  BY <1>7, <1>10, <1>12, StillTrans, StillSetting DEF Still
<1>14. InFront(t) /\ Sound(t)
  <2>1. CASE top # NoClient
    <3>1. /\ top \in ToSet(s.clients) /\ top \in Clients
          /\ s.win[top].isscratchpad /\ s.win[top].mon = m
      BY <1>1, <1>4, <2>1 DEF Scratchpads
    <3>2. top # s.focus
      <4>1. s.focus = top => InView(s, top)
        BY <1>1, <2>1, TopIs DEF InFront
      <4> QED BY <1>1, <3>1, <4>1 DEF InView, VisibleOn, Shows
    <3>3. InView(a, top)
      BY <1>1, <1>5, <1>6, <3>1 DEF InView, VisibleOn, Shows
    <3>4. InView(d, top)
      BY <1>6, <1>13, <3>1, <3>3, StillViews
    <3>5. top \in ToSet(d.clients) \cup {NoClient} /\ d.focus = s.focus /\ d.selmon = m
      BY <1>6, <1>13, <3>1 DEF Still
    <3>6. top = NoClient \/ top = d.focus => top = Focustop(d, d.selmon)
      BY <2>1, <3>2, <3>5
    <3>7. InFront(FocusClient(d, top))
      BY <1>12, <1>13, <2>1, <3>4, <3>5, <3>6, FocusBrings
    <3>8. Sound(FocusClient(d, top))
      BY <1>13, <3>5, FocusClientDoes
    <3> QED BY <2>1, <3>7, <3>8
  <2>2. CASE top = NoClient
    <3> DEFINE X == {c \in Clients : VisibleOn(s, c, m)}
               Y == {c \in Clients : VisibleOn(a, c, m)}
    <3>1. Scratchpads(s, m) = {}
      BY <1>4, <2>2
    <3>2. \A c \in ToSet(s.clients) : VisibleOn(a, c, m) <=> VisibleOn(s, c, m)
      <4> SUFFICES ASSUME NEW c \in ToSet(s.clients)
                   PROVE  VisibleOn(a, c, m) <=> VisibleOn(s, c, m)
        OBVIOUS
      <4>1. CASE s.win[c].isscratchpad
        <5>1. s.win[c].mon # m
          BY <3>1, <4>1 DEF Scratchpads
        <5> QED BY <1>6, <5>1 DEF VisibleOn, Shows
      <4>2. CASE ~ s.win[c].isscratchpad
        BY <1>1, <1>7, <4>2
      <4> QED BY <4>1, <4>2
    <3>3. ToSet(s.fstack) \cap X = ToSet(s.fstack) \cap Y
      BY <1>1, <3>2
    <3>4. Focustop(a, m) = Focustop(s, m)
      <4> HIDE DEF X, Y
      <4>1. FirstOf(s.fstack, X, NoClient) = FirstOf(s.fstack, Y, NoClient)
        BY <1>1, <3>3, FirstAlike
      <4> QED BY <1>6, <4>1 DEF Focustop, X, Y
    <3>5. FocusTop(a)
      BY <1>1, <1>6, <3>4 DEF InFront, FocusTop
    <3>6. FocusTop(d)
      BY <1>6, <1>13, <3>5, StillTop
    <3>7. ASSUME d.focus # NoClient PROVE d.win[d.focus].enabled
      <4>1. /\ d.focus \in ToSet(d.clients) /\ d.focus \in Clients /\ InView(d, d.focus)
            /\ d.win[d.focus].mon = d.selmon
        BY <1>13, <3>6, <3>7, TopIs
      <4>2. /\ d.focus \in ToSet(s.clients) /\ s.win[d.focus].mon = m
            /\ d.win[d.focus].isscratchpad = s.win[d.focus].isscratchpad
        BY <1>6, <1>13, <4>1 DEF Still
      <4>3. ~ d.win[d.focus].isscratchpad
        BY <3>1, <4>2 DEF Scratchpads
      <4> QED BY <1>12, <4>1, <4>3 DEF TagsLit
    <3>8. InFront(d)
      BY <1>12, <1>13, <3>6, <3>7 DEF InFront
    <3> QED BY <1>13, <2>2, <3>8
  <2> QED BY <2>1, <2>2
<1> HIDE DEF t
<1> QED BY <1>3, <1>14, FrontBecomes

LEMMA HideScratchpadFront ==
  ASSUME PadInv(State), InFront(State), HideScratchpad
  PROVE  InFront(State')
<1> DEFINE s == State
           m == selmon
           X == Scratchpads(s, m)
           prev == s.out[m].scratchpad_prev_focus
           x == Closed(s.out[m], FALSE)
           a == OutAs(s, m, x)
           b == SetEnabled(a, X, FALSE)
           f == IF prev # NoClient /\ VisibleOn(b, prev, m) THEN prev ELSE Focustop(b, m)
           t == FocusClient(b, f)
<1>1. /\ s.selmon = selmon /\ s.out = out /\ m \in Monitors
      /\ Sound(s) /\ s \in StateType /\ s.out[m] \in MonitorType
      /\ ToSet(s.clients) \subseteq Clients /\ X \subseteq ToSet(s.clients)
      /\ ToSet(s.fstack) = ToSet(s.clients) /\ s.fstack \in Seq(Clients)
      /\ WindowsListed(s) /\ NoMon \notin Monitors /\ NoClient \notin Clients /\ InFront(s)
      /\ \A c \in X : s.win[c].isscratchpad
  BY PadInvFacts, StateFieldsAre, StateFields, SoundFacts DEF HideScratchpad, Scratchpads
<1>2. Become(t)
  <2>1. a = [State EXCEPT !.out[selmon].scratchpad_visible = FALSE,
                          !.out[selmon].scratchpad_current = NoClient]
    BY <1>1 DEF OutAs, WithOutputs, Closed, StateType
  <2> QED BY <1>1, <2>1 DEF HideScratchpad, RestoreFocus
<1>3. prev \in Clients \cup {NoClient}
  BY <1>1 DEF MonitorType
<1> HIDE DEF s, X, prev
<1>4. /\ x \in MonitorType /\ x.power = s.out[m].power /\ ~ x.scratchpad_visible
      /\ x.tagset = s.out[m].tagset /\ x.seltags = s.out[m].seltags
      /\ x.lt = s.out[m].lt /\ x.sellt = s.out[m].sellt
      /\ x.scratchpad_current = NoClient
  <2>1. FALSE \in BOOLEAN
    BY Zenon
  <2>2. x \in MonitorType /\ x.power = s.out[m].power /\ (x.scratchpad_visible <=> FALSE)
    BY <1>1, <2>1, ClosedType
  <2>3. /\ x.tagset = s.out[m].tagset /\ x.seltags = s.out[m].seltags
        /\ x.lt = s.out[m].lt /\ x.sellt = s.out[m].sellt
        /\ x.scratchpad_current = NoClient
    BY <1>1 DEF Closed, MonitorType
  <2> QED BY <2>2, <2>3
<1> HIDE DEF x
<1>5. /\ Sound(a) /\ a.out[m] = x /\ a.win = s.win /\ a.selmon = m /\ a.clients = s.clients
      /\ a.fstack = s.fstack /\ a.focus = s.focus
      /\ \A n \in Monitors : n # m => a.out[n] = s.out[n]
  BY <1>1, <1>4, OutFields
<1>6. /\ Setting(a) /\ TagsLit(a)
      /\ \A c \in Clients, n \in Monitors :
           ~ s.win[c].isscratchpad => (VisibleOn(a, c, n) <=> VisibleOn(s, c, n))
  BY <1>1, <1>4, PadWritten DEF InFront
<1> HIDE DEF a
<1>7. CurrentPads(a)
  BY <1>1, <1>4, <1>5 DEF CurrentPads, InFront
<1>8. Still(a, b, {}) /\ b.out = a.out /\ TagsLit(b)
  BY <1>1, <1>5, <1>6, DisableStill
<1> HIDE DEF b
<1>9. Sound(b) /\ Setting(b) /\ CurrentPads(b)
  BY <1>6, <1>7, <1>8, StillSetting, StillCurrent DEF Still
<1>10. /\ b.selmon = m /\ b.clients = s.clients /\ b.fstack = s.fstack /\ b.focus = s.focus
       /\ \A c \in Clients : b.win[c].mon = s.win[c].mon
                             /\ b.win[c].isscratchpad = s.win[c].isscratchpad
  BY <1>5, <1>8 DEF Still
(* What a hidden scratchpad leaves in view was in view before.              *)
<1>11. ASSUME NEW c \in Clients, VisibleOn(b, c, m)
       PROVE  ~ b.win[c].isscratchpad /\ VisibleOn(s, c, m)
  <2>1. ~ b.win[c].isscratchpad
    BY <1>4, <1>5, <1>8, <1>11 DEF VisibleOn, Shows
  <2>2. VisibleOn(a, c, m)
    BY <1>1, <1>5, <1>8, <1>11, StillViews
  <2> QED BY <1>1, <1>6, <1>10, <2>1, <2>2
<1>12. \/ f \in ToSet(b.clients) /\ f \in Clients /\ f # NoClient /\ VisibleOn(b, f, m)
       \/ f = NoClient /\ f = Focustop(b, m)
  <2>1. CASE prev # NoClient /\ VisibleOn(b, prev, m)
    <3>1. prev \in Clients /\ b.win[prev].mon # NoMon
      BY <1>1, <1>3, <2>1 DEF VisibleOn, Shows
    <3>2. prev \in ToSet(s.clients)
      BY <1>1, <1>10, <3>1 DEF WindowsListed
    <3> QED BY <1>10, <2>1, <3>1, <3>2
  <2>2. CASE ~ (prev # NoClient /\ VisibleOn(b, prev, m))
    BY <1>9, <2>2, FocustopIs
  <2> QED BY <2>1, <2>2
<1> HIDE DEF f
<1>13. ASSUME f \in Clients, f \in ToSet(b.clients), VisibleOn(b, f, m), f = b.focus
       PROVE  f = Focustop(b, m)
  <2> DEFINE V == {c \in Clients : VisibleOn(s, c, m)}
             W == {c \in Clients : VisibleOn(b, c, m)}
  <2>1. W \subseteq V /\ f \in W /\ f \in V
    BY <1>11, <1>13
  <2>2. f = FirstOf(s.fstack, V, NoClient)
    BY <1>1, <1>10, <1>13 DEF InFront, FocusTop, Focustop
  <2>3. f \in ToSet(s.fstack)
    BY <1>1, <1>10, <1>13
  <2>4. Focustop(b, m) = FirstOf(s.fstack, W, NoClient)
    BY <1>10 DEF Focustop
  <2> HIDE DEF V, W
  <2>5. FirstOf(s.fstack, W, NoClient) = FirstOf(s.fstack, V, NoClient)
    <3>1. W \subseteq V /\ ToSet(s.fstack) \cap V # {} /\ FirstOf(s.fstack, V, NoClient) \in W
      BY <2>1, <2>2, <2>3
    <3> QED BY <1>1, <3>1, FirstShrunk
  <2> QED BY <2>2, <2>4, <2>5
<1>14. /\ f \in ToSet(b.clients) \cup {NoClient}
       /\ f = NoClient \/ f = b.focus => f = Focustop(b, b.selmon)
       /\ f # NoClient => InView(b, f) /\ b.win[f].enabled
  <2>1. CASE f = NoClient
    BY <1>1, <1>10, <1>12, <2>1
  <2>2. CASE f # NoClient
    <3>1. f \in ToSet(b.clients) /\ f \in Clients /\ VisibleOn(b, f, m)
      BY <1>12, <2>2
    <3>2. InView(b, f) /\ ~ b.win[f].isscratchpad
      BY <1>10, <1>11, <3>1 DEF InView
    <3>3. b.win[f].enabled
      BY <1>8, <3>1, <3>2 DEF TagsLit
    <3> QED BY <1>10, <1>13, <2>2, <3>1, <3>2, <3>3
  <2> QED BY <2>1, <2>2
<1>15. InFront(t)
  BY <1>8, <1>9, <1>14, FocusBrings
<1>16. Sound(t)
  BY <1>9, <1>14, FocusClientDoes
<1> HIDE DEF t
<1> QED BY <1>2, <1>15, <1>16, FrontBecomes

LEMMA TakeFromScratchpadFront ==
  ASSUME OneOutput, PadInv(State), InFront(State), TakeFromScratchpad
  PROVE  InFront(State')
<1> DEFINE s == State
           m == selmon
           c == Sel
           tags == CurTags(s, m)
           v == Taken(s.win[c], FALSE, FALSE, tags)
           next == IF out[m].scratchpad_visible
                   THEN FirstOf(fstack, Scratchpads(s, m) \ {c}, NoClient)
                   ELSE NoClient
           a == Put(s, c, v)
           b == [a EXCEPT !.out[m].scratchpad_current = next]
           d == IF next = NoClient THEN b ELSE ScratchpadArrange(b, m)
           e == SetFloating(d, c, FALSE)
           t == FocusNextScratchpad(e, m, next)
<1>1. /\ c \in ToSet(s.clients) /\ c \in Clients /\ s.win[c].mon = m
      /\ m \in Monitors /\ m # NoMon
  <2>1. Sel # NoClient
    BY DEF TakeFromScratchpad
  <2> QED BY <2>1, PadSel
<1>2. /\ s.selmon = m /\ s.fstack = fstack /\ s.out = out
      /\ Sound(s) /\ s \in StateType /\ PadInv(s) /\ PadCore(s, {}) /\ s.win[c] \in WindowType
      /\ ToSet(s.fstack) = ToSet(s.clients) /\ s.fstack \in Seq(Clients)
      /\ ToSet(s.clients) \subseteq Clients /\ NoClient \notin Clients
      /\ tags \in SUBSET Tags /\ InFront(s)
  BY <1>1, PadInvFacts, StateFieldsAre, SoundFacts, CurTagsType
<1>3. s.focus = c
  BY <1>2, StateFieldsAre DEF InFront, FocusTop, Sel
<1>4. \/ next = NoClient
      \/ /\ next \in Scratchpads(s, m) /\ next # c /\ next # NoClient
         /\ s.out[m].scratchpad_visible
  <2>1. \/ FirstOf(fstack, Scratchpads(s, m) \ {c}, NoClient) = NoClient
        \/ FirstOf(fstack, Scratchpads(s, m) \ {c}, NoClient) \in Scratchpads(s, m) \ {c}
    BY <1>2, Found
  <2> QED BY <1>2, <2>1
<1>5. Become(t)
  <2>1. b = [State EXCEPT !.win[Sel].isscratchpad = FALSE, !.win[Sel].isfloating = FALSE,
                          !.win[Sel].tags = CurTags(State, selmon),
                          !.out[selmon].scratchpad_current = next]
    BY <1>1, <1>2 DEF Put, Taken, StateType
  <2> HIDE DEF b
  <2> QED BY <2>1 DEF TakeFromScratchpad
<1> HIDE DEF s, c, next
<1>6. /\ next \in ToSet(s.clients) \cup {NoClient} /\ next \in Clients \cup {NoClient}
      /\ next # NoClient => /\ s.win[next].mon = m /\ s.win[next].isscratchpad
                            /\ next # c /\ InView(s, next)
  BY <1>1, <1>2, <1>4 DEF Scratchpads, InView, VisibleOn, Shows
<1>7. /\ v \in WindowType /\ v.status = s.win[c].status /\ v.mon = s.win[c].mon
      /\ v.enabled = s.win[c].enabled /\ ~ v.isscratchpad
  <2>1. FALSE \in BOOLEAN
    BY Zenon
  <2> QED BY <1>2, <2>1, TakenType
<1> HIDE DEF v
<1>8. PadCore(a, {}) /\ Near(s, a)
  BY <1>1, <1>2, <1>7, MarkPad
<1>9. /\ Sound(a) /\ a.out = s.out /\ a.selmon = s.selmon /\ a.clients = s.clients
      /\ a.fstack = s.fstack /\ a.focus = s.focus /\ a.win[c] = v
      /\ \A x \in Clients : x # c => a.win[x] = s.win[x]
  BY <1>1, <1>2, <1>7, PutDoes
<1> HIDE DEF a
<1>10. Still(s, a, {c})
  BY <1>1, <1>7, <1>9 DEF Still, CurTags
<1>11. PadCore(b, {}) /\ Near(a, b)
  <2>1. next \in ToSet(a.clients) \cup {NoClient} /\ (next # NoClient => a.win[next].mon = m)
    BY <1>2, <1>6, <1>9
  <2> QED BY <1>1, <1>8, <2>1, CurrentPad
<1>12. Steady(a, b) /\ b.win = a.win /\ b.out[m].scratchpad_current = next
  BY <1>1, <1>6, <1>9, CurrentSteady
<1> HIDE DEF b
<1>13. PadInv(b)
  <2>1. Near(s, b)
    BY <1>8, <1>11, NearTrans
  <2> QED BY <1>2, <1>11, <2>1, NearInv
<1>14. CurrentPads(b)
  <2>1. \A n \in Monitors : n = m
    BY <1>1 DEF OneOutput
  <2> QED BY <1>2, <1>6, <1>9, <1>12, <2>1 DEF CurrentPads
<1>15. Still(s, b, {c}) /\ Sound(b) /\ Setting(b)
  <2>1. Still(a, b, {}) /\ Sound(b)
    BY <1>12 DEF Steady, Still
  <2>2. Still(s, b, {c})
    BY <1>10, <2>1, StillWeaken, StillTrans
  <2> QED BY <1>2, <2>1, <2>2, StillSetting DEF InFront
<1>16. PadInv(d) /\ Still(b, d, {}) /\ d.out = b.out
  <2>1. Steady(b, ScratchpadArrange(b, m)) /\ ScratchpadArrange(b, m).out = b.out
    BY <1>15, PadArrangeSteady
  <2>2. Steady(b, b)
    BY <1>15, StillSelf
  <2>3. Quiet(b, ScratchpadArrange(b, m)) /\ Quiet(b, b)
    BY <1>15, PadArrangeQuiet, QuietSelf
  <2> QED BY <1>13, <2>1, <2>2, <2>3, QuietInv DEF Steady
<1> HIDE DEF d
<1>17. Sound(d) /\ AllMapped(d) /\ Setting(d) /\ CurrentPads(d)
  BY <1>14, <1>15, <1>16, PadInvFacts, StillSetting, StillCurrent
<1>18. Still(s, d, {c})
  BY <1>15, <1>16, StillWeaken, StillTrans
<1>19. Still(d, e, {}) /\ AllLit(e) /\ Quiet(d, e)
  <2>1. /\ c \in ToSet(d.clients) /\ d.win[c].mon = d.selmon /\ d.selmon \in Monitors
    BY <1>1, <1>2, <1>18 DEF Still
  <2>2. FALSE \in BOOLEAN
    BY Zenon
  <2> QED BY <1>1, <1>17, <2>1, <2>2, FloatingLit, FloatingQuiet
<1> HIDE DEF e
<1>20. CurrentPads(e)
  BY <1>17, <1>19, QuietCurrent DEF Quiet, SamePad
<1>21. Still(s, e, {c}) /\ Sound(e) /\ Setting(e)
  <2>1. Still(s, e, {c})
    BY <1>18, <1>19, StillWeaken, StillTrans
  <2> QED BY <1>2, <2>1, StillSetting DEF InFront, Still
<1>22. e.selmon = m /\ e.focus = c /\ e.clients = s.clients
  BY <1>2, <1>3, <1>21 DEF Still
<1>23. InFront(t) /\ Sound(t)
  <2>1. CASE next = NoClient
    <3>1. t = FocusTopOf(e, e.selmon)
      BY <1>22, <2>1 DEF FocusNextScratchpad
    <3>2. InFront(FocusTopOf(e, e.selmon))
      BY <1>19, <1>20, <1>21, FocusTopBrings
    <3>3. Sound(FocusTopOf(e, m))
      BY <1>1, <1>21, FocusTopOfDoes
    <3> HIDE DEF t
    <3> QED BY <1>22, <3>1, <3>2, <3>3
  <2>2. CASE next # NoClient
    <3>1. t = FocusClient(e, next)
      BY <2>2 DEF FocusNextScratchpad
    <3>2. next \in ToSet(e.clients) /\ next \in Clients /\ next # e.focus
      BY <1>6, <1>22, <2>2
    <3>3. InView(e, next)
      <4>1. InView(s, next) /\ next \in Clients \ {c}
        BY <1>6, <2>2
      <4> QED BY <1>2, <1>21, <4>1, StillViews
    <3>4. e.win[next].enabled /\ TagsLit(e)
      BY <1>19, <3>2, <3>3 DEF AllLit, TagsLit
    <3>5. InFront(FocusClient(e, next))
      BY <1>20, <1>21, <2>2, <3>2, <3>3, <3>4, FocusBrings
    <3>6. Sound(FocusClient(e, next))
      BY <1>21, <3>2, FocusClientDoes
    <3> HIDE DEF t
    <3> QED BY <3>1, <3>5, <3>6
  <2> QED BY <2>1, <2>2
<1> HIDE DEF t
<1> QED BY <1>5, <1>23, FrontBecomes

LEMMA SendToScratchpadFront ==
  ASSUME PadInv(State), InFront(State), SendToScratchpad
  PROVE  InFront(State')
<1> DEFINE s == State
           m == selmon
           c == Sel
           a == IntoScratchpad(s, c)
<1>1. /\ c \in ToSet(s.clients) /\ c \in Clients /\ s.win[c].mon = m
      /\ m \in Monitors /\ m # NoMon
  <2>1. Sel # NoClient
    BY DEF SendToScratchpad
  <2> QED BY <2>1, PadSel
<1>2. /\ s.selmon = m /\ s.out = out /\ Sound(s) /\ PadInv(s) /\ InFront(s)
      /\ NoClient \notin Clients
  BY PadInvFacts, StateFieldsAre
<1>3. CASE out[m].scratchpad_visible
  <2> DEFINE b == Supersede(a, m, c)
             C == {c}
             d == SetEnabled(b, C, TRUE)
             t == FocusClient(d, c)
  <2>1. Become(t)
    BY <1>3 DEF SendToScratchpad
  <2> HIDE DEF s, c
  <2>2. /\ Sound(b) /\ Setting(b) /\ CurrentPads(b) /\ TagsLit(b)
        /\ c \in ToSet(b.clients) /\ InView(b, c) /\ b.win[c].enabled
        /\ c = b.focus => c = Focustop(b, b.selmon)
    BY <1>1, <1>2, <1>3, JoinsFront
  <2> HIDE DEF a, b
  <2>3. Steady(b, d) /\ d.out = b.out /\ \A x \in Clients \cap C : d.win[x].enabled
    BY <2>2, EnableSteady
  <2> HIDE DEF d
  <2>4. d.win[c].enabled
    BY <1>1, <2>3
  <2>5. Still(b, d, {}) /\ Sound(d) /\ TagsLit(d)
    BY <2>2, <2>3, SteadyLit DEF Steady, Still
  <2>6. CurrentPads(d) /\ Setting(d)
    BY <2>2, <2>3, <2>5, StillCurrent, StillSetting
  <2>7. InView(d, c)
    BY <1>1, <2>2, <2>5, StillViews
  <2>8. c \in ToSet(d.clients) /\ d.focus = b.focus /\ d.selmon = b.selmon
    BY <2>2, <2>5 DEF Still
  <2>9. c = d.focus => c = Focustop(d, d.selmon)
    BY <2>2, <2>5, <2>8, StillTop
  <2>10. c # NoClient
    BY <1>1, <1>2
  <2>11. InFront(t)
    BY <2>4, <2>5, <2>6, <2>7, <2>8, <2>9, <2>10, FocusBrings
  <2>12. Sound(t)
    BY <2>5, <2>8, FocusClientDoes
  <2> HIDE DEF t
  <2> QED BY <2>1, <2>11, <2>12, FrontBecomes
<1>4. CASE ~ out[m].scratchpad_visible
  <2> DEFINE C == {c}
             b == SetEnabled(a, C, FALSE)
             d == Arrange(b, m)
             t == FocusTopOf(d, m)
  <2>1. Become(t)
    BY <1>4 DEF SendToScratchpad
  <2> HIDE DEF s, c
  <2>2. Still(s, a, {c}) /\ CurrentPads(a)
    BY <1>1, <1>2, IntoLit DEF InFront
  <2> HIDE DEF a
  <2>3. Sound(a) /\ Setting(a)
    BY <1>2, <2>2, StillSetting DEF InFront, Still
  <2>4. Still(a, b, {}) /\ b.out = a.out
    BY <2>3, DisableStill
  <2> HIDE DEF b
  <2>5. Sound(b) /\ Setting(b) /\ CurrentPads(b)
    BY <2>2, <2>3, <2>4, StillSetting, StillCurrent DEF Still
  <2>6. b.selmon = m
    BY <1>2, <2>2, <2>4 DEF Still
  <2>7. Steady(b, d) /\ AllLit(d)
    BY <1>1, <2>5, <2>6, ArrangeSteady
  <2>8. Quiet(b, d)
    BY <1>1, <2>5, ArrangeQuiet
  <2> HIDE DEF d
  <2>9. Still(b, d, {}) /\ Sound(d) /\ d.selmon = m
    BY <2>6, <2>7 DEF Steady, Still
  <2>10. Setting(d)
    BY <2>5, <2>9, StillSetting
  <2>11. CurrentPads(d)
    BY <2>5, <2>8, QuietCurrent DEF Quiet, SamePad
  <2>12. InFront(FocusTopOf(d, d.selmon))
    BY <2>7, <2>9, <2>10, <2>11, FocusTopBrings
  <2>13. Sound(t)
    BY <1>1, <2>9, FocusTopOfDoes
  <2> QED BY <2>1, <2>9, <2>12, <2>13, FrontBecomes
<1> QED BY <1>3, <1>4

LEMMA FocusDirScratchpadFront ==
  ASSUME PadInv(State), InFront(State), NEW forward, FocusDirScratchpad(forward)
  PROVE  InFront(State')
<1> DEFINE s == State
           m == selmon
           old == s.out[m].scratchpad_current
           next == Cycle(s.clients, Scratchpads(s, m), Sel, forward)
           a == [s EXCEPT !.out[m].scratchpad_current = next]
           b == SetEnabledAt(a, old, FALSE)
           C == {next}
           d == SetEnabled(b, C, TRUE)
           t == FocusClient(d, next)
<1>1. /\ Sel \in ToSet(s.clients) /\ Sel \in Clients /\ s.win[Sel].mon = m
      /\ m \in Monitors /\ m # NoMon
  <2>1. Sel # NoClient
    BY DEF FocusDirScratchpad
  <2> QED BY <2>1, PadSel
<1>2. /\ s.selmon = m /\ s.out = out /\ s.clients = clients /\ s.win = win
      /\ Sound(s) /\ s.clients \in Seq(Clients)
      /\ ToSet(s.clients) \subseteq Clients /\ NoClient \notin Clients /\ InFront(s)
      /\ old \in Clients \cup {NoClient}
      /\ s.out[m].scratchpad_visible
  BY <1>1, PadInvFacts, StateFieldsAre, StateFields
     DEF FocusDirScratchpad, CyclesScratchpad, MonitorType
<1>3. s.focus = Sel
  BY <1>2, StateFieldsAre DEF InFront, FocusTop, Sel
<1>4. /\ next \in ToSet(s.clients) /\ next \in Clients /\ next # NoClient
      /\ s.win[next].mon = m /\ s.win[next].isscratchpad
  <2>1. Sel \in ToSet(s.clients) \cap Scratchpads(s, m)
    BY <1>1, <1>2 DEF Scratchpads, FocusDirScratchpad, CyclesScratchpad
  <2>2. ToSet(s.clients) \cap Scratchpads(s, m) # {}
    BY <2>1
  <2>3. next \in ToSet(s.clients) \cap Scratchpads(s, m)
    BY <1>2, <2>2, CycleFinds
  <2> HIDE DEF s, next
  <2> QED BY <1>2, <2>3 DEF Scratchpads
<1>5. Become(t) /\ next # Sel
  BY <1>2 DEF FocusDirScratchpad
<1>6. old # NoClient => s.win[old].isscratchpad
  BY <1>1, <1>2 DEF InFront, CurrentPads
<1> HIDE DEF s, next, old
<1>7. InView(s, next)
  BY <1>1, <1>2, <1>4 DEF InView, VisibleOn, Shows
<1>8. /\ Steady(s, a) /\ a.win = s.win /\ a.out[m].scratchpad_current = next
      /\ \A n \in Monitors : n # m => a.out[n] = s.out[n]
  BY <1>1, <1>2, <1>4, CurrentSteady
<1> HIDE DEF a
<1>9. Still(s, a, {}) /\ Sound(a) /\ TagsLit(a)
  BY <1>2, <1>8, SteadyLit DEF InFront, Steady, Still
<1>10. CurrentPads(a)
  <2> SUFFICES ASSUME NEW n \in Monitors, NEW x \in Clients, a.out[n].scratchpad_current = x
               PROVE  s.win[x].isscratchpad
    BY <1>8 DEF CurrentPads
  <2>1. CASE n = m
    BY <1>4, <1>8, <2>1
  <2>2. CASE n # m
    BY <1>2, <1>8, <2>2 DEF CurrentPads, InFront
  <2> QED BY <2>1, <2>2
<1>11. Still(a, b, {}) /\ b.out = a.out /\ TagsLit(b)
  BY <1>2, <1>6, <1>8, <1>9, DisableAtStill
<1> HIDE DEF b
<1>12. Sound(b) /\ CurrentPads(b)
  BY <1>10, <1>11, StillCurrent DEF Still
<1>13. Steady(b, d) /\ d.out = b.out /\ \A x \in Clients \cap C : d.win[x].enabled
  BY <1>12, EnableSteady
<1> HIDE DEF d
<1>14. Still(b, d, {}) /\ Sound(d) /\ TagsLit(d) /\ CurrentPads(d)
  BY <1>11, <1>12, <1>13, SteadyLit, StillCurrent DEF Steady, Still
<1>15. Still(s, d, {})
  BY <1>9, <1>11, <1>14, StillTrans
<1>16. Setting(d) /\ InView(d, next)
  BY <1>2, <1>4, <1>7, <1>15, StillSetting, StillViews DEF InFront
<1>17. next \in ToSet(d.clients) /\ next # d.focus /\ d.win[next].enabled
  BY <1>3, <1>4, <1>5, <1>13, <1>15 DEF Still
<1>18. InFront(t)
  BY <1>4, <1>14, <1>16, <1>17, FocusBrings
<1>19. Sound(t)
  BY <1>14, <1>17, FocusClientDoes
<1> HIDE DEF t
<1> QED BY <1>5, <1>18, <1>19, FrontBecomes

-----------------------------------------------------------------------------
(* Focus in sessions with a scratchpad                                     *)

ScratchpadFront == InFront(State)

LEMMA ScratchpadFrontStep ==
  ASSUME OneOutput, Tiling, ScratchpadInv, ScratchpadFront, [ScratchpadNext]_vars
  PROVE  ScratchpadFront'
<1> SUFFICES InFront(State')
  BY DEF ScratchpadFront
<1>1. PadInv(State) /\ InFront(State)
  BY DEF ScratchpadInv, ScratchpadFront
<1>2. CASE ScratchpadNext
  <2>1. CASE PlugStep
    BY <1>1, <2>1, PlugFront
  <2>2. CASE WindowStep
    BY <1>1, <2>2, WindowsFront
  <2>3. CASE AnyFullscreenNotify
    BY <1>1, <2>3, FullscreenFront DEF AnyFullscreenNotify
  <2>4. CASE ScratchpadStep
    BY <1>1, <2>4, ShowScratchpadFront, HideScratchpadFront, TakeFromScratchpadFront,
       SendToScratchpadFront, FocusDirScratchpadFront DEF ScratchpadStep
  <2>5. ASSUME NEW tags \in TagArgs, View(tags) PROVE InFront(State')
    BY <1>1, <2>5, ViewFront
  <2>6. ASSUME NEW m \in Monitors, TagMon(m) PROVE InFront(State')
    BY <1>1, <2>6, TagMonFront
  <2>7. ASSUME NEW l \in LayoutArgs, SetLayout(l) PROVE InFront(State')
    BY <1>1, <2>7, SetLayoutFront
  <2> QED BY <1>2, <2>1, <2>2, <2>3, <2>4, <2>5, <2>6, <2>7 DEF ScratchpadNext
<1>3. CASE UNCHANGED vars
  <2>1. State' = State
    BY <1>3 DEF State, vars
  <2> QED BY <1>1, <2>1
<1> QED BY <1>2, <1>3

(* The focus stays on the topmost window in view of the selected output,    *)
(* and that window lit, while windows come, go, turn fullscreen and move    *)
(* in and out of the scratchpad and tags and layouts change: for any number *)
(* of windows, with one output on which each tag's first layout and those   *)
(* setlayout() is given tile. The other slot createmon() fills is free: it  *)
(* is not shown before a toggle, which these sessions have none of. With    *)
(* two outputs a scratchpad_current left behind (ScratchpadRefsMapped) can  *)
(* put out a window that is focused next; ScratchpadTopFocus, below, holds  *)
(* with any outputs and layouts.                                            *)
THEOREM ScratchpadFocusFollows ==
  ASSUME \A m, n \in Monitors : m = n,
         ({FirstLayout(t) : t \in Tags} \cup LayoutArgs) \cap {"monocle", "floating"} = {}
  PROVE  ScratchpadSpec => []FocusFollows
<1>1. OneOutput /\ Tiling
  BY DEF OneOutput, Tiling
<1>2. Init => ScratchpadFront
  BY <1>1, InitFront DEF ScratchpadFront
<1>3. ScratchpadInv /\ ScratchpadFront /\ [ScratchpadNext]_vars => ScratchpadFront'
  BY <1>1, ScratchpadFrontStep
<1>4. ScratchpadFront => FocusFollows
  BY StateFieldsAre DEF ScratchpadFront, InFront, FocusTop, FocusFollows, FocusShown, Sel
<1> QED BY <1>2, <1>3, <1>4, ScratchpadInvariant, PTL DEF ScratchpadSpec

-----------------------------------------------------------------------------
(* Which window has the focus, with any outputs and layouts                *)

(* Focus moves to a window in view on its own output.                       *)
LEMMA FocusGoesTop ==
  ASSUME NEW s, Sound(s), NEW c \in ToSet(s.clients), NEW m \in Monitors,
         s.win[c].mon = m, VisibleOn(s, c, m),
         c = s.focus => c = Focustop(s, s.selmon)
  PROVE  LET t == FocusClient(s, c) IN Sound(t) /\ FocusTop(t)
<1> DEFINE t == FocusClient(s, c)
<1>1. /\ Refocused(s, t, c) /\ Sound(t) /\ c \in Clients /\ c # NoClient
      /\ \A n \in Monitors :
           Focustop(t, n) = IF c # NoClient /\ c # s.focus /\ VisibleOn(s, c, n) THEN c
                            ELSE Focustop(s, n)
  BY FocusClientDoes, SoundFacts, ConstantsAssumption
<1> HIDE DEF t
<1>2. CASE c = s.focus
  <2>1. s.selmon = m
    BY <1>1, <1>2, FocustopIs
  <2> QED BY <1>1, <1>2, <2>1 DEF Refocused, FocusTop, t
<1>3. CASE c # s.focus
  BY <1>1, <1>3 DEF Refocused, FocusTop, t
<1> QED BY <1>2, <1>3

LEMMA FocusTopGoes ==
  ASSUME NEW s, Sound(s)
  PROVE  LET t == FocusTopOf(s, s.selmon) IN Sound(t) /\ FocusTop(t)
<1> DEFINE m == s.selmon
           t == FocusTopOf(s, m)
<1>1. m \in Monitors \cup {NoMon}
  BY StateFields DEF Sound
<1>2. /\ Refocused(s, t, Focustop(s, m)) /\ Sound(t) /\ t.selmon \in {s.selmon, m}
      /\ \A n \in Monitors : Focustop(t, n) = Focustop(s, n)
  BY <1>1, FocusTopOfDoes
<1> HIDE DEF t
<1>3. t.focus = Focustop(s, m) /\ t.selmon = m
  BY <1>2 DEF Refocused
<1>4. Focustop(t, m) = Focustop(s, m)
  BY <1>1, <1>2, FocustopNowhere
<1> QED BY <1>2, <1>3, <1>4 DEF FocusTop, t

(* setmon() ends by focusing the topmost window of the selected output.     *)
LEMMA SetMonTop ==
  ASSUME NEW s, Sound(s), AllMapped(s), FocusTop(s), NEW c \in Clients,
         NEW m \in Monitors \cup {NoMon}, NEW T \in SUBSET Tags
  PROVE  LET t == SetMon(s, c, m, T) IN Sound(t) /\ FocusTop(t)
<1>1. CASE s.win[c].mon = m
  BY <1>1 DEF SetMon
<1>2. CASE s.win[c].mon # m
  <2> DEFINE t == SetMon(s, c, m, T)
  <2>1. Changed(s, t, c) /\ t.focus = Focustop(t, t.selmon)
    BY <1>2, SetMonDoes DEF AllMapped
  <2> HIDE DEF t
  <2> QED BY <2>1 DEF Changed, FocusTop, t
<1> QED BY <1>1, <1>2

LEMMA TopBecomes ==
  ASSUME NEW t, Sound(t), FocusTop(t), Become(t)
  PROVE  FocusTop(State')
BY BecomeState DEF Sound

LEMMA PlaceTop ==
  ASSUME NEW s, PadInv(s), FocusTop(s), NEW c \in ToSet(s.clients), s.win[c].mon = NoMon,
         NEW r \in Rules, NEW p \in ToSet(s.clients) \cup {NoClient}, p # c
  PROVE  FocusTop(Place(s, c, p, r))
<1>1. PICK a : \E m \in Monitors \cup {NoMon}, T \in SUBSET Tags :
                 Place(s, c, p, r) = SetMon(a, c, m, T) /\ Readied(s, a, c, m)
  BY PlaceIs
<1>2. PICK m \in Monitors \cup {NoMon}, T \in SUBSET Tags :
        Place(s, c, p, r) = SetMon(a, c, m, T) /\ Readied(s, a, c, m)
  BY <1>1
<1>3. PadInv(a) /\ Still(s, a, {}) /\ Sound(a) /\ AllMapped(a) /\ Sound(s) /\ c \in Clients
  BY <1>2, PadInvFacts DEF Readied, Steady
<1>4. FocusTop(a)
  BY <1>3, StillTop
<1> QED BY <1>2, <1>3, <1>4, SetMonTop

(* A window of the output joins its open scratchpad.                        *)
LEMMA JoinsTop ==
  ASSUME NEW s, PadInv(s), FocusTop(s), NEW c \in ToSet(s.clients), NEW m \in Monitors,
         s.win[c].mon = m, s.out[m].scratchpad_visible
  PROVE  LET t == Supersede(IntoScratchpad(s, c), m, c) IN
         /\ Sound(t) /\ c \in ToSet(t.clients) /\ t.win[c].mon = m /\ VisibleOn(t, c, m)
         /\ c = t.focus => c = Focustop(t, t.selmon)
<1> DEFINE a == IntoScratchpad(s, c)
           t == Supersede(a, m, c)
<1>1. /\ Sound(s) /\ c \in Clients /\ c # NoClient /\ m # NoMon
      /\ s.selmon \in Monitors \cup {NoMon}
  BY PadInvFacts
<1>2. Still(s, a, {c}) /\ a.win[c].isscratchpad
  BY IntoLit
<1> HIDE DEF a
<1>3. Sound(a) /\ a.win[c].mon = m /\ a.out[m].scratchpad_visible
  BY <1>1, <1>2 DEF Still
<1>4. VisibleOn(a, c, m)
  BY <1>1, <1>2, <1>3 DEF VisibleOn, Shows
<1>5. Still(a, t, {})
  BY <1>1, <1>3, SupersedeStill
<1> HIDE DEF t
<1>6. Still(s, t, {c})
  BY <1>2, <1>5, StillTrans, StillWeaken
<1>7. VisibleOn(t, c, m)
  BY <1>1, <1>3, <1>4, <1>5, StillViews
<1>8. /\ Sound(t) /\ t.clients = s.clients /\ t.focus = s.focus /\ t.selmon = s.selmon
      /\ t.fstack = s.fstack /\ t.win[c].mon = m
  BY <1>1, <1>6 DEF Still
<1>9. ASSUME c = t.focus PROVE c = Focustop(t, t.selmon)
  <2>1. c = Focustop(s, s.selmon)
    BY <1>8, <1>9 DEF FocusTop
  <2>2. s.selmon = m /\ VisibleOn(s, c, m)
    BY <1>1, <2>1, FocustopIs
  <2>3. \A d \in Clients \ {c} : VisibleOn(t, d, m) <=> VisibleOn(s, d, m)
    BY <1>1, <1>6, StillViews
  <2>4. {d \in Clients : VisibleOn(t, d, m)} = {d \in Clients : VisibleOn(s, d, m)}
    BY <1>7, <2>2, <2>3
  <2>5. Focustop(t, m) = Focustop(s, m)
    BY <1>8, <2>4 DEF Focustop
  <2> QED BY <1>8, <2>1, <2>2, <2>5
<1> QED BY <1>7, <1>8, <1>9 DEF t, a

LEMMA AutoScratchTop ==
  ASSUME NEW s, PadInv(s), FocusTop(s), NEW c \in ToSet(s.clients)
  PROVE  FocusTop(AutoScratch(s, c))
<1> DEFINE m == s.win[c].mon
           b == Supersede(IntoScratchpad(s, c), m, c)
<1>1. CASE AutoScratch(s, c) = s
  BY <1>1
<1>2. CASE AutoScratch(s, c) = FocusClient(b, c) /\ m # NoMon /\ s.out[m].scratchpad_visible
  <2>1. m \in Monitors
    BY <1>2, PadInvFacts
  <2>2. /\ Sound(b) /\ c \in ToSet(b.clients) /\ b.win[c].mon = m /\ VisibleOn(b, c, m)
        /\ c = b.focus => c = Focustop(b, b.selmon)
    BY <1>2, <2>1, JoinsTop
  <2> HIDE DEF b, m
  <2>3. FocusTop(FocusClient(b, c))
    BY <2>1, <2>2, FocusGoesTop
  <2> QED BY <1>2, <2>3
<1> QED BY <1>1, <1>2 DEF AutoScratch

LEMMA MappedTop ==
  ASSUME NEW s, PadInv(s), FocusTop(s), NEW c \in Clients, NEW r \in Rules,
         s.win[c].status = "unmapped",
         NEW p \in ToSet(s.clients) \cup {NoClient}, NEW m
  PROVE  FocusTop(UnsetFullscreen(AutoScratch(Place(ListedFirst(s, c), c, p, r), c), c, p, m))
<1> DEFINE a == ListedFirst(s, c)
           b == Place(a, c, p, r)
           d == AutoScratch(b, c)
           t == UnsetFullscreen(d, c, p, m)
<1>1. /\ PadInv(a) /\ ToSet(a.clients) = ToSet(s.clients) \cup {c} /\ a.win[c].mon = NoMon
  BY ListedPad
<1>2. FocusTop(a)
  <2>1. Sound(s) /\ c \notin ToSet(s.clients) /\ s.win[c].mon = NoMon
    BY PadInvFacts DEF WindowsListed
  <2>2. /\ Sound(a) /\ a.selmon = s.selmon /\ a.focus = s.focus
        /\ \A n \in Monitors : SameView(s, a, n)
    BY <2>1, ListedDoes
  <2> HIDE DEF a
  <2> QED BY <2>1, <2>2, ViewsTop
<1>3. c \in ToSet(a.clients) /\ p \in ToSet(a.clients) \cup {NoClient} /\ p # c
  BY <1>1, PadInvFacts DEF AllMapped
<1> HIDE DEF a
<1>4. PadInv(b) /\ c \in ToSet(b.clients) /\ FocusTop(b)
  BY <1>1, <1>2, <1>3, PlacePad, PlaceTop
<1> HIDE DEF b
<1>5. PadInv(d) /\ Sound(d) /\ FocusTop(d)
  BY <1>4, AutoScratchPad, AutoScratchTop, PadInvFacts
<1> HIDE DEF d
<1>6. Still(d, t, {})
  BY <1>5, UnsetFullscreenSteady
<1> HIDE DEF t
<1>7. FocusTop(t)
  BY <1>5, <1>6, StillTop
<1> QED BY <1>7 DEF t, d, b, a

(* A window of an open scratchpad makes way for the next one.               *)
LEMMA LeaveTop ==
  ASSUME NEW s, Sound(s), NEW c \in Clients, c \notin ToSet(s.clients),
         s.focus # c /\ s.focus # NoClient => s.focus = Focustop(s, s.selmon),
         NEW m \in Monitors, s.out[m].scratchpad_visible
  PROVE  FocusTop(LeaveScratchpad(s, c, m))
<1> DEFINE next == FirstOf(s.fstack, Scratchpads(s, m), NoClient)
           a == FocusNextScratchpad(s, s.selmon, next)
           v == [a.win[c] EXCEPT !.mon = NoMon]
           b == Put(a, c, v)
           t == Arrange(b, m)
<1>1. /\ s.fstack \in Seq(Clients) /\ m # NoMon
      /\ ToSet(s.clients) \subseteq Clients /\ NoClient \notin Clients
  BY SoundFacts, ConstantsAssumption
<1>2. LeaveScratchpad(s, c, m) = t
  BY DEF LeaveScratchpad, Put
<1>3. \/ next = NoClient
      \/ /\ next \in ToSet(s.clients) /\ next # NoClient /\ next # c
         /\ s.win[next].mon = m /\ VisibleOn(s, next, m)
  <2>1. next = NoClient \/ next \in ToSet(s.fstack) \cap Scratchpads(s, m)
    BY <1>1, Found
  <2> QED BY <1>1, <2>1 DEF Scratchpads, VisibleOn, Shows
<1> HIDE DEF next
<1>4. Sound(a) /\ FocusTop(a)
  <2>1. CASE next = NoClient
    BY <2>1, FocusTopGoes DEF FocusNextScratchpad
  <2>2. CASE next # NoClient
    <3>1. next = s.focus => next = Focustop(s, s.selmon)
      BY <1>3, <2>2
    <3>2. Sound(FocusClient(s, next)) /\ FocusTop(FocusClient(s, next))
      BY <1>3, <2>2, <3>1, FocusGoesTop
    <3> QED BY <2>2, <3>2 DEF FocusNextScratchpad
  <2> QED BY <2>1, <2>2
<1>5. a.clients = s.clients
  BY DEF FocusNextScratchpad, FocusTopOf, FocusClient
<1> HIDE DEF a
<1>6. v \in WindowType
  <2>1. a.win[c] \in WindowType
    BY <1>4, StateFields DEF Sound
  <2> QED BY <2>1 DEF WindowType
<1> HIDE DEF v
<1>7. /\ Sound(b) /\ b.selmon = a.selmon /\ b.focus = a.focus
      /\ \A n \in Monitors : SameView(a, b, n)
  BY <1>4, <1>5, <1>6, PutDoes
<1> HIDE DEF b
<1>8. FocusTop(b) /\ Still(b, t, {})
  BY <1>4, <1>7, ViewsTop, ArrangeStill
<1> HIDE DEF t
<1>9. FocusTop(t)
  BY <1>7, <1>8, StillTop
<1> QED BY <1>2, <1>9

(* What an output shows of the windows decides which is topmost.            *)
LEMMA SceneryTop ==
  ASSUME NEW s, Sound(s), FocusTop(s), NEW t,
         t.fstack = s.fstack, t.focus = s.focus, t.selmon = s.selmon,
         \A n \in Monitors : /\ CurTags(t, n) = CurTags(s, n)
                             /\ t.out[n].scratchpad_visible = s.out[n].scratchpad_visible,
         \A d \in Clients : SamePlace(s.win[d], t.win[d])
  PROVE  FocusTop(t)
<1>1. s.selmon \in Monitors \cup {NoMon}
  BY StateFields DEF Sound
<1>2. \A d \in Clients : VisibleOn(t, d, s.selmon) <=> VisibleOn(s, d, s.selmon)
  <2>1. CASE s.selmon = NoMon
    BY <2>1 DEF VisibleOn, Shows
  <2>2. CASE s.selmon \in Monitors
    BY <2>2 DEF VisibleOn, Shows, SamePlace
  <2> QED BY <1>1, <2>1, <2>2
<1>3. {d \in Clients : VisibleOn(t, d, s.selmon)} = {d \in Clients : VisibleOn(s, d, s.selmon)}
  BY <1>2
<1> QED BY <1>3 DEF FocusTop, Focustop

(* A window that is not listed changes.                                     *)
LEMMA PutUnlistedTop ==
  ASSUME NEW s, Sound(s), FocusTop(s), NEW c \in Clients, c \notin ToSet(s.clients),
         NEW v \in WindowType
  PROVE  FocusTop(Put(s, c, v))
<1> DEFINE t == Put(s, c, v)
<1>1. /\ Sound(t) /\ t.selmon = s.selmon /\ t.focus = s.focus
      /\ \A n \in Monitors : SameView(s, t, n)
  BY PutDoes
<1> HIDE DEF t
<1>2. FocusTop(t)
  BY <1>1, ViewsTop
<1> QED BY <1>2 DEF t

LEMMA DetachTop ==
  ASSUME NEW s, PadInv(s), FocusTop(s), NEW c \in ToSet(s.clients), NEW m, m = s.win[c].mon
  PROVE  FocusTop(Detach(Unlisted(s, c), c, m))
<1> DEFINE a == Unlisted(s, c)
           t == Detach(a, c, m)
<1>1. /\ PadCore(a, {}) /\ a.win = s.win /\ ToSet(a.clients) = ToSet(s.clients) \ {c}
      /\ c \in Clients /\ m \in Monitors \cup {NoMon} /\ Sound(a)
  BY UnlistedPad, PadInvFacts DEF PadCore
<1>2. /\ a.focus # c /\ a.focus # NoClient => a.focus = Focustop(a, a.selmon)
      /\ m = NoMon => FocusTop(a)
  BY UnlistedTop
<1> SUFFICES FocusTop(t)
  OBVIOUS
<1> HIDE DEF a
<1>4. CASE t = SetMon(a, c, NoMon, {}) /\ m = NoMon
  BY <1>1, <1>2, <1>4 DEF SetMon
<1>5. CASE t = SetMon(a, c, NoMon, {}) /\ m # NoMon
  <2>1. {} \in SUBSET Tags /\ NoMon \in Monitors \cup {NoMon} /\ a.win[c].mon # NoMon
        /\ c \notin ToSet(a.clients)
    BY <1>1, <1>5
  <2> DEFINE u == SetMon(a, c, NoMon, {})
  <2>2. u.focus = Focustop(u, u.selmon)
    BY <1>1, <2>1, SetMonDoes
  <2> HIDE DEF u
  <2>3. t = u
    BY <1>5 DEF u
  <2> HIDE DEF t
  <2> QED BY <2>2, <2>3 DEF FocusTop
<1>6. CASE t = LeaveScratchpad(a, c, m) /\ m # NoMon /\ a.out[m].scratchpad_visible
  <2>1. m \in Monitors /\ c \notin ToSet(a.clients)
    BY <1>1, <1>6
  <2>2. FocusTop(LeaveScratchpad(a, c, m))
    BY <1>1, <1>2, <1>6, <2>1, LeaveTop
  <2> HIDE DEF t
  <2> QED BY <1>6, <2>2
<1> QED BY <1>4, <1>5, <1>6 DEF Detach

LEMMA UnmapTop ==
  ASSUME NEW s, PadInv(s), FocusTop(s), NEW c \in Clients, s.win[c].status = "mapped"
  PROVE  FocusTop([Detach(ClearRefs(Unlink(s, c), c, s.win[c].mon), c, s.win[c].mon)
                   EXCEPT !.win[c].status = "unmapped", !.win[c].layer = "none",
                          !.win[c].enabled = FALSE])
<1> DEFINE m == s.win[c].mon
           a == Unlisted(s, c)
           b == Detach(a, c, m)
           v == [b.win[c] EXCEPT !.status = "unmapped", !.layer = "none", !.enabled = FALSE]
           t == Put(b, c, v)
<1>1. c \in ToSet(s.clients)
  BY PadInvFacts DEF WindowsListed
<1>2. Detach(ClearRefs(Unlink(s, c), c, s.win[c].mon), c, s.win[c].mon) = b
  BY DEF Unlisted
<1>3. FocusTop(b)
  BY <1>1, DetachTop
<1>4. PadCore(a, {}) /\ a.win = s.win /\ ToSet(a.clients) = ToSet(s.clients) \ {c}
  BY <1>1, UnlistedPad
<1> HIDE DEF a
<1>5. PadCore(b, {}) /\ b.clients = a.clients
  <2>1. c \notin ToSet(a.clients) /\ m = a.win[c].mon
    BY <1>4
  <2> HIDE DEF m
  <2> QED BY <1>4, <2>1, DetachPad
<1> HIDE DEF b
<1>6. Sound(b) /\ b \in StateType /\ b.win[c] \in WindowType /\ c \notin ToSet(b.clients)
  BY <1>4, <1>5, StateFields DEF PadCore, Sound
<1>7. v \in WindowType
  <2> DEFINE w == b.win[c]
  <2>1. w \in WindowType
    BY <1>6
  <2>2. v = [w EXCEPT !.status = "unmapped", !.layer = "none", !.enabled = FALSE]
    OBVIOUS
  <2> HIDE DEF w, v
  <2> QED BY <2>1, <2>2 DEF WindowType
<1>8. [b EXCEPT !.win[c].status = "unmapped", !.win[c].layer = "none", !.win[c].enabled = FALSE] = t
  BY <1>6 DEF StateType, Put
<1> HIDE DEF v
<1>9. FocusTop(t)
  BY <1>3, <1>6, <1>7, PutUnlistedTop
<1> HIDE DEF t
<1> QED BY <1>2, <1>8, <1>9

LEMMA FreshTop ==
  ASSUME NEW s, PadInv(s), FocusTop(s), NEW c \in Clients, s.win[c].status # "mapped",
         NEW status \in {"none", "unmapped"}
  PROVE  FocusTop([s EXCEPT !.win[c] = FreshWindow(status)])
<1> DEFINE v == FreshWindow(status)
           t == Put(s, c, v)
<1>1. Sound(s) /\ c \notin ToSet(s.clients)
  BY PadInvFacts DEF AllMapped
<1>2. v \in WindowType
  BY DEF FreshWindow, WindowType
<1>3. [s EXCEPT !.win[c] = FreshWindow(status)] = t
  BY DEF Put
<1> HIDE DEF v
<1>4. FocusTop(t)
  BY <1>1, <1>2, PutUnlistedTop
<1> QED BY <1>3, <1>4

LEMMA WindowsTop ==
  ASSUME PadInv(State), FocusTop(State), WindowStep
  PROVE  FocusTop(State')
<1> USE StateFieldsAre
<1>1. PadInv(State) /\ FocusTop(State)
  OBVIOUS
<1>2. ASSUME NEW c \in Clients, CreateNotify(c) PROVE FocusTop(State')
  <2> DEFINE t == [State EXCEPT !.win[c] = FreshWindow("unmapped")]
  <2>1. FocusTop(t) /\ PadInv(t)
    BY <1>1, <1>2, FreshTop, FreshPad DEF CreateNotify
  <2>2. Become(t)
    BY <1>2 DEF CreateNotify
  <2> HIDE DEF t
  <2> QED BY <2>1, <2>2, TopBecomes, PadInvFacts
<1>3. ASSUME NEW c \in Clients, DestroyNotify(c) PROVE FocusTop(State')
  <2> DEFINE t == [State EXCEPT !.win[c] = FreshWindow("none")]
  <2>1. FocusTop(t) /\ PadInv(t)
    BY <1>1, <1>3, FreshTop, FreshPad DEF DestroyNotify
  <2>2. Become(t)
    BY <1>3 DEF DestroyNotify
  <2> HIDE DEF t
  <2> QED BY <2>1, <2>2, TopBecomes, PadInvFacts
<1>4. ASSUME NEW c \in Clients, NEW r \in Rules, MapNotify(c, r) PROVE FocusTop(State')
  <2> DEFINE p == Parent(State, c)
             s == AutoScratch(Place(ListedFirst(State, c), c, p, r), c)
  <2>1. p \in ToSet(State.clients) \cup {NoClient}
    <3>1. ParentOf[c] \in Clients \cup {NoClient}
      BY ConstantsAssumption
    <3> QED BY <1>1, <3>1 DEF Parent, Mapped, PadInv, WindowsListed
  <2>2. PutUp(c, p, r) = s
    BY DEF PutUp, ListedFirst
  <2>3. PICK m : Become(UnsetFullscreen(s, c, p, m))
    BY <1>4, <2>2 DEF MapNotify
  <2> HIDE DEF p
  <2>4. FocusTop(UnsetFullscreen(s, c, p, m)) /\ PadInv(UnsetFullscreen(s, c, p, m))
    BY <1>1, <1>4, <2>1, MappedTop, AutoScratchListed DEF MapNotify
  <2> HIDE DEF s
  <2> QED BY <2>3, <2>4, TopBecomes, PadInvFacts
<1>5. ASSUME NEW c \in Clients, UnmapNotify(c) PROVE FocusTop(State')
  <2> DEFINE t == [Detach(ClearRefs(Unlink(State, c), c, win[c].mon), c, win[c].mon)
                   EXCEPT !.win[c].status = "unmapped", !.win[c].layer = "none",
                          !.win[c].enabled = FALSE]
  <2>1. FocusTop(t) /\ PadInv(t)
    BY <1>1, <1>5, UnmapTop, UnmapPad DEF UnmapNotify
  <2>2. Become(t)
    BY <1>5 DEF UnmapNotify
  <2> HIDE DEF t
  <2> QED BY <2>1, <2>2, TopBecomes, PadInvFacts
<1> QED BY <1>2, <1>3, <1>4, <1>5 DEF WindowStep

LEMMA FullscreenTop ==
  ASSUME PadInv(State), FocusTop(State), NEW c \in Clients, NEW b \in BOOLEAN,
         FullscreenNotify(c, b)
  PROVE  FocusTop(State')
<1> DEFINE t == SetFullscreen(State, c, b)
<1>1. Sound(State) /\ AllMapped(State)
  BY PadInvFacts
<1>2. Still(State, t, {})
  BY <1>1, FullscreenStill
<1>3. Become(t)
  BY DEF FullscreenNotify
<1> HIDE DEF t
<1>4. FocusTop(t) /\ Sound(t)
  BY <1>1, <1>2, StillTop DEF Still
<1> QED BY <1>3, <1>4, TopBecomes

LEMMA ViewTop ==
  ASSUME PadInv(State), NEW tags \in TagArgs, View(tags)
  PROVE  FocusTop(State')
<1> DEFINE s == State
           m == selmon
           j == 3 - out[m].seltags
           T == IF tags = {} THEN out[m].tagset[j] ELSE tags
           f == [s.out[m].tagset EXCEPT ![j] = T]
           x == [s.out[m] EXCEPT !.seltags = j, !.tagset = f]
           a == OutAs(s, m, x)
           t == Refresh(a, m)
<1>1. /\ s.out = out /\ s.selmon = m /\ m \in Monitors /\ Sound(s) /\ s \in StateType
      /\ s.out[m] \in MonitorType
  BY PadInvFacts, StateFieldsAre DEF View
<1>2. j \in 1 .. 2
  BY <1>1 DEF MonitorType
<1>3. T \in SUBSET Tags
  BY <1>1, <1>2, ConstantsAssumption DEF MonitorType
<1>4. Become(Refresh(SetTagset(s, m, j, T), m))
  BY DEF View
<1> HIDE DEF s, j, T
<1>5. SetTagset(s, m, j, T) = a
  <2>1. s \in StateType /\ m \in Monitors /\ j \in 1 .. 2
    BY <1>1, <1>2
  <2> QED BY <2>1, SetTagsetIs, Zenon
<1>6. f \in [1 .. 2 -> SUBSET Tags]
  BY <1>1, <1>2, <1>3 DEF MonitorType
<1> HIDE DEF f
<1>7. x \in MonitorType /\ x.power = s.out[m].power
  BY <1>1, <1>2, <1>6 DEF MonitorType
<1> HIDE DEF x
<1>8. Sound(a) /\ a.selmon = m
  BY <1>1, <1>7, OutFields
<1> HIDE DEF a
<1>9. FocusTop(t) /\ Sound(t)
  BY <1>1, <1>8, RefreshDoes DEF Viewed
<1> QED BY <1>4, <1>5, <1>9, TopBecomes DEF t

LEMMA SetLayoutTop ==
  ASSUME PadInv(State), FocusTop(State), NEW l \in LayoutArgs, SetLayout(l)
  PROVE  FocusTop(State')
<1> DEFINE s == State
           m == selmon
           a == WithLayout(s, m, l)
           b == Untile(a, m)
           t == Arrange(b, m)
<1>1. /\ m \in Monitors /\ Sound(s) /\ s \in StateType /\ s.out[m] \in MonitorType
      /\ l \in Layouts /\ CurrentTag(s, m) \in Tags
  BY PadInvFacts, StateFieldsAre, ConstantsAssumption, CurrentTagType DEF SetLayout
<1>2. Become(t) /\ FocusTop(s)
  BY DEF SetLayout
<1>3. PICK j \in 1 .. 2 : a = OutAs(s, m, Laid(s.out[m], CurrentTag(s, m), j, l))
  BY <1>1, WithLayoutIs
<1> DEFINE x == Laid(s.out[m], CurrentTag(s, m), j, l)
<1>4. /\ x \in MonitorType /\ x.power = s.out[m].power
      /\ x.scratchpad_visible = s.out[m].scratchpad_visible
      /\ x.tagset = s.out[m].tagset /\ x.seltags = s.out[m].seltags
  BY <1>1, LaidType
<1> HIDE DEF x, a, s
<1>5. /\ Sound(a) /\ a.out[m] = x /\ a.win = s.win /\ a.selmon = s.selmon
      /\ a.fstack = s.fstack /\ a.focus = s.focus
      /\ \A n \in Monitors : n # m => a.out[n] = s.out[n]
  BY <1>1, <1>3, <1>4, OutFields DEF x
<1>6. FocusTop(a)
  <2>1. \A n \in Monitors : /\ CurTags(a, n) = CurTags(s, n)
                            /\ a.out[n].scratchpad_visible = s.out[n].scratchpad_visible
    BY <1>4, <1>5 DEF CurTags
  <2>2. \A d \in Clients : SamePlace(s.win[d], a.win[d])
    BY <1>5 DEF SamePlace
  <2> QED BY <1>1, <1>2, <1>5, <2>1, <2>2, SceneryTop
<1>7. /\ Sound(b) /\ b.selmon = a.selmon /\ b.focus = a.focus
      /\ \A n \in Monitors : Focustop(b, n) = Focustop(a, n)
  BY <1>1, <1>5, UntileViewed DEF Viewed
<1> HIDE DEF b
<1>8. FocusTop(b)
  <2>1. a.selmon \in Monitors \cup {NoMon}
    BY <1>5, StateFields DEF Sound
  <2>2. Focustop(b, a.selmon) = Focustop(a, a.selmon)
    BY <1>5, <1>7, <2>1, FocustopNowhere
  <2> QED BY <1>6, <1>7, <2>2 DEF FocusTop
<1>9. Still(b, t, {})
  BY <1>1, <1>7, ArrangeStill
<1> HIDE DEF t
<1>10. FocusTop(t) /\ Sound(t)
  BY <1>7, <1>8, <1>9, StillTop DEF Still
<1> QED BY <1>2, <1>10, TopBecomes

LEMMA TagMonTop ==
  ASSUME PadInv(State), FocusTop(State), NEW m \in Monitors, TagMon(m)
  PROVE  FocusTop(State')
<1> DEFINE t == SetMon(State, Sel, m, {})
<1>1. Sel # NoClient /\ Become(t)
  BY DEF TagMon
<1>2. Sel \in Clients /\ Sound(State) /\ AllMapped(State)
  BY <1>1, PadSel, PadInvFacts
<1>3. Sound(t) /\ FocusTop(t)
  <2>1. {} \in SUBSET Tags /\ m \in Monitors \cup {NoMon}
    OBVIOUS
  <2> QED BY <1>2, <2>1, SetMonTop
<1> HIDE DEF t
<1> QED BY <1>1, <1>3, TopBecomes

(* updatemons() ends by focusing the topmost window of the selected output. *)
LEMMA PlugTop ==
  ASSUME PadInv(State), PlugStep
  PROVE  FocusTop(State')
<1> DEFINE s == State
           f == FreshMonitor("on")
<1> USE StateFieldsAre
<1>1. PICK m \in Monitors : CreateMon(m)
  BY DEF PlugStep
<1> DEFINE o == [s.out EXCEPT ![m] = f]
           q == <<m>> \o s.mons
           a == WithOutputs(s, o, q)
           t == UpdateMons(a)
<1>2. /\ Become(UpdateMons([s EXCEPT !.out[m] = f, !.mons = <<m>> \o s.mons]))
      /\ s.out[m].power = "gone"
  BY <1>1 DEF CreateMon
<1>3. /\ Sound(s) /\ s \in StateType /\ OutputsListed(s) /\ AllOn(s) /\ AllMapped(s)
      /\ s.out \in [Monitors -> MonitorType] /\ s.mons \in Seq(Monitors)
      /\ s.selmon \in Monitors \cup {NoMon} /\ NoMon \notin Monitors
  BY PadInvFacts, StateFields DEF PadCore
<1>4. f \in MonitorType /\ f.power = "on"
  BY FreshMonitorType DEF FreshMonitor
<1>5. /\ o \in [Monitors -> MonitorType] /\ o[m] = f
      /\ \A n \in Monitors : n # m => o[n] = s.out[n]
  BY <1>3, <1>4
<1>6. q \in Seq(Monitors)
  BY <1>3
<1>7. Lists(q, {n \in Monitors : o[n].power # "gone"})
  <2> DEFINE P == {n \in Monitors : s.out[n].power # "gone"}
  <2>1. Lists(s.mons, P) /\ m \notin P
    BY <1>2, <1>3 DEF OutputsListed
  <2>2. P \cup {m} = {n \in Monitors : o[n].power # "gone"}
    BY <1>4, <1>5
  <2> HIDE DEF P
  <2> QED BY <2>1, <2>2, PutFirst
<1>8. [s EXCEPT !.out[m] = f, !.mons = <<m>> \o s.mons] = a
  BY <1>3 DEF StateType, WithOutputs
<1> HIDE DEF q, o, f, s
<1>9. /\ Sound(a) /\ a.mons = q /\ a.out = o
      /\ a.clients = s.clients /\ a.win = s.win /\ a.selmon = s.selmon
  BY <1>3, <1>5, <1>6, OutputsFields
<1> HIDE DEF a
<1>10. /\ ToSet(a.mons) = {n \in Monitors : o[n].power # "gone"} /\ ToSet(a.mons) # {}
       /\ \A n \in ToSet(a.mons) : a.out[n].power = "on"
       /\ AllMapped(a)
  BY <1>3, <1>4, <1>5, <1>7, <1>9 DEF Lists, AllOn, AllMapped
<1>11. a.selmon = NoMon \/ Enabled(a, a.selmon)
  <2>1. \A n \in Monitors : Enabled(s, n) => Enabled(a, n)
    BY <1>4, <1>5, <1>9 DEF Enabled
  <2> QED BY <1>3, <1>9, <2>1 DEF AllOn
<1>12. Kept(a, t) /\ FocusTop(t)
  BY <1>9, <1>10, <1>11, LitUpdateMonsDoes
<1> HIDE DEF t
<1>13. Become(t)
  BY <1>2, <1>8 DEF t, f, s
<1> QED BY <1>12, <1>13, TopBecomes DEF Kept

LEMMA InitTop ==
  ASSUME Init
  PROVE  FocusTop(State)
<1>1. Sound(State) /\ State.selmon = NoMon /\ State.focus = NoClient
  BY InitPad, PadInvFacts, StateFieldsAre DEF Init
<1> QED BY <1>1, FocustopNowhere DEF FocusTop

(* A window of the selected output comes to the front, or what is topmost.  *)
LEMMA NextTop ==
  ASSUME NEW s, Sound(s), NEW next, s.selmon \in Monitors,
         next # NoClient => /\ next \in ToSet(s.clients) /\ s.win[next].mon = s.selmon
                            /\ VisibleOn(s, next, s.selmon) /\ next # s.focus
  PROVE  LET t == FocusNextScratchpad(s, s.selmon, next) IN Sound(t) /\ FocusTop(t)
<1>1. CASE next = NoClient
  BY <1>1, FocusTopGoes DEF FocusNextScratchpad
<1>2. CASE next # NoClient
  <2>1. Sound(FocusClient(s, next)) /\ FocusTop(FocusClient(s, next))
    BY <1>2, FocusGoesTop
  <2> QED BY <1>2, <2>1 DEF FocusNextScratchpad
<1> QED BY <1>1, <1>2

LEMMA ShowScratchpadTop ==
  ASSUME PadInv(State), FocusTop(State), ShowScratchpad
  PROVE  FocusTop(State')
<1> DEFINE s == State
           m == selmon
           p == Focustop(s, m)
           x == Opened(s.out[m], TRUE, p)
           a == OutAs(s, m, x)
           b == ScratchpadArrange(a, m)
           top == FirstOf(s.fstack, Scratchpads(s, m), NoClient)
           d == ShowOnly(b, m, top)
           t == IF top = NoClient THEN d ELSE FocusClient(d, top)
<1>1. /\ s.selmon = m /\ s.fstack = fstack /\ s.out = out /\ m \in Monitors
      /\ Sound(s) /\ s \in StateType /\ s.out[m] \in MonitorType
      /\ ToSet(s.clients) \subseteq Clients /\ ToSet(s.fstack) = ToSet(s.clients)
      /\ s.fstack \in Seq(Clients) /\ ~ s.out[m].scratchpad_visible
      /\ NoClient \notin Clients /\ FocusTop(s) /\ m # NoMon
  BY PadInvFacts, StateFieldsAre, StateFields, SoundFacts DEF ShowScratchpad
<1>2. p \in Clients \cup {NoClient}
  BY <1>1, FocustopIs
<1>3. Become(t)
  <2>1. a = [State EXCEPT !.out[selmon].scratchpad_prev_focus = Sel,
                          !.out[selmon].scratchpad_visible = TRUE]
    BY <1>1 DEF OutAs, WithOutputs, Opened, StateType, Sel
  <2> QED BY <1>1, <2>1 DEF ShowScratchpad
<1>4. \/ top \in Scratchpads(s, m) /\ top # NoClient
      \/ top = NoClient /\ Scratchpads(s, m) = {}
  <2>1. \/ top = NoClient /\ ToSet(s.fstack) \cap Scratchpads(s, m) = {}
        \/ top \in ToSet(s.fstack) \cap Scratchpads(s, m)
    BY <1>1, Found
  <2>2. Scratchpads(s, m) \subseteq ToSet(s.fstack)
    BY <1>1 DEF Scratchpads
  <2> HIDE DEF s, top
  <2> QED BY <1>1, <2>1, <2>2
<1> HIDE DEF s, p, top
<1>5. /\ x \in MonitorType /\ x.power = s.out[m].power /\ x.scratchpad_visible
      /\ x.tagset = s.out[m].tagset /\ x.seltags = s.out[m].seltags
      /\ x.lt = s.out[m].lt /\ x.sellt = s.out[m].sellt
  <2>1. TRUE \in BOOLEAN
    OBVIOUS
  <2>2. x \in MonitorType /\ x.power = s.out[m].power /\ (x.scratchpad_visible <=> TRUE)
    BY <1>1, <1>2, <2>1, OpenedType
  <2>3. /\ x.tagset = s.out[m].tagset /\ x.seltags = s.out[m].seltags
        /\ x.lt = s.out[m].lt /\ x.sellt = s.out[m].sellt
    BY <1>1 DEF Opened, MonitorType
  <2> QED BY <2>2, <2>3
<1> HIDE DEF x
<1>6. /\ Sound(a) /\ a.out[m] = x /\ a.win = s.win /\ a.selmon = m /\ a.clients = s.clients
      /\ a.fstack = s.fstack /\ a.focus = s.focus
  BY <1>1, <1>5, OutFields
<1>7. \A c \in Clients, n \in Monitors :
        ~ s.win[c].isscratchpad => (VisibleOn(a, c, n) <=> VisibleOn(s, c, n))
  BY <1>1, <1>5, PadWritten
<1> HIDE DEF a
<1>8. Still(a, b, {}) /\ Sound(b)
  BY <1>6, PadArrangeSteady DEF Steady, Still
<1> HIDE DEF b
<1>9. Scratchpads(b, m) = Scratchpads(s, m)
  BY <1>1, <1>6, <1>8 DEF Scratchpads, Still
<1>10. Still(b, d, {})
  <2>1. top \in Scratchpads(b, m) \cup {NoClient}
    BY <1>4, <1>9
  <2> QED BY <1>1, <1>8, <2>1, ShowOnlyLit
<1> HIDE DEF d
<1>11. Still(a, d, {}) /\ Sound(d)
  BY <1>8, <1>10, StillTrans DEF Still
<1>12. d.clients = s.clients /\ d.focus = s.focus /\ d.selmon = m
  BY <1>6, <1>11 DEF Still
<1>13. Sound(t) /\ FocusTop(t)
  <2>1. CASE top # NoClient
    <3>1. /\ top \in ToSet(s.clients) /\ top \in Clients
          /\ s.win[top].isscratchpad /\ s.win[top].mon = m
      BY <1>1, <1>4, <2>1 DEF Scratchpads
    <3>2. top # s.focus
      <4>1. s.focus = top => InView(s, top)
        BY <1>1, <2>1, TopIs
      <4> QED BY <1>1, <3>1, <4>1 DEF InView, VisibleOn, Shows
    <3>3. VisibleOn(a, top, m)
      BY <1>1, <1>5, <1>6, <3>1 DEF VisibleOn, Shows
    <3>4. VisibleOn(d, top, m)
      BY <1>1, <1>6, <1>11, <3>1, <3>3, StillViews
    <3>5. d.win[top].mon = m
      BY <1>6, <1>11, <3>1 DEF Still
    <3>6. Sound(FocusClient(d, top)) /\ FocusTop(FocusClient(d, top))
      BY <1>1, <1>11, <1>12, <3>1, <3>2, <3>4, <3>5, FocusGoesTop
    <3> QED BY <2>1, <3>6
  <2>2. CASE top = NoClient
    <3> DEFINE X == {c \in Clients : VisibleOn(s, c, m)}
               Y == {c \in Clients : VisibleOn(a, c, m)}
    <3>1. \A c \in ToSet(s.clients) : VisibleOn(a, c, m) <=> VisibleOn(s, c, m)
      <4> SUFFICES ASSUME NEW c \in ToSet(s.clients)
                   PROVE  VisibleOn(a, c, m) <=> VisibleOn(s, c, m)
        OBVIOUS
      <4>1. CASE s.win[c].isscratchpad
        <5>1. s.win[c].mon # m
          BY <1>4, <2>2, <4>1 DEF Scratchpads
        <5> QED BY <1>6, <5>1 DEF VisibleOn, Shows
      <4>2. CASE ~ s.win[c].isscratchpad
        BY <1>1, <1>7, <4>2
      <4> QED BY <4>1, <4>2
    <3>2. ToSet(s.fstack) \cap X = ToSet(s.fstack) \cap Y
      BY <1>1, <3>1
    <3>3. Focustop(a, m) = Focustop(s, m)
      <4> HIDE DEF X, Y
      <4>1. FirstOf(s.fstack, X, NoClient) = FirstOf(s.fstack, Y, NoClient)
        BY <1>1, <3>2, FirstAlike
      <4> QED BY <1>6, <4>1 DEF Focustop, X, Y
    <3>4. FocusTop(a)
      BY <1>1, <1>6, <3>3 DEF FocusTop
    <3>5. FocusTop(d)
      BY <1>6, <1>11, <3>4, StillTop
    <3> QED BY <1>11, <2>2, <3>5
  <2> QED BY <2>1, <2>2
<1> HIDE DEF t
<1> QED BY <1>3, <1>13, TopBecomes

LEMMA HideScratchpadTop ==
  ASSUME PadInv(State), FocusTop(State), HideScratchpad
  PROVE  FocusTop(State')
<1> DEFINE s == State
           m == selmon
           X == Scratchpads(s, m)
           prev == s.out[m].scratchpad_prev_focus
           x == Closed(s.out[m], FALSE)
           a == OutAs(s, m, x)
           b == SetEnabled(a, X, FALSE)
           f == IF prev # NoClient /\ VisibleOn(b, prev, m) THEN prev ELSE Focustop(b, m)
           t == FocusClient(b, f)
<1>1. /\ s.selmon = selmon /\ s.out = out /\ m \in Monitors
      /\ Sound(s) /\ s \in StateType /\ s.out[m] \in MonitorType
      /\ ToSet(s.fstack) = ToSet(s.clients) /\ s.fstack \in Seq(Clients)
      /\ WindowsListed(s) /\ NoMon \notin Monitors /\ NoClient \notin Clients /\ FocusTop(s)
  BY PadInvFacts, StateFieldsAre, StateFields DEF HideScratchpad
<1>2. Become(t)
  <2>1. a = [State EXCEPT !.out[selmon].scratchpad_visible = FALSE,
                          !.out[selmon].scratchpad_current = NoClient]
    BY <1>1 DEF OutAs, WithOutputs, Closed, StateType
  <2> QED BY <1>1, <2>1 DEF HideScratchpad, RestoreFocus
<1>3. prev \in Clients \cup {NoClient}
  BY <1>1 DEF MonitorType
<1> HIDE DEF s, X, prev
<1>4. /\ x \in MonitorType /\ x.power = s.out[m].power /\ ~ x.scratchpad_visible
      /\ x.tagset = s.out[m].tagset /\ x.seltags = s.out[m].seltags
      /\ x.lt = s.out[m].lt /\ x.sellt = s.out[m].sellt
  <2>1. FALSE \in BOOLEAN
    BY Zenon
  <2>2. x \in MonitorType /\ x.power = s.out[m].power /\ (x.scratchpad_visible <=> FALSE)
    BY <1>1, <2>1, ClosedType
  <2>3. /\ x.tagset = s.out[m].tagset /\ x.seltags = s.out[m].seltags
        /\ x.lt = s.out[m].lt /\ x.sellt = s.out[m].sellt
    BY <1>1 DEF Closed, MonitorType
  <2> QED BY <2>2, <2>3
<1> HIDE DEF x
<1>5. /\ Sound(a) /\ a.out[m] = x /\ a.win = s.win /\ a.selmon = m /\ a.clients = s.clients
      /\ a.fstack = s.fstack /\ a.focus = s.focus
  BY <1>1, <1>4, OutFields
<1>6. \A c \in Clients, n \in Monitors :
        ~ s.win[c].isscratchpad => (VisibleOn(a, c, n) <=> VisibleOn(s, c, n))
  BY <1>1, <1>4, PadWritten
<1> HIDE DEF a
<1>7. Still(a, b, {}) /\ b.out = a.out
  BY <1>5, DisableStill
<1> HIDE DEF b
<1>8. /\ Sound(b) /\ b.selmon = m /\ b.clients = s.clients
      /\ b.fstack = s.fstack /\ b.focus = s.focus
      /\ \A c \in Clients : b.win[c].mon = s.win[c].mon
                            /\ b.win[c].isscratchpad = s.win[c].isscratchpad
  BY <1>5, <1>7 DEF Still
(* What a hidden scratchpad leaves in view was in view before.              *)
<1>9. ASSUME NEW c \in Clients, VisibleOn(b, c, m)
      PROVE  VisibleOn(s, c, m)
  <2>1. ~ b.win[c].isscratchpad
    BY <1>4, <1>5, <1>7, <1>9 DEF VisibleOn, Shows
  <2>2. VisibleOn(a, c, m)
    BY <1>1, <1>5, <1>7, <1>9, StillViews
  <2> QED BY <1>1, <1>6, <1>8, <2>1, <2>2
<1>10. \/ /\ f \in ToSet(b.clients) /\ f \in Clients /\ f # NoClient
          /\ VisibleOn(b, f, m) /\ b.win[f].mon = m
       \/ f = NoClient /\ f = Focustop(b, m)
  <2>1. CASE prev # NoClient /\ VisibleOn(b, prev, m)
    <3>1. prev \in Clients /\ b.win[prev].mon # NoMon /\ b.win[prev].mon = m
      BY <1>1, <1>3, <2>1 DEF VisibleOn, Shows
    <3>2. prev \in ToSet(s.clients)
      BY <1>1, <1>8, <3>1 DEF WindowsListed
    <3> QED BY <1>8, <2>1, <3>1, <3>2
  <2>2. CASE ~ (prev # NoClient /\ VisibleOn(b, prev, m))
    BY <1>8, <2>2, FocustopIs
  <2> QED BY <2>1, <2>2
<1> HIDE DEF f
<1>11. ASSUME f \in Clients, f \in ToSet(b.clients), VisibleOn(b, f, m), f = b.focus
       PROVE  f = Focustop(b, m)
  <2> DEFINE V == {c \in Clients : VisibleOn(s, c, m)}
             W == {c \in Clients : VisibleOn(b, c, m)}
  <2>1. W \subseteq V /\ f \in W /\ f \in V
    BY <1>9, <1>11
  <2>2. f = FirstOf(s.fstack, V, NoClient)
    BY <1>1, <1>8, <1>11 DEF FocusTop, Focustop
  <2>3. f \in ToSet(s.fstack)
    BY <1>1, <1>8, <1>11
  <2>4. Focustop(b, m) = FirstOf(s.fstack, W, NoClient)
    BY <1>8 DEF Focustop
  <2> HIDE DEF V, W
  <2>5. FirstOf(s.fstack, W, NoClient) = FirstOf(s.fstack, V, NoClient)
    <3>1. W \subseteq V /\ ToSet(s.fstack) \cap V # {} /\ FirstOf(s.fstack, V, NoClient) \in W
      BY <2>1, <2>2, <2>3
    <3> QED BY <1>1, <3>1, FirstShrunk
  <2> QED BY <2>2, <2>4, <2>5
<1>12. Sound(t) /\ FocusTop(t)
  <2>1. CASE f = NoClient
    <3>1. t = FocusTopOf(b, b.selmon)
      BY <1>1, <1>8, <1>10, <2>1 DEF FocusTopOf
    <3> HIDE DEF t
    <3> QED BY <1>8, <3>1, FocusTopGoes
  <2>2. CASE f # NoClient
    BY <1>1, <1>8, <1>10, <1>11, <2>2, FocusGoesTop
  <2> QED BY <2>1, <2>2
<1> HIDE DEF t
<1> QED BY <1>2, <1>12, TopBecomes

LEMMA TakeFromScratchpadTop ==
  ASSUME PadInv(State), FocusTop(State), TakeFromScratchpad
  PROVE  FocusTop(State')
<1> DEFINE s == State
           m == selmon
           c == Sel
           tags == CurTags(s, m)
           v == Taken(s.win[c], FALSE, FALSE, tags)
           next == IF out[m].scratchpad_visible
                   THEN FirstOf(fstack, Scratchpads(s, m) \ {c}, NoClient)
                   ELSE NoClient
           a == Put(s, c, v)
           b == [a EXCEPT !.out[m].scratchpad_current = next]
           d == IF next = NoClient THEN b ELSE ScratchpadArrange(b, m)
           e == SetFloating(d, c, FALSE)
           t == FocusNextScratchpad(e, m, next)
<1>1. /\ c \in ToSet(s.clients) /\ c \in Clients /\ s.win[c].mon = m
      /\ m \in Monitors /\ m # NoMon
  <2>1. Sel # NoClient
    BY DEF TakeFromScratchpad
  <2> QED BY <2>1, PadSel
<1>2. /\ s.selmon = m /\ s.fstack = fstack /\ s.out = out
      /\ Sound(s) /\ s \in StateType /\ PadInv(s) /\ PadCore(s, {}) /\ s.win[c] \in WindowType
      /\ s.fstack \in Seq(Clients)
      /\ ToSet(s.clients) \subseteq Clients /\ NoClient \notin Clients
      /\ tags \in SUBSET Tags /\ FocusTop(s) /\ AllMapped(s)
  BY <1>1, PadInvFacts, StateFieldsAre, SoundFacts, CurTagsType
<1>3. s.focus = c
  BY <1>2, StateFieldsAre DEF FocusTop, Sel
<1>4. \/ next = NoClient
      \/ /\ next \in Scratchpads(s, m) /\ next # c /\ next # NoClient
         /\ s.out[m].scratchpad_visible
  <2>1. \/ FirstOf(fstack, Scratchpads(s, m) \ {c}, NoClient) = NoClient
        \/ FirstOf(fstack, Scratchpads(s, m) \ {c}, NoClient) \in Scratchpads(s, m) \ {c}
    BY <1>2, Found
  <2> QED BY <1>2, <2>1
<1>5. Become(t)
  <2>1. b = [State EXCEPT !.win[Sel].isscratchpad = FALSE, !.win[Sel].isfloating = FALSE,
                          !.win[Sel].tags = CurTags(State, selmon),
                          !.out[selmon].scratchpad_current = next]
    BY <1>1, <1>2 DEF Put, Taken, StateType
  <2> HIDE DEF b
  <2> QED BY <2>1 DEF TakeFromScratchpad
<1> HIDE DEF s, c, next
<1>6. /\ next \in Clients \cup {NoClient}
      /\ next # NoClient => /\ next \in ToSet(s.clients) /\ s.win[next].mon = m
                            /\ next # c /\ VisibleOn(s, next, m)
  BY <1>1, <1>2, <1>4 DEF Scratchpads, VisibleOn, Shows
<1>7. v \in WindowType /\ v.status = s.win[c].status /\ v.mon = s.win[c].mon
  <2>1. FALSE \in BOOLEAN
    BY Zenon
  <2> QED BY <1>2, <2>1, TakenType
<1> HIDE DEF v
<1>8. /\ Sound(a) /\ a.out = s.out /\ a.selmon = s.selmon /\ a.clients = s.clients
      /\ a.fstack = s.fstack /\ a.focus = s.focus /\ a.win[c] = v
      /\ \A x \in Clients : x # c => a.win[x] = s.win[x]
  BY <1>1, <1>2, <1>7, PutDoes
<1> HIDE DEF a
<1>9. Still(s, a, {c}) /\ AllMapped(a)
  BY <1>1, <1>2, <1>7, <1>8 DEF Still, CurTags, AllMapped
<1>10. Still(a, b, {}) /\ Sound(b) /\ b.win = a.win
  <2>1. Steady(a, b) /\ b.win = a.win
    BY <1>1, <1>6, <1>8, CurrentSteady
  <2> HIDE DEF b
  <2> QED BY <2>1 DEF Steady, Still
<1> HIDE DEF b
<1>11. Still(b, d, {}) /\ Sound(d) /\ AllMapped(d)
  <2>1. AllMapped(b)
    BY <1>9, <1>10 DEF AllMapped, Still
  <2>2. CASE next = NoClient
    BY <1>10, <2>1, <2>2, StillSelf DEF Steady
  <2>3. CASE next # NoClient
    <3> DEFINE h == ScratchpadArrange(b, m)
    <3>1. Still(b, h, {}) /\ Quiet(b, h)
      BY <1>10, PadArrangeSteady, PadArrangeQuiet DEF Steady
    <3> HIDE DEF h
    <3>2. Sound(h) /\ AllMapped(h)
      BY <1>10, <2>1, <3>1, SoundFacts DEF AllMapped, Quiet, Near
    <3> QED BY <2>3, <3>1, <3>2 DEF h
  <2> QED BY <2>2, <2>3
<1> HIDE DEF d
<1>12. Still(d, e, {})
  <2>1. FALSE \in BOOLEAN
    BY Zenon
  <2> QED BY <1>1, <1>11, <2>1, FloatingStill
<1> HIDE DEF e
<1>13. Still(s, e, {c}) /\ Sound(e)
  <2>1. Still(s, b, {c})
    BY <1>9, <1>10, StillWeaken, StillTrans
  <2>2. Still(s, d, {c})
    BY <1>11, <2>1, StillWeaken, StillTrans
  <2>3. Still(s, e, {c})
    BY <1>12, <2>2, StillWeaken, StillTrans
  <2> QED BY <2>3 DEF Still
<1>14. e.selmon = m /\ e.focus = c /\ e.clients = s.clients
  BY <1>2, <1>3, <1>13 DEF Still
<1>15. next # NoClient => /\ next \in ToSet(e.clients) /\ e.win[next].mon = e.selmon
                          /\ VisibleOn(e, next, e.selmon) /\ next # e.focus
  <2> SUFFICES ASSUME next # NoClient
               PROVE  /\ next \in ToSet(s.clients) /\ e.win[next].mon = m
                      /\ VisibleOn(e, next, m) /\ next # c
    BY <1>14
  <2>1. next \in Clients \ {c} /\ VisibleOn(s, next, m) /\ s.win[next].mon = m
    BY <1>6
  <2>2. VisibleOn(e, next, m)
    BY <1>1, <1>2, <1>13, <2>1, StillViews
  <2>3. e.win[next].mon = m
    BY <1>13, <2>1 DEF Still
  <2> QED BY <1>6, <2>2, <2>3
<1>16. Sound(t) /\ FocusTop(t)
  BY <1>1, <1>13, <1>14, <1>15, NextTop
<1> HIDE DEF t
<1> QED BY <1>5, <1>16, TopBecomes

LEMMA SendToScratchpadTop ==
  ASSUME PadInv(State), FocusTop(State), SendToScratchpad
  PROVE  FocusTop(State')
<1> DEFINE s == State
           m == selmon
           c == Sel
           a == IntoScratchpad(s, c)
<1>1. /\ c \in ToSet(s.clients) /\ c \in Clients /\ s.win[c].mon = m
      /\ m \in Monitors /\ m # NoMon
  <2>1. Sel # NoClient
    BY DEF SendToScratchpad
  <2> QED BY <2>1, PadSel
<1>2. /\ s.selmon = m /\ s.out = out /\ Sound(s) /\ PadInv(s) /\ FocusTop(s)
  BY PadInvFacts, StateFieldsAre
<1>3. CASE out[m].scratchpad_visible
  <2> DEFINE b == Supersede(a, m, c)
             C == {c}
             d == SetEnabled(b, C, TRUE)
             t == FocusClient(d, c)
  <2>1. Become(t)
    BY <1>3 DEF SendToScratchpad
  <2> HIDE DEF s, c
  <2>2. /\ Sound(b) /\ c \in ToSet(b.clients) /\ b.win[c].mon = m /\ VisibleOn(b, c, m)
        /\ c = b.focus => c = Focustop(b, b.selmon)
    BY <1>1, <1>2, <1>3, JoinsTop
  <2> HIDE DEF a, b
  <2>3. Still(b, d, {})
    BY <2>2, EnableSteady DEF Steady
  <2> HIDE DEF d
  <2>4. /\ Sound(d) /\ d.clients = b.clients /\ d.focus = b.focus /\ d.selmon = b.selmon
        /\ d.win[c].mon = m
    BY <1>1, <2>2, <2>3 DEF Still
  <2>5. VisibleOn(d, c, m)
    BY <1>1, <2>2, <2>3, StillViews
  <2>6. Focustop(d, b.selmon) = Focustop(b, b.selmon)
    BY <2>2, <2>3, StillTop
  <2>7. Sound(t) /\ FocusTop(t)
    BY <1>1, <2>2, <2>4, <2>5, <2>6, FocusGoesTop
  <2> HIDE DEF t
  <2> QED BY <2>1, <2>7, TopBecomes
<1>4. CASE ~ out[m].scratchpad_visible
  <2> DEFINE C == {c}
             b == SetEnabled(a, C, FALSE)
             d == Arrange(b, m)
             t == FocusTopOf(d, m)
  <2>1. Become(t)
    BY <1>4 DEF SendToScratchpad
  <2> HIDE DEF s, c
  <2>2. Still(s, a, {c}) /\ Sound(a)
    BY <1>1, <1>2, IntoLit DEF Still
  <2> HIDE DEF a
  <2>3. Still(a, b, {})
    BY <2>2, DisableStill
  <2> HIDE DEF b
  <2>4. Still(b, d, {})
    BY <1>1, <2>3, ArrangeStill DEF Still
  <2> HIDE DEF d
  <2>5. d.selmon = m /\ Sound(d)
    BY <1>2, <2>2, <2>3, <2>4 DEF Still
  <2>6. Sound(t) /\ FocusTop(t)
    BY <2>5, FocusTopGoes
  <2> HIDE DEF t
  <2> QED BY <2>1, <2>6, TopBecomes
<1> QED BY <1>3, <1>4

LEMMA FocusDirScratchpadTop ==
  ASSUME PadInv(State), FocusTop(State), NEW forward, FocusDirScratchpad(forward)
  PROVE  FocusTop(State')
<1> DEFINE s == State
           m == selmon
           old == s.out[m].scratchpad_current
           next == Cycle(s.clients, Scratchpads(s, m), Sel, forward)
           a == [s EXCEPT !.out[m].scratchpad_current = next]
           b == SetEnabledAt(a, old, FALSE)
           C == {next}
           d == SetEnabled(b, C, TRUE)
           t == FocusClient(d, next)
<1>1. /\ Sel \in ToSet(s.clients) /\ Sel \in Clients /\ s.win[Sel].mon = m
      /\ m \in Monitors /\ m # NoMon
  <2>1. Sel # NoClient
    BY DEF FocusDirScratchpad
  <2> QED BY <2>1, PadSel
<1>2. /\ s.selmon = m /\ s.out = out /\ s.clients = clients /\ s.win = win
      /\ Sound(s) /\ s.clients \in Seq(Clients)
      /\ ToSet(s.clients) \subseteq Clients /\ NoClient \notin Clients /\ FocusTop(s)
      /\ old \in Clients \cup {NoClient}
      /\ s.out[m].scratchpad_visible
  BY <1>1, PadInvFacts, StateFieldsAre, StateFields
     DEF FocusDirScratchpad, CyclesScratchpad, MonitorType
<1>3. s.focus = Sel
  BY <1>2, StateFieldsAre DEF FocusTop, Sel
<1>4. /\ next \in ToSet(s.clients) /\ next \in Clients /\ next # NoClient
      /\ s.win[next].mon = m /\ s.win[next].isscratchpad
  <2>1. Sel \in ToSet(s.clients) \cap Scratchpads(s, m)
    BY <1>1, <1>2 DEF Scratchpads, FocusDirScratchpad, CyclesScratchpad
  <2>2. ToSet(s.clients) \cap Scratchpads(s, m) # {}
    BY <2>1
  <2>3. next \in ToSet(s.clients) \cap Scratchpads(s, m)
    BY <1>2, <2>2, CycleFinds
  <2> HIDE DEF s, next
  <2> QED BY <1>2, <2>3 DEF Scratchpads
<1>5. Become(t) /\ next # Sel
  BY <1>2 DEF FocusDirScratchpad
<1> HIDE DEF s, next, old
<1>6. VisibleOn(s, next, m)
  BY <1>1, <1>2, <1>4 DEF VisibleOn, Shows
<1>7. Still(s, a, {}) /\ Sound(a)
  <2>1. Steady(s, a)
    BY <1>1, <1>2, <1>4, CurrentSteady
  <2> HIDE DEF a
  <2> QED BY <2>1 DEF Steady, Still
<1> HIDE DEF a
<1>8. Still(a, b, {}) /\ Sound(b)
  BY <1>2, <1>7, DisableAtStill DEF Still
<1> HIDE DEF b
<1>9. Still(b, d, {})
  BY <1>8, EnableSteady DEF Steady
<1> HIDE DEF d
<1>10. Still(s, d, {})
  BY <1>7, <1>8, <1>9, StillTrans
<1>11. VisibleOn(d, next, m)
  BY <1>1, <1>2, <1>4, <1>6, <1>10, StillViews
<1>12. /\ Sound(d) /\ next \in ToSet(d.clients) /\ next # d.focus /\ d.win[next].mon = m
  BY <1>3, <1>4, <1>5, <1>10 DEF Still
<1>13. Sound(t) /\ FocusTop(t)
  BY <1>1, <1>11, <1>12, FocusGoesTop
<1> HIDE DEF t
<1> QED BY <1>5, <1>13, TopBecomes

ScratchpadTop == FocusTop(State)

LEMMA ScratchpadTopStep ==
  ASSUME ScratchpadInv, ScratchpadTop, [ScratchpadNext]_vars
  PROVE  ScratchpadTop'
<1> SUFFICES FocusTop(State')
  BY DEF ScratchpadTop
<1>1. PadInv(State) /\ FocusTop(State)
  BY DEF ScratchpadInv, ScratchpadTop
<1>2. CASE ScratchpadNext
  <2>1. CASE PlugStep
    BY <1>1, <2>1, PlugTop
  <2>2. CASE WindowStep
    BY <1>1, <2>2, WindowsTop
  <2>3. CASE AnyFullscreenNotify
    BY <1>1, <2>3, FullscreenTop DEF AnyFullscreenNotify
  <2>4. CASE ScratchpadStep
    BY <1>1, <2>4, ShowScratchpadTop, HideScratchpadTop, TakeFromScratchpadTop,
       SendToScratchpadTop, FocusDirScratchpadTop DEF ScratchpadStep
  <2>5. ASSUME NEW tags \in TagArgs, View(tags) PROVE FocusTop(State')
    BY <1>1, <2>5, ViewTop
  <2>6. ASSUME NEW m \in Monitors, TagMon(m) PROVE FocusTop(State')
    BY <1>1, <2>6, TagMonTop
  <2>7. ASSUME NEW l \in LayoutArgs, SetLayout(l) PROVE FocusTop(State')
    BY <1>1, <2>7, SetLayoutTop
  <2> QED BY <1>2, <2>1, <2>2, <2>3, <2>4, <2>5, <2>6, <2>7 DEF ScratchpadNext
<1>3. CASE UNCHANGED vars
  <2>1. State' = State
    BY <1>3 DEF State, vars
  <2> QED BY <1>1, <2>1
<1> QED BY <1>2, <1>3

(* The focused window is the topmost in view of its output while windows    *)
(* come, go, change output, turn fullscreen and move in and out of the      *)
(* scratchpads and tags and layouts change: for any windows, outputs and    *)
(* layouts, and whatever the scratchpads remember of windows that are gone. *)
THEOREM ScratchpadTopFocus == ScratchpadSpec => []TopFocus
<1>1. Init => ScratchpadTop
  BY InitTop DEF ScratchpadTop
<1>2. ScratchpadInv /\ ScratchpadTop /\ [ScratchpadNext]_vars => ScratchpadTop'
  BY ScratchpadTopStep
<1>3. ASSUME ScratchpadInv, ScratchpadTop PROVE TopFocus
  <2> SUFFICES ASSUME focus # NoClient PROVE focus = Focustop(State, win[focus].mon)
    BY DEF TopFocus
  <2>1. Sound(State) /\ State.focus = Focustop(State, State.selmon)
    BY <1>3, PadInvFacts DEF ScratchpadInv, ScratchpadTop, FocusTop
  <2>2. State.focus = focus /\ State.win = win
    BY StateFieldsAre
  <2>3. State.win[State.focus].mon = State.selmon
    BY <2>1, <2>2, FocustopIs
  <2> QED BY <2>1, <2>2, <2>3
<1> QED BY <1>1, <1>2, <1>3, ScratchpadInvariant, PTL DEF ScratchpadSpec

=============================================================================
