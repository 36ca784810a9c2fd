----------------------------- MODULE SeatFocus -----------------------------
(***************************************************************************)
(* Who has the keyboard (src/src/peachwm.c): the windows that focusclient() *)
(* serves, the layer surfaces that arrangelayers() lets take it, and the   *)
(* surfaces of a session lock.  The three ask the seat on their own and    *)
(* know of each other only by `locked` and by the surface focused before.  *)
(*                                                                         *)
(* Outputs stay plugged here (PeachWM models them coming and going), and   *)
(* the tags of windows are reduced to whether each is visible on its       *)
(* output.  Borders, popups and unmanaged windows are left out.            *)
(***************************************************************************)
EXTENDS Naturals, Sequences

CONSTANTS Windows, Layers, Outputs, None

ASSUME SeatAssumption == Outputs # {} /\ None \notin Windows \cup Layers \cup Outputs

VARIABLES win,        \* each window's output (None: not mapped) and visibility
          fstack,     \* mapped windows, last focused first
          layer,      \* each layer surface's output (None: not created) and state
          order,      \* created layer surfaces, in the order of their lists, reversed
          selmon,     \* the selected output
          locked,
          cur_lock,   \* a lock client exists
          surfaces,   \* outputs with a lock surface, newest first
          keyboard    \* seat->keyboard_state.focused_surface

windows == <<win, fstack>>
shell   == <<layer, order>>
lock    == <<locked, cur_lock, surfaces>>
vars    == <<win, fstack, layer, order, selmon, locked, cur_lock, surfaces, keyboard>>

\* s lists each member of S once.
Members(s)  == {s[i] : i \in DOMAIN s}
Lists(s, S) == /\ s \in Seq(S) /\ Members(s) = S
               /\ \A i, j \in DOMAIN s : s[i] = s[j] => i = j

Levels == {"bottom", "top", "overlay"}

Nobody         == [kind |-> "none", of |-> None]
Window(w)      == IF w = None THEN Nobody ELSE [kind |-> "window", of |-> w]
LayerSurf(l)   == [kind |-> "layer", of |-> l]
LockSurface(m) == [kind |-> "lock", of |-> m]
LockSurfaces(ms) == {LockSurface(m) : m \in Members(ms)}

Unmapped == [mon |-> None, shown |-> FALSE]
Absent   == [mon |-> None, level |-> "bottom", interactive |-> FALSE, mapped |-> FALSE]

TypeOK ==
  /\ win \in [Windows -> [mon : Outputs \cup {None}, shown : BOOLEAN]]
  /\ layer \in [Layers -> [mon : Outputs \cup {None}, level : Levels,
                           interactive : BOOLEAN, mapped : BOOLEAN]]
  /\ Lists(fstack, {w \in Windows : win[w].mon # None})
  /\ Lists(order, {l \in Layers : layer[l].mon # None})
  /\ selmon \in Outputs /\ locked \in BOOLEAN /\ cur_lock \in BOOLEAN
  /\ Lists(surfaces, Members(surfaces)) /\ Members(surfaces) \subseteq Outputs
  /\ (surfaces # <<>> => cur_lock) /\ (cur_lock => locked)
  /\ keyboard \in {Nobody} \cup {Window(w) : w \in Windows}
                   \cup {LayerSurf(l) : l \in Layers} \cup LockSurfaces(surfaces)

Init ==
  /\ win = [w \in Windows |-> Unmapped] /\ fstack = <<>>
  /\ layer = [l \in Layers |-> Absent] /\ order = <<>>
  /\ selmon \in Outputs /\ keyboard = Nobody
  /\ locked = FALSE /\ cur_lock = FALSE /\ surfaces = <<>>

-----------------------------------------------------------------------------
\* s without x, which stands in it once if at all.
Without(s, x) ==
  LET I == {i \in DOMAIN s : s[i] = x}
      k == CHOOSE i \in I : TRUE
  IN  IF I = {} THEN s ELSE [i \in 1 .. Len(s) - 1 |-> s[IF i < k THEN i ELSE i + 1]]

FirstOf(s, X) ==
  LET I == {i \in DOMAIN s : s[i] \in X /\ \A j \in 1 .. i - 1 : s[j] \notin X}
  IN  IF I = {} THEN None ELSE s[CHOOSE i \in I : TRUE]

\* The window on top of the focus stack among those visible on m.
FocusTop(wn, fs, m) == FirstOf(fs, {w \in Windows : wn[w].mon = m /\ wn[w].shown})

\* A focused layer surface above the windows keeps the keyboard while its node
\* is enabled, that is while it is mapped.
OverlayFocused(old, ly) ==
  /\ old.kind = "layer"
  /\ ly[old.of].mapped /\ ly[old.of].level \in {"top", "overlay"}

\* Mutant of FocusFrom: the lock is not asked.
FocusFromUnlocked(old, c, fs, sel) ==
  IF c # None /\ old = Window(c)
  THEN fstack' = fs /\ selmon' = sel /\ keyboard' = old
  ELSE /\ fstack' = IF c = None THEN fs ELSE <<c>> \o Without(fs, c)
       /\ selmon' = IF c = None THEN sel ELSE win'[c].mon
       /\ keyboard' = IF OverlayFocused(old, layer') THEN old ELSE Window(c)

\* Mutant of FocusFrom: a focused overlay keeps the keyboard from no window, only
\* from being cleared.
FocusFromOverOverlay(old, c, fs, sel) ==
  IF locked \/ (c # None /\ old = Window(c))
  THEN fstack' = fs /\ selmon' = sel /\ keyboard' = old
  ELSE /\ fstack' = IF c = None THEN fs ELSE <<c>> \o Without(fs, c)
       /\ selmon' = IF c = None THEN sel ELSE win'[c].mon
       /\ keyboard' = IF c = None /\ OverlayFocused(old, layer') THEN old ELSE Window(c)

\* focusclient(c) once the focus stack is fs, the selected output sel and the
\* surface with the keyboard old.
FocusFrom(old, c, fs, sel) ==
  IF locked \/ (c # None /\ old = Window(c))
  THEN fstack' = fs /\ selmon' = sel /\ keyboard' = old
  ELSE /\ fstack' = IF c = None THEN fs ELSE <<c>> \o Without(fs, c)
       /\ selmon' = IF c = None THEN sel ELSE win'[c].mon
       /\ keyboard' = IF OverlayFocused(old, layer') THEN old ELSE Window(c)

FocusClient(c, fs, sel) == FocusFrom(keyboard, c, fs, sel)

\* The layer surface arrangelayers(m) gives the keyboard to: of the topmost level
\* the one that came first.
Topmost(ly, od, m) ==
  LET Keen(level) == {l \in Layers : /\ ly[l].mon = m /\ ly[l].level = level
                                     /\ ly[l].mapped /\ ly[l].interactive}
      over == FirstOf(od, Keen("overlay"))
  IN  IF locked THEN None
      ELSE IF over # None THEN over ELSE FirstOf(od, Keen("top"))

-----------------------------------------------------------------------------
(* Windows                                                                 *)

\* mapnotify() puts the window where selmon, a rule or its parent says; setmon()
\* then focuses the top of the selected output.
MapNotify(w, m, shown) ==
  /\ win[w].mon = None
  /\ win' = [win EXCEPT ![w] = [mon |-> m, shown |-> shown]]
  /\ UNCHANGED <<shell, lock>>
  /\ LET fs == <<w>> \o fstack IN FocusClient(FocusTop(win', fs, selmon), fs, selmon)

UnmapNotify(w) ==
  /\ win[w].mon # None /\ win' = [win EXCEPT ![w] = Unmapped]
  /\ UNCHANGED <<shell, lock>>
  /\ LET fs == Without(fstack, w) IN FocusClient(FocusTop(win', fs, selmon), fs, selmon)

\* view(), tag() and their like on the selected output, and set_tags and
\* set_client_tags of the IPC on any, lock or no lock.
Retag(m, visible) ==
  /\ win' = [w \in Windows |-> IF win[w].mon # m THEN win[w]
                               ELSE [mon |-> m, shown |-> w \in visible]]
  /\ UNCHANGED <<shell, lock>>
  /\ FocusClient(FocusTop(win', fstack, m), fstack, selmon)

TagMon(m) ==
  LET w == FocusTop(win, fstack, selmon)
  IN  /\ w # None /\ m # selmon
      /\ win' = [win EXCEPT ![w] = [mon |-> m, shown |-> TRUE]]
      /\ UNCHANGED <<shell, lock>>
      /\ FocusClient(FocusTop(win', fstack, selmon), fstack, selmon)

FocusMon(m) ==
  /\ m # selmon /\ UNCHANGED <<win, shell, lock>>
  /\ FocusClient(FocusTop(win, fstack, m), fstack, m)

\* focusstack(), focusdir() and the pointer entering a window.
FocusWindow(w) ==
  /\ win[w].shown /\ UNCHANGED <<win, shell, lock>>
  /\ FocusClient(w, fstack, selmon)

\* A button pressed on output m, over a window or over none.
ButtonPress(m, w) ==
  /\ w # None => win[w].shown
  /\ UNCHANGED <<win, shell, lock>>
  /\ IF locked \/ w = None THEN selmon' = m /\ UNCHANGED <<fstack, keyboard>>
                           ELSE FocusClient(w, fstack, m)

-----------------------------------------------------------------------------
(* Layer surfaces                                                          *)

CreateLayerSurface(l, m, level) ==
  /\ layer[l].mon = None
  /\ layer' = [layer EXCEPT ![l] = [Absent EXCEPT !.mon = m, !.level = level]]
  /\ order' = Append(order, l)
  /\ UNCHANGED <<windows, lock, selmon, keyboard>>

\* A commit that maps the surface or changes its state.  One that moves it to
\* another level puts it at the head of that level's list.
CommitLayerSurface(l, level, interactive, mapped) ==
  LET m == layer[l].mon
  IN  /\ m # None /\ (layer[l].mapped => mapped)
      /\ layer' = [layer EXCEPT ![l] = [mon |-> m, level |-> level,
                                       interactive |-> interactive, mapped |-> mapped]]
      /\ order' = IF level = layer[l].level THEN order ELSE Append(Without(order, l), l)
      /\ LET t == Topmost(layer', order', m)
         IN  keyboard' = IF t = None THEN keyboard ELSE LayerSurf(t)
      /\ UNCHANGED <<windows, lock, selmon>>

\* Mutant of UnmapLayerSurface: focusclient() is asked while the node is enabled.
UnmapLayerSurfaceEnabled(l) ==
  /\ layer[l].mapped /\ layer' = [layer EXCEPT ![l].mapped = FALSE]
  /\ UNCHANGED <<win, order, lock>>
  /\ LET t == Topmost(layer', order, layer[l].mon)
     IN  IF t = None /\ keyboard = LayerSurf(l) /\ ~OverlayFocused(keyboard, layer)
         THEN FocusClient(FocusTop(win, fstack, selmon), fstack, selmon)
         ELSE /\ keyboard' = IF t = None THEN keyboard ELSE LayerSurf(t)
              /\ UNCHANGED <<fstack, selmon>>

\* The node is disabled before arrangelayers() and focusclient() ask for it.
UnmapLayerSurface(l) ==
  /\ layer[l].mapped /\ layer' = [layer EXCEPT ![l].mapped = FALSE]
  /\ UNCHANGED <<win, order, lock>>
  /\ LET t == Topmost(layer', order, layer[l].mon)
     IN  IF t = None /\ keyboard = LayerSurf(l)
         THEN FocusClient(FocusTop(win, fstack, selmon), fstack, selmon)
         ELSE /\ keyboard' = IF t = None THEN keyboard ELSE LayerSurf(t)
              /\ UNCHANGED <<fstack, selmon>>

\* A mapped surface is unmapped first.  The seat lets go of a surface that dies.
DestroyLayerSurface(l) ==
  /\ layer[l].mon # None /\ ~layer[l].mapped
  /\ layer' = [layer EXCEPT ![l] = Absent] /\ order' = Without(order, l)
  /\ keyboard' = IF keyboard = LayerSurf(l) THEN Nobody ELSE keyboard
  /\ UNCHANGED <<windows, lock, selmon>>

-----------------------------------------------------------------------------
(* The session lock.  A second lock client beside a living one is turned    *)
(* away and changes nothing here.                                           *)

LockSession ==
  /\ ~cur_lock /\ UNCHANGED <<win, shell>>
  /\ FocusClient(None, fstack, selmon)
  /\ locked' = TRUE /\ cur_lock' = TRUE /\ surfaces' = <<>>

CreateLockSurface(m) ==
  /\ cur_lock /\ LockSurface(m) \notin LockSurfaces(surfaces)
  /\ surfaces' = <<m>> \o surfaces
  /\ keyboard' = IF m = selmon THEN LockSurface(m) ELSE keyboard
  /\ UNCHANGED <<windows, shell, selmon, locked, cur_lock>>

\* Mutant of DestroyLockSurface: the surface found first may be the dying one.
DestroyLockSurfaceFirst(m) ==
  /\ LockSurface(m) \in LockSurfaces(surfaces)
  /\ surfaces' = Without(surfaces, m)
  /\ keyboard' = IF keyboard # LockSurface(m) THEN keyboard ELSE LockSurface(Head(surfaces))
  /\ UNCHANGED <<windows, shell, selmon, locked, cur_lock>>

\* The newest of the other lock surfaces inherits the keyboard.
DestroyLockSurface(m) ==
  /\ LockSurface(m) \in LockSurfaces(surfaces)
  /\ surfaces' = Without(surfaces, m)
  /\ keyboard' = IF keyboard # LockSurface(m) THEN keyboard
                 ELSE IF surfaces' = <<>> THEN Nobody ELSE LockSurface(Head(surfaces'))
  /\ UNCHANGED <<windows, shell, selmon, locked, cur_lock>>

\* destroylock(lock, 1): the focus is cleared, then focusclient() finds no lock and
\* no earlier surface.
UnlockSession ==
  LET c == FocusTop(win, fstack, selmon)
  IN  /\ cur_lock
      /\ locked' = FALSE /\ cur_lock' = FALSE /\ surfaces' = <<>>
      /\ keyboard' = Window(c)
      /\ fstack' = IF c = None THEN fstack ELSE <<c>> \o Without(fstack, c)
      /\ UNCHANGED <<win, shell, selmon>>

\* destroylock(lock, 0): the lock client died, the session stays locked.
DestroySessionLock ==
  /\ cur_lock /\ cur_lock' = FALSE /\ surfaces' = <<>> /\ keyboard' = Nobody
  /\ UNCHANGED <<windows, shell, selmon, locked>>

\* The output layout changed: updatemons() arranges the layers of every output,
\* in an order that plugging decides, before it asks for the focus itself.
UpdateMons ==
  LET tops == {Topmost(layer, order, m) : m \in Outputs} \ {None}
  IN  /\ UNCHANGED <<win, shell, lock>>
      /\ IF LockSurface(selmon) \in LockSurfaces(surfaces)
         THEN keyboard' = LockSurface(selmon) /\ UNCHANGED <<fstack, selmon>>
         ELSE \E old \in IF tops = {} THEN {keyboard} ELSE {LayerSurf(t) : t \in tops} :
                FocusFrom(old, FocusTop(win, fstack, selmon), fstack, selmon)

-----------------------------------------------------------------------------
WindowStep ==
  \/ \E w \in Windows : \/ \E m \in Outputs, shown \in BOOLEAN : MapNotify(w, m, shown)
                        \/ UnmapNotify(w) \/ FocusWindow(w)
  \/ \E m \in Outputs : \/ \E visible \in SUBSET Windows : Retag(m, visible)
                        \/ \E w \in Windows \cup {None} : ButtonPress(m, w)
                        \/ TagMon(m) \/ FocusMon(m)

LayerStep ==
  \E l \in Layers :
    \/ \E m \in Outputs, level \in Levels : CreateLayerSurface(l, m, level)
    \/ \E level \in Levels, interactive, mapped \in BOOLEAN :
         CommitLayerSurface(l, level, interactive, mapped)
    \/ UnmapLayerSurface(l) \/ DestroyLayerSurface(l)

LockStep ==
  \/ LockSession \/ UnlockSession \/ DestroySessionLock
  \/ \E m \in Outputs : CreateLockSurface(m) \/ DestroyLockSurface(m)

Next == WindowStep \/ LayerStep \/ LockStep \/ UpdateMons

Spec == Init /\ [][Next]_vars

-----------------------------------------------------------------------------
\* While the session is locked the keyboard only moves to a lock surface or to
\* nobody, and a lock surface gives it up to nobody only when it was the last.
LockHolds ==
  [][ locked /\ locked' =>
        /\ keyboard' = keyboard \/ keyboard' \in {Nobody} \cup LockSurfaces(surfaces')
        /\ (keyboard.kind = "lock" /\ surfaces' # <<>>) => keyboard'.kind = "lock" ]_vars

\* A mapped surface of the top or overlay layer keeps the keyboard whatever the
\* windows do: only another layer surface or a lock takes it (focusclient(): "If
\* an overlay is focused, don't focus or activate the client").
OverlayHolds ==
  [][ (~locked /\ ~locked' /\ OverlayFocused(keyboard, layer) /\ OverlayFocused(keyboard, layer'))
        => keyboard'.kind = "layer" ]_vars

\* Unlocked, the keyboard is never with something gone or hidden: it is with the
\* top window of an output, which is visible, with a mapped layer surface, or with
\* nobody (focusclient(): "and focus it after the overlay is closed").
FocusReturns ==
  ~locked =>
    \/ keyboard = Nobody
    \/ /\ keyboard.kind = "layer" /\ layer[keyboard.of].mapped
    \/ /\ keyboard.kind = "window"
       /\ keyboard.of = FocusTop(win, fstack, win[keyboard.of].mon)
=============================================================================
