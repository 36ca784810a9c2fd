------------------------------ MODULE WMBindings ------------------------------
(***************************************************************************)
(* What the user and IPC clients do to the core: keybindings on tags,       *)
(* outputs, layouts and the focused window, the pointer, and the requests   *)
(* of the zpeachwm_ipc protocol (src/src/peachwm.c, ipc.c).                 *)
(***************************************************************************)
EXTENDS WMScratchpad

(* Mutant of Refresh: nothing is rearranged.                                *)
RefreshNoArrange(s, m) == FocusTopOf(s, m)

(* Each ends the same way: focus follows, then the output is rearranged.    *)
Refresh(s, m) == Arrange(FocusTopOf(s, m), m)

-----------------------------------------------------------------------------
(* Tags and outputs.  Early returns are guards.                             *)

SetTagset(s, m, k, tags) == [s EXCEPT !.out[m].seltags = k, !.out[m].tagset[k] = tags]

View(tags) ==
  /\ selmon # NoMon
  /\ tags # CurTags(State, selmon)
  /\ LET k == 3 - out[selmon].seltags
     IN  Become(Refresh(
           SetTagset(State, selmon, k,
                     IF tags = {} THEN out[selmon].tagset[k] ELSE tags), selmon))

ToggleView(tags) ==
  /\ selmon # NoMon
  /\ LET new == SymDiff(CurTags(State, selmon), tags)
     IN  /\ new # {}
         /\ Become(Refresh(SetTagset(State, selmon, out[selmon].seltags, new), selmon))

(* Mutants of Retag: no refocus; no rearrangement.                          *)
RetagNoRefocus(new) ==
  /\ Sel # NoClient
  /\ new # {}
  /\ ~win[Sel].isscratchpad
  /\ Become(Arrange([RemoveFromTrees(State, Sel) EXCEPT !.win[Sel].tags = new], selmon))

RetagNoArrange(new) ==
  /\ Sel # NoClient
  /\ new # {}
  /\ ~win[Sel].isscratchpad
  /\ Become(FocusTopOf([RemoveFromTrees(State, Sel) EXCEPT !.win[Sel].tags = new], selmon))

(* tag() and toggletag(): the window leaves its output's trees first.       *)
Retag(new) ==
  /\ Sel # NoClient
  /\ new # {}
  /\ ~win[Sel].isscratchpad
  /\ Become(Refresh([RemoveFromTrees(State, Sel) EXCEPT !.win[Sel].tags = new], selmon))

Tag(tags) == Retag(tags)

ToggleTag(tags) == Sel # NoClient /\ Retag(SymDiff(win[Sel].tags, tags))

(* dirtomon() returns an output of the layout, or selmon itself.            *)
TagMon(m) ==
  /\ Sel # NoClient
  /\ InLayout(State, m)
  /\ m # selmon
  /\ Become(SetMon(State, Sel, m, {}))

(* focusmon() steps in one direction until it meets an enabled output; from *)
(* one it comes back to it.  It dereferences selmon: with none selected     *)
(* there is no step.                                                        *)
FocusMon(m) ==
  /\ selmon # NoMon
  /\ InLayout(State, m)
  /\ Enabled(State, m) \/ ~Enabled(State, selmon)
  /\ Become(FocusTopOf([State EXCEPT !.selmon = m], m))

TagStep ==
  \/ \E tags \in TagArgs : View(tags) \/ ToggleView(tags) \/ Tag(tags) \/ ToggleTag(tags)
  \/ \E m \in Monitors : TagMon(m) \/ FocusMon(m)

-----------------------------------------------------------------------------
(* Layouts and the focused window.                                          *)

ToggleFloating ==
  /\ Sel # NoClient
  /\ ~win[Sel].isfullscreen /\ ~win[Sel].isscratchpad
  /\ Become(SetFloating(State, Sel, ~win[Sel].isfloating))

ToggleFullscreen ==
  /\ Sel # NoClient
  /\ Become(SetFullscreen(State, Sel, ~win[Sel].isfullscreen))

(* Arriving at the floating layout floats every tiled window in view.       *)
Untile(s, m) ==
  IF CurLayout(s, m) # "floating" THEN s
  ELSE [s EXCEPT !.win = [c \in Clients |->
                            IF c \in Tileable(s, m)
                            THEN [@[c] EXCEPT !.isfloating = TRUE] ELSE @[c]]]

SetLayout(layout) ==
  /\ selmon # NoMon
  /\ Become(Arrange(Untile(WithLayout(State, selmon, layout), selmon), selmon))

(* setlayout() without an index takes the other slot as it is.              *)
ToggleLayout ==
  /\ selmon # NoMon
  /\ Become(Arrange(Untile([State EXCEPT
       !.out[selmon].sellt[CurrentTag(State, selmon)] = 3 - @], selmon), selmon))

(* focusdir().  It does nothing for a fullscreen window whose client has no *)
(* other xdg surface; any client may have one (client_has_children).        *)
FocusDirMonocle(forward) ==
  /\ Sel # NoClient
  /\ ~CyclesScratchpad
  /\ CurLayout(State, selmon) = "monocle"
  /\ Tileable(State, selmon) # {}
  /\ Become(Arrange(FocusClient(State,
                       Cycle(clients, Tileable(State, selmon), Sel, forward)), selmon))

(* Geometry decides, so any other visible window may be the nearest one in  *)
(* the direction asked for.                                                 *)
FocusDirSpatial(c) ==
  /\ Sel # NoClient
  /\ ~CyclesScratchpad
  /\ CurLayout(State, selmon) # "monocle"
  /\ c \in ToSet(clients) \ {Sel}
  /\ VisibleOn(State, c, selmon)
  /\ Become(FocusClient(State, c))

(* swapdir(): tiled windows trade leaves (see DwindleTree) or geometry, or  *)
(* the master moves, which rearranges the output; focus goes to Sel.        *)
SwapDir(rearranged) ==
  /\ Sel \in Tileable(State, selmon)
  /\ Tileable(State, selmon) # {Sel}
  /\ rearranged => CurLayout(State, selmon) = "master"
  /\ Become(FocusClient(IF rearranged THEN Arrange(State, selmon) ELSE State, Sel))

(* It dereferences selmon: with none selected there is no step.             *)
ToggleGaps == selmon # NoMon /\ Become(Arrange(State, selmon))

LayoutStep ==
  \/ \E rearranged \in BOOLEAN : SwapDir(rearranged)
  \/ ToggleGaps
  \/ ToggleFloating
  \/ ToggleFullscreen
  \/ \E l \in LayoutArgs : SetLayout(l)
  \/ ToggleLayout
  \/ \E forward \in BOOLEAN : FocusDirMonocle(forward)
  \/ \E c \in Clients : FocusDirSpatial(c)

-----------------------------------------------------------------------------
(* The pointer, with sloppyfocus: a press or a motion selects the output    *)
(* under the pointer and focuses the window whose node is hit.              *)

Hit == {NoClient} \cup {c \in Clients : win[c].enabled}

(* The cursor is confined to the outputs of the layout while one is lit.    *)
CursorOn ==
  IF \E m \in Monitors : Enabled(State, m) THEN Somewhere(State) \ {NoMon}
                                          ELSE Somewhere(State)

Under(m, c) == m \in CursorOn /\ c \in Hit

PointTo(m, c) ==
  IF c = NoClient THEN [State EXCEPT !.selmon = m]
  ELSE FocusClient([State EXCEPT !.selmon = m], c)

(* A press ends whatever drag was on: it overwrites cursor_mode.            *)
ButtonPress(m, c) ==
  /\ Under(m, c)
  /\ Become([PointTo(m, c) EXCEPT !.grab = NoGrab])

(* motionnotify(): while a window is moved or resized no focus changes.     *)
PointerMotion(m, c) ==
  /\ Under(m, c)
  /\ grab.mode \in {"CurMove", "CurResize"} => c = NoClient
  /\ Become(PointTo(m, c))

TileDrags(mode, c) ==
  /\ mode = "CurMove"
  /\ ~win[c].isfloating
  /\ CurLayout(State, win[c].mon) # "floating"

MoveResize(mode, c) ==
  /\ grab = NoGrab
  /\ win[c].enabled
  /\ ~win[c].isfullscreen
  /\ Become(IF TileDrags(mode, c)
            THEN [State EXCEPT !.grab = [mode |-> "CurTileDrag", client |-> c]]
            ELSE [SetFloating(State, c, TRUE) EXCEPT
                    !.grab = [mode |-> mode, client |-> c]])

(* buttonpress() on release: a moved window belongs to the output it is     *)
(* dropped on; a tile drag swaps the grabbed window with the tiled one      *)
(* under the pointer (the same leaves in another order) and focuses it.     *)
DropWindow(m) ==
  /\ grab.mode \in {"CurMove", "CurResize"}
  /\ m \in CursorOn
  /\ Become([SetMon([State EXCEPT !.selmon = m], grab.client, m, {})
             EXCEPT !.grab = NoGrab])

SwapsWith(target) ==
  /\ target \notin {NoClient, grab.client}
  /\ ~win[target].isfloating /\ ~win[target].isfullscreen
  /\ CurLayout(State, win[target].mon) # "floating"

DropTile(target) ==
  /\ grab.mode = "CurTileDrag"
  /\ target \in Hit
  /\ Become([IF SwapsWith(target) THEN FocusClient(State, grab.client) ELSE State
             EXCEPT !.grab = NoGrab])

PointerStep ==
  \/ \E m \in Monitors \cup {NoMon}, c \in Clients \cup {NoClient} :
       ButtonPress(m, c) \/ PointerMotion(m, c)
  \/ \E mode \in {"CurMove", "CurResize"}, c \in Clients : MoveResize(mode, c)
  \/ \E m \in Monitors \cup {NoMon} : DropWindow(m)
  \/ \E c \in Clients \cup {NoClient} : DropTile(c)

-----------------------------------------------------------------------------
(* Requests of the zpeachwm_ipc protocol, on any output.                    *)

IpcSetTags(m, tags, toggle) ==
  /\ out[m].power # "gone"
  /\ Become(Refresh(
       SetTagset(State, m,
                 IF toggle THEN 3 - out[m].seltags ELSE out[m].seltags, tags), m))

IpcSetClientTags(m, and, xor) ==
  LET top == Focustop(State, m)
      new == SymDiff(win[top].tags \cap and, xor)
  IN  /\ top # NoClient
      /\ new # {}
      /\ Become(Refresh([State EXCEPT !.win[top].tags = new], m))

IpcSetLayout(m, layout) ==
  /\ out[m].power # "gone"
  /\ Become(Arrange(WithLayout(State, m, layout), m))

IpcStep ==
  \E m \in Monitors :
    \/ \E tags \in TagArgs, toggle \in BOOLEAN : IpcSetTags(m, tags, toggle)
    \/ \E and, xor \in TagArgs : IpcSetClientTags(m, and, xor)
    \/ \E l \in LayoutArgs : IpcSetLayout(m, l)
=============================================================================
