-------------------------------- MODULE PeachWM --------------------------------
(***************************************************************************)
(* The window-management core as one system, and what must be true of it.   *)
(* A run explores the groups of steps of one kind of session together;      *)
(* every step belongs to one of them.                                       *)
(***************************************************************************)
EXTENDS WMWindows, WMBindings

PlugStep == \E m \in Monitors : CreateMon(m)

AnyFullscreenNotify == \E c \in Clients, b \in BOOLEAN : FullscreenNotify(c, b)

(* Outputs come, go and sleep while windows do.                             *)
DesktopNext ==
  \/ WindowStep
  \/ OutputStep
  \/ \E tags \in TagArgs : View(tags)
  \/ \E m \in Monitors : TagMon(m) \/ FocusMon(m)

(* Tags, by keybinding and by IPC.                                          *)
TagsNext == PlugStep \/ WindowStep \/ CommitStep \/ TagStep \/ IpcStep

(* Layouts, floating and fullscreen windows, the pointer.                   *)
LayoutsNext ==
  PlugStep \/ WindowStep \/ AnyFullscreenNotify \/ LayoutStep \/ PointerStep

(* The scratchpad beside tags, layouts and fullscreen windows.              *)
ScratchpadNext ==
  \/ PlugStep \/ WindowStep \/ AnyFullscreenNotify \/ ScratchpadStep
  \/ \E tags \in TagArgs : View(tags)
  \/ \E m \in Monitors : TagMon(m)
  \/ \E l \in LayoutArgs : SetLayout(l)

DesktopSpec == Init /\ [][DesktopNext]_vars
TagsSpec == Init /\ [][TagsNext]_vars
LayoutsSpec == Init /\ [][LayoutsNext]_vars
ScratchpadSpec == Init /\ [][ScratchpadNext]_vars

-----------------------------------------------------------------------------

(* Every field holds a value of its C type, the lists hold each mapped      *)
(* window once and each plugged output once (wl_list, client_arr and        *)
(* fstack_arr in step), and a window not mapped is on no output.            *)
TypeOK ==
  /\ Lists(mons, {m \in Monitors : out[m].power # "gone"})
  /\ selmon \in Monitors \cup {NoMon}
  /\ Lists(clients, {c \in Clients : win[c].status = "mapped"})
  /\ Lists(fstack, ToSet(clients))
  /\ win \in [Clients -> WindowType]
  /\ \A c \in Clients : win[c].status # "mapped" => win[c].mon = NoMon /\ ~win[c].enabled
  /\ focus \in Clients \cup {NoClient}
  /\ grab.client \in ToSet(clients) \cup {NoClient}

(* The focused window is on display: on a lit output its scene node is      *)
(* enabled.                                                                 *)
FocusShown ==
  focus # NoClient /\ Enabled(State, win[focus].mon) => win[focus].enabled

(* After every handler the keyboard focus is on the topmost visible window  *)
(* of the selected output in focus order, and nowhere when it shows none,   *)
(* and that window is on display: input never goes to a hidden, moved or    *)
(* closed window, on any path that moves focus, tags and scene together.    *)
FocusFollows == focus = Sel /\ FocusShown

(* With the pointer about, the selected output may be another, but the      *)
(* focused window is still the topmost visible one of its own output.       *)
TopFocus ==
  focus # NoClient => focus = Focustop(State, win[focus].mon)

(* The same with the pointer about: no step hides the focused window or     *)
(* focuses a hidden one, except the end of a tile drag (swaptiled focuses   *)
(* the grabbed window, which a binding may have hidden during the drag).    *)
FocusStaysShown ==
  [][FocusShown /\ grab.mode # "CurTileDrag" => FocusShown']_vars

(* Between handlers the scene shows exactly the windows of the tags in view *)
(* on every lit output: nothing changes tags, tag sets, outputs or windows  *)
(* without a rearrangement.                                                 *)
SceneShowsTags ==
  \A c \in ToSet(clients) :
    /\ Enabled(State, win[c].mon)
    /\ ~win[c].isscratchpad
    /\ CurLayout(State, win[c].mon) # "monocle"
    => win[c].enabled = VisibleOn(State, c, win[c].mon)

(* While an output is selected no mapped window is left without an output,  *)
(* and no output is selected that is unplugged or out of the layout.        *)
NoOrphans ==
  selmon # NoMon =>
    /\ InLayout(State, selmon)
    /\ \A c \in ToSet(clients) : win[c].mon # NoMon

(* updatemons changes the output layout and is called again for it: from    *)
(* any state a second call changes nothing that the first has not.          *)
UpdateMonsSettles == LET settled == UpdateMons(State) IN UpdateMons(settled) = settled

(* Plugging, unplugging and powering outputs moves windows between outputs  *)
(* and never changes which tags they carry, even when for a while there is  *)
(* no output at all.                                                        *)
OutputsKeepTags ==
  [][mons' # mons \/ (\E m \in Monitors : out'[m].power # out[m].power)
     => \A c \in ToSet(clients) : win'[c].tags = win[c].tags \/ win[c].tags = {}]_vars

(* A window is in the fullscreen layer exactly when it is fullscreen, in    *)
(* the tile layer when it is tiled, and in the floating layer when it       *)
(* floats over a layout that tiles (arrange: "to avoid real floating        *)
(* clients be always on top" in the floating layout).                       *)
LayerFollowsState ==
  \A c \in ToSet(clients) :
    LET w == win[c] IN
    Enabled(State, w.mon) /\ ~w.isscratchpad =>
      /\ w.layer = "LyrFS" <=> w.isfullscreen
      /\ ~w.isfullscreen /\ ~w.isfloating => w.layer = "LyrTile"
      /\ ~w.isfullscreen /\ w.isfloating /\ VisibleOn(State, c, w.mon) =>
           w.layer = IF CurLayout(State, w.mon) = "floating" THEN "LyrTile" ELSE "LyrFloat"

(* On a lit output in the dwindle layout every window in view that tiles    *)
(* has a leaf in the current tag's tree, and while there is one no leaf     *)
(* belongs to a window that is hidden, floating, elsewhere or closed.       *)
LeavesAreTiled ==
  \A m \in Monitors :
    Enabled(State, m) /\ CurLayout(State, m) = "dwindle" /\ Tileable(State, m) # {} =>
      LET leaves == out[m].dwindle_tree[CurrentTag(State, m)]
      IN  /\ Tileable(State, m) \subseteq leaves
          /\ \A c \in leaves : VisibleOn(State, c, m) /\ ~win[c].isfloating

(* In the monocle layout a lit output shows at most one tiled window (the   *)
(* focused one if it is tiled, by FocusShown).                              *)
MonocleShowsOne ==
  \A m \in Monitors :
    Enabled(State, m) /\ CurLayout(State, m) = "monocle" =>
      \A c, d \in Tileable(State, m) : win[c].enabled /\ win[d].enabled => c = d

(* A hidden scratchpad shows none of its windows.                           *)
HiddenScratchpadIsHidden ==
  \A c \in ToSet(clients) :
    win[c].isscratchpad /\ Enabled(State, win[c].mon)
    /\ ~out[win[c].mon].scratchpad_visible => ~win[c].enabled

(* unmapnotify's comment, "Clear any stale scratchpad references to this    *)
(* client": what an output's scratchpad remembers (the window it shows and  *)
(* the window to refocus) has not closed.  With two outputs the code lets   *)
(* it: only the output the window is on by then forgets it.                 *)
ScratchpadRefsMapped ==
  \A m \in Monitors :
    \A c \in {out[m].scratchpad_current, out[m].scratchpad_prev_focus} :
      c # NoClient => Mapped(State, c)
=============================================================================
