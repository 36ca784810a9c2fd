-------------------------------- MODULE WMCore --------------------------------
(***************************************************************************)
(* The state of PeachWM's window-management core and the functions that all *)
(* its handlers share (src/src/peachwm.c, layout.c): managed toplevel       *)
(* windows, outputs, tags, the focus stack, keyboard focus and the          *)
(* scene-graph state of each window.                                        *)
(*                                                                          *)
(* The compositor is one thread: a handler runs to completion before the    *)
(* next event is dispatched, so one action of the modules that extend this  *)
(* one is one whole handler or keybinding.  Handlers call each other        *)
(* (setmon arranges and refocuses, closing an output moves every window     *)
(* through setmon, ...).  The shared functions are therefore operators from *)
(* a state record to a state record, named after the C functions, and an    *)
(* action installs the record that its handler's calls return.              *)
(*                                                                          *)
(* Left out here: geometry, session lock, layer surfaces and unmanaged X11  *)
(* windows (focusclient never returns early on their account).              *)
(***************************************************************************)
EXTENDS Integers, Sequences, FiniteSets, WlLists

CONSTANTS
  Clients,      (* identities of toplevel windows (struct Client)           *)
  Monitors,     (* identities of outputs (struct Monitor)                   *)
  Tags,         (* 1..TAGCOUNT, cut down                                    *)
  NoClient, NoMon,
  ParentOf,     (* [Clients -> Clients \cup {NoClient}]: the xdg parent     *)
  Rules,        (* what window rules may say of a window that maps          *)
  TagArgs,      (* the tag masks that bindings and IPC requests carry       *)
  LayoutArgs,   (* the layouts that setlayout may select                    *)
  DefaultLayout,(* the layout of the monitor rule in the configuration      *)
  WorkspaceLayouts (* [some Tags -> Layouts]: those configured per tag      *)

Layouts == {"floating", "dwindle", "master", "monocle"}

(* What applyrules finds for a window: `match` is false when no rule does,  *)
(* and `floating` then says that the window is of a floating type; `mon` is *)
(* an index into the list of outputs, 0 when no rule names one.             *)
Rule == [match : BOOLEAN, floating : BOOLEAN, fullscreen : BOOLEAN,
         tags : SUBSET Tags, mon : Nat]

ASSUME ConstantsAssumption ==
  /\ Tags \subseteq Nat \ {0} /\ 1 \in Tags /\ IsFiniteSet(Tags)
  /\ NoClient \notin Clients /\ NoMon \notin Monitors
  /\ ParentOf \in [Clients -> Clients \cup {NoClient}]
  /\ \A r \in Rules : r \in Rule
  /\ TagArgs \subseteq SUBSET Tags
  /\ LayoutArgs \cup {DefaultLayout} \subseteq Layouts
  /\ DOMAIN WorkspaceLayouts \subseteq Tags
  /\ \A t \in DOMAIN WorkspaceLayouts : WorkspaceLayouts[t] \in Layouts

VARIABLES
  mons,      (* the list of outputs, newest first                           *)
  out,       (* the fields of each struct Monitor and its MonitorCold       *)
  selmon,    (* the selected output                                         *)
  clients,   (* mapped windows, newest first (clients, client_arr)          *)
  fstack,    (* mapped windows in focus order (fstack, fstack_arr)          *)
  win,       (* the fields of each struct Client                            *)
  focus,     (* the window whose surface has the seat's keyboard focus      *)
  grab       (* cursor_mode (CurPressed counts as CurNormal) and grabc      *)

vars == <<mons, out, selmon, clients, fstack, win, focus, grab>>

State == [mons |-> mons, out |-> out, selmon |-> selmon, clients |-> clients,
          fstack |-> fstack, win |-> win, focus |-> focus, grab |-> grab]

\* `next` is bound so that TLC computes the record once, not once per variable.
Become(s) ==
  \E next \in {s} :
    /\ mons' = next.mons       /\ out' = next.out         /\ selmon' = next.selmon
    /\ clients' = next.clients /\ fstack' = next.fstack   /\ win' = next.win
    /\ focus' = next.focus     /\ grab' = next.grab

(* The types of the fields of a struct Client and a struct Monitor.         *)
WindowType ==
  [status : {"none", "unmapped", "mapped"}, mon : Monitors \cup {NoMon},
   tags : SUBSET Tags, isfloating : BOOLEAN, isfullscreen : BOOLEAN,
   isscratchpad : BOOLEAN, enabled : BOOLEAN,
   layer : {"none", "LyrTile", "LyrFloat", "LyrFS", "LyrScratch"}]

MonitorType ==
  [power : {"on", "asleep", "off", "parked", "gone"},
   tagset : [1..2 -> SUBSET Tags], seltags : 1..2,
   lt : [Tags -> [1..2 -> Layouts]], sellt : [Tags -> 1..2],
   dwindle_tree : [Tags -> SUBSET Clients], scratchpad_visible : BOOLEAN,
   scratchpad_prev_focus : Clients \cup {NoClient},
   scratchpad_current : Clients \cup {NoClient}]

CursorModes == {"CurNormal", "CurMove", "CurResize", "CurTileDrag"}

StateType ==
  [mons : Seq(Monitors), out : [Monitors -> MonitorType], selmon : Monitors \cup {NoMon},
   clients : Seq(Clients), fstack : Seq(Clients), win : [Clients -> WindowType],
   focus : Clients \cup {NoClient},
   grab : [mode : CursorModes, client : Clients \cup {NoClient}]]

(* A zeroed struct Client: no such object, or one just allocated.           *)
FreshWindow(status) ==
  [status |-> status, mon |-> NoMon, tags |-> {}, isfloating |-> FALSE,
   isfullscreen |-> FALSE, isscratchpad |-> FALSE, layer |-> "none",
   enabled |-> FALSE]

(* The slots createmon fills for a tag: the layout of the monitor rule, or  *)
(* the one configured for the tag, and layouts[1], or layouts[0] when the   *)
(* rule has layouts[1].                                                     *)
FirstLayout(t) ==
  IF t \in DOMAIN WorkspaceLayouts THEN WorkspaceLayouts[t] ELSE DefaultLayout

AltLayout == IF DefaultLayout = "dwindle" THEN "floating" ELSE "dwindle"

(* A struct Monitor after createmon.  `power` stands for wlr_output->enabled, *)
(* asleep and membership of the output layout: "on"; "asleep" (disabled by  *)
(* the power manager, still in the layout); "off" (disabled by the output   *)
(* manager); "parked" (off, then also put to sleep); "gone" (unplugged).    *)
FreshMonitor(power) ==
  [power |-> power, tagset |-> <<{1}, {1}>>, seltags |-> 1,
   lt |-> [t \in Tags |-> <<FirstLayout(t), AltLayout>>],
   sellt |-> [t \in Tags |-> 1],
   dwindle_tree |-> [t \in Tags |-> {}],
   scratchpad_visible |-> FALSE, scratchpad_prev_focus |-> NoClient,
   scratchpad_current |-> NoClient]

NoGrab == [mode |-> "CurNormal", client |-> NoClient]

(* run() has opened no output and accepted no window.                       *)
Init ==
  /\ mons = <<>>
  /\ out = [m \in Monitors |-> FreshMonitor("gone")]
  /\ selmon = NoMon
  /\ clients = <<>>
  /\ fstack = <<>>
  /\ win = [c \in Clients |-> FreshWindow("none")]
  /\ focus = NoClient
  /\ grab = NoGrab

-----------------------------------------------------------------------------
(* Queries.                                                                 *)

CurTags(s, m) == s.out[m].tagset[s.out[m].seltags]

Shows(s, m, w) ==
  /\ m # NoMon
  /\ w.mon = m
  /\ IF w.isscratchpad THEN s.out[m].scratchpad_visible
                       ELSE w.tags \cap CurTags(s, m) # {}

VisibleOn(s, c, m) == Shows(s, m, s.win[c])

CurrentTag(s, m) == IF CurTags(s, m) = {} THEN 1 ELSE Min(CurTags(s, m))

LayoutOf(monitor, t) == monitor.lt[t][monitor.sellt[t]]

CurLayout(s, m) == LayoutOf(s.out[m], CurrentTag(s, m))

Focustop(s, m) == FirstOf(s.fstack, {c \in Clients : VisibleOn(s, c, m)}, NoClient)

(* The windows a layout places.                                             *)
Tileable(s, m) ==
  {c \in ToSet(s.clients) :
     LET w == s.win[c] IN ~w.isfloating /\ ~w.isfullscreen /\ Shows(s, m, w)}

Scratchpads(s, m) ==
  {c \in ToSet(s.clients) : s.win[c].isscratchpad /\ s.win[c].mon = m}

Mapped(s, c) == c # NoClient /\ s.win[c].status = "mapped"

Parent(s, c) == IF Mapped(s, ParentOf[c]) THEN ParentOf[c] ELSE NoClient

Enabled(s, m) == m # NoMon /\ s.out[m].power = "on"

InLayout(s, m) == m # NoMon /\ s.out[m].power \in {"on", "asleep"}

(* xytomon() at some point: an output of the layout, or none.               *)
Somewhere(s) == {NoMon} \cup {m \in Monitors : InLayout(s, m)}

-----------------------------------------------------------------------------
(* Layout.                                                                  *)

SetEnabled(s, C, b) ==
  [s EXCEPT !.win = [c \in Clients |->
                       IF c \in C THEN [@[c] EXCEPT !.enabled = b] ELSE @[c]]]

(* Mutant of Relayout: leaves of floating windows stay.                     *)
RelayoutKeepFloating(leaves, s, m) ==
  {c \in leaves : c \in ToSet(s.clients) /\ VisibleOn(s, c, m)} \cup Tileable(s, m)

(* Leaves of windows no longer tiled here go and missing windows get one.   *)
(* The tree is reduced to its leaves (its shape is module DwindleTree).     *)
Relayout(leaves, s, m) ==
  {c \in leaves : /\ c \in ToSet(s.clients)
                  /\ VisibleOn(s, c, m)
                  /\ ~s.win[c].isfloating} \cup Tileable(s, m)

(* dwindle() and monocle() return at once when there is nothing to tile.    *)
Dwindle(s, m) ==
  IF Tileable(s, m) = {} THEN s
  ELSE [s EXCEPT !.out[m].dwindle_tree[CurrentTag(s, m)] = Relayout(@, s, m)]

(* Mutants of Monocle: the others stay shown; the first is shown.           *)
MonocleNoHide(s, m) ==
  IF Tileable(s, m) = {} THEN s
  ELSE SetEnabled(s, {Focustop(s, m)} \ {NoClient}, TRUE)

MonocleShowFirst(s, m) ==
  IF Tileable(s, m) = {} THEN s
  ELSE SetEnabled(SetEnabled(s, Tileable(s, m), FALSE),
                  {FirstOf(s.clients, Tileable(s, m), NoClient)}, TRUE)

Monocle(s, m) ==
  IF Tileable(s, m) = {} THEN s
  ELSE SetEnabled(SetEnabled(s, Tileable(s, m), FALSE),
                  {Focustop(s, m)} \ {NoClient}, TRUE)

(* The scene layer arrange() leaves a window in.                            *)
ArrangedLayer(w, layout) ==
  CASE w.layer = "LyrFS" -> "LyrFS"
    [] w.layer # "LyrFS" /\ w.isscratchpad -> "LyrScratch"
    [] w.layer # "LyrFS" /\ ~w.isscratchpad /\ w.isfloating ->
         IF layout = "floating" THEN "LyrTile" ELSE "LyrFloat"
    [] OTHER -> w.layer

ShowTagged(s, m) ==
  [s EXCEPT !.win =
     [c \in Clients |->
        LET w == s.win[c]
        IN  IF c \in ToSet(s.clients) /\ w.mon = m
            THEN [w EXCEPT !.enabled = Shows(s, m, w),
                           !.layer = ArrangedLayer(w, CurLayout(s, m))]
            ELSE w]]

RunLayout(s, m, layout) ==
  CASE layout = "dwindle" -> Dwindle(s, m)
    [] layout = "monocle" -> Monocle(s, m)
    [] OTHER -> s

Arrange(s, m) ==
  IF ~Enabled(s, m) THEN s
  ELSE RunLayout(ShowTagged(s, m), m, CurLayout(s, m))

-----------------------------------------------------------------------------
(* Focus, and a window's place on outputs and layers.                       *)

FocusClient(s, c) ==
  IF c = NoClient THEN [s EXCEPT !.focus = NoClient]
  ELSE IF c = s.focus THEN s
  ELSE [s EXCEPT !.fstack = <<c>> \o Without(s.fstack, c),
                 !.selmon = s.win[c].mon,
                 !.focus = c]

FocusTopOf(s, m) == FocusClient(s, Focustop(s, m))

FocusSelected(s) == FocusTopOf(s, s.selmon)

(* dwindle_remove_client and master_remove_client: only the trees of the    *)
(* window's present output are searched.                                    *)
RemoveFromTrees(s, c) ==
  IF s.win[c].mon = NoMon THEN s
  ELSE [s EXCEPT !.out[s.win[c].mon].dwindle_tree = [t \in Tags |-> @[t] \ {c}]]

SetLayer(s, c, layer) == [s EXCEPT !.win[c].layer = layer]

(* Mutant of FullscreenLayer: leaving fullscreen leaves the layer.          *)
FullscreenLayerSticky(w, fullscreen) == IF fullscreen THEN "LyrFS" ELSE w.layer

FullscreenLayer(w, fullscreen) ==
  CASE w.isscratchpad -> "LyrScratch"
    [] ~w.isscratchpad /\ fullscreen -> "LyrFS"
    [] OTHER -> IF w.isfloating THEN "LyrFloat" ELSE "LyrTile"

SetFullscreen(s, c, fullscreen) ==
  IF s.win[c].mon = NoMon \/ s.win[c].status # "mapped"
  THEN [s EXCEPT !.win[c].isfullscreen = fullscreen]
  ELSE Arrange([s EXCEPT !.win[c].isfullscreen = fullscreen,
                         !.win[c].layer = FullscreenLayer(s.win[c], fullscreen)],
               s.win[c].mon)

(* `above`: the window or its parent is fullscreen.                         *)
FloatingLayer(w, above, floating) ==
  CASE w.isscratchpad -> "LyrScratch"
    [] ~w.isscratchpad /\ above -> "LyrFS"
    [] OTHER -> IF floating THEN "LyrFloat" ELSE "LyrTile"

UnderFullscreen(s, c) ==
  \/ s.win[c].isfullscreen
  \/ Parent(s, c) # NoClient /\ s.win[Parent(s, c)].isfullscreen

SetFloating(s, c, floating) ==
  IF \/ s.win[c].mon = NoMon
     \/ s.win[c].status # "mapped"
     \/ CurLayout(s, s.win[c].mon) = "floating"
  THEN [s EXCEPT !.win[c].isfloating = floating]
  ELSE Arrange([s EXCEPT !.win[c].isfloating = floating,
                         !.win[c].layer =
                   FloatingLayer(s.win[c], UnderFullscreen(s, c), floating)],
               s.win[c].mon)

(* setmon(): the output left is rearranged without the window, the output   *)
(* entered gives it tags and rearranges, and focus follows.                 *)
LeaveMon(s, old) == IF old = NoMon THEN s ELSE Arrange(s, old)

EnterMon(s, c, m, newtags) ==
  IF m = NoMon THEN s
  ELSE SetFloating(
         SetFullscreen(
           [s EXCEPT !.win[c].tags = IF newtags # {} THEN newtags ELSE CurTags(s, m)],
           c, s.win[c].isfullscreen),
         c, s.win[c].isfloating)

(* Mutant of SetMon: focus does not follow.                                 *)
SetMonNoRefocus(s, c, m, newtags) ==
  IF s.win[c].mon = m THEN s
  ELSE EnterMon(LeaveMon([s EXCEPT !.win[c].mon = m], s.win[c].mon), c, m, newtags)

SetMon(s, c, m, newtags) ==
  IF s.win[c].mon = m THEN s
  ELSE FocusSelected(
         EnterMon(LeaveMon([s EXCEPT !.win[c].mon = m], s.win[c].mon),
                  c, m, newtags))

Ruled(s, c, r) ==
  [s EXCEPT !.win[c].isfloating = r.floating \/ (~r.match /\ @),
            !.win[c].isfullscreen = IF r.match THEN r.fullscreen ELSE @]

ApplyRules(s, c, r) ==
  SetMon(Ruled(s, c, r), c,
         IF r.match /\ r.mon \in DOMAIN s.mons THEN s.mons[r.mon] ELSE s.selmon,
         IF r.match THEN r.tags ELSE {})

(* Selecting a layout other than the current one takes the other slot.      *)
SelectLayout(s, m, t, k, layout) ==
  [s EXCEPT !.out[m].sellt[t] = k, !.out[m].lt[t][k] = layout]

WithLayout(s, m, layout) ==
  SelectLayout(s, m, CurrentTag(s, m),
    IF CurLayout(s, m) = layout THEN s.out[m].sellt[CurrentTag(s, m)]
                                ELSE 3 - s.out[m].sellt[CurrentTag(s, m)],
    layout)
=============================================================================
