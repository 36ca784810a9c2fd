------------------------------ MODULE WMWindows ------------------------------
(***************************************************************************)
(* Windows and outputs coming and going: the listeners of src/src/peachwm.c *)
(* on xdg toplevels and on outputs.                                         *)
(***************************************************************************)
EXTENDS WMScratchpad

(* closemon(): the do-while looks only at the head of the list of outputs.  *)
NextSelmon(s, m) ==
  CASE s.mons = <<>> -> NoMon
    [] s.mons # <<>> /\ m # s.selmon -> s.selmon
    [] OTHER -> IF Enabled(s, Head(s.mons)) THEN Head(s.mons) ELSE NoMon

(* Mutant of Evacuate: windows take the tags in view where they arrive.     *)
EvacuateRetag(s, m) ==
  Along(s.clients, s,
        LAMBDA acc, c : IF acc.win[c].mon = m THEN SetMon(acc, c, acc.selmon, {}) ELSE acc)

Rehome(s, c, m) ==
  IF s.win[c].mon = m THEN SetMon(s, c, s.selmon, s.win[c].tags) ELSE s

Evacuate(s, m) == Along(s.clients, s, LAMBDA acc, c : Rehome(acc, c, m))

CloseMon(s, m) == FocusSelected(Evacuate([s EXCEPT !.selmon = NextSelmon(s, m)], m))

(* updatemons(): outputs switched off are closed, the others rearranged and *)
(* one of them selected if none is, and windows without an output get one.  *)
CloseIfOff(s, m) == IF s.out[m].power = "off" THEN CloseMon(s, m) ELSE s

CloseDisabled(s) == Along(s.mons, s, CloseIfOff)

SelectIfNone(s, m) == IF s.selmon = NoMon THEN [s EXCEPT !.selmon = m] ELSE s

ArrangeIfOn(s, m) == IF Enabled(s, m) THEN SelectIfNone(Arrange(s, m), m) ELSE s

ArrangeEnabled(s) == Along(s.mons, s, ArrangeIfOn)

Adopt(s) == Evacuate(s, NoMon)

(* Mutant of AdoptIfSelected: windows without an output are forgotten.      *)
AdoptNone(s) == IF Enabled(s, s.selmon) THEN FocusSelected(s) ELSE s

AdoptIfSelected(s) ==
  IF Enabled(s, s.selmon) THEN FocusSelected(Adopt(s)) ELSE s

(* Mutant of UpdateMons: windows are adopted before an output is selected.  *)
UpdateMonsAdoptEarly(s) == ArrangeEnabled(AdoptIfSelected(CloseDisabled(s)))

UpdateMons(s) == AdoptIfSelected(ArrangeEnabled(CloseDisabled(s)))

CreateMon(m) ==
  /\ out[m].power = "gone"
  /\ Become(UpdateMons([State EXCEPT !.out[m] = FreshMonitor("on"),
                                     !.mons = <<m>> \o mons]))

(* cleanupmon(): the output leaves the list first; removing it from the     *)
(* layout runs updatemons() before closemon() has moved its windows.        *)
LayoutRemove(s, m) == IF InLayout(s, m) THEN UpdateMons(s) ELSE s

CleanupMon(m) ==
  /\ out[m].power # "gone"
  /\ Become([CloseMon(LayoutRemove([State EXCEPT !.mons = Without(mons, m)], m), m)
             EXCEPT !.out[m] = FreshMonitor("gone")])

(* Requests end in updatemons().  The output manager enables the outputs On *)
(* and disables the others; applying or testing, it clears `asleep`.        *)
Repower(power) ==
  Become(UpdateMons([State EXCEPT !.out =
    [m \in Monitors |-> IF m \in ToSet(mons) THEN [out[m] EXCEPT !.power = power[m]]
                        ELSE out[m]]]))

OutputMgrApply(On) ==
  /\ On \subseteq ToSet(mons)
  /\ Repower([m \in Monitors |-> IF m \in On THEN "on" ELSE "off"])

OutputMgrTest ==
  Repower([m \in Monitors |-> IF out[m].power = "on" THEN "on" ELSE "off"])

PowerMgrSetMode(m, on) ==
  /\ out[m].power # "gone"
  /\ Repower([n \in Monitors |->
       CASE n # m -> out[n].power
         [] n = m /\ on -> "on"
         [] OTHER -> IF InLayout(State, n) THEN "asleep" ELSE "parked"])

OutputStep ==
  \/ \E m \in Monitors : CreateMon(m) \/ CleanupMon(m)
  \/ \E On \in SUBSET Monitors : OutputMgrApply(On)
  \/ OutputMgrTest
  \/ \E m \in Monitors, on \in BOOLEAN : PowerMgrSetMode(m, on)

-----------------------------------------------------------------------------
(* createnotify(), destroynotify().                                         *)
CreateNotify(c) ==
  /\ win[c].status = "none"
  /\ Become([State EXCEPT !.win[c] = FreshWindow("unmapped")])

DestroyNotify(c) ==
  /\ win[c].status = "unmapped"
  /\ Become([State EXCEPT !.win[c] = FreshWindow("none")])

(* commitnotify(), initial commit: rules are tried to find the output whose *)
(* scale to send, and the output is taken back until the window maps.       *)
InitialCommit(c, r) ==
  /\ win[c].status = "unmapped"
  /\ Become(SetMon(ApplyRules(State, c, r), c, NoMon, {}))

(* A dialog joins its parent; any other window is placed by the rules.      *)
Place(s, c, p, r) ==
  IF p = NoClient THEN ApplyRules(s, c, r)
  ELSE SetMon([s EXCEPT !.win[c].isfloating = TRUE], c, s.win[p].mon, s.win[p].tags)

(* The other fullscreen windows on output m that share tags with c stop     *)
(* being so; m is the one under c's position when c has none.               *)
UnsetOne(s, w, c, p, m) ==
  IF /\ w \notin {c, p} /\ s.win[w].isfullscreen
     /\ s.win[w].mon = m
     /\ s.win[w].tags \cap s.win[c].tags # {}
  THEN SetFullscreen(s, w, FALSE) ELSE s

UnsetFullscreen(s, c, p, m) ==
  Along(s.clients, s, LAMBDA acc, w : UnsetOne(acc, w, c, p, m))

PutUp(c, p, r) ==
  AutoScratch(
    Place([State EXCEPT !.win[c].status = "mapped", !.win[c].layer = "LyrTile",
                        !.clients = <<c>> \o clients, !.fstack = <<c>> \o fstack],
          c, p, r),
    c)

MapNotify(c, r) ==
  /\ win[c].status = "unmapped"
  /\ \E s \in {PutUp(c, Parent(State, c), r)} :
     \E m \in (IF s.win[c].mon = NoMon THEN Somewhere(s) ELSE {s.win[c].mon}) :
       Become(UnsetFullscreen(s, c, Parent(State, c), m))

(* Mutants of Unlink: the focus stack or the drag keeps the window.         *)
UnlinkKeepFstack(s, c) ==
  [RemoveFromTrees(s, c) EXCEPT
     !.clients = Without(@, c), !.grab = IF @.client = c THEN NoGrab ELSE @]

UnlinkKeepGrab(s, c) ==
  [RemoveFromTrees(s, c) EXCEPT
     !.clients = Without(@, c), !.fstack = Without(@, c)]

Unlink(s, c) ==
  [RemoveFromTrees(s, c) EXCEPT
     !.clients = Without(@, c), !.fstack = Without(@, c),
     !.grab = IF @.client = c THEN NoGrab ELSE @]

(* "Clear any stale scratchpad references to this client": those of the     *)
(* output the window is on.                                                 *)
ClearRefs(s, c, m) ==
  IF m = NoMon THEN s
  ELSE [s EXCEPT !.out[m].scratchpad_current = IF @ = c THEN NoClient ELSE @,
                 !.out[m].scratchpad_prev_focus = IF @ = c THEN NoClient ELSE @]

(* The last part of unmapnotify(), for a window of an open scratchpad and   *)
(* for any other.                                                           *)
LeaveScratchpad(s, c, m) ==
  Arrange([FocusNextScratchpad(s, s.selmon, FirstOf(s.fstack, Scratchpads(s, m), NoClient))
           EXCEPT !.win[c].mon = NoMon], m)

Detach(s, c, m) ==
  IF m # NoMon /\ s.win[c].isscratchpad /\ s.out[m].scratchpad_visible
  THEN LeaveScratchpad(s, c, m)
  ELSE SetMon(s, c, NoMon, {})

UnmapNotify(c) ==
  /\ win[c].status = "mapped"
  /\ Become([Detach(ClearRefs(Unlink(State, c), c, win[c].mon), c, win[c].mon)
             EXCEPT !.win[c].status = "unmapped", !.win[c].layer = "none",
                    !.win[c].enabled = FALSE])

(* fullscreennotify(): the client asks, whatever rules and bindings say.    *)
FullscreenNotify(c, b) ==
  /\ win[c].status # "none"
  /\ Become(SetFullscreen(State, c, b))

WindowStep ==
  \E c \in Clients :
    \/ CreateNotify(c)
    \/ DestroyNotify(c)
    \/ \E r \in Rules : MapNotify(c, r)
    \/ UnmapNotify(c)

CommitStep == \E c \in Clients, r \in Rules : InitialCommit(c, r)
=============================================================================
