----------------------------- MODULE WMScratchpad -----------------------------
(***************************************************************************)
(* The scratchpad (src/src/scratchpad.c): per output, a set of windows that *)
(* is shown and hidden as a group, one window of it at a time.              *)
(***************************************************************************)
EXTENDS WMCore

Sel == Focustop(State, selmon)

ScratchpadArrange(s, m) ==
  [s EXCEPT !.win = [c \in Clients |->
                       IF c \in Scratchpads(s, m)
                       THEN [@[c] EXCEPT !.layer = "LyrScratch"] ELSE @[c]]]

(* Scene-node writes through a scratchpad pointer; one that points at a     *)
(* window no longer mapped writes freed memory and changes no live window.  *)
SetEnabledAt(s, c, b) == IF Mapped(s, c) THEN SetEnabled(s, {c}, b) ELSE s

ShowOnly(s, m, top) ==
  SetEnabled(
    SetEnabled([s EXCEPT !.out[m].scratchpad_current = top],
               Scratchpads(s, m), FALSE),
    {top} \ {NoClient}, TRUE)

(* togglescratchpad() with the scratchpad hidden.                           *)
ShowScratchpad ==
  /\ selmon # NoMon
  /\ ~out[selmon].scratchpad_visible
  /\ LET top == FirstOf(fstack, Scratchpads(State, selmon), NoClient)
         shown == ShowOnly(
           ScratchpadArrange(
             [State EXCEPT !.out[selmon].scratchpad_prev_focus = Sel,
                           !.out[selmon].scratchpad_visible = TRUE], selmon),
           selmon, top)
     IN  Become(IF top = NoClient THEN shown ELSE FocusClient(shown, top))

(* Mutant of RestoreFocus: the saved window may be out of view by now.      *)
RestoreFocusBlindly(s, m, prev) ==
  FocusClient(s, IF prev # NoClient THEN prev ELSE Focustop(s, m))

RestoreFocus(s, m, prev) ==
  FocusClient(s, IF prev # NoClient /\ VisibleOn(s, prev, m)
                 THEN prev ELSE Focustop(s, m))

(* Mutant of HideScratchpad: the windows stay enabled.                      *)
HideNothing ==
  /\ selmon # NoMon
  /\ out[selmon].scratchpad_visible
  /\ Become(RestoreFocus([State EXCEPT !.out[selmon].scratchpad_visible = FALSE,
                                       !.out[selmon].scratchpad_current = NoClient],
                         selmon, out[selmon].scratchpad_prev_focus))

(* togglescratchpad() with the scratchpad shown.                            *)
HideScratchpad ==
  /\ selmon # NoMon
  /\ out[selmon].scratchpad_visible
  /\ Become(RestoreFocus(
       SetEnabled([State EXCEPT !.out[selmon].scratchpad_visible = FALSE,
                                !.out[selmon].scratchpad_current = NoClient],
                  Scratchpads(State, selmon), FALSE),
       selmon, out[selmon].scratchpad_prev_focus))

FocusNextScratchpad(s, m, next) ==
  IF next = NoClient THEN FocusTopOf(s, m) ELSE FocusClient(s, next)

(* swapdirscratchpad(), from the scratchpad to the current tags.            *)
TakeFromScratchpad ==
  /\ Sel # NoClient
  /\ ~win[Sel].isfullscreen
  /\ win[Sel].isscratchpad
  /\ LET next == IF out[selmon].scratchpad_visible
                 THEN FirstOf(fstack, Scratchpads(State, selmon) \ {Sel}, NoClient)
                 ELSE NoClient
         taken == [State EXCEPT !.win[Sel].isscratchpad = FALSE,
                                !.win[Sel].isfloating = FALSE,
                                !.win[Sel].tags = CurTags(State, selmon),
                                !.out[selmon].scratchpad_current = next]
     IN  Become(FocusNextScratchpad(
           SetFloating(IF next = NoClient THEN taken
                       ELSE ScratchpadArrange(taken, selmon), Sel, FALSE),
           selmon, next))

IntoScratchpad(s, c) ==
  SetFloating([RemoveFromTrees(s, c) EXCEPT !.win[c].isscratchpad = TRUE], c, TRUE)

(* The window shown so far gives way to c in a scratchpad that is open.     *)
Supersede(s, m, c) ==
  [ScratchpadArrange(
     IF s.out[m].scratchpad_current = c THEN s
     ELSE SetEnabledAt(s, s.out[m].scratchpad_current, FALSE), m)
   EXCEPT !.out[m].scratchpad_current = c]

(* swapdirscratchpad(), from the current tags to the scratchpad.            *)
SendToScratchpad ==
  /\ Sel # NoClient
  /\ ~win[Sel].isfullscreen
  /\ ~win[Sel].isscratchpad
  /\ Become(IF out[selmon].scratchpad_visible
            THEN FocusClient(
                   SetEnabled(Supersede(IntoScratchpad(State, Sel), selmon, Sel),
                              {Sel}, TRUE), Sel)
            ELSE FocusTopOf(
                   Arrange(SetEnabled(IntoScratchpad(State, Sel), {Sel}, FALSE),
                           selmon), selmon))

(* mapnotify()'s "Auto-send to scratchpad if scratchpad is visible".        *)
AutoScratch(s, c) ==
  IF /\ s.win[c].mon # NoMon /\ s.out[s.win[c].mon].scratchpad_visible
     /\ ~s.win[c].isscratchpad /\ ~s.win[c].isfullscreen
  THEN FocusClient(Supersede(IntoScratchpad(s, c), s.win[c].mon, c), c)
  ELSE s

CyclesScratchpad == win[Sel].isscratchpad /\ out[selmon].scratchpad_visible

(* scratchpad_focusdir_cycle(), reached from focusdir().                    *)
FocusDirScratchpad(forward) ==
  /\ Sel # NoClient
  /\ CyclesScratchpad
  /\ LET target == Cycle(clients, Scratchpads(State, selmon), Sel, forward)
     IN  /\ target # Sel
         /\ Become(FocusClient(
              SetEnabled(
                SetEnabledAt([State EXCEPT !.out[selmon].scratchpad_current = target],
                             out[selmon].scratchpad_current, FALSE),
                {target}, TRUE), target))

ScratchpadStep ==
  \/ ShowScratchpad
  \/ HideScratchpad
  \/ TakeFromScratchpad
  \/ SendToScratchpad
  \/ \E forward \in BOOLEAN : FocusDirScratchpad(forward)
=============================================================================
