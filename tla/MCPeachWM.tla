------------------------------ MODULE MCPeachWM ------------------------------
(***************************************************************************)
(* Instances of PeachWM for TLC.                                            *)
(***************************************************************************)
EXTENDS PeachWM, TLC

CONSTANTS c1, c2, c3, m1, m2, m3

NoRule == [match |-> FALSE, floating |-> FALSE, fullscreen |-> FALSE,
           tags |-> {}, mon |-> 0]

(* A rule that names the second output of the list, and one that names tag  *)
(* 2 and starts the window fullscreen.                                      *)
OutputRule == [NoRule EXCEPT !.match = TRUE, !.mon = 2]
VideoRule == [NoRule EXCEPT !.match = TRUE, !.fullscreen = TRUE, !.tags = {2}]

OnlyNoRule == {NoRule}
PlainOrOutput == {NoRule, OutputRule}
PlainOrVideo == {NoRule, VideoRule}

NoParents == [c \in Clients |-> NoClient]
Dialog == [c \in Clients |-> IF c = c2 THEN c1 ELSE NoClient]

(* Layouts configured per tag.                                              *)
NoWorkspaceLayouts == <<>>
SecondMonocle == [t \in {2} |-> "monocle"]
SecondMaster == [t \in {2} |-> "master"]

OneTag == {1}
TwoTags == {1, 2}
NoMasks == {}
TagTwo == {{2}}
BackAndForth == {{}, {2}}
AnyMask == SUBSET Tags

MonitorTwins == Permutations(Monitors)
Twins == Permutations(Monitors) \cup Permutations(Clients)
=============================================================================
