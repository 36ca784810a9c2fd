------------------------------ MODULE MCIpcSocket ------------------------------
(***************************************************************************)
(* Instances of IpcSocket for TLC.                                          *)
(***************************************************************************)
EXTENDS IpcSocket

CONSTANTS k1, k2

TwoTopics == {"workspace", "window"}

Command == [magic |-> TRUE, type |-> "command", payload |-> <<"focus">>]
Query == [magic |-> TRUE, type |-> "other", payload |-> <<>>]
Both == [magic |-> TRUE, type |-> "subscribe", payload |-> <<"window", "workspace">>]
One == [magic |-> TRUE, type |-> "subscribe", payload |-> <<"window">>]
Noise == [magic |-> FALSE, type |-> "other", payload |-> <<>>]

Dialogue == {Command, Query, Both, One, Noise}
=============================================================================
