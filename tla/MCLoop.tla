------------------------------- MODULE MCLoop -------------------------------
(* Two application descriptors besides the wake, and a table with room for   *)
(* all of them.                                                              *)
EXTENDS Loop

TwoFds     == 1 .. 2
InOnly     == {{"IN"}}
SomeMasks  == {{"IN"}, {"IN", "OUT"}}
AllFaults  == {"ctl", "wait"}
NoFaults   == {}
=============================================================================
