----------------------------- MODULE MCResolve -----------------------------
(* Two lookups: one in flight, and the one a callback starts after it. *)
EXTENDS Resolve

TwoLookups == 1 .. 2
AllFaults  == {"start", "read"}
NoFaults   == {}
=============================================================================
