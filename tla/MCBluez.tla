------------------------------ MODULE MCBluez -------------------------------
(* Three calls and questions on the bus, four about the tree, two peripherals.*)
(* A behaviour makes two kinds of call, or pairs with an agent: the kinds    *)
(* meet in the central only through the serials of the bus.                  *)
EXTENDS Bluez

AllSlots == {"write", "resolved", "connected", "subscribe", "read"}

InTurn ==
    {{"attach", "write", "read"}, {"attach", "read", "connect"},
     {"attach", "resolved", "connected"}, {"attach", "subscribe"},
     {"subscribe", "connect"}, {"pair", "agent"}, {"fetch", "tree"},
     {"attach", "fetch", "full", "discovery"}}

\* A caller who may write before the central is on the loop.
Early == {{"attach", "write"}}

\* One who pairs.
Pairing == {{"pair", "agent"}}

\* One call.
Once == [u \in Uses |-> 1]

Traffic == [u \in Uses |-> IF "tree" \in u THEN 4 ELSE 3]
=============================================================================
