------------------------------ MODULE MCStream ------------------------------
(* Three frames of up to two bytes through a ring of two slots: the ring     *)
(* wraps, fills up, and every frame can go out in two pieces.                *)
EXTENDS Stream
=============================================================================
