--------------------------- MODULE MCTcpConnector ---------------------------
(* Three attempts: one under way, the next started from its callback, and a  *)
(* third that is refused or follows the second.                              *)
EXTENDS TcpConnector

ThreeAttempts == 1 .. 3
=============================================================================
