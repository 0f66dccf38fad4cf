---------------------------- MODULE MCTransport ----------------------------
(* Two sending tasks and the receive loop share the client.                *)
EXTENDS Transport

CONSTANTS s1, s2

TwoSenders == {s1, s2}
ThreeConns == 1 .. 3
=============================================================================
