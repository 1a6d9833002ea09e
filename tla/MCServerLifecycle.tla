-------------------------- MODULE MCServerLifecycle --------------------------
(***************************************************************************)
(* ServerLifecycle with small constants for TLC.                           *)
(***************************************************************************)
EXTENDS ServerLifecycle

CONSTANTS c1, c2, c3

ThreeConns == {c1, c2, c3}
CallsAndStreams == {"call", "stream"}
AllIntervals == {"positive", "nonpositive", "unreadable"}
Usual == {"positive"}
=============================================================================
