--------------------------- MODULE MCSessionCodes ---------------------------
(***************************************************************************)
(* SessionCodes with small constants for TLC.                              *)
(***************************************************************************)
EXTENDS SessionCodes

CONSTANTS w1, w2, w3, s1, s2, k1, k2

ThreeWorkers == {w1, w2, w3}
TwoSessions == {s1, s2}
TwoCodes == {k1, k2}
=============================================================================
