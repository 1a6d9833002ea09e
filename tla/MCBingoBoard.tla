---------------------------- MODULE MCBingoBoard ----------------------------
(***************************************************************************)
(* BingoBoard with small constants for TLC.                                *)
(***************************************************************************)
EXTENDS BingoBoard, TLC

CONSTANTS w1, w2, u1, u2, u3, u4

TwoWorkers == {w1, w2}
FourUsers == {u1, u2, u3, u4}

Symmetric == Permutations(TwoWorkers) \cup Permutations(FourUsers \ {u1})
=============================================================================
