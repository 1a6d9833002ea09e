--------------------------- MODULE MCBingoShuffle ---------------------------
(***************************************************************************)
(* BingoShuffle on a board of four cells for TLC.                          *)
(***************************************************************************)
EXTENDS BingoShuffle

MCTexts == {"free space", " Free Space ", "a", "b"}
MCSpellings == {"free space", " Free Space "}
=============================================================================
