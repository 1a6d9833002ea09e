-------------------------- MODULE MCWatcherSession --------------------------
(***************************************************************************)
(* WatcherSession with small constants for TLC.                            *)
(***************************************************************************)
EXTENDS WatcherSession, TLC

CONSTANTS w1, w2, t1, t2, a, b

TwoWorkers == {w1, w2}
TwoTokens == {t1, t2}
Titles == {a, b}
BothModes == Modes
SoloMode == {"solo-entry"}

\* Lists too short for one mode, too long for the other, and with an id twice.
AnyEntries == {<<a>>, <<a, b>>, <<a, a>>}
AnyLikes == {<<>>, <<a, b>>}

\* Lists with which decks of two to four cards come about, some with a title
\* that both have entered, and any number of matches.
FlowEntries == {<<a>>, <<a, b>>}
FlowLikes == {<<>>, <<a>>, <<a, a>>, <<a, b>>}

WorkersAndTokens == Permutations(TwoWorkers) \cup Permutations(TwoTokens)
=============================================================================
