--------------------------- MODULE MCWatcherEvents ---------------------------
(***************************************************************************)
(* WatcherEvents with small constants for TLC.                             *)
(***************************************************************************)
EXTENDS WatcherEvents

CONSTANTS w1, w2, c1, c2

OneWorker == {w1}
TwoWorkers == {w1, w2}
OneClient == {c1}
TwoClients == {c1, c2}
=============================================================================
