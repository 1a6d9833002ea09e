---------------------------- MODULE ServerLifecycle ----------------------------
(***************************************************************************)
(* The server process from its first statement to its exit                 *)
(* (cmd/server/main.go: run, runCleanup; config.Load; mongox Connect,      *)
(* EnsureIndexes and Close).  net/http's Shutdown and the mongo driver are *)
(* external.                                                               *)
(*                                                                         *)
(* run() loads its configuration, connects, ensures the indexes, starts    *)
(* the sweeper and the listener, waits for a signal or a listener error,   *)
(* drains and returns through its deferred calls.  A request is an         *)
(* ordinary call or an event stream (sse.go): a call ends on its own, a    *)
(* stream when its client leaves or its session expires.  Neither sees the *)
(* signal, since the server's BaseContext is Background.                   *)
(***************************************************************************)
EXTENDS Naturals

CONSTANTS
    Conns,       \* client connections
    Kinds,       \* kinds of requests they make
    SlowCalls,   \* TRUE: a call may take longer than shutdownTimeout
    ListenFaults,\* TRUE: the port may be unusable, the listener may fail
    StartFaults, \* TRUE: a step of the startup may fail
    Intervals    \* what CLEANUP_INTERVAL may say

ASSUME LifecycleAssumption ==
    /\ Kinds \subseteq {"call", "stream"}
    /\ SlowCalls \in BOOLEAN /\ ListenFaults \in BOOLEAN /\ StartFaults \in BOOLEAN
    /\ Intervals \subseteq {"positive", "nonpositive", "unreadable"}

VARIABLES
    phase,      \* where run() is
    interval,   \* CLEANUP_INTERVAL
    indexed,    \* collections whose indexes are there
    listener,   \* "off", "up", "unusable" or "broken" with serverErr, "closed"
    signalled,  \* the signal context is cancelled
    request,    \* what each connection is waiting for
    client,     \* the mongo client
    sweeper,    \* the goroutine of runCleanup
    status,     \* how the process ends: 0, 1 by an error, 2 killed or by a panic
    lost        \* history: connections whose request died with the process

vars == <<phase, interval, indexed, listener, signalled, request, client,
          sweeper, status, lost>>

Indexed == {"sessions", "boards"}

Init ==
    /\ phase = "loading" /\ interval \in Intervals
    /\ indexed = {}
    /\ listener = "off" /\ signalled = FALSE
    /\ request = [c \in Conns |-> "none"]
    /\ client = "none"
    /\ sweeper = "none"
    /\ status = 0
    /\ lost = {}

InFlight == {c \in Conns : request[c] # "none"}

\* The process is gone, and all its goroutines with it.
Gone(how) ==
    /\ phase' = "exited" /\ status' = how
    /\ listener' = "closed" /\ sweeper' = "gone"
    /\ lost' = InFlight
    /\ request' = [c \in Conns |-> "none"]

-----------------------------------------------------------------------------
(* The outside: connections, the listener and the signal. *)

\* A new connection, or, until Shutdown, one that was kept alive.
Accept(c) ==
    /\ \/ listener = "up"
       \/ listener = "broken" /\ phase # "exited"
    /\ request[c] = "none"
    /\ \E kind \in Kinds : request' = [request EXCEPT ![c] = kind]
    /\ UNCHANGED <<phase, interval, indexed, listener, signalled, client, sweeper, status, lost>>

Finish(c) ==
    /\ phase # "exited" /\ c \in InFlight
    /\ request' = [request EXCEPT ![c] = "none"]
    /\ UNCHANGED <<phase, interval, indexed, listener, signalled, client, sweeper, status, lost>>

\* The goroutine of ListenAndServe; once Shutdown has begun it does not listen.
Listen ==
    /\ phase = "serving" /\ listener = "off"
    /\ \/ listener' = "up"
       \/ ListenFaults /\ listener' = "unusable"
    /\ UNCHANGED <<phase, interval, indexed, signalled, request, client, sweeper, status, lost>>

ListenFails ==
    /\ ListenFaults /\ listener = "up"
    /\ listener' = "broken"
    /\ UNCHANGED <<phase, interval, indexed, signalled, request, client, sweeper, status, lost>>

\* Before NotifyContext a signal simply kills.
Signal ==
    /\ ~signalled /\ phase # "exited"
    /\ signalled' = TRUE
    /\ IF phase = "loading"
       THEN Gone(2)
       ELSE UNCHANGED <<phase, listener, request, sweeper, status, lost>>
    /\ UNCHANGED <<interval, indexed, client>>

-----------------------------------------------------------------------------
(* run(): startup.  An error returns through the deferred calls there are:  *)
(* none to mind before the client is connected ("leaving"), from then on    *)
(* the one that closes it ("closing").                                      *)

Fail(to) == phase' = to /\ status' = 1

Load ==
    /\ phase = "loading"
    /\ \/ phase' = "connecting" /\ UNCHANGED status
       \/ StartFaults /\ Fail("leaving")
    /\ UNCHANGED <<interval, indexed, listener, signalled, request, client, sweeper, lost>>

\* A ping that fails, or whose context the signal cancels, takes the client
\* that was just made with it.
Connect_LeavesClient ==
    /\ phase = "connecting"
    /\ \/ ~signalled /\ phase' = "indexing" /\ UNCHANGED status
       \/ (StartFaults \/ signalled) /\ Fail("leaving")
    /\ client' = "connected"
    /\ UNCHANGED <<interval, indexed, listener, signalled, request, sweeper, lost>>
Connect ==
    /\ phase = "connecting"
    /\ \/ ~signalled /\ phase' = "indexing" /\ client' = "connected" /\ UNCHANGED status
       \/ (StartFaults \/ signalled) /\ Fail("leaving") /\ UNCHANGED client
    /\ UNCHANGED <<interval, indexed, listener, signalled, request, sweeper, lost>>

\* The indexes of one collection after the other.
NextIndexed == IF indexed = {} THEN "sessions" ELSE "boards"
EnsureIndexes ==
    /\ phase = "indexing" /\ ~signalled
    /\ indexed' = indexed \cup {NextIndexed}
    /\ phase' = IF indexed' = Indexed THEN "starting" ELSE "indexing"
    /\ UNCHANGED <<interval, listener, signalled, request, client, sweeper, status, lost>>

\* Refused, or created with the answer lost.
IndexingFails ==
    /\ Fail("closing")
    /\ indexed' \in {indexed, indexed \cup {NextIndexed}}
    /\ UNCHANGED <<interval, listener, signalled, request, client, sweeper, lost>>

IndexesRefused == phase = "indexing" /\ StartFaults /\ IndexingFails
IndexesCancelled == phase = "indexing" /\ signalled /\ IndexingFails

\* ParseDuration, and the goroutines of the sweeper and the listener.
Start ==
    /\ phase = "starting"
    /\ IF interval = "unreadable"
       THEN Fail("closing") /\ UNCHANGED sweeper
       ELSE phase' = "serving" /\ sweeper' = "starting" /\ UNCHANGED status
    /\ UNCHANGED <<interval, indexed, listener, signalled, request, client, lost>>

-----------------------------------------------------------------------------
(* run(): from the select to the exit. *)

\* With both ready the select may take either.
ReceiveError ==
    /\ phase = "serving" /\ listener \in {"unusable", "broken"}
    /\ Fail("closing")
    /\ UNCHANGED <<interval, indexed, listener, signalled, request, client, sweeper, lost>>

BeginShutdown ==
    /\ phase = "serving" /\ signalled
    /\ phase' = "draining" /\ listener' = "closed"
    /\ UNCHANGED <<interval, indexed, signalled, request, client, sweeper, status, lost>>

\* When Shutdown returns without an error.
MayLeaveDrain_AtOnce == TRUE
MayLeaveDrain == InFlight = {}

Drained ==
    /\ phase = "draining" /\ MayLeaveDrain
    /\ phase' = "closing"
    /\ UNCHANGED <<interval, indexed, listener, signalled, request, client, sweeper, status, lost>>

\* shutdownTimeout passes.
TimeIsUp_Never == FALSE
TimeIsUp == \E c \in InFlight : request[c] = "stream" \/ SlowCalls

DrainFails ==
    /\ phase = "draining" /\ TimeIsUp
    /\ Fail("closing")
    /\ UNCHANGED <<interval, indexed, listener, signalled, request, client, sweeper, lost>>

\* The deferred calls run last to first: the client goes before the signal
\* context is cancelled.
CloseClient ==
    /\ phase = "closing"
    /\ phase' = "leaving" /\ client' = "closed"
    /\ UNCHANGED <<interval, indexed, listener, signalled, request, sweeper, status, lost>>

Exit ==
    /\ phase = "leaving"
    /\ Gone(status) /\ signalled' = TRUE
    /\ UNCHANGED <<interval, indexed, client>>

\* What needs nobody else: the ping, Shutdown and Disconnect have deadlines,
\* the creation of the indexes has none but is cancelled by the signal.
Run == \/ Load \/ Connect \/ IndexesCancelled \/ Start
       \/ ReceiveError \/ BeginShutdown \/ Drained \/ DrainFails \/ CloseClient \/ Exit

-----------------------------------------------------------------------------
(* runCleanup *)

MakeTicker ==
    /\ sweeper = "starting" /\ interval = "positive"
    /\ sweeper' = "waiting"
    /\ UNCHANGED <<phase, interval, indexed, listener, signalled, request, client, status, lost>>

\* NewTicker panics, outside any handler: nothing recovers and no deferred
\* call of run() is made.
TickerPanics ==
    /\ sweeper = "starting" /\ interval = "nonpositive"
    /\ Gone(2)
    /\ UNCHANGED <<interval, indexed, signalled, client>>

\* A tick and the signal may both be waiting; the select takes either.
Tick ==
    /\ sweeper = "waiting"
    /\ sweeper' = "sweepingSessions"
    /\ UNCHANGED <<phase, interval, indexed, listener, signalled, request, client, status, lost>>

\* An error of the first sweep is logged and the second made all the same.
SessionsSwept ==
    /\ sweeper = "sweepingSessions"
    /\ sweeper' = "sweepingBoards"
    /\ UNCHANGED <<phase, interval, indexed, listener, signalled, request, client, status, lost>>

BoardsSwept ==
    /\ sweeper = "sweepingBoards"
    /\ sweeper' = "waiting"
    /\ UNCHANGED <<phase, interval, indexed, listener, signalled, request, client, status, lost>>

SweeperStops ==
    /\ sweeper = "waiting" /\ signalled
    /\ sweeper' = "gone"
    /\ UNCHANGED <<phase, interval, indexed, listener, signalled, request, client, status, lost>>

Sweeper == MakeTicker \/ TickerPanics \/ Tick \/ SessionsSwept \/ BoardsSwept \/ SweeperStops

\* Nothing moves any more.
Exited == phase = "exited" /\ UNCHANGED vars

Next ==
    \/ \E c \in Conns : Accept(c) \/ Finish(c)
    \/ Listen \/ ListenFails \/ Signal
    \/ EnsureIndexes \/ IndexesRefused \/ Run
    \/ Sweeper
    \/ Exited

Spec == Init /\ [][Next]_vars

\* run() goes on when it can.  Nothing is assumed of the database, of clients,
\* streams, the listener or the sweeper.
FairSpec == Spec /\ WF_vars(Run)

-----------------------------------------------------------------------------
(* Properties. *)

\* Every variable keeps its type.
TypeOK ==
    /\ phase \in {"loading", "connecting", "indexing", "starting", "serving",
                  "draining", "closing", "leaving", "exited"}
    /\ interval \in Intervals /\ indexed \subseteq Indexed
    /\ listener \in {"off", "up", "unusable", "broken", "closed"}
    /\ signalled \in BOOLEAN
    /\ request \in [Conns -> {"none", "call", "stream"}]
    /\ client \in {"none", "connected", "closed"}
    /\ sweeper \in {"none", "starting", "waiting", "sweepingSessions",
                    "sweepingBoards", "gone"}
    /\ status \in {0, 1, 2}
    /\ lost \subseteq Conns

\* In-flight requests are drained before Mongo is disconnected.
DrainedBeforeDisconnect == client = "closed" => InFlight = {}

\* A process that exits with status 0 has answered every request it took.
CleanExitLosesNothing == phase = "exited" /\ status = 0 => lost = {}

\* No request is taken before all indexes are there: the codes of sessions
\* rely on the unique one from the first request on.
ServesOnlyWithIndexes == InFlight # {} => indexed = Indexed

\* Wherever run() fails or is signalled, it leaves no connected client behind;
\* only a cleanup interval that is not positive takes the process down without.
ExitClosesClient == phase = "exited" /\ client = "connected" => interval = "nonpositive"

\* Where run() is tells what has been set up and what is still to be undone.
Progress ==
    /\ phase \in {"loading", "connecting"} => client = "none"
    /\ phase \in {"indexing", "starting", "serving", "draining", "closing"} => client = "connected"
    /\ phase = "leaving" => client # "connected"
    /\ phase \in {"starting", "serving", "draining"} => indexed = Indexed
    /\ listener \in {"up", "broken"} => indexed = Indexed
    /\ phase \in {"loading", "connecting", "indexing", "starting"} =>
          listener = "off" /\ sweeper = "none"

\* The inductive invariant: until run() is closing nothing has failed and
\* nothing is lost, and a closing with status 0 has nothing in flight.
IInv ==
    /\ TypeOK /\ Progress
    /\ phase \notin {"closing", "leaving", "exited"} => status = 0
    /\ phase \in {"draining", "closing", "leaving"} /\ status = 0 =>
          listener \notin {"up", "broken"}
    /\ phase \in {"closing", "leaving"} /\ status = 0 => InFlight = {}
    /\ phase = "exited" => InFlight = {} /\ listener = "closed"
    /\ phase # "exited" => lost = {}
    /\ CleanExitLosesNothing /\ ServesOnlyWithIndexes /\ ExitClosesClient

\* Once signalled the process exits, whatever its clients and the database do,
\* and also in the middle of its startup.
SignalEndsProcess == signalled ~> phase = "exited"
=============================================================================
