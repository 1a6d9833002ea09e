----------------------- MODULE ServerLifecycle_proofs -----------------------
(***************************************************************************)
(* Theorems about ServerLifecycle, for any number of connections.          *)
(***************************************************************************)
EXTENDS ServerLifecycle, TLAPS

\* A process that has not read its configuration yet satisfies the invariant.
LEMMA InitIInv == Init => IInv
BY DEF Init, IInv, TypeOK, Progress, InFlight, Indexed, CleanExitLosesNothing,
       ServesOnlyWithIndexes, ExitClosesClient

\* A step that leaves the requests alone leaves those in flight alone.
LEMMA SameInFlight == UNCHANGED request => InFlight' = InFlight
BY DEF InFlight

\* Every step of run(), of the sweeper and of the outside keeps it.
LEMMA NextIInv == IInv /\ [Next]_vars => IInv'
<1> SUFFICES ASSUME IInv, [Next]_vars PROVE IInv'
  OBVIOUS
<1> USE DEF IInv, TypeOK, Progress, Indexed, CleanExitLosesNothing,
            ServesOnlyWithIndexes, ExitClosesClient
<1>1. ASSUME NEW c \in Conns, Accept(c)
      PROVE  IInv'
  <2>1. PICK kind \in Kinds : request' = [request EXCEPT ![c] = kind]
    BY <1>1 DEF Accept
  <2>2. /\ kind \in {"call", "stream"} /\ indexed = Indexed
        /\ phase \in {"serving", "closing", "leaving"}
        /\ phase # "serving" => status # 0
    BY <1>1, LifecycleAssumption DEF Accept
  <2> QED
    BY <1>1, <2>1, <2>2 DEF Accept, InFlight
<1>2. ASSUME NEW c \in Conns, Finish(c)
      PROVE  IInv'
  BY <1>2 DEF Finish, InFlight
<1>3. CASE Listen
  BY <1>3, SameInFlight DEF Listen
<1>4. CASE ListenFails
  BY <1>4, SameInFlight DEF ListenFails
<1>5. CASE Signal
  BY <1>5 DEF Signal, Gone, InFlight
<1>6. CASE Load
  BY <1>6, SameInFlight DEF Load, Fail
<1>7. CASE Connect
  BY <1>7, SameInFlight DEF Connect, Fail
<1>8. CASE EnsureIndexes
  BY <1>8, SameInFlight DEF EnsureIndexes, NextIndexed
<1>9. CASE IndexesRefused \/ IndexesCancelled
  <2>1. phase = "indexing" /\ IndexingFails
    BY <1>9 DEF IndexesRefused, IndexesCancelled
  <2>2. indexed' \subseteq Indexed /\ indexed \subseteq indexed'
    BY <2>1 DEF IndexingFails, NextIndexed
  <2> QED
    <3>1. /\ phase' = "closing" /\ status' = 1
          /\ UNCHANGED <<interval, listener, signalled, request, client, sweeper, lost>>
      BY <2>1 DEF IndexingFails, Fail
    <3>2. TypeOK' /\ Progress'
      BY <2>1, <2>2, <3>1
    <3>3. InFlight' = InFlight
      BY <3>1, SameInFlight
    <3>4. CleanExitLosesNothing' /\ ServesOnlyWithIndexes' /\ ExitClosesClient'
      BY <2>1, <2>2, <3>1, <3>3
    <3> QED
      BY <2>1, <3>1, <3>2, <3>3, <3>4
<1>10. CASE Start
  <2>1. phase = "starting" /\ phase' \in {"serving", "closing"}
    BY <1>10 DEF Start, Fail
  <2>2. /\ UNCHANGED <<interval, indexed, listener, signalled, request, client, lost>>
        /\ status' \in {0, 1} /\ sweeper' \in {"none", "starting"}
    BY <1>10 DEF Start, Fail
  <2>3. TypeOK' /\ Progress'
    BY <2>1, <2>2
  <2>4. ServesOnlyWithIndexes'
    BY <2>2, SameInFlight
  <2> QED
    BY <1>10, <2>1, <2>2, <2>3, <2>4 DEF Start, Fail
<1>11. CASE ReceiveError
  BY <1>11, SameInFlight DEF ReceiveError, Fail
<1>12. CASE BeginShutdown
  BY <1>12, SameInFlight DEF BeginShutdown
<1>13. CASE Drained
  BY <1>13, SameInFlight DEF Drained, MayLeaveDrain
<1>14. CASE DrainFails
  BY <1>14, SameInFlight DEF DrainFails, Fail
<1>15. CASE CloseClient
  BY <1>15, SameInFlight DEF CloseClient
<1>16. CASE Exit
  BY <1>16 DEF Exit, Gone, InFlight
<1>17. CASE TickerPanics
  BY <1>17 DEF TickerPanics, Gone, InFlight
<1>18. CASE MakeTicker \/ Tick \/ SessionsSwept \/ BoardsSwept \/ SweeperStops
  BY <1>18, SameInFlight DEF MakeTicker, Tick, SessionsSwept, BoardsSwept, SweeperStops
<1>19. CASE Exited \/ UNCHANGED vars
  <2>1. UNCHANGED vars
    BY <1>19 DEF Exited
  <2>2. TypeOK' /\ Progress' /\ InFlight' = InFlight
    BY <2>1, SameInFlight DEF vars
  <2> QED
    BY <2>1, <2>2 DEF vars
<1> QED
  BY <1>1, <1>2, <1>3, <1>4, <1>5, <1>6, <1>7, <1>8, <1>9, <1>10, <1>11, <1>12,
     <1>13, <1>14, <1>15, <1>16, <1>17, <1>18, <1>19 DEF Next, Run, Sweeper

\* The invariant, and with it type correctness, holds of every execution.
THEOREM Inductive == Spec => []IInv
BY InitIInv, NextIInv, PTL DEF Spec

\* However clients, streams, a failing listener and the signal interleave, an
\* exit with status 0 drops no request.
THEOREM CleanExitIsClean == Spec => []CleanExitLosesNothing
<1>1. IInv => CleanExitLosesNothing
  BY DEF IInv
<1> QED
  BY <1>1, Inductive, PTL

\* Whichever step of the startup fails, and whenever the signal comes, run()
\* never leaves a connected client behind; with a cleanup interval that is
\* positive the process never does.
THEOREM ClientIsClosed == Spec => []ExitClosesClient
<1>1. IInv => ExitClosesClient
  BY DEF IInv
<1> QED
  BY <1>1, Inductive, PTL

\* No request is ever served by a process whose indexes are not all there.
THEOREM IndexesComeFirst == Spec => []ServesOnlyWithIndexes
<1>1. IInv => ServesOnlyWithIndexes
  BY DEF IInv
<1> QED
  BY <1>1, Inductive, PTL

-----------------------------------------------------------------------------
(* What the drain achieves where its time suffices: no streams, no call    *)
(* longer than shutdownTimeout, and a listener that does not fail.         *)

\* Once run() is closing, nothing is in flight and nothing more is accepted.
DrainInv ==
    /\ phase \in {"closing", "leaving", "exited"} => InFlight = {} /\ listener # "up"
    /\ client = "closed" => phase \in {"leaving", "exited"}

\* The listener goes down only by the shutdown.
CallsInv ==
    /\ listener \in {"off", "up", "closed"}
    /\ listener = "off" => InFlight = {}
    /\ phase = "draining" => listener = "closed"

\* Then in-flight requests are drained before Mongo is disconnected, as the
\* comment on Shutdown says: neither limit of run()'s drain is ever reached.
THEOREM QuickCallsAreDrained ==
    ASSUME Kinds \subseteq {"call"}, ~SlowCalls, ~ListenFaults
    PROVE  Spec => []DrainedBeforeDisconnect
<1> DEFINE Inv == IInv /\ CallsInv /\ DrainInv /\ \A c \in Conns : request[c] # "stream"
<1>1. Init => Inv
  BY InitIInv DEF Init, CallsInv, DrainInv, InFlight
<1>2. Inv /\ [Next]_vars => Inv'
  <2> SUFFICES ASSUME Inv, [Next]_vars PROVE Inv'
    OBVIOUS
  <2>0. IInv'
    BY NextIInv
  <2> USE DEF IInv, TypeOK, Progress, CallsInv, DrainInv, InFlight
  <2>1. ASSUME NEW c \in Conns, Accept(c)
        PROVE  Inv'
    <3>1. request' = [request EXCEPT ![c] = "call"]
      BY <2>1 DEF Accept
    <3> QED
      BY <2>0, <2>1, <3>1 DEF Accept
  <2>2. ASSUME NEW c \in Conns, Finish(c)
        PROVE  Inv'
    BY <2>0, <2>2 DEF Finish
  <2>3. CASE Listen \/ ListenFails \/ Exited \/ UNCHANGED vars
    BY <2>0, <2>3 DEF Listen, ListenFails, Exited, vars
  <2>4. CASE Signal \/ TickerPanics \/ Exit
    BY <2>0, <2>4 DEF Signal, TickerPanics, Exit, Gone
  <2>5. CASE Load \/ Connect \/ Start \/ EnsureIndexes
    BY <2>0, <2>5 DEF Load, Connect, Start, EnsureIndexes, Fail
  <2>6. CASE IndexesRefused \/ IndexesCancelled
    BY <2>0, <2>6 DEF IndexesRefused, IndexesCancelled, IndexingFails, Fail
  <2>7. CASE ReceiveError \/ BeginShutdown \/ CloseClient
    BY <2>0, <2>7 DEF ReceiveError, BeginShutdown, CloseClient, Fail
  <2>8. CASE Drained \/ DrainFails
    BY <2>0, <2>8 DEF Drained, DrainFails, MayLeaveDrain, TimeIsUp, Fail
  <2>9. CASE MakeTicker \/ Tick \/ SessionsSwept \/ BoardsSwept \/ SweeperStops
    BY <2>0, <2>9 DEF MakeTicker, Tick, SessionsSwept, BoardsSwept, SweeperStops
  <2> QED
    BY <2>1, <2>2, <2>3, <2>4, <2>5, <2>6, <2>7, <2>8, <2>9 DEF Next, Run, Sweeper
<1>3. Inv => DrainedBeforeDisconnect
  BY DEF IInv, TypeOK, DrainInv, DrainedBeforeDisconnect
<1> QED
  BY <1>1, <1>2, <1>3, PTL DEF Spec
=============================================================================
