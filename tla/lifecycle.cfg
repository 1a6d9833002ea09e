SPECIFICATION FairSpec
CONSTANTS
    c1 = c1  c2 = c2  c3 = c3
    Conns <- ThreeConns
    Kinds <- CallsAndStreams
    SlowCalls = TRUE
    ListenFaults = TRUE
    StartFaults = TRUE
    Intervals <- AllIntervals
INVARIANTS IInv CleanExitLosesNothing ExitClosesClient
PROPERTIES SignalEndsProcess
