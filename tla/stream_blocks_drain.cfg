SPECIFICATION Spec
CONSTANTS
    c1 = c1  c2 = c2  c3 = c3
    Conns <- ThreeConns
    Kinds <- CallsAndStreams
    SlowCalls = FALSE
    ListenFaults = FALSE
    StartFaults = FALSE
    Intervals <- Usual
INVARIANTS DrainedBeforeDisconnect
