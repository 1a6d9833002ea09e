SPECIFICATION FairSpec
CONSTANTS
    w1 = w1  w2 = w2  c1 = c1  c2 = c2
    Workers <- OneWorker
    Clients <- TwoClients
    Buffer = 2
    MaxVersion = 3
    Faults = TRUE
    Leaving <- OneClient
    Stalling <- OneClient
INVARIANTS OrderInv NoSendOnClosed HubMatchesStreams CurrentUnlessMissed
PROPERTIES StreamsEndAtExpiry DisconnectedStreamsEnd BroadcastsEnd
