SPECIFICATION Spec
CONSTANTS
    w1 = w1  w2 = w2  c1 = c1  c2 = c2
    Workers <- TwoWorkers
    Clients <- OneClient
    Buffer = 3
    MaxVersion = 3
    Faults = FALSE
    Leaving <- OneClient
    Stalling = {}
PROPERTIES FramesInOrder
