SPECIFICATION FairSpec
CONSTANTS
    w1 = w1  w2 = w2  w3 = w3  s1 = s1  s2 = s2  k1 = k1  k2 = k2
    None = None
    Workers <- ThreeWorkers
    Sessions <- TwoSessions
    Codes <- TwoCodes
    Retries = 2
    Faults = TRUE
INVARIANTS IInv CodeLeadsToSession JoinedByItsCode FullMeansTaken
PROPERTIES CreationEnds
