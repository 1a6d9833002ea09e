SPECIFICATION FairSpec
CONSTANTS
    w1 = w1  w2 = w2  t1 = t1  t2 = t2  a = a  b = b
    Workers <- TwoWorkers
    Guests <- TwoTokens
    NoGuest = NoGuest
    Ids <- Titles
    EntryLists <- FlowEntries
    LikeLists <- FlowLikes
    SoloMin = 2  SoloMax = 2  DualMin = 1  DualMax = 2
    ModesUsed <- SoloMode
    MaxRounds = 1
    Faults = FALSE
    Disciplined = TRUE
PROPERTIES FormsAdvance
