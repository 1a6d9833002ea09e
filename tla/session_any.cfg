SPECIFICATION Spec
CONSTANTS
    w1 = w1  w2 = w2  t1 = t1  t2 = t2  a = a  b = b
    Workers <- TwoWorkers
    Guests <- TwoTokens
    NoGuest = NoGuest
    Ids <- Titles
    EntryLists <- AnyEntries
    LikeLists <- AnyLikes
    SoloMin = 2  SoloMax = 2  DualMin = 1  DualMax = 1
    ModesUsed <- BothModes
    MaxRounds = 2
    Faults = TRUE
    Disciplined = FALSE
SYMMETRY WorkersAndTokens
INVARIANTS WaitingIffAlone ReadyHasEntries IInv
PROPERTIES PartnerSlotIsOneSeat ExpiredIsFrozen
