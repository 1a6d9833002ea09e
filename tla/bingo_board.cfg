SPECIFICATION Spec
CONSTANTS
    w1 = w1  w2 = w2  u1 = u1  u2 = u2  u3 = u3  u4 = u4
    Workers <- TwoWorkers
    Users <- FourUsers
    Creator = u1
    Cells = {11, 12}
    FreeSpace = 12
    MaxUserBoards = 2
    Faults = TRUE
SYMMETRY Symmetric
INVARIANTS IInv LimitAnswerIsTrue FreeSpaceAlwaysMarked MarksAreParity
PROPERTIES MintIsBoundedClaim
