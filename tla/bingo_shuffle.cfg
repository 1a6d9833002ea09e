SPECIFICATION Spec
CONSTANTS
    Size = 4
    FreeSpace = 2
    Texts <- MCTexts
    Spellings <- MCSpellings
    Sentinel = "free space"
INVARIANTS IInv FreeSpaceCentred EveryLayoutOnce CentredAsOften
