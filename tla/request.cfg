SPECIFICATION FairSpec
CONSTANTS
    Panics = TRUE
INVARIANTS IInv AnswerIsWhole AnswerTellsWhatHappened FirstFaultAnswers
PROPERTIES RequestsEnd
