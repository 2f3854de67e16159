SPECIFICATION Spec
CONSTANTS
    b1 = b1
    b2 = b2
    Book <- TwoBooks
    Reflowable <- OneEpub
    LastPage = 2
    Words <- Turns
    OtherWords <- None
    Faults <- AllFaults
    BaseSeconds = 1
    MaxSeconds = 2
    Horizon = 2
    MaxAttempts = 2
    MaxStatements = 2
    MaxOthers = 0
    MaxPrunes = 1
    MaxCrashes = 1
    MaxLate = 1
INVARIANTS
    OneStatementPerBook
    Inv
    PendingFlagIsTruthful
PROPERTIES
    DropsAreExcused
CHECK_DEADLOCK FALSE
