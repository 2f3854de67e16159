SPECIFICATION Spec
CONSTANTS
    b1 = b1
    b2 = b2
    Book <- OneBook
    Reflowable <- None
    LastPage = 2
    Words <- Turns
    OtherWords <- OtherTurns
    Faults <- None
    BaseSeconds = 1
    MaxSeconds = 2
    Horizon = 2
    MaxAttempts = 2
    MaxStatements = 1
    MaxOthers = 1
    MaxPrunes = 1
    MaxCrashes = 0
    MaxLate = 0
INVARIANTS
    DrainNeverAborts
CHECK_DEADLOCK FALSE
