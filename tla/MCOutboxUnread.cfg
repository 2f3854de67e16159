SPECIFICATION FairSpec
CONSTANTS
    b1 = b1
    b2 = b2
    Book <- OneBook
    Reflowable <- None
    LastPage = 2
    Words <- Turns
    OtherWords <- OtherMoves
    Faults <- None
    BaseSeconds = 1
    MaxSeconds = 2
    Horizon = 2
    MaxAttempts = 2
    MaxStatements = 1
    MaxOthers = 1
    MaxPrunes = 0
    MaxCrashes = 0
    MaxLate = 0
PROPERTIES
    ClearingConverges
CHECK_DEADLOCK FALSE
