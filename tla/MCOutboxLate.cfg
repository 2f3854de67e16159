SPECIFICATION Spec
CONSTANTS
    b1 = b1
    b2 = b2
    Book <- OneBook
    Reflowable <- None
    LastPage = 2
    Words <- TurnsAndMarks
    OtherWords <- None
    Faults <- NetOnly
    BaseSeconds = 1
    MaxSeconds = 2
    Horizon = 2
    MaxAttempts = 3
    MaxStatements = 2
    MaxOthers = 0
    MaxPrunes = 0
    MaxCrashes = 0
    MaxLate = 1
PROPERTIES
    OldWordStaysOld
CHECK_DEADLOCK FALSE
