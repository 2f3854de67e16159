SPECIFICATION FairSpec
CONSTANTS
    b1 = b1
    b2 = b2
    Book <- OneBook
    Reflowable <- None
    LastPage = 2
    Words <- TurnsAndMarks
    OtherWords <- OtherTurns
    Faults <- NetAndReject
    BaseSeconds = 1
    MaxSeconds = 2
    Horizon = 2
    MaxAttempts = 2
    MaxStatements = 2
    MaxOthers = 1
    MaxPrunes = 0
    MaxCrashes = 1
    MaxLate = 0
INVARIANTS
    ShowsLastWord
PROPERTIES
    OldWordStaysOld
    KeepsItsPromise
    EveryRowSettles
    MirrorConverges
CHECK_DEADLOCK FALSE
