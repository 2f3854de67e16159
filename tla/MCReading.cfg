SPECIFICATION FairReadSpec
CONSTANTS
    b1 = b1
    b2 = b2
    Book <- OneBook
    Reflowable <- None
    LastPage = 3
    Words <- None
    OtherWords <- OtherFinishes
    Faults <- None
    BaseSeconds = 1
    MaxSeconds = 2
    Horizon = 1
    MaxAttempts = 2
    MaxStatements = 2
    MaxOthers = 0
    MaxPrunes = 0
    MaxCrashes = 1
    MaxLate = 0
    GlobalMode = "single"
    Modes <- SingleOrDouble
    FirstPageSingle = TRUE
    Restores <- Either
    Interval = 0
INVARIANTS
    PlaceIsKept
    TurnsAreStated
PROPERTIES
    TurnsAreDelivered
CHECK_DEADLOCK FALSE
