SPECIFICATION ReadSpec
CONSTANTS
    b1 = b1
    b2 = b2
    Book <- OneBook
    Reflowable <- None
    LastPage = 3
    Words <- None
    OtherWords <- OtherFinishes
    Faults <- None
    BaseSeconds = 1
    MaxSeconds = 2
    Horizon = 1
    MaxAttempts = 2
    MaxStatements = 2
    MaxOthers = 1
    MaxPrunes = 0
    MaxCrashes = 0
    MaxLate = 0
    GlobalMode = "single"
    Modes <- SingleOrDouble
    FirstPageSingle = TRUE
    Restores <- Always
    Interval = 1
PROPERTY OnlyGesturesSpeak
CHECK_DEADLOCK FALSE
