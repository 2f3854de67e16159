SPECIFICATION Spec
CONSTANTS
    b1 = b1
    b2 = b2
    Books <- OneBook
    NoBook = NoBook
    LastPage = 2
    MaxAttempts = 2
    BadRun = 2
    PassPages = 2
    Rough <- OnePass
    MaxEdition = 2
    MaxTaps = 4
    MaxFaults = 2
INVARIANTS
    NothingStranded
PROPERTIES
    PauseHolds
    DownloadsAreKept
    SweepReconciles
    KeepsToTheTable
CHECK_DEADLOCK FALSE
