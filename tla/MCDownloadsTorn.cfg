SPECIFICATION Spec
CONSTANTS
    b1 = b1
    b2 = b2
    Books <- OneBook
    NoBook = NoBook
    LastPage = 2
    MaxAttempts = 2
    BadRun = 2
    PassPages = 2
    Rough <- Torn
    MaxEdition = 2
    MaxTaps = 4
    MaxFaults = 2
INVARIANT
    NothingStranded
CHECK_DEADLOCK FALSE
