SPECIFICATION FairSpec
CONSTANTS
    b1 = b1
    b2 = b2
    Books <- TwoBooks
    NoBook = NoBook
    LastPage = 1
    MaxAttempts = 2
    BadRun = 2
    PassPages = 2
    Rough <- Threads
    MaxEdition = 1
    MaxTaps = 2
    MaxFaults = 1
PROPERTIES
    EveryBookComesToRest
CHECK_DEADLOCK FALSE
