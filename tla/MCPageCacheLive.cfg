SPECIFICATION FairCacheSpec
CONSTANTS
    p1 = p1
    p2 = p2
    p3 = p3
    v1 = v1
    Page <- OnePage
    Large <- NoPage
    Format <- Png
    Viewer <- OneViewer
    Answers <- AllAnswers
    Budget = 1
    MemoryBudget = 1
    InFlight = 1
    Upkeep <- AllUpkeep
    Mishaps <- BothMishaps
    MaxMishaps = 1
INVARIANT SweptCacheAgrees
PROPERTIES AnswersAreWhole HiddenBytesAreSwept
CHECK_DEADLOCK FALSE
