SPECIFICATION FairUpkeepSpec
CONSTANTS
    b1 = b1
    b2 = b2
    Book <- TwoBooks
    Rough <- Breaks
    MaxPerPoll = 2
    MaxIdleTicks = 2
    MaxChanges = 3
    MaxCuts = 2
    MaxRuns = 0
    ListId = {1, 2}
    Member = {"x", "y"}
    ListPageSize = 1
    MaxEdits = 2
    MaxLosses = 1
    MaxStops = 1
    Cover <- TwoServersCovers
    BookCovers <- ABooksCover
    Filler = {1}
    MaxMishaps = 1
INVARIANTS
    NothingForgotten
    CoverIsShown
PROPERTIES
    ListsAgree
    MirrorCatchesUp
CHECK_DEADLOCK FALSE
