SPECIFICATION ScreensSpec
CONSTANTS
    p1 = p1
    p2 = p2
    p3 = p3
    v1 = v1
    Page <- ThreePages
    Large <- LastPage
    Format <- Png
    Viewer <- OneViewer
    Answers <- WholeOnly
    Budget = 2
    MemoryBudget = 1
    InFlight = 2
    Upkeep <- OnlySweep
    Mishaps <- OnlyErrors
    MaxMishaps = 1
    PageCount = 2
    Machines <- AnyMachine
    Layouts = {"single", "double"}
    Radios = {"up", "down"}
    MaxReports = 2
    MaxTurns = 2
    Fields <- ShortFields
    MaxText = 7
    Series = {"a", "b", "c"}
    Query = {"byName", "newestOnly"}
    Matches <- TwoQueries
    WallPage = 1
    MaxResets = 2
    MaxSyncs = 1
    Book = {"v1", "v2", "x1"}
    InOrder <- Volumes
    Chips = {"all", "unread"}
    DetailPage = 1
    MaxLoads = 2
    MaxWrites = 1
    ServerId = {1, 2}
    SavedAtFirst = {1}
    Asker = {1}
    MaxGestures = 2
    MaxTroubles = 1
INVARIANTS
    TiersFit
    EventsAreWholeFrames
    WallIsHonest
    TargetFollowsTheRule
    OutageCostsOneRequest
    CredentialsAgree
    ShelfFollowsTheUser
PROPERTIES
    SeenOutranksGuessed
CHECK_DEADLOCK FALSE
SYMMETRY AnyPage
