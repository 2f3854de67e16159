SPECIFICATION FairSpec
CONSTANTS
    Series <- TwoSeries
    PerSeries = 2
    Stock <- ThreeBooks
    PageSize = 1
    Rough <- EventsAndDrops
    MaxChanges = 2
    MaxBreaks = 0
    MaxHints = 1
PROPERTIES
    MirrorConverges
