SPECIFICATION FairSpec
CONSTANTS
    Series <- TwoSeries
    PerSeries = 2
    Stock <- ThreeBooks
    PageSize = 1
    Rough <- EventsAndKills
    MaxChanges = 2
    MaxBreaks = 1
    MaxHints = 1
PROPERTIES
    MirrorConverges
