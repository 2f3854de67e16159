SPECIFICATION Spec
CONSTANTS
    Series <- TwoSeries
    PerSeries = 2
    Stock <- ThreeBooks
    PageSize = 1
    Rough <- BreaksAndDrops
    MaxChanges = 1
    MaxBreaks = 1
    MaxHints = 0
PROPERTIES
    FailedSyncKeepsLiveBooks
