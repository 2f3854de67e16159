SPECIFICATION Spec
CONSTANTS
    Series <- TwoSeries
    PerSeries = 2
    Stock <- ThreeBooks
    PageSize = 1
    Rough <- LongRun
    MaxChanges = 2
    MaxBreaks = 2
    MaxHints = 0
INVARIANTS
    OnlyShiftsMislead
PROPERTIES
    WholeSweepIsFull
    RowNeverGoesBack
    BootstrapMirrorsAll
CHECK_DEADLOCK FALSE
