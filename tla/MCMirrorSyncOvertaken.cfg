SPECIFICATION Spec
CONSTANTS
    Series <- TwoSeries
    PerSeries = 2
    Stock <- ThreeBooks
    PageSize = 1
    Rough <- EventsOnly
    MaxChanges = 1
    MaxBreaks = 0
    MaxHints = 1
PROPERTIES
    NeverDeletesLive
