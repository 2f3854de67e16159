SPECIFICATION Spec
CONSTANTS
    b1 = b1
    b2 = b2
    Book <- OneBook
    Rough <- Calm
    MaxPerPoll = 2
    MaxIdleTicks = 2
    MaxChanges = 2
    MaxCuts = 0
    MaxRuns = 1
PROPERTIES
    BurstIsHandedBack
