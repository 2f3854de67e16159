SPECIFICATION Spec
CONSTANTS
    b1 = b1
    b2 = b2
    Book <- TwoBooks
    Rough <- Anything
    MaxPerPoll = 2
    MaxIdleTicks = 2
    MaxChanges = 2
    MaxCuts = 1
    MaxRuns = 2
INVARIANTS
    ClaimIsHeld
PROPERTIES
    SweepBeforeHints
CHECK_DEADLOCK FALSE
