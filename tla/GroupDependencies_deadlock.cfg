CONSTANTS
    N = 3
    Specs <- Knots
    Wishes <- PlainWishes
    NewGroups = FALSE
    CacheLags = FALSE
    MaxFlips = 0
    MaxFaults = 0
SPECIFICATION FairSpec
PROPERTIES CycleCannotDeadlock
