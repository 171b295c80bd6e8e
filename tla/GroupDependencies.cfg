CONSTANTS
    N = 3
    Specs <- Shapes
    Wishes <- MixedWishes
    NewGroups = TRUE
    CacheLags = TRUE
    MaxFlips = 1
    MaxFaults = 1
SPECIFICATION FairSpec
INVARIANTS CyclesBroken
PROPERTIES DependenciesOutlive  
