CONSTANTS
    w1 = w1
    w2 = w2
    Workloads = {w1, w2}
    Stage <- TwoStages
    CronJobs = {cj}
    ScaledObjects = {}
    MaxReplicas = 2
    SkipOnTimeout = TRUE
    CacheLags = FALSE
    MaxFlips = 2
    MaxEdits = 1
    MaxFaults = 1
SPECIFICATION Spec
INVARIANTS TypeOK CountRemembered NothingLeftBehind
PROPERTIES RestoredInFull StagesInOrder KeepsContract
