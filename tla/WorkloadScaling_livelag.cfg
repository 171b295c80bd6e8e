CONSTANTS
    w1 = w1
    w2 = w2
    Workloads = {w1}
    Stage <- TwoStages
    CronJobs = {cj}
    ScaledObjects = {so}
    MaxReplicas = 1
    SkipOnTimeout = TRUE
    CacheLags = TRUE
    MaxFlips = 2
    MaxEdits = 1
    MaxFaults = 1
SPECIFICATION FairSpec
PROPERTY EventuallySettled
