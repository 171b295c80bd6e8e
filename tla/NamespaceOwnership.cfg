SPECIFICATION FairSpec
CONSTANTS
    a = a b = b
    Groups = {1, 2}
    Namespaces = {a, b}
    Configs = {b}
    GroupSpecs <- SpecsMixed
    ConfigSpecs <- ConfigWithPage
    CacheLags = TRUE
    Patient = TRUE
    MaxChanges = 2
    MaxFaults = 1
CHECK_DEADLOCK FALSE
PROPERTIES EndsAsOwned OwnerUndisturbed
