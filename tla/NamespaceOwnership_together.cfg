SPECIFICATION Spec
CONSTANTS
    a = a b = b
    Groups = {1, 2}
    Namespaces = {a, b}
    Configs = {}
    GroupSpecs <- SpecsByName
    ConfigSpecs <- ConfigWithPage
    CacheLags = FALSE
    Patient = FALSE
    MaxChanges = 2
    MaxFaults = 0
CHECK_DEADLOCK FALSE
INVARIANT UninstallRestores
