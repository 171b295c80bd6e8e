SPECIFICATION FairSpec
CONSTANTS
    g = g k = k groups = groups configs = configs
    r1 = r1 r2 = r2 n1 = n1 n2 = n2
    Page = Page OldPage = OldPage None = None
    Controllers = {groups, configs}
    Assignments <- OneOrTwo
    Schedules <- TwoSchedules
    NamespacesOf <- OwnNamespace
    NamespaceOf <- Places
    Routes = {r1, r2}
    Apps = {a1}
    MaxChanges = 2 MaxFaults = 1
CHECK_DEADLOCK FALSE
INVARIANTS NeverWithoutGrant 
PROPERTIES  EndsInOrder
