SPECIFICATION FairSpec
CONSTANTS
    Plans <- SomePlans MaxTime = 1 MaxFaults = 1 MaxChanges = 2
    Namespaces = {"a", "b"}
    Clouds = {"c", "d"}
    TypeOf <- SomeTypes
    Blind = {}
    Specs <- SomeSpecs
    Timeout = 0
    GiveUp = 1
INVARIANTS StagesInTurn GoneGivesBack
PROPERTIES  FramedInOrder
CHECK_DEADLOCK FALSE
