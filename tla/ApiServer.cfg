SPECIFICATION Spec
CONSTANTS
    r1 = r1 r2 = r2
    MaxTime = 2 MaxFaults = 2 MaxChanges = 3
    Plans <- AllPlans
    Replicas = {r1, r2}
    Users = {"u"}
    TokenNames = {"t"}
    RoleRank <- Ranks
    Passwords = {1, 2}
    Builtin = "costdeck"
    UserOps <- SomeUserOps
    TokenOps <- SomeTokenOps
    SignOns <- SomeSignOns
    CacheTTL = 1 SessionTTL = 2 LoginBurst = 1 MaxWrites = 1
    Browsers = {"b"}
    People <- SomePeople
    TxnTTL = 1
    Containers <- SomeContainers
    Demands <- SomeDemands
    Pressures <- SomePressures
    Policies <- SomePolicies
    Works = {"a", "job", "m"}
    NameOf <- Names
    Managed = {"m"}
    Requests = {1, 2}
    Operators = {"o", "p"}
    Guard = "g"
    GuardPeriod = 1 MaxTries = 1
SYMMETRY Interchangeable
CHECK_DEADLOCK FALSE
INVARIANTS OneSigningKey AccessEndsInTime  
 
