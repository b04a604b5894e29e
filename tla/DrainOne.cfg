SPECIFICATION Spec
CONSTANTS
    p1 = p1
    p2 = p2
    Pods <- OnePod
    UpdateStrategy = "RollingUpdate"
    Disturbances <- AllDisturbances
    MaxDisturbances = 3
INVARIANTS
    TypeOK
    FreshInv
    DeleteDecisionIsFresh
    UndrainDecisionIsFresh
    NoWorkWhenDeleted
