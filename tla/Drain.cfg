SPECIFICATION LiveSpec
CONSTANTS
    p1 = p1
    p2 = p2
    Pods <- OnePod
    UpdateStrategy = "RollingUpdate"
    Disturbances <- AllDisturbances
    MaxDisturbances = 2
INVARIANTS
    TypeOK
    EvacuationInv
    DeleteDecisionIsFresh
    UndrainDecisionIsFresh
    NoWorkWhenDeleted
PROPERTIES
    KeepsContract
    CondemnedIsDeleted
    CordonedNodeIsDrained
    UncordonedNodeIsUndrained
