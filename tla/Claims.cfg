SPECIFICATION LiveSpec
CONSTANTS
    NumClaims = 2
    Policies <- AllPolicies
    MaxPods = 3
    MaxDisturbances = 2
INVARIANT
    TypeOK
PROPERTIES
    RetainKeepsClaims
    OwnersSettle
    PodGetsClaims
CHECK_DEADLOCK FALSE
