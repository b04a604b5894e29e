SPECIFICATION Spec
CONSTANTS
    NumClaims = 1
    Policies <- DeleteWhenScaled
    MaxPods = 2
    MaxDisturbances = 1
PROPERTY
    OnlyExcessClaimsGo
CHECK_DEADLOCK FALSE
