SPECIFICATION LiveSpec
CONSTANTS
    p1 = p1
    p2 = p2
    Pods <- OnePod
    UpdateStrategy = "OnDelete"
    Disturbances = {"cordon"}
    MaxDisturbances = 2
PROPERTY
    UncordonedNodeIsUndrained
