SPECIFICATION Spec
CONSTANTS
    p1 = p1
    p2 = p2
    Pods <- OnePod
    UpdateStrategy = "RollingUpdate"
    Disturbances = {"scale"}
    MaxDisturbances = 1
INVARIANT
    DrainedBeforeDelete
