SPECIFICATION Spec
CONSTANTS
    p1 = p1
    p2 = p2
    Pods <- OnePod
    UpdateStrategy = "RollingUpdate"
    Disturbances = {"podcordon"}
    MaxDisturbances = 1
PROPERTY
    UserCordonKept
