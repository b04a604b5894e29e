SPECIFICATION Spec
CONSTANTS
    p1 = p1
    p2 = p2
    Pods <- TwoPods
    UpdateStrategy = "RollingUpdate"
    Disturbances = {"scale", "error"}
    MaxDisturbances = 2
INVARIANTS
    NoWorkWhenDeleted
SYMMETRY PodSymmetry
