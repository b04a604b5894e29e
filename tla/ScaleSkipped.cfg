SPECIFICATION Spec
CONSTANTS
    MaxReplicas = 2
    BurstReplicas = 2
    Disturbances = {"scale", "uncordon"}
    MaxDisturbances = 2
INVARIANT
    SkippedCreatesNotExpected
