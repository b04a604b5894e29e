SPECIFICATION LiveSpec
CONSTANTS
    MaxReplicas = 2
    BurstReplicas = 2
    Disturbances <- Leaks
    MaxDisturbances = 2
INVARIANTS
    OrdinalsWithinRequest
PROPERTIES
    ConvergesToReplicas
