SPECIFICATION Spec
CONSTANTS
    MaxReplicas = 3
    BurstReplicas = 2
    Disturbances <- Handled
    MaxDisturbances = 2
INVARIANTS
    TypeOK
    CreationsCountedOnce
    ExpectedDeletionsHappen
