SPECIFICATION Spec
CONSTANTS
    n1 = n1
    n2 = n2
    Nodes <- OneNode
    Replicas = 1
    MaxDaemons = 2
    MaxBackoff = 1
    NodeStates <- AllNodeStates
    InitialModes <- FromDaemonSet
    MaxDisturbances = 0
    FaultCost = 1
INVARIANT
    OnePodPerNode
