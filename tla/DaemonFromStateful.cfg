SPECIFICATION LiveSpec
CONSTANTS
    n1 = n1
    n2 = n2
    Nodes <- OneNode
    Replicas = 1
    MaxDaemons = 3
    MaxBackoff = 2
    NodeStates <- AllNodeStates
    InitialModes <- FromStatefulSet
    MaxDisturbances = 2
    FaultCost = 2
INVARIANTS
    PodsPerNodeBounded
PROPERTIES
    ServingPodsStay
    FitNodesServed
    ModeSwitchCompletes
    LeftNodesCleared
