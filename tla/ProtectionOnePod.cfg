SPECIFICATION LiveSpec
CONSTANTS
    p1 = p1
    p2 = p2
    n1 = n1
    n2 = n2
    rack = rack
    Pods <- OnePod
    KubeNodes <- TwoNodes
    Unbound = Unbound
    Ends <- JobEndTimes
    TopologySpecs <- OneTopology
    NoTopology = NoTopology
    Protection = TRUE
    Losses = TRUE
    SyncPods <- OnePod
    MaxChanges = 2
    MaxFaults = 1
PROPERTIES
    ShieldHolds
    Settles
CHECK_DEADLOCK FALSE
