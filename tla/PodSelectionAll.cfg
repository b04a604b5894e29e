SPECIFICATION Spec
CONSTANTS
    MaxPods = 3
    MaxUnavailable = 1
INVARIANTS
    LessIsStrictOrder
    SplitTakesMostDeletable
    SelectionIsSticky
    OneDaemonPodSurvives
    RollingUpdateStep
