SPECIFICATION Spec
CONSTANTS
    MaxPods = 3
    MaxUnavailable = 1
INVARIANT
    UnhealthyPodsAreUnhealthy
