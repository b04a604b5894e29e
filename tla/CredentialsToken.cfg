SPECIFICATION Spec
CONSTANTS
    k1 = k1
    k2 = k2
    Keys <- OneKey
    NoKey = NoKey
    Refresh = TRUE
    Resyncs = FALSE
    MaxChanges = 0
    MaxFaults = 0
INVARIANT TokenStaysValid
CHECK_DEADLOCK FALSE
