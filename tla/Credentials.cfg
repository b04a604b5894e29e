SPECIFICATION LiveSpec
CONSTANTS
    k1 = k1
    k2 = k2
    Keys <- TwoKeys
    NoKey = NoKey
    Refresh = TRUE
    Resyncs = TRUE
    MaxChanges = 3
    MaxFaults = 1
INVARIANTS
    OneClientRuns
    ClientRenewedInTime
PROPERTIES
    ClientSettles
    TokenRecovers
CHECK_DEADLOCK FALSE
