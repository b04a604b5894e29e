SPECIFICATION Spec
CONSTANTS
    t1 = t1
    t2 = t2
    t3 = t3
    h1 = h1
    h2 = h2
    h3 = h3
    h4 = h4
    Hashes <- AllHashes
    HashOf <- Injective
    Templates <- TwoGood
    Labelled <- TwoGood
    Broken <- NoTemplate
    Replicas = 2
    MaxUnavailable = 1
    HistoryLimit = 1
    MaxCollisions = 0
    MaxDisturbances = 1
INVARIANT
    MaxUnavailableKept
