SPECIFICATION LiveSpec
CONSTANTS
    Scenes <- OneByOne
    Changing <- Watched
    MaxChanges = 2
INVARIANTS
    QuietMeansInSync
PROPERTIES
    HostKeysKept
    Settles
CHECK_DEADLOCK FALSE
