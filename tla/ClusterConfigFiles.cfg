SPECIFICATION Spec
CONSTANTS
    Scenes <- OneByOne
    Changing <- ConfigFilesOnly
    MaxChanges = 1
INVARIANTS
    ConfigFilesDetected
CHECK_DEADLOCK FALSE
