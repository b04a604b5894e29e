SPECIFICATION Spec
CONSTANTS
    Scenes <- ControllerOnly
    Changing <- ControllerChanges
    MaxChanges = 1
INVARIANTS
    ClaimTemplatesFollow
CHECK_DEADLOCK FALSE
