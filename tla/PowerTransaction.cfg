SPECIFICATION Spec
CONSTANTS
    Selections <- MCSelections
    Faults <- MCAllFaults
    RestartLimit = 3
    MaxCuts = 1
    MaxBoots = 1
    PID1 = PID1
    None = None
INVARIANTS
    OneOwner
    NoStaleProof
    CleanIsTrue
    NotTrapped
CHECK_DEADLOCK FALSE
