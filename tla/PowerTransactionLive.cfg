SPECIFICATION FairSpec
CONSTANTS
    Selections = {"s1"}
    Faults <- MCRecoverable
    RestartLimit = 3
    MaxCuts = 0
    MaxBoots = 1
    PID1 = PID1
    None = None
PROPERTIES
    Concludes
CHECK_DEADLOCK FALSE
