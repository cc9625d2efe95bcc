SPECIFICATION ProvisionFairSpec
CONSTANTS
    Leftovers <- MCLeftovers
    MaxUpsets = 4
    MaxEdits = 2
INVARIANT CompleteIsReady
PROPERTIES DataKept FirstBootCompletes
