SPECIFICATION BootSpec
CONSTANTS
    Paths <- MCPaths
    Metadata <- MCMetadata
    VersionFile = "VERSION"
    Base <- MCBase
    Packages <- MCPackages
    Files <- MCFiles
    Deletes <- MCDeletes
    Source <- MCSource
    IOFaults = FALSE
    RequiredByInit <- MCRequiredByInit
    RequiredByLauncher <- MCRequiredByLauncher
    Works <- MCWorks
    RestartLimit = 3
    MaxCuts = 2
INVARIANTS
    WholeTree
    VersionIsLast
    FrontendSeesWholeTree
    ConfirmedWorks
PROPERTIES
    Spec
    InterruptedIsRestored
    DeadProbationEnds
