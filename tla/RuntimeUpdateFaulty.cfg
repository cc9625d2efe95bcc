SPECIFICATION Spec
CONSTANTS
    Paths <- MCPaths
    Metadata <- MCMetadata
    VersionFile = "VERSION"
    Base <- MCBase
    Packages <- MCPackages
    Files <- MCFiles
    Deletes <- MCDeletes
    Source <- MCSource
    IOFaults = TRUE
INVARIANTS
    NothingLost
PROPERTIES
    ChangeOnlyUnderJournal
