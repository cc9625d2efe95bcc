SPECIFICATION Spec
CONSTANTS
    Systems <- MCSystems
    Roms <- MCRoms
    Dirs <- MCDirs
    SystemOf <- MCSystemOf
    PathOf <- MCPathOf
    Parent <- MCParent
    Inside <- MCInside
    Rank <- MCRank
    Music = "music"
    Graphic = TRUE
    Thumbnails = FALSE
    Wrap = TRUE
    Page = 2
    MemoryMax = 1
    RecentMax = 2
    SavedIndexes <- MCIndexes
    SavedFavorites <- MCFavorites
    SavedRecents <- MCRecents
    MaxChanges = 1
INVARIANTS
    CursorInRange
    ListMatchesScreen
    MarksAreTrue
    ReturnsWhereLeft
PROPERTIES
    LaunchedIsSelected
