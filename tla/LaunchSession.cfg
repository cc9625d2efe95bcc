SPECIFICATION Spec
CONSTANTS
    Systems = {"dos", "n64"}
    Dos = "dos"
    Files = {"g"}
    ContentSuffixes = {"x"}
    Profiles = {"ra:a", "ra:b", "pa:a", "pa:b"}
    PicoProfiles = {"pa:a", "pa:b"}
    PicoBanned = {"pa:b"}
    NoCompanion = {"n64"}
    Companion <- MCCompanion
    FirstCatalogue <- MCFirstCatalogue
    Catalogues <- MCCatalogues
    FieldValues <- MCFieldValues
    GroupOf <- MCGroupOf
    Retired = {"fixed"}
    FirstDocuments <- MCFirstDocuments
    CoreCommands <- MCCoreCommands
    Kind <- MCKind
    Installed = {"ra:a", "ra:b", "pa:a"}
    PyxelFiles = {}
    HotkeydOwned = {"picoarch"}
    MaxProfiles = 3
    MaxSystemOverrides = 1
    MaxRomOverrides = 1
    MaxFavorites = 1
    MaxRecents = 2
    FirstModes = {"last", "off"}
    MaxCommands = 2
    FirstHistories <- MCFirstHistories
    Given = {"pa:a"}
    AdapterOwnsCpu = FALSE
    IOFaults = TRUE
INVARIANTS ShownIsLaunched RelaunchesWhatWasCut
PROPERTIES LaunchReturns ImplementsStore
