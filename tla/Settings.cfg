SPECIFICATION Spec
CONSTANTS
    VOLUME_MAX = 2
    FactorySys <- MCFactorySys
    FactoryFe <- MCFactoryFe
    ThemeFiles <- MCThemeFiles
    ThemeOrder <- MCThemeOrder
    Systems <- MCSystems
    ProfileCpu <- MCProfileCpu
    ResetTargets = {"system_factory_reset_ra"}
    BadZones = {"Asia Tokyo"}
    Panel = {"system_brightness"}
    Today <- MCToday
    Touch <- MCTouch
    MaxOps = 2
    MaxFaults = 1
    None = None
INVARIANTS
    LastSaveStands
    ShownIsSaved
    HardwareFollowsFile
PROPERTY
    KeysSettle
CHECK_DEADLOCK FALSE
