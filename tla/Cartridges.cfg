SPECIFICATION Spec
CONSTANTS
  N = 3
  LabelCache = 1
  WarmRadius = 0
  Span = 0
  PageJump = 5
  Listed <- MCListed
  Available <- MCAvailable
  PlumosRom <- MCPlumosRom
  SystemChoices <- MCSystemChoices
  Prefer <- MCPrefer
  MaxOverrides = 1
  FirstMotions = {"snap", "gallery"}
  Faults = {"save", "reload"}
  MaxTo = 2
INVARIANTS ClaimsOnlyDurable MotionEndsOnTarget SnapLaunchesAimed
CHECK_DEADLOCK FALSE
