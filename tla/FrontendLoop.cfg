SPECIFICATION Spec
CONSTANTS
  None = None
  Codes <- MCCodes
  StartMenu <- MCStart
  AppsMenu <- MCApps
  SettingRows <- MCRows
  PowerMenu <- MCPower
  TopStrip = TRUE
  Networks = {"home", "cafe"}
  Open = {"cafe"}
  MinPassword = 1
  MaxPassword = 1
  EventBuffer = 2
INVARIANTS
  RepeatHasCause
  SecretForItsNetwork
PROPERTIES
  DestructionIsConfirmed
