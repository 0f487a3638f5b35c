SPECIFICATION FairSpec
CONSTANTS
  PageSize = 2
  Top = 26
  IntRange = 16
  Config <- MCConfig
  Touches <- MCTouches
  Sizes = {1, 2}
  None = none
INVARIANTS
  MemoryTypeOK
  CodeIntact
  HandlersAlive
  CrashJustified
PROPERTIES
  BytesStay
  AccessServed
CHECK_DEADLOCK FALSE
