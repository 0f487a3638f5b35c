SPECIFICATION Spec
CONSTANTS
  PageSize = 2
  Top = 26
  IntRange = 16
  Config <- MCConfig
  Touches <- MCTouches
  Sizes = {1, 2}
  None = none
INVARIANTS
  CrashAsDocumented
CHECK_DEADLOCK FALSE
