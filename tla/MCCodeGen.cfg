SPECIFICATION Spec
CONSTANTS
  Word <- Words8
  Inputs <- MCInputs
  Arguments <- MCArguments
  Junk <- MCJunk
INVARIANTS
  TypeOK
  Simulates
  FaultsJustified
  FrameHeld
PROPERTIES
  CallerKeeps
CHECK_DEADLOCK FALSE
