SPECIFICATION Spec
CONSTANTS
  Names = {x, y, z}
  FunctionNames = {f, g}
  None = none
  MaxFunctions = 3
  MaxReductions = 4
INVARIANTS OwnVariablesOnly
CHECK_DEADLOCK FALSE
