SPECIFICATION Spec
CONSTANTS
  Names = {x, y, z}
  FunctionNames = {f, g}
  None = none
  MaxFunctions = 3
  MaxReductions = 4
SYMMETRY Symmetry
INVARIANTS ScopesTypeOK IdsBelowTemps NamesApart
PROPERTIES FunctionsSettled
CHECK_DEADLOCK FALSE
