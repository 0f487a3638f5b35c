SPECIFICATION Spec
CONSTANTS
  NumVars <- MCNumVars
  Programs <- MCPrograms
INVARIANTS
  TypeOK
  VisitedExact
  Exact
  WriteInterferes
CHECK_DEADLOCK FALSE
