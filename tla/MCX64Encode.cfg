SPECIFICATION Spec
CONSTANTS
  Operations <- MCOperations
INVARIANTS
  TypeOK
  ReadsBack
  SizeIsRead
  RefusedJustly
CHECK_DEADLOCK FALSE
