SPECIFICATION AllocSpec
CONSTANTS
  Functions <- SpillFunctions
  Ks <- ThreeKs
  MaxGenerate <- SpillGenerate
  InitialRegs <- ThreeRegs
INVARIANTS
  TempIsR11
CHECK_DEADLOCK FALSE
