SPECIFICATION AllocFairSpec
CONSTANTS
  Functions <- LongFunctions
  Ks <- ThreeKs
  MaxGenerate <- LongGenerate
  InitialRegs <- ThreeRegs
INVARIANTS
  AllocTypeOK
  RegistersExist
  TempExclusive
  MappingApart
PROPERTIES
  SlotsStay
  CompileEnds
CHECK_DEADLOCK FALSE
