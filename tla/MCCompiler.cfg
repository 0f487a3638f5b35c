SPECIFICATION Spec
CONSTANTS
  Word <- Words8
  Files <- MCFiles
  Arguments <- MCArguments
  Junk <- MCJunk
  InitialRegs <- ThreeRegs
  MaxVars <- MCMaxVars
INVARIANTS
  MeansTheSame
  TempsReadOnce
  HandedOver
PROPERTIES
  KeepsPromise
