SPECIFICATION Spec
CONSTANTS
  Word <- Words8
  Files <- Example
  Arguments <- MCArguments
  Junk <- MCJunk
  InitialRegs <- CodeRegs
  MaxVars <- MCMaxVars
INVARIANTS
  ReturnsAsSource
