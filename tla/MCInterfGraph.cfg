SPECIFICATION FairSpec
CONSTANTS
  Functions <- ReuseFunctions
  Ks <- ReuseKs
  MaxGenerate <- ReuseMaxGenerate
INVARIANTS
  IInv
  LiveApart
  NoInternalError
  NoNeedlessSpill
  Reusable
PROPERTIES
  Refines
  Terminates
