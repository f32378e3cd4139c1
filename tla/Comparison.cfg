SPECIFICATION Spec
CONSTANTS
  r1 = r1
  r2 = r2
  c1 = c1
  c2 = c2
  s1 = s1
  s2 = s2
  Runs <- TwoRuns
  Recipes <- MCRecipes
  Sources <- MCSources
  Requests <- RepeatForceOrOther
  Modes <- MCModes
  RepairLimit = 1
  Replies <- GoodOrMalformed
  Priced = {c1}
  NoSource = NoSource
  NoResult = NoResult
SYMMETRY TwoRunSymmetry
CHECK_DEADLOCK FALSE
INVARIANTS
  IInv
  ReuseIsSound
  AccountingMatchesCalls
  DoneMeansSettled
  CommittedSuccessIsReused
  OwnChecksHold
PROPERTIES
  AutocommitKeepsFinishedMembers
  LedgerSpec
