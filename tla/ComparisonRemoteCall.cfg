SPECIFICATION Spec
CONSTANTS
  r1 = r1
  r2 = r2
  c1 = c1
  c2 = c2
  s1 = s1
  s2 = s2
  Runs <- TwoRuns
  Recipes <- MCRecipes
  Sources <- MCSources
  Requests <- RepeatOrForce
  Modes <- CliModes
  RepairLimit = 1
  Replies <- GoodOrMalformed
  Priced = {c1}
  NoSource = NoSource
  NoResult = NoResult
CHECK_DEADLOCK FALSE
INVARIANT NoRemoteCallHoldsTransaction
