SPECIFICATION AssessmentSpec
CONSTANTS
  Requests <- MCRequests
  MaxRepairTokens = 2
  m = m
  M = M
  n = n
  none = none
  Identities <- MCIdentities
  Casefold <- MCCasefold
  NoIdentity = none
  Circumstances <- MCCircumstances
  AssessorRequests <- MCAssessorRequests
CHECK_DEADLOCK FALSE
INVARIANTS
  TypeOK
  EveryCallFits
  OutcomeTellsTheStory
  AssessmentCallsAreKept
  VerdictsAreIndependent
PROPERTY EventuallyDecided
