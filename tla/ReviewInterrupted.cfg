SPECIFICATION Spec
CONSTANTS
  p1 = p1
  p2 = p2
  s1 = s1
  a1 = a1
  Procs <- MCProcs
  Sessions <- OneSession
  Assessments <- OneAssessment
  Unguided <- AccidentalOnly
  MaxExposures = 1
  MaxRevisions = 3
  NoSession = NoSession
  NoAssessment = NoAssessment
SYMMETRY MCSymmetry
CHECK_DEADLOCK FALSE
INVARIANT InterruptedReviewCanBeResumed
