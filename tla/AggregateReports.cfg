SPECIFICATION Spec
CONSTANTS
  p1 = p1
  p2 = p2
  Procs <- MCProcs
  Windows <- MCWindows
  Budgets <- MCBudgets
  Envelope = 1
  Separator = 1
  ChildTokens = 2
  Outcomes <- MCOutcomes
  PlanInputs <- MCPlanInputs
  MaxVersions = 1
  MaxReports = 3
SYMMETRY MCSymmetry
CHECK_DEADLOCK FALSE
INVARIANTS
  ReportsCoverTheWindow
  PlannedRequestsAreRoutable
  CompletedNodesAreReused
  PlanIsSound
