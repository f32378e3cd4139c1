SPECIFICATION Spec
CONSTANTS
  h1 = h1
  h2 = h2
  pr = pr
  prBaseline = prBaseline
  aggregate = aggregate
  aggregateBaseline = aggregateBaseline
  Cases <- MCCases
  HeldOut <- MCCases
  PrPlan <- MCPrPlan
  AggregatePlan <- MCAggregatePlan
  Baselines <- MCBaselines
  Upstream = Upstream
  Assessor = Assessor
  Foreign = Foreign
  Ceiling = 2
  Cap = 13
  Outcomes <- MCOutcomes
  Disturbed = {h1}
  MaxCrashes = 1
CHECK_DEADLOCK FALSE
INVARIANTS
  CapHoldsUpToOneCase
  ProgressIsDurable
  SuccessesAreNotRepeated
  UnknownCostStops
PROPERTY EventuallySettled
