SPECIFICATION Spec
CONSTANTS
  p1 = p1
  p2 = p2
  a = a
  b1 = b1
  b2 = b2
  k1 = k1
  k2 = k2
  Procs <- MCProcs
  Planners <- MCPlanners
  Names <- MCNames
  Conditions <- MCConditions
  Prompts <- MCPrompts
  BaselinePrompts <- MCBaselinePrompts
  Schema = Schema
  Model <- MCModel
  BaselineName <- MCBaselineName
  Saves <- MCSaves
  MaxVersion <- MCMaxVersion
  long = long
  short = short
  shorter = shorter
CHECK_DEADLOCK FALSE
INVARIANTS
  OneBaselinePerCondition
  SavesDoNotCollide
  PlansStayTrue
PROPERTY CatalogSpec
