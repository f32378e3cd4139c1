--------------------------- MODULE MCAggregateReports ---------------------------
(***************************************************************************)
(* Two processes.  A window gives one request, a tree of two requests and  *)
(* the one that combines them, or no plan at all.  A report may be as      *)
(* large as planned, or larger.  The planner itself is checked on all      *)
(* windows of up to four inputs.                                           *)
(***************************************************************************)
EXTENDS AggregateReports, TLC

CONSTANTS p1, p2

MCProcs == {p1, p2}
MCWindows == {<<1, 1>>, <<4, 2>>, <<7>>}
MCBudgets == <<5, 7>>
MCOutcomes ==
  {[status |-> "published", tokens |-> 2],
   [status |-> "published", tokens |-> 4],
   [status |-> "failed", tokens |-> 0]}
MCPlanInputs == UNION {[1..n -> 1..4] : n \in 0..4}
MCSymmetry == Permutations(MCProcs)
=============================================================================
