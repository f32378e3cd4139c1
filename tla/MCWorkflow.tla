------------------------------- MODULE MCWorkflow -------------------------------
(***************************************************************************)
(* Two held-out pull requests, one comparison of a candidate with its      *)
(* baseline in each stage.  A member costs one unit, more than its         *)
(* estimate of two when it fails, or an amount nobody learns.              *)
(***************************************************************************)
EXTENDS Workflow

CONSTANTS h1, h2, pr, prBaseline, aggregate, aggregateBaseline

MCCases == <<h1, h2>>
MCPrPlan == <<pr, prBaseline>>
MCAggregatePlan == <<aggregate, aggregateBaseline>>
MCBaselines == {prBaseline, aggregateBaseline}
MCOutcomes ==
  {[status |-> "succeeded", cost |-> 1, known |-> TRUE],
   [status |-> "failed", cost |-> 3, known |-> TRUE],
   [status |-> "failed", cost |-> 1, known |-> FALSE]}
===============================================================================
