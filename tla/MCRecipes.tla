-------------------------------- MODULE MCRecipes --------------------------------
(***************************************************************************)
(* Two processes, two conditions of different models, two minimal prompts: *)
(* the baselines of one condition for both prompts share a name.           *)
(***************************************************************************)
EXTENDS Recipes, TLC

CONSTANTS p1, p2, a, b1, b2, k1, k2, long, short, shorter

MCProcs == {p1, p2}
MCNames == {a, b1, b2}
MCConditions == {k1, k2}
MCSaves ==
  {[name |-> a, condition |-> k1, prompt |-> long],
   [name |-> a, condition |-> k2, prompt |-> long]}
MCMaxVersion == a :> 2 @@ b1 :> 2 @@ b2 :> 1
MCBaselineName == k1 :> b1 @@ k2 :> b2
MCPrompts == {long, short, shorter}
MCBaselinePrompts == {short, shorter}
MCModel == k1 :> 1 @@ k2 :> 2
MCPlanners == {p1}
=============================================================================
