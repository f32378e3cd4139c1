------------------------------ MODULE MCAssessment ------------------------------
(***************************************************************************)
(* Small requests of every kind around each boundary: a reservation of     *)
(* zero, at and above the model's limit, an input budget above and below   *)
(* what the context window leaves, and prompts one token around the budget.*)
(* An assessor has two of the recipes; the circumstances of an assessment  *)
(* are all combinations with at most three things out of the ordinary.     *)
(***************************************************************************)
EXTENDS Assessment, TLC

CONSTANTS m, M, n, none

MCRequests ==
  {q \in [kind : Kinds, size : 1..5, max_tokens : {0, 2, 3}, max_output_tokens : {2},
          context_window : {5, 6}, input_budget : {3, 9}, repair_limit : 0..2] :
     /\ q.kind # "recipe" => q.repair_limit = 1
     \* the production routes have subtracted the reservation already
     /\ q.kind = "account" => q.input_budget <= q.context_window - q.max_tokens}

MCAssessorRequests ==
  {q \in MCRequests : q.kind = "recipe" /\ q.size \in {2, 4} /\ q.max_tokens = 2
                      /\ q.context_window = 5 /\ q.input_budget = 3 /\ q.repair_limit = 1}

MCIdentities == {m, M, n}
MCCasefold == m :> m @@ M :> m @@ n :> n

Usual == [target |-> "succeeded", invocation |-> "holds", member |-> "holds", stage |-> "verify",
          source |-> TRUE, producer |-> m, assessor |-> n, produced |-> "expected",
          key |-> TRUE, adapter |-> TRUE]

MCCircumstances ==
  {c \in CircumstanceType : Cardinality({f \in DOMAIN Usual : c[f] # Usual[f]}) <= 3}
=============================================================================
