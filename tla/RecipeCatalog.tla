------------------------------ MODULE RecipeCatalog ------------------------------
(***************************************************************************)
(* What a reader may rely on: numbered recipe versions and baseline        *)
(* assignments that appear once, complete, and never change.               *)
(***************************************************************************)
EXTENDS Integers

VARIABLES
  recipes,   \* [name, version, condition, prompt]
  baselines, \* the recipes that are baselines
  assigned   \* <<candidate, baseline>>

Init == recipes = {} /\ baselines = {} /\ assigned = {}

\* The next version of its name: the versions before it are there, and no others.
Due(r) ==
  {q.version : q \in {x \in recipes : x.name = r.name}} = 1..(r.version - 1)

Save(r) ==
  /\ Due(r) /\ recipes' = recipes \cup {r}
  /\ UNCHANGED <<baselines, assigned>>

\* A baseline is stored together with its first assignment, differs from the
\* candidate in its prompt at most, and needs no baseline of its own.
Assign(candidate, baseline) ==
  /\ candidate \in recipes \ baselines
  /\ \A pair \in assigned : pair[1] # candidate
  /\ baseline.condition = candidate.condition
  /\ \/ baseline \in baselines /\ UNCHANGED <<recipes, baselines>>
     \/ /\ Due(baseline)
        /\ recipes' = recipes \cup {baseline} /\ baselines' = baselines \cup {baseline}
  /\ assigned' = assigned \cup {<<candidate, baseline>>}

Next ==
  \/ \E r \in recipes' \ recipes : Save(r)
  \/ \E pair \in assigned' \ assigned : Assign(pair[1], pair[2])

Spec == Init /\ [][Next]_<<recipes, baselines, assigned>>
=============================================================================
