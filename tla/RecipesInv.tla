------------------------------- MODULE RecipesInv -------------------------------
(***************************************************************************)
(* The inductive invariant behind the safety properties of Recipes.  What  *)
(* a transaction has read stays true until it commits, because of the      *)
(* locks it holds: nobody else numbers a version of the same name, or      *)
(* creates a baseline of the same condition and prompt.                    *)
(***************************************************************************)
EXTENDS Recipes

Drafts == [name : Names, version : Nat, condition : Conditions, prompt : Prompts]

Row == Prompts \cup {Schema} \cup RecipeVersions \cup (RecipeVersions \X RecipeVersions)

Locks == ({"name"} \X Names) \cup ({"baseline"} \X Conditions \X Prompts)

Inserting == {"prompt", "schema", "version", "insert"}
Registering == {"existing", "find", "assign"}
Planning == {"flags", "links", "planned"}

Control ==
  [pc : {"idle", "name", "condition", "commit", "collided"} \cup Inserting \cup Registering
          \cup Planning,
   own : [Tables -> SUBSET Row],
   holds : SUBSET Locks,
   wanted : Drafts \cup {NoRecipe},
   candidate : RecipeVersions \cup {NoRecipe},
   explicit : Seq(RecipeVersions), flags : Seq(BOOLEAN),
   links : Seq(RecipeVersions \cup {NoRecipe})]

TypeOK ==
  /\ db \in [Tables -> SUBSET Row]
  /\ proc \in [Procs -> Control]
  /\ db["baselines"] \subseteq db["recipes"] /\ db["recipes"] \subseteq RecipeVersions
  /\ db["assigned"] \subseteq db["recipes"] \X db["baselines"]

\* The versions of a name are 1..n, each of one recipe.
Numbered(name, n) ==
  \A v \in Nat \ {0} : (\E r \in db["recipes"] : r.name = name /\ r.version = v) <=> v <= n

CatalogOK ==
  /\ \A r, q \in db["recipes"] : SameKey(r, q) => r = q
  /\ \A name \in Names : \E n \in Nat : Numbered(name, n)
  /\ \A pair, other \in db["assigned"] : pair[1] = other[1] => pair = other

Unshared(r) ==
  \A b \in db["baselines"] : ~(b.condition = r.condition /\ b.prompt = r.prompt)

\* What the locks are for.
LocksOK(p) ==
  /\ proc[p].pc \in Inserting \/ proc[p].own["recipes"] # {} => NameLock(p) \in proc[p].holds
  /\ proc[p].candidate # NoRecipe /\ proc[p].pc # "condition" =>
       ConditionLock(p) \in proc[p].holds

\* A transaction's own rows are the recipe it makes and what it makes of it.
OwnOK(p) ==
  /\ proc[p].own["recipes"] \in {{}, {proc[p].wanted}}
  /\ proc[p].own["recipes"] # {} => proc[p].pc \in {"assign", "commit"}
  /\ proc[p].own["baselines"] =
       IF proc[p].candidate = NoRecipe THEN {} ELSE proc[p].own["recipes"]
  /\ proc[p].own["assigned"] \in {{}, {<<proc[p].candidate, proc[p].wanted>>}}
  /\ proc[p].own["assigned"] # {} => proc[p].pc = "commit" /\ proc[p].candidate # NoRecipe
  /\ proc[p].own["assigned"] = {} /\ proc[p].pc = "commit" /\ proc[p].candidate # NoRecipe =>
       proc[p].own["recipes"] = {}
  /\ proc[p].pc = "assign" => proc[p].candidate # NoRecipe
  /\ proc[p].pc \in {"condition"} \cup Registering => proc[p].candidate # NoRecipe

\* What a transaction relies on: the version it took is the next one, a baseline it
\* makes is the first of its kind, and its candidate has none.
ReliesOn(p) ==
  /\ proc[p].pc \in {"name", "condition"} \cup Inserting \cup Registering =>
       proc[p].wanted \in Drafts
  /\ proc[p].pc = "insert" \/ proc[p].own["recipes"] # {} =>
       /\ proc[p].wanted \in RecipeVersions
       /\ Numbered(proc[p].wanted.name, proc[p].wanted.version - 1)
  /\ proc[p].candidate # NoRecipe =>
       /\ proc[p].wanted \in Drafts
       /\ proc[p].candidate \in db["recipes"] \ db["baselines"]
       /\ proc[p].wanted.condition = proc[p].candidate.condition
       /\ proc[p].pc \in {"name"} \cup Inserting \/ proc[p].own["recipes"] # {} =>
            Unshared(proc[p].wanted)
  /\ /\ proc[p].pc = "assign" \/ proc[p].own["assigned"] # {}
     /\ proc[p].own["recipes"] = {}
     => proc[p].wanted \in db["baselines"]
  /\ proc[p].own["assigned"] # {} => AssignmentsOf(proc[p].candidate) = {}
  /\ proc[p].pc # "collided"

ProcOK(p) == LocksOK(p) /\ OwnOK(p) /\ ReliesOn(p)

\* Two transactions share no lock, and assign no baseline to the same candidate.
Apart(p, q) ==
  /\ proc[p].holds \cap proc[q].holds = {}
  /\ proc[p].own["assigned"] # {} /\ proc[q].own["assigned"] # {} =>
       proc[p].candidate # proc[q].candidate

IInv ==
  /\ TypeOK /\ CatalogOK /\ OneBaselinePerCondition
  /\ \A p \in Procs : ProcOK(p)
  /\ \A p, q \in Procs : p # q => Apart(p, q)

-----------------------------------------------------------------------------
(* What planners have read *)

\* A baseline has none, and a candidate the one that is assigned to it.
IsLink(assigned, recipe, flag, link) ==
  IF flag THEN link = NoRecipe
  ELSE {pair \in assigned : pair[1] = recipe} = {<<recipe, link>>}

\* The facts of two recipes, one after the other, and all of them still so.
ReadOK(p) ==
  LET plan == proc[p] IN
  plan.pc \in Planning =>
    /\ Len(plan.explicit) = 2 /\ plan.explicit[1] # plan.explicit[2]
    /\ plan.pc = "flags" => Len(plan.flags) \in 0..1 /\ plan.links = <<>>
    /\ plan.pc # "flags" => Len(plan.flags) = 2
    /\ plan.pc = "links" => Len(plan.links) \in 0..1
    /\ plan.pc = "planned" => Len(plan.links) = 2
    /\ \A i \in 1..2 : plan.explicit[i] \in db["recipes"]
    /\ \A i \in DOMAIN plan.flags : plan.flags[i] = (plan.explicit[i] \in db["baselines"])
    /\ \A i \in DOMAIN plan.links :
         IsLink(db["assigned"], plan.explicit[i], plan.flags[i], plan.links[i])

\* Nothing but the prompt tells a candidate from its baseline.
Reading ==
  /\ \A pair \in db["assigned"] : pair[1].condition = pair[2].condition
  /\ \A p \in Procs : ReadOK(p)
=============================================================================
