--------------------------------- MODULE Recipes ---------------------------------
(***************************************************************************)
(* Concurrent `recipes save', `recipes baseline' and the planning of       *)
(* `comparisons run' on one database.                                      *)
(*                                                                         *)
(* Each command is one transaction, which its connection's first statement *)
(* opens and the end of the connection commits.  A statement reads what is *)
(* committed when it begins, and the transaction's own rows.  An INSERT    *)
(* whose key another transaction holds uncommitted waits for its end.      *)
(* Advisory locks are held until the transaction ends.                     *)
(*                                                                         *)
(* One stage.  A recipe's frozen configuration is its condition, which is  *)
(* everything except the prompt, and its prompt.                           *)
(***************************************************************************)
EXTENDS Integers, FiniteSetsExt, SequencesExt

CONSTANTS
  Procs,
  Names, Conditions,
  Prompts,
  Planners,        \* the processes that plan comparisons (they write nothing)
  Saves,           \* what people save: [name, condition, prompt]
  BaselinePrompts, \* shipped minimal prompts, of different builds
  Schema,
  Model,           \* [Conditions -> endpoint and underlying model]
  BaselineName,    \* [Conditions -> Names]: "baseline-<stage>-<condition hash>"
  MaxVersion       \* [Names -> Nat], a bound on the versions that are begun

ASSUME RecipesAssumption ==
  /\ BaselineName \in [Conditions -> Names]
  /\ \A k, l \in Conditions : BaselineName[k] = BaselineName[l] => k = l
  /\ MaxVersion \in [Names -> Nat]
  /\ Saves \subseteq [name : Names, condition : Conditions, prompt : Prompts]
  /\ BaselinePrompts \subseteq Prompts /\ Schema \notin Prompts

RecipeVersions ==
  [name : Names, version : Nat \ {0}, condition : Conditions,
   prompt : Prompts]
NoRecipe == [version |-> 0]

VARIABLES
  db,  \* the committed rows
  proc

vars == <<db, proc>>

Tables == {"contents", "recipes", "baselines", "assigned"}
Empty == [t \in Tables |-> {}]

Idle == [pc |-> "idle", own |-> Empty, holds |-> {}, wanted |-> NoRecipe,
         candidate |-> NoRecipe, explicit |-> <<>>, flags |-> <<>>, links |-> <<>>]

Init == db = Empty /\ proc = [p \in Procs |-> Idle]

-----------------------------------------------------------------------------
(* Transactions *)

Rows(p, table) == db[table] \cup proc[p].own[table]
Others(p, table) == UNION {proc[q].own[table] : q \in Procs \ {p}}
IsFree(p, lock) == \A q \in Procs \ {p} : lock \notin proc[q].holds

Goto(p, pc) == proc' = [proc EXCEPT ![p].pc = pc]

Lock(p, lock, pc) ==
  /\ IsFree(p, lock)
  /\ proc' = [proc EXCEPT ![p].holds = @ \cup {lock}, ![p].pc = pc]

Commit(p) ==
  /\ proc[p].pc = "commit"
  /\ db' = [t \in Tables |-> Rows(p, t)]
  /\ proc' = [proc EXCEPT ![p] = Idle]

\* A check or a constraint raises, or the process dies.
Fail(p) ==
  /\ proc[p].pc \notin {"idle", "planned", "collided"}
  /\ proc' = [proc EXCEPT ![p] = Idle]
  /\ UNCHANGED db

-----------------------------------------------------------------------------
(* _insert_recipe *)

\* (faulty variant) Only saves of the same content exclude each other.
LockOfContent(p) == <<"name", proc[p].wanted.name, proc[p].wanted.prompt>>

NameLock(p) == <<"name", proc[p].wanted.name>>

LockName(p) ==
  /\ proc[p].pc = "name"
  /\ Lock(p, NameLock(p), "prompt")
  /\ UNCHANGED db

\* INSERT ... ON CONFLICT DO NOTHING, and the row that is there in any case.
SaveContent(p, pc, row, next) ==
  /\ proc[p].pc = pc
  /\ row \notin Others(p, "contents")
  /\ proc' = [proc EXCEPT ![p].pc = next,
                          ![p].own["contents"] = @ \cup ({row} \ db["contents"])]
  /\ UNCHANGED db

_save_prompt(p) == SaveContent(p, "prompt", proc[p].wanted.prompt, "schema")
_save_schema(p) == SaveContent(p, "schema", Schema, "version")

Versions(p) == {r.version : r \in {q \in Rows(p, "recipes") : q.name = proc[p].wanted.name}}

ReadVersion(p) ==
  /\ proc[p].pc = "version"
  /\ proc' = [proc EXCEPT ![p].pc = "insert",
                          ![p].wanted = [@ EXCEPT !.version = Max(Versions(p) \cup {0}) + 1]]
  /\ UNCHANGED db

SameKey(r, q) == r.name = q.name /\ r.version = q.version

\* (faulty variant) The variant of a new baseline is committed on its own.
InsertVariantFirst(p) ==
  LET r == proc[p].wanted IN
  /\ proc[p].pc = "insert"
  /\ \A q \in Others(p, "recipes") : ~SameKey(q, r)
  /\ db' = [db EXCEPT !["recipes"] = @ \cup {r}]
  /\ proc' = [proc EXCEPT ![p].pc = IF proc[p].candidate = NoRecipe THEN "commit" ELSE "assign",
                          ![p].own["baselines"] =
                             IF proc[p].candidate = NoRecipe THEN {} ELSE {r}]

\* UNIQUE (name, version).  A new baseline gets its baseline row as well.
InsertRecipe(p) ==
  LET r == proc[p].wanted IN
  /\ proc[p].pc = "insert"
  /\ \A q \in Others(p, "recipes") : ~SameKey(q, r)
  /\ IF \E q \in db["recipes"] : SameKey(q, r)
     THEN proc' = [proc EXCEPT ![p] = [Idle EXCEPT !.pc = "collided"]]
     ELSE IF proc[p].candidate = NoRecipe
     THEN proc' = [proc EXCEPT ![p].pc = "commit", ![p].own["recipes"] = {r}]
     ELSE proc' = [proc EXCEPT ![p].pc = "assign", ![p].own["recipes"] = {r},
                               ![p].own["baselines"] = {r}]
  /\ UNCHANGED db

create_recipe(p) ==
  /\ proc[p].pc \in {"idle", "planned"}
  /\ \E save \in Saves :
       /\ Cardinality({r \in db["recipes"] : r.name = save.name}) < MaxVersion[save.name]
       /\ proc' = [proc EXCEPT ![p] = [Idle EXCEPT !.pc = "name",
            !.wanted = [name |-> save.name, version |-> 0, condition |-> save.condition,
                        prompt |-> save.prompt]]]
  /\ UNCHANGED db

-----------------------------------------------------------------------------
(* register_primary_baseline *)

\* The candidate is loaded, and is no baseline itself.
register_primary_baseline(p) ==
  /\ proc[p].pc \in {"idle", "planned"}
  /\ \E candidate \in db["recipes"] \ db["baselines"], prompt \in BaselinePrompts :
       LET name == BaselineName[candidate.condition] IN
       /\ Cardinality({r \in db["recipes"] : r.name = name}) < MaxVersion[name]
       /\ proc' = [proc EXCEPT ![p] = [Idle EXCEPT !.pc = "condition",
            !.candidate = candidate,
            !.wanted = [name |-> name, version |-> 0, condition |-> candidate.condition,
                        prompt |-> prompt]]]
  /\ UNCHANGED db

\* (faulty variant) The lock is the candidate's.
LockOfCandidate(p) == <<"baseline", proc[p].candidate, proc[p].wanted.prompt>>

ConditionLock(p) == <<"baseline", proc[p].wanted.condition, proc[p].wanted.prompt>>

LockCondition(p) ==
  /\ proc[p].pc = "condition"
  /\ Lock(p, ConditionLock(p), "existing")
  /\ UNCHANGED db

\* The candidate's baseline: the existing one is returned, or refused.
AssignmentsOf(candidate) == {pair \in db["assigned"] : pair[1] = candidate}

CheckAssignment(p) ==
  /\ proc[p].pc = "existing"
  /\ \/ AssignmentsOf(proc[p].candidate) = {} /\ Goto(p, "find")
     \/ /\ \E pair \in AssignmentsOf(proc[p].candidate) :
             pair[2].prompt = proc[p].wanted.prompt
        /\ Goto(p, "commit")
  /\ UNCHANGED db

\* The first baseline of the condition and the prompt is shared.
FindBaseline(p) ==
  LET shared == {b \in db["baselines"] : /\ b.condition = proc[p].wanted.condition
                                         /\ b.prompt = proc[p].wanted.prompt}
      first == {b \in shared : \A c \in shared : b.version <= c.version}
  IN
  /\ proc[p].pc = "find"
  /\ \/ shared = {} /\ Goto(p, "name")
     \/ \E b \in first : proc' = [proc EXCEPT ![p].pc = "assign", ![p].wanted = b]
  /\ UNCHANGED db

\* The candidate is the key: a concurrent assignment is awaited, a committed one
\* raises (Fail).
InsertAssignment(p) ==
  /\ proc[p].pc = "assign"
  /\ \A pair \in Others(p, "assigned") : pair[1] # proc[p].candidate
  /\ AssignmentsOf(proc[p].candidate) = {}
  /\ proc' = [proc EXCEPT ![p].pc = "commit",
                          ![p].own["assigned"] = {<<proc[p].candidate, proc[p].wanted>>}]
  /\ UNCHANGED db

-----------------------------------------------------------------------------
(* plan_recipes: one statement per fact *)

StartPlan(p) ==
  /\ p \in Planners
  /\ proc[p].pc \in {"idle", "planned"}
  /\ \E r, q \in db["recipes"] :
       /\ r # q
       /\ proc' = [proc EXCEPT ![p] = [Idle EXCEPT !.pc = "flags", !.explicit = <<r, q>>]]
  /\ UNCHANGED db

IsBaseline(r) == r \in db["baselines"]

ReadFlag(p) ==
  LET i == Len(proc[p].flags) + 1 IN
  /\ proc[p].pc = "flags"
  /\ proc' = [proc EXCEPT ![p].flags = Append(@, IsBaseline(proc[p].explicit[i])),
                          ![p].pc = IF i = Len(proc[p].explicit) THEN "links" ELSE @]
  /\ UNCHANGED db

\* The baseline of an explicit recipe; it is an error (Fail) not to have one.
BaselineOf(r, flag) ==
  IF flag THEN {NoRecipe} ELSE {pair[2] : pair \in AssignmentsOf(r)}

ReadLink(p) ==
  LET i == Len(proc[p].links) + 1 IN
  /\ proc[p].pc = "links"
  /\ \E b \in BaselineOf(proc[p].explicit[i], proc[p].flags[i]) :
       proc' = [proc EXCEPT ![p].links = Append(@, b),
                            ![p].pc = IF i = Len(proc[p].explicit) THEN "planned" ELSE @]
  /\ UNCHANGED db

\* (faulty variant) A shared baseline is planned once for each of its candidates.
plan_repeating(explicit, flags, links) ==
  [i \in 1..(2 * Len(explicit)) |->
     IF i <= Len(explicit)
     THEN [recipe |-> explicit[i], label |-> "candidate", targets |-> {}]
     ELSE [recipe |-> links[i - Len(explicit)], label |-> "primary_baseline",
           targets |-> {explicit[i - Len(explicit)]}]]

\* A missing baseline is added once.
place(ordered, b) ==
  IF b = NoRecipe \/ Contains(ordered, b) THEN ordered ELSE Append(ordered, b)

\* A candidate has the model of the first one.
candidate_label(recipe, first) ==
  IF Model[recipe.condition] # Model[first.condition] THEN "model_comparison" ELSE "candidate"

\* The plan that the facts amount to: explicit recipes in their order, then each
\* missing baseline once, with their labels and the recipes they are baselines of.
plan_recipes(explicit, flags, links) ==
  LET ordered == FoldLeft(place, explicit, links)
      first == explicit[Min({i \in DOMAIN explicit : ~flags[i]})]
      label(i) == IF i > Len(explicit) \/ flags[i] THEN "primary_baseline"
                  ELSE candidate_label(ordered[i], first)
  IN [i \in DOMAIN ordered |->
       [recipe |-> ordered[i], label |-> label(i),
        targets |-> {explicit[j] : j \in {k \in DOMAIN links : links[k] = ordered[i]}}]]

-----------------------------------------------------------------------------

Insert(p) ==
  LockName(p) \/ _save_prompt(p) \/ _save_schema(p) \/ ReadVersion(p) \/ InsertRecipe(p)

Register(p) == LockCondition(p) \/ CheckAssignment(p) \/ FindBaseline(p) \/ InsertAssignment(p)

Continue(p) == Insert(p) \/ Register(p) \/ Commit(p) \/ ReadFlag(p) \/ ReadLink(p)

Next ==
  \E p \in Procs :
    \/ create_recipe(p) \/ register_primary_baseline(p) \/ StartPlan(p)
    \/ Continue(p) \/ Fail(p)

Spec == Init /\ [][Next]_vars
-----------------------------------------------------------------------------
(* Properties *)

\* docs/adr/0012: candidates of one condition share one baseline per prompt, however
\* their registrations race.  No constraint of the tables says so.
OneBaselinePerCondition ==
  \A b, c \in db["baselines"] : b.condition = c.condition /\ b.prompt = c.prompt => b = c

\* A save never fails on the key of its version, and versions have no gaps, whatever
\* was saved, aborted or registered under the same name at the same time.
SavesDoNotCollide ==
  /\ \A p \in Procs : proc[p].pc # "collided"
  /\ \A r \in db["recipes"] : \A v \in 1..r.version :
       \E q \in db["recipes"] : q.name = r.name /\ q.version = v

PlanOf(p) == plan_recipes(proc[p].explicit, proc[p].flags, proc[p].links)

\* A plan is read statement by statement, and is true all the same: what was read
\* is still so, and each candidate is planned once, beside one baseline that is its
\* own and differs in nothing but the prompt.
PlansStayTrue ==
  \A p \in Procs : proc[p].pc = "planned" /\ proc[p].explicit # <<>> =>
    /\ \A i \in DOMAIN proc[p].explicit :
         /\ proc[p].flags[i] = IsBaseline(proc[p].explicit[i])
         /\ BaselineOf(proc[p].explicit[i], proc[p].flags[i]) = {proc[p].links[i]}
    /\ \A i, j \in DOMAIN PlanOf(p) : PlanOf(p)[i].recipe = PlanOf(p)[j].recipe => i = j
    /\ \A i \in DOMAIN PlanOf(p) :
         PlanOf(p)[i].label # "primary_baseline" =>
           \E b \in DOMAIN PlanOf(p) :
             /\ PlanOf(p)[i].recipe \in PlanOf(p)[b].targets
             /\ PlanOf(p)[b].label = "primary_baseline"
             /\ PlanOf(p)[b].recipe.condition = PlanOf(p)[i].recipe.condition

\* Readers see the catalog that RecipeCatalog promises: every command takes effect at
\* once or not at all, and nothing that was stored is changed.
Catalog == INSTANCE RecipeCatalog WITH
  recipes <- db["recipes"], baselines <- db["baselines"], assigned <- db["assigned"]
CatalogSpec == Catalog!Spec
=============================================================================
