------------------------------ MODULE RecipesProofs ------------------------------
(***************************************************************************)
(* Proofs about Recipes, for any number of processes, names, conditions    *)
(* and prompts: IInv is inductive, and what follows from it.  A step that  *)
(* writes nothing concerns one transaction (Framed, Calm); a commit is     *)
(* where the locks of all others matter.                                   *)
(***************************************************************************)
EXTENDS RecipesInv, TLAPS

-----------------------------------------------------------------------------
(* Vocabulary *)

LEMMA NoRecipeIsNoDraft == NoRecipe \notin Drafts /\ NoRecipe \notin RecipeVersions
<1>1. \A r \in Drafts \cup RecipeVersions : r # [version |-> 0]
  <2> SUFFICES ASSUME NEW r \in Drafts \cup RecipeVersions, r = [version |-> 0] PROVE FALSE
    OBVIOUS
  <2>1. DOMAIN r = {"name", "version", "condition", "prompt"}
    BY DEF Drafts, RecipeVersions
  <2>2. DOMAIN r = {"version"}
    OBVIOUS
  <2> QED BY <2>1, <2>2
<1> QED BY <1>1 DEF NoRecipe

LEMMA VersionsAreDrafts == RecipeVersions \subseteq Drafts
  BY DEF RecipeVersions, Drafts

\* A transaction that does nothing has nothing and relies on nothing.
LEMMA IdleIsControl ==
  /\ Idle \in Control
  /\ Idle.pc = "idle" /\ Idle.holds = {} /\ Idle.candidate = NoRecipe
  /\ \A t \in Tables : Idle.own[t] = {}
  BY DEF Idle, Control, Empty, Tables

LEMMA QuietIsOK ==
  ASSUME NEW p \in Procs, proc'[p].pc \in {"idle", "name"} \cup Planning,
         proc'[p].candidate = NoRecipe, \A t \in Tables : proc'[p].own[t] = {},
         proc'[p].pc = "name" => proc'[p].wanted \in Drafts
  PROVE  ProcOK(p)'
<1>1. /\ proc'[p].own["recipes"] = {} /\ proc'[p].own["baselines"] = {}
      /\ proc'[p].own["assigned"] = {}
  BY DEF Tables
<1>2. LocksOK(p)' /\ OwnOK(p)'
  BY <1>1 DEF LocksOK, OwnOK, Inserting, Registering, Planning
<1>3. ReliesOn(p)'
  BY <1>1 DEF ReliesOn, Inserting, Registering, Planning
<1> QED BY <1>2, <1>3 DEF ProcOK

\* A version that is due is not there.
LEMMA DueIsNew ==
  ASSUME NEW r \in RecipeVersions, Numbered(r.name, r.version - 1)
  PROVE  \A q \in db["recipes"] : ~SameKey(q, r)
  BY DEF Numbered, SameKey, RecipeVersions

\* The next version after those that a transaction reads.
LEMMA NextVersion ==
  ASSUME NEW p \in Procs, IInv, proc[p].pc = "version"
  PROVE  /\ Max(Versions(p) \cup {0}) \in Nat
         /\ Numbered(proc[p].wanted.name, Max(Versions(p) \cup {0}))
<1>1. proc[p].wanted \in Drafts /\ proc[p].own["recipes"] = {}
  BY DEF IInv, ProcOK, OwnOK, ReliesOn, Inserting
<1>2. PICK n \in Nat : Numbered(proc[p].wanted.name, n)
  BY <1>1 DEF IInv, CatalogOK, Drafts
<1>3. \A v : v \in Versions(p) \cup {0} <=> v \in 0..n
  <2>1. \A v : v \in Versions(p) <=>
              \E q \in db["recipes"] : q.name = proc[p].wanted.name /\ q.version = v
    BY <1>1 DEF Versions, Rows
  <2>2. \A q \in db["recipes"] : q.version \in Nat \ {0}
    BY DEF IInv, TypeOK, RecipeVersions
  <2>3. \A v : v \in Versions(p) <=> v \in Nat \ {0} /\ v <= n
    BY <1>2, <2>1, <2>2 DEF Numbered
  <2> QED BY <1>2, <2>3
<1>4. Versions(p) \cup {0} = 0..n
  BY <1>3
<1>5. Max(0..n) = n
  <2>1. n \in 0..n /\ \A y \in 0..n : n >= y
    BY <1>2
  <2>2. \A x \in 0..n : (\A y \in 0..n : x >= y) => x = n
    BY <1>2, <2>1
  <2> QED BY <2>1, <2>2 DEF Max
<1> QED BY <1>2, <1>4, <1>5

-----------------------------------------------------------------------------
(* Steps that write nothing *)

\* The rest of the world does not notice what one transaction does by itself.
LEMMA Framed ==
  ASSUME NEW p \in Procs, IInv, proc' \in [Procs -> Control],
         \A q \in Procs \ {p} : proc'[q] = proc[q], db' = db,
         ProcOK(p)', \A q \in Procs \ {p} : Apart(p, q)'
  PROVE  IInv'
<1>1. TypeOK' /\ CatalogOK' /\ OneBaselinePerCondition'
  BY DEF IInv, TypeOK, CatalogOK, Numbered, OneBaselinePerCondition
<1>2. ASSUME NEW q \in Procs \ {p} PROVE ProcOK(q)'
  <2>1. proc'[q] = proc[q] /\ LocksOK(q) /\ OwnOK(q) /\ ReliesOn(q)
    BY DEF IInv, ProcOK
  <2>2. LocksOK(q)'
    BY <2>1 DEF LocksOK, NameLock, ConditionLock
  <2>3. OwnOK(q)'
    BY <2>1 DEF OwnOK
  <2>4. ReliesOn(q)'
    BY <2>1 DEF ReliesOn, Numbered, Unshared, AssignmentsOf
  <2> QED BY <2>2, <2>3, <2>4 DEF ProcOK
<1>3. ASSUME NEW x \in Procs, NEW y \in Procs, x # y PROVE Apart(x, y)'
  <2>1. CASE x = p
    BY <1>3, <2>1
  <2>2. CASE y = p
    <3>1. Apart(p, x)'
      BY <1>3, <2>2
    <3> QED BY <2>2, <3>1 DEF Apart
  <2>3. CASE x # p /\ y # p
    <3>1. Apart(x, y) /\ proc'[x] = proc[x] /\ proc'[y] = proc[y]
      BY <1>3, <2>3 DEF IInv
    <3> QED BY <3>1 DEF Apart
  <2> QED BY <2>1, <2>2, <2>3
<1> QED BY <1>1, <1>2, <1>3 DEF IInv

\* A transaction that takes no lock and assigns nothing stays apart from the others.
LEMMA Calm ==
  ASSUME NEW p \in Procs, IInv, NEW c \in Control, proc' = [proc EXCEPT ![p] = c], db' = db,
         c.holds \subseteq proc[p].holds, c.own["assigned"] = {},
         ProcOK(p)'
  PROVE  IInv'
<1>1. /\ proc' \in [Procs -> Control] /\ proc'[p] = c
      /\ \A q \in Procs \ {p} : proc'[q] = proc[q]
  BY DEF IInv, TypeOK
<1>2. ASSUME NEW q \in Procs \ {p} PROVE Apart(p, q)'
  BY <1>1 DEF IInv, Apart
<1> QED BY <1>1, <1>2, Framed

LEMMA FailStep == ASSUME NEW p \in Procs, IInv, Fail(p) PROVE IInv'
<1>1. proc' = [proc EXCEPT ![p] = Idle] /\ db' = db
  BY DEF Fail
<1>2. proc'[p] = Idle
  BY <1>1 DEF IInv, TypeOK
<1>3. ProcOK(p)'
  BY <1>2, IdleIsControl, QuietIsOK
<1> QED BY <1>1, <1>3, IdleIsControl, Calm DEF Tables

LEMMA CreateStep == ASSUME NEW p \in Procs, IInv, create_recipe(p) PROVE IInv'
<1>1. PICK save \in Saves :
        proc' = [proc EXCEPT ![p] = [Idle EXCEPT !.pc = "name",
          !.wanted = [name |-> save.name, version |-> 0, condition |-> save.condition,
                      prompt |-> save.prompt]]]
  BY DEF create_recipe
<1> DEFINE w == [name |-> save.name, version |-> 0, condition |-> save.condition,
                 prompt |-> save.prompt]
           c == [Idle EXCEPT !.pc = "name", !.wanted = w]
<1>2. w \in Drafts
  BY RecipesAssumption DEF Drafts
<1>3. /\ c \in Control /\ c.pc = "name" /\ c.candidate = NoRecipe /\ c.wanted = w
      /\ c.own = Idle.own /\ c.holds = {}
  BY <1>2, IdleIsControl DEF Control
<1>4. proc' = [proc EXCEPT ![p] = c] /\ proc'[p] = c /\ db' = db
  BY <1>1 DEF create_recipe, IInv, TypeOK
<1> HIDE DEF c
<1>5. ProcOK(p)'
  BY <1>2, <1>3, <1>4, IdleIsControl, QuietIsOK
<1> QED BY <1>3, <1>4, <1>5, IdleIsControl, Calm DEF Tables

\* The candidate is loaded; the transaction will hold the lock of its condition.
LEMMA RegisterStep == ASSUME NEW p \in Procs, IInv, register_primary_baseline(p) PROVE IInv'
<1>1. PICK candidate \in db["recipes"] \ db["baselines"], prompt \in BaselinePrompts :
        proc' = [proc EXCEPT ![p] = [Idle EXCEPT !.pc = "condition",
          !.candidate = candidate,
          !.wanted = [name |-> BaselineName[candidate.condition], version |-> 0,
                      condition |-> candidate.condition, prompt |-> prompt]]]
  BY DEF register_primary_baseline
<1> DEFINE w == [name |-> BaselineName[candidate.condition], version |-> 0,
                 condition |-> candidate.condition, prompt |-> prompt]
           c == [Idle EXCEPT !.pc = "condition", !.candidate = candidate, !.wanted = w]
<1>2. candidate \in RecipeVersions /\ w \in Drafts /\ w.condition = candidate.condition
  BY RecipesAssumption DEF Drafts, IInv, TypeOK, RecipeVersions
<1>3. /\ c \in Control /\ c.pc = "condition" /\ c.candidate = candidate /\ c.wanted = w
      /\ c.own = Idle.own /\ c.holds = {}
  BY <1>2, IdleIsControl DEF Control
<1>4. proc' = [proc EXCEPT ![p] = c] /\ proc'[p] = c /\ db' = db
  BY <1>1 DEF register_primary_baseline, IInv, TypeOK
<1> HIDE DEF c, w
<1>5. /\ c.own["recipes"] = {} /\ c.own["baselines"] = {} /\ c.own["assigned"] = {}
  BY <1>3, IdleIsControl DEF Tables
<1>6. ProcOK(p)'
  <2>1. LocksOK(p)'
    BY <1>3, <1>4, <1>5 DEF LocksOK, Inserting
  <2>2. OwnOK(p)'
    BY <1>2, <1>3, <1>4, <1>5, NoRecipeIsNoDraft DEF OwnOK
  <2>3. ReliesOn(p)'
    BY <1>2, <1>3, <1>4, <1>5 DEF ReliesOn, Inserting
  <2> QED BY <2>1, <2>2, <2>3 DEF ProcOK
<1> QED BY <1>3, <1>4, <1>5, <1>6, Calm

\* A transaction that takes a lock nobody holds.
LEMMA Locked ==
  ASSUME NEW p \in Procs, IInv, NEW lock \in Locks, IsFree(p, lock), NEW c \in Control,
         proc' = [proc EXCEPT ![p] = c], db' = db,
         c.holds = proc[p].holds \cup {lock}, c.own["assigned"] = {}, ProcOK(p)'
  PROVE  IInv'
<1>1. /\ proc' \in [Procs -> Control] /\ proc'[p] = c
      /\ \A q \in Procs \ {p} : proc'[q] = proc[q]
  BY DEF IInv, TypeOK
<1>2. ASSUME NEW q \in Procs \ {p} PROVE Apart(p, q)'
  <2>1. proc[p].holds \cap proc[q].holds = {} /\ lock \notin proc[q].holds
    BY DEF IInv, Apart, IsFree
  <2> QED BY <1>1, <2>1 DEF Apart
<1> QED BY <1>1, <1>2, Framed

LEMMA LockNameStep == ASSUME NEW p \in Procs, IInv, LockName(p) PROVE IInv'
<1> DEFINE c == [proc[p] EXCEPT !.holds = @ \cup {NameLock(p)}, !.pc = "prompt"]
<1>1. /\ proc[p] \in Control /\ proc[p].pc = "name" /\ ProcOK(p) /\ IsFree(p, NameLock(p))
      /\ proc' = [proc EXCEPT ![p] = c] /\ proc'[p] = c /\ db' = db
  BY DEF LockName, Lock, IInv, TypeOK
<1>2. /\ proc[p].wanted \in Drafts /\ proc[p].own["recipes"] = {}
      /\ proc[p].own["baselines"] = {} /\ proc[p].own["assigned"] = {}
  BY <1>1 DEF ProcOK, ReliesOn, OwnOK
<1>3. NameLock(p) \in Locks
  BY <1>2 DEF NameLock, Locks, Drafts
<1>4. /\ c \in Control /\ c.pc = "prompt" /\ c.holds = proc[p].holds \cup {NameLock(p)}
      /\ c.own = proc[p].own /\ c.wanted = proc[p].wanted /\ c.candidate = proc[p].candidate
  BY <1>1, <1>3 DEF Control, Inserting
<1> HIDE DEF c
<1>5. ProcOK(p)'
  <2>1. LocksOK(p)'
    BY <1>1, <1>4 DEF ProcOK, LocksOK, NameLock, ConditionLock
  <2>2. OwnOK(p)'
    BY <1>1, <1>2, <1>4 DEF ProcOK, OwnOK, Registering
  <2>3. ReliesOn(p)'
    BY <1>1, <1>2, <1>4 DEF ProcOK, ReliesOn, Inserting, Registering, Unshared
  <2> QED BY <2>1, <2>2, <2>3 DEF ProcOK
<1> QED BY <1>1, <1>2, <1>3, <1>4, <1>5, Locked

LEMMA LockConditionStep == ASSUME NEW p \in Procs, IInv, LockCondition(p) PROVE IInv'
<1> DEFINE c == [proc[p] EXCEPT !.holds = @ \cup {ConditionLock(p)}, !.pc = "existing"]
<1>1. /\ proc[p] \in Control /\ proc[p].pc = "condition" /\ ProcOK(p)
      /\ IsFree(p, ConditionLock(p))
      /\ proc' = [proc EXCEPT ![p] = c] /\ proc'[p] = c /\ db' = db
  BY DEF LockCondition, Lock, IInv, TypeOK
<1>2. /\ proc[p].wanted \in Drafts /\ proc[p].candidate # NoRecipe
      /\ proc[p].own["recipes"] = {} /\ proc[p].own["baselines"] = {}
      /\ proc[p].own["assigned"] = {}
  BY <1>1 DEF ProcOK, ReliesOn, OwnOK
<1>3. ConditionLock(p) \in Locks
  BY <1>2 DEF ConditionLock, Locks, Drafts
<1>4. /\ c \in Control /\ c.pc = "existing" /\ c.holds = proc[p].holds \cup {ConditionLock(p)}
      /\ c.own = proc[p].own /\ c.wanted = proc[p].wanted /\ c.candidate = proc[p].candidate
  BY <1>1, <1>3 DEF Control, Registering
<1> HIDE DEF c
<1>5. ProcOK(p)'
  <2>1. LocksOK(p)'
    BY <1>1, <1>2, <1>4 DEF LocksOK, ConditionLock, Inserting
  <2>2. OwnOK(p)'
    BY <1>1, <1>2, <1>4 DEF ProcOK, OwnOK, Registering
  <2>3. ReliesOn(p)'
    BY <1>1, <1>2, <1>4 DEF ProcOK, ReliesOn, Inserting, Registering
  <2> QED BY <2>1, <2>2, <2>3 DEF ProcOK
<1> QED BY <1>1, <1>2, <1>3, <1>4, <1>5, Locked

\* Saving a prompt or a schema changes nothing that others rely on.
LEMMA ContentStep ==
  ASSUME NEW p \in Procs, IInv, NEW row \in Prompts \cup {Schema}, NEW pc, NEW next,
         SaveContent(p, pc, row, next), pc \in Inserting,
         next \in {"schema", "version"}
  PROVE  IInv'
<1> DEFINE o == [proc[p].own EXCEPT !["contents"] =
                   proc[p].own["contents"] \cup ({row} \ db["contents"])]
           c == [proc[p] EXCEPT !.pc = next, !.own = o]
<1>1. /\ proc[p] \in Control /\ proc[p].pc \in Inserting /\ ProcOK(p)
      /\ proc' = [proc EXCEPT ![p] = c] /\ proc'[p] = c /\ db' = db
  BY DEF SaveContent, IInv, TypeOK
<1>2. /\ proc[p].wanted \in Drafts /\ proc[p].own["recipes"] = {}
      /\ proc[p].own["baselines"] = {} /\ proc[p].own["assigned"] = {}
  BY <1>1 DEF ProcOK, ReliesOn, OwnOK, Inserting
<1>3. /\ c \in Control /\ c.pc = next /\ c.holds = proc[p].holds
      /\ c.own["recipes"] = {} /\ c.own["baselines"] = {} /\ c.own["assigned"] = {}
      /\ c.wanted = proc[p].wanted /\ c.candidate = proc[p].candidate
  <2>1. proc[p].own \in [Tables -> SUBSET Row] /\ row \in Row
    BY <1>1 DEF Control, Row
  <2>2. o \in [Tables -> SUBSET Row]
    BY <2>1
  <2>3. /\ o["recipes"] = {} /\ o["baselines"] = {} /\ o["assigned"] = {}
    BY <1>2, <2>1 DEF Tables
  <2> HIDE DEF o
  <2> QED BY <1>1, <2>2, <2>3 DEF Control, Inserting
<1> HIDE DEF c
<1>4. ProcOK(p)'
  <2>1. LocksOK(p)'
    BY <1>1, <1>3 DEF ProcOK, LocksOK, NameLock, ConditionLock, Inserting
  <2>2. OwnOK(p)'
    BY <1>1, <1>3 DEF OwnOK, Registering
  <2>3. ReliesOn(p)'
    BY <1>1, <1>2, <1>3 DEF ProcOK, ReliesOn, Inserting, Registering, Unshared
  <2> QED BY <2>1, <2>2, <2>3 DEF ProcOK
<1> QED BY <1>1, <1>3, <1>4, Calm

LEMMA ReadVersionStep == ASSUME NEW p \in Procs, IInv, ReadVersion(p) PROVE IInv'
<1> DEFINE n == Max(Versions(p) \cup {0})
           w == [proc[p].wanted EXCEPT !.version = n + 1]
           c == [proc[p] EXCEPT !.pc = "insert", !.wanted = w]
<1>1. /\ proc[p] \in Control /\ proc[p].pc = "version" /\ ProcOK(p)
      /\ proc' = [proc EXCEPT ![p] = c] /\ proc'[p] = c /\ db' = db
  BY DEF ReadVersion, IInv, TypeOK
<1>2. /\ proc[p].wanted \in Drafts /\ proc[p].own["recipes"] = {}
      /\ proc[p].own["baselines"] = {} /\ proc[p].own["assigned"] = {}
  BY <1>1 DEF ProcOK, ReliesOn, OwnOK, Inserting
<1>3. n \in Nat /\ Numbered(proc[p].wanted.name, n)
  BY <1>1, NextVersion
<1> HIDE DEF n
<1>4. /\ w \in RecipeVersions /\ w.name = proc[p].wanted.name
      /\ w.condition = proc[p].wanted.condition /\ w.prompt = proc[p].wanted.prompt
      /\ w.version - 1 = n
  BY <1>2, <1>3 DEF Drafts, RecipeVersions
<1> HIDE DEF w
<1>5. /\ c \in Control /\ c.pc = "insert" /\ c.holds = proc[p].holds /\ c.own = proc[p].own
      /\ c.wanted = w /\ c.candidate = proc[p].candidate
  BY <1>1, <1>4, VersionsAreDrafts DEF Control, Inserting
<1> HIDE DEF c
<1>6. ProcOK(p)'
  <2>1. LocksOK(p)'
    BY <1>1, <1>4, <1>5 DEF ProcOK, LocksOK, NameLock, ConditionLock, Inserting
  <2>2. OwnOK(p)'
    BY <1>1, <1>2, <1>5 DEF OwnOK, Registering
  <2>3. ReliesOn(p)'
    <3>1. w \in Drafts /\ Numbered(w.name, w.version - 1)
      BY <1>3, <1>4, VersionsAreDrafts
    <3>2. \A name, m : Numbered(name, m)' <=> Numbered(name, m)
      BY <1>1 DEF Numbered
    <3> QED BY <1>1, <1>2, <1>4, <1>5, <3>1, <3>2
            DEF ProcOK, ReliesOn, Inserting, Registering, Unshared
  <2> QED BY <2>1, <2>2, <2>3 DEF ProcOK
<1> QED BY <1>1, <1>2, <1>5, <1>6, Calm

\* The recipe is inserted without a collision, and a new baseline with it.
LEMMA InsertRecipeStep == ASSUME NEW p \in Procs, IInv, InsertRecipe(p) PROVE IInv'
<1> DEFINE w == proc[p].wanted
           made == proc[p].candidate # NoRecipe
           o == [proc[p].own EXCEPT !["recipes"] = {w},
                                    !["baselines"] = IF made THEN {w} ELSE {}]
           c == [proc[p] EXCEPT !.pc = IF made THEN "assign" ELSE "commit", !.own = o]
<1>1. /\ proc[p] \in Control /\ proc[p].pc = "insert" /\ ProcOK(p) /\ db' = db
  BY DEF InsertRecipe, IInv, TypeOK
<1>2. /\ w \in RecipeVersions /\ Numbered(w.name, w.version - 1)
      /\ proc[p].own["recipes"] = {} /\ proc[p].own["baselines"] = {}
      /\ proc[p].own["assigned"] = {}
  BY <1>1 DEF ProcOK, ReliesOn, OwnOK, Inserting
<1>3. /\ o \in [Tables -> SUBSET Row]
      /\ o["recipes"] = {w} /\ o["assigned"] = {}
      /\ o["baselines"] = IF made THEN {w} ELSE {}
  <2>1. proc[p].own \in [Tables -> SUBSET Row] /\ w \in Row
    BY <1>1, <1>2 DEF Control, Row
  <2> QED BY <1>2, <2>1 DEF Tables
<1>4. proc' = [proc EXCEPT ![p] = c]
  <2>1. \A q \in db["recipes"] : ~SameKey(q, w)
    BY <1>2, DueIsNew
  <2>2. proc[p].own \in [Tables -> SUBSET Row]
    BY <1>1 DEF Control
  <2>3. CASE ~made
    <3>1. proc' = [proc EXCEPT ![p].pc = "commit", ![p].own["recipes"] = {w}]
      BY <2>1, <2>3 DEF InsertRecipe
    <3>2. o = [proc[p].own EXCEPT !["recipes"] = {w}]
      BY <1>2, <2>2, <2>3 DEF Tables
    <3> HIDE DEF o
    <3> QED BY <2>3, <3>1, <3>2
  <2>4. CASE made
    <3>1. proc' = [proc EXCEPT ![p].pc = "assign", ![p].own["recipes"] = {w},
                               ![p].own["baselines"] = {w}]
      BY <2>1, <2>4 DEF InsertRecipe
    <3>2. o = [proc[p].own EXCEPT !["recipes"] = {w}, !["baselines"] = {w}]
      BY <2>4
    <3> HIDE DEF o
    <3> QED BY <2>4, <3>1, <3>2
  <2> QED BY <2>3, <2>4
<1> HIDE DEF o
<1>5. /\ c \in Control /\ c.pc = (IF made THEN "assign" ELSE "commit")
      /\ c.holds = proc[p].holds /\ c.own = o
      /\ c.wanted = w /\ c.candidate = proc[p].candidate
  BY <1>1, <1>3 DEF Control, Registering
<1>6. proc'[p] = c
  BY <1>4 DEF IInv, TypeOK
<1> HIDE DEF c
<1>7. ProcOK(p)'
  <2>1. LocksOK(p)'
    BY <1>1, <1>5, <1>6 DEF ProcOK, LocksOK, NameLock, ConditionLock, Inserting
  <2>2. OwnOK(p)'
    BY <1>1, <1>3, <1>5, <1>6 DEF OwnOK, Registering
  <2>3. ReliesOn(p)'
    <3>1. \A name, m : Numbered(name, m)' <=> Numbered(name, m)
      BY <1>1 DEF Numbered
    <3>2. \A r : Unshared(r)' <=> Unshared(r)
      BY <1>1 DEF Unshared
    <3>3. w \in Drafts
      BY <1>2, VersionsAreDrafts
    <3> QED BY <1>1, <1>2, <1>3, <1>5, <1>6, <3>1, <3>2, <3>3
            DEF ProcOK, ReliesOn, Inserting, Registering
  <2> QED BY <2>1, <2>2, <2>3 DEF ProcOK
<1> QED BY <1>1, <1>3, <1>4, <1>5, <1>7, Calm

\* A registration that only moves on, or finds a baseline it can share.
LEMMA MoveOn ==
  ASSUME NEW p \in Procs, IInv, proc[p].pc \in {"existing", "find"},
         NEW pc \in {"find", "commit", "name", "assign"}, NEW w \in Drafts,
         proc' = [proc EXCEPT ![p] = [proc[p] EXCEPT !.pc = pc, !.wanted = w]], db' = db,
         w.condition = proc[p].wanted.condition, w.prompt = proc[p].wanted.prompt,
         pc = "assign" => w \in db["baselines"],
         pc = "name" => Unshared(w)
  PROVE  IInv'
<1> DEFINE c == [proc[p] EXCEPT !.pc = pc, !.wanted = w]
<1>1. proc[p] \in Control /\ ProcOK(p) /\ proc'[p] = c
  BY DEF IInv, TypeOK
<1>2. /\ proc[p].wanted \in Drafts /\ proc[p].candidate # NoRecipe
      /\ proc[p].own["recipes"] = {} /\ proc[p].own["baselines"] = {}
      /\ proc[p].own["assigned"] = {}
  BY <1>1 DEF ProcOK, ReliesOn, OwnOK, Registering
<1>3. /\ c \in Control /\ c.pc = pc /\ c.holds = proc[p].holds /\ c.own = proc[p].own
      /\ c.wanted = w /\ c.candidate = proc[p].candidate
  BY <1>1 DEF Control, Registering
<1> HIDE DEF c
<1>4. ProcOK(p)'
  <2>1. LocksOK(p)'
    BY <1>1, <1>2, <1>3 DEF ProcOK, LocksOK, ConditionLock, Inserting
  <2>2. OwnOK(p)'
    BY <1>1, <1>2, <1>3 DEF OwnOK, Registering
  <2>3. ReliesOn(p)'
    BY <1>1, <1>2, <1>3 DEF ProcOK, ReliesOn, Inserting, Registering, Unshared
  <2> QED BY <2>1, <2>2, <2>3 DEF ProcOK
<1>5. proc' = [proc EXCEPT ![p] = c]
  BY DEF c
<1> QED BY <1>2, <1>3, <1>4, <1>5, Calm

LEMMA CheckAssignmentStep == ASSUME NEW p \in Procs, IInv, CheckAssignment(p) PROVE IInv'
<1>1. PICK pc \in {"find", "commit"} : proc' = [proc EXCEPT ![p].pc = pc]
  BY DEF CheckAssignment, Goto
<1>2. proc[p] \in Control /\ proc[p].pc = "existing" /\ db' = db /\ ProcOK(p)
  BY DEF CheckAssignment, IInv, TypeOK
<1>3. proc[p].wanted \in Drafts
  BY <1>2 DEF ProcOK, ReliesOn, Registering
<1>4. [proc[p] EXCEPT !.pc = pc, !.wanted = proc[p].wanted] = [proc[p] EXCEPT !.pc = pc]
  BY <1>2 DEF Control
<1>5. proc' = [proc EXCEPT ![p] = [proc[p] EXCEPT !.pc = pc, !.wanted = proc[p].wanted]]
  BY <1>1, <1>4
<1> QED BY <1>2, <1>3, <1>5, MoveOn

LEMMA FindBaselineStep == ASSUME NEW p \in Procs, IInv, FindBaseline(p) PROVE IInv'
<1> DEFINE shared == {b \in db["baselines"] : /\ b.condition = proc[p].wanted.condition
                                              /\ b.prompt = proc[p].wanted.prompt}
<1>1. proc[p] \in Control /\ proc[p].pc = "find" /\ db' = db /\ ProcOK(p)
  BY DEF FindBaseline, IInv, TypeOK
<1>2. proc[p].wanted \in Drafts
  BY <1>1 DEF ProcOK, ReliesOn, Registering
<1>3. CASE shared = {} /\ proc' = [proc EXCEPT ![p].pc = "name"]
  <2>1. Unshared(proc[p].wanted)
    BY <1>3 DEF Unshared
  <2>2. [proc[p] EXCEPT !.pc = "name", !.wanted = proc[p].wanted]
          = [proc[p] EXCEPT !.pc = "name"]
    BY <1>1 DEF Control
  <2>3. proc' = [proc EXCEPT ![p] = [proc[p] EXCEPT !.pc = "name", !.wanted = proc[p].wanted]]
    BY <1>3, <2>2
  <2> QED BY <1>1, <1>2, <2>1, <2>3, MoveOn
<1>4. CASE \E b \in shared : proc' = [proc EXCEPT ![p].pc = "assign", ![p].wanted = b]
  <2>1. PICK b \in shared : proc' = [proc EXCEPT ![p].pc = "assign", ![p].wanted = b]
    BY <1>4
  <2>2. /\ b \in db["baselines"] /\ b \in Drafts
        /\ b.condition = proc[p].wanted.condition /\ b.prompt = proc[p].wanted.prompt
    BY VersionsAreDrafts DEF IInv, TypeOK
  <2>3. proc' = [proc EXCEPT ![p] = [proc[p] EXCEPT !.pc = "assign", !.wanted = b]]
    BY <2>1
  <2> QED BY <1>1, <2>2, <2>3, MoveOn
<1> QED BY <1>3, <1>4 DEF FindBaseline, Goto

\* Nobody else has assigned a baseline to the candidate.
LEMMA InsertAssignmentStep == ASSUME NEW p \in Procs, IInv, InsertAssignment(p) PROVE IInv'
<1> DEFINE pair == <<proc[p].candidate, proc[p].wanted>>
           o == [proc[p].own EXCEPT !["assigned"] = {pair}]
           c == [proc[p] EXCEPT !.pc = "commit", !.own = o]
<1>1. /\ proc[p] \in Control /\ proc[p].pc = "assign" /\ ProcOK(p) /\ db' = db
      /\ proc' = [proc EXCEPT ![p] = c] /\ proc'[p] = c
      /\ \A other \in Others(p, "assigned") : other[1] # proc[p].candidate
      /\ AssignmentsOf(proc[p].candidate) = {}
  BY DEF InsertAssignment, IInv, TypeOK
<1>2. /\ proc[p].wanted \in Drafts /\ proc[p].candidate # NoRecipe
      /\ proc[p].candidate \in db["recipes"]
      /\ proc[p].own["recipes"] = {} => proc[p].wanted \in db["baselines"]
      /\ proc[p].own["recipes"] \in {{}, {proc[p].wanted}}
      /\ proc[p].own["recipes"] # {} => proc[p].wanted \in RecipeVersions
      /\ proc[p].own["baselines"] = proc[p].own["recipes"]
  BY <1>1 DEF ProcOK, ReliesOn, OwnOK, Registering
<1>3. o \in [Tables -> SUBSET Row] /\ o["assigned"] = {pair}
      /\ o["recipes"] = proc[p].own["recipes"] /\ o["baselines"] = proc[p].own["baselines"]
  <2>1. proc[p].own \in [Tables -> SUBSET Row]
    BY <1>1 DEF Control
  <2>2. pair \in Row
    BY <1>2 DEF IInv, TypeOK, Row
  <2> QED BY <2>1, <2>2 DEF Tables
<1> HIDE DEF o
<1>4. /\ c \in Control /\ c.pc = "commit" /\ c.holds = proc[p].holds /\ c.own = o
      /\ c.wanted = proc[p].wanted /\ c.candidate = proc[p].candidate
  BY <1>1, <1>3 DEF Control
<1> HIDE DEF c
<1>5. ProcOK(p)'
  <2>1. LocksOK(p)'
    BY <1>1, <1>3, <1>4 DEF ProcOK, LocksOK, NameLock, ConditionLock, Inserting
  <2>2. OwnOK(p)'
    BY <1>1, <1>2, <1>3, <1>4 DEF OwnOK, Registering
  <2>3. ReliesOn(p)'
    <3>1. \A name, m : Numbered(name, m)' <=> Numbered(name, m)
      BY <1>1 DEF Numbered
    <3>2. /\ \A r : Unshared(r)' <=> Unshared(r)
          /\ \A r : AssignmentsOf(r)' = AssignmentsOf(r)
      BY <1>1 DEF Unshared, AssignmentsOf
    <3> QED BY <1>1, <1>2, <1>3, <1>4, <3>1, <3>2
            DEF ProcOK, ReliesOn, Inserting, Registering
  <2> QED BY <2>1, <2>2, <2>3 DEF ProcOK
<1>6. ASSUME NEW q \in Procs \ {p} PROVE Apart(p, q)'
  <2>1. Apart(p, q) /\ ProcOK(q) /\ proc'[q] = proc[q]
    BY <1>1 DEF IInv, TypeOK
  <2>2. proc[q].own["assigned"] # {} => proc[q].candidate # proc[p].candidate
    <3> SUFFICES ASSUME proc[q].own["assigned"] # {}
                 PROVE  proc[q].candidate # proc[p].candidate
      OBVIOUS
    <3>1. <<proc[q].candidate, proc[q].wanted>> \in proc[q].own["assigned"]
      BY <2>1 DEF ProcOK, OwnOK
    <3>2. <<proc[q].candidate, proc[q].wanted>> \in Others(p, "assigned")
      BY <3>1 DEF Others
    <3> QED BY <1>1, <3>2
  <2> QED BY <1>1, <1>4, <2>1, <2>2 DEF Apart
<1>7. proc' \in [Procs -> Control] /\ \A q \in Procs \ {p} : proc'[q] = proc[q]
  BY <1>1, <1>4 DEF IInv, TypeOK
<1> QED BY <1>1, <1>5, <1>6, <1>7, Framed

-----------------------------------------------------------------------------
(* Planning *)

LEMMA StartPlanStep == ASSUME NEW p \in Procs, IInv, StartPlan(p) PROVE IInv'
<1>1. PICK r, q \in db["recipes"] :
        proc' = [proc EXCEPT ![p] = [Idle EXCEPT !.pc = "flags", !.explicit = <<r, q>>]]
  BY DEF StartPlan
<1> DEFINE c == [Idle EXCEPT !.pc = "flags", !.explicit = <<r, q>>]
<1>2. <<r, q>> \in Seq(RecipeVersions)
  BY DEF IInv, TypeOK
<1>3. /\ c \in Control /\ c.pc = "flags" /\ c.candidate = NoRecipe
      /\ c.own = Idle.own /\ c.holds = {}
  BY <1>2, IdleIsControl DEF Control, Planning
<1>4. proc' = [proc EXCEPT ![p] = c] /\ proc'[p] = c /\ db' = db
  BY <1>1 DEF StartPlan, IInv, TypeOK
<1> HIDE DEF c
<1>5. ProcOK(p)'
  BY <1>3, <1>4, IdleIsControl, QuietIsOK DEF Planning
<1> QED BY <1>3, <1>4, <1>5, IdleIsControl, Calm DEF Tables

\* Reading a fact of the plan.
LEMMA ReadFact ==
  ASSUME NEW p \in Procs, IInv, proc[p].pc \in Planning, NEW c \in Control,
         proc' = [proc EXCEPT ![p] = c], db' = db, c.pc \in Planning,
         c.holds = proc[p].holds, c.own = proc[p].own, c.wanted = proc[p].wanted,
         c.candidate = proc[p].candidate
  PROVE  IInv'
<1>1. proc'[p] = c /\ ProcOK(p)
  BY DEF IInv, TypeOK
<1>2. /\ proc[p].own["recipes"] = {} /\ proc[p].own["baselines"] = {}
      /\ proc[p].own["assigned"] = {}
  BY <1>1 DEF ProcOK, OwnOK, Planning
<1>3. ProcOK(p)'
  <2>1. LocksOK(p)'
    BY <1>1, <1>2 DEF ProcOK, LocksOK, ConditionLock, Inserting, Planning
  <2>2. OwnOK(p)'
    BY <1>2, <1>1 DEF OwnOK, Registering, Planning
  <2>3. ReliesOn(p)'
    BY <1>1, <1>2 DEF ProcOK, ReliesOn, Inserting, Registering, Planning
  <2> QED BY <2>1, <2>2, <2>3 DEF ProcOK
<1> QED BY <1>2, <1>3, Calm

LEMMA ReadFlagStep == ASSUME NEW p \in Procs, IInv, ReadFlag(p) PROVE IInv'
<1> DEFINE i == Len(proc[p].flags) + 1
           flags == Append(proc[p].flags, IsBaseline(proc[p].explicit[i]))
           pc == IF i = Len(proc[p].explicit) THEN "links" ELSE "flags"
           c == [proc[p] EXCEPT !.flags = flags, !.pc = pc]
<1>1. proc[p] \in Control /\ proc[p].pc = "flags" /\ db' = db
  BY DEF ReadFlag, IInv, TypeOK
<1>2. proc' = [proc EXCEPT ![p] = c]
  BY <1>1 DEF ReadFlag
<1>3. flags \in Seq(BOOLEAN) /\ pc \in {"flags", "links"}
  <2> DEFINE old == proc[p].flags
             flag == IsBaseline(proc[p].explicit[i])
  <2>1. old \in Seq(BOOLEAN)
    BY <1>1 DEF Control
  <2>2. flag \in BOOLEAN
    BY DEF IsBaseline
  <2> HIDE DEF old, flag
  <2>3. Append(old, flag) \in Seq(BOOLEAN)
    BY <2>1, <2>2
  <2> QED BY <2>3 DEF old, flag
<1> HIDE DEF flags, pc
<1>4. c \in Control /\ c.pc = pc
  BY <1>1, <1>3 DEF Control, Planning
<1>5. /\ c.holds = proc[p].holds /\ c.own = proc[p].own /\ c.wanted = proc[p].wanted
      /\ c.candidate = proc[p].candidate
  BY <1>1 DEF Control
<1> HIDE DEF c
<1> QED BY <1>1, <1>2, <1>3, <1>4, <1>5, ReadFact DEF Planning

LEMMA ReadLinkStep == ASSUME NEW p \in Procs, IInv, ReadLink(p) PROVE IInv'
<1> DEFINE i == Len(proc[p].links) + 1
           pc == IF i = Len(proc[p].explicit) THEN "planned" ELSE "links"
<1>1. proc[p] \in Control /\ proc[p].pc = "links" /\ db' = db
  BY DEF ReadLink, IInv, TypeOK
<1>2. PICK b \in BaselineOf(proc[p].explicit[i], proc[p].flags[i]) :
        proc' = [proc EXCEPT ![p].links = Append(@, b),
                             ![p].pc = IF i = Len(proc[p].explicit) THEN "planned" ELSE @]
  BY DEF ReadLink
<1> DEFINE links == Append(proc[p].links, b)
           c == [proc[p] EXCEPT !.links = links, !.pc = pc]
<1>3. links \in Seq(RecipeVersions \cup {NoRecipe}) /\ pc \in {"links", "planned"}
  <2>1. b \in RecipeVersions \cup {NoRecipe}
    BY DEF BaselineOf, AssignmentsOf, IInv, TypeOK
  <2>2. proc[p].links \in Seq(RecipeVersions \cup {NoRecipe})
    BY <1>1 DEF Control
  <2> QED BY <2>1, <2>2
<1>4. proc' = [proc EXCEPT ![p] = c]
  BY <1>1, <1>2
<1> HIDE DEF links, pc
<1>5. c \in Control /\ c.pc = pc
  BY <1>1, <1>3 DEF Control, Planning
<1>6. /\ c.holds = proc[p].holds /\ c.own = proc[p].own /\ c.wanted = proc[p].wanted
      /\ c.candidate = proc[p].candidate
  BY <1>1 DEF Control
<1> HIDE DEF c
<1> QED BY <1>1, <1>3, <1>4, <1>5, <1>6, ReadFact DEF Planning

-----------------------------------------------------------------------------
(* Commits *)

\* What a commit adds: nothing, a recipe, an assignment, or an assignment with its new
\* baseline; and what is known of it.
LEMMA Added ==
  ASSUME NEW p \in Procs, IInv, Commit(p)
  PROVE  /\ db' \in [Tables -> SUBSET Row] /\ proc' \in [Procs -> Control]
         /\ proc'[p] = Idle /\ \A q \in Procs \ {p} : proc'[q] = proc[q]
         /\ db'["recipes"] = db["recipes"] \cup proc[p].own["recipes"]
         /\ db'["baselines"] = db["baselines"] \cup proc[p].own["baselines"]
         /\ db'["assigned"] = db["assigned"] \cup proc[p].own["assigned"]
<1>1. proc[p] \in Control /\ proc' = [proc EXCEPT ![p] = Idle] /\ Idle \in Control
  BY IdleIsControl DEF IInv, TypeOK, Commit
<1>2. \A t \in Tables : proc[p].own[t] \in SUBSET Row /\ db[t] \in SUBSET Row
  BY <1>1 DEF IInv, TypeOK, Control
<1>3. db' = [t \in Tables |-> db[t] \cup proc[p].own[t]]
  BY DEF Commit, Rows
<1> QED BY <1>1, <1>2, <1>3 DEF IInv, TypeOK, Tables

LEMMA NewRecipe ==
  ASSUME NEW p \in Procs, IInv, Commit(p), proc[p].own["recipes"] # {}
  PROVE  /\ proc[p].own["recipes"] = {proc[p].wanted} /\ proc[p].wanted \in RecipeVersions
         /\ Numbered(proc[p].wanted.name, proc[p].wanted.version - 1)
         /\ \A q \in db["recipes"] : ~SameKey(q, proc[p].wanted)
         /\ proc[p].wanted \notin db["recipes"]
         /\ NameLock(p) \in proc[p].holds
<1>1. OwnOK(p) /\ ReliesOn(p) /\ LocksOK(p)
  BY DEF IInv, ProcOK
<1>2. /\ proc[p].own["recipes"] = {proc[p].wanted} /\ proc[p].wanted \in RecipeVersions
      /\ Numbered(proc[p].wanted.name, proc[p].wanted.version - 1)
      /\ NameLock(p) \in proc[p].holds
  BY <1>1 DEF OwnOK, ReliesOn, LocksOK
<1>3. \A q \in db["recipes"] : ~SameKey(q, proc[p].wanted)
  BY <1>2, DueIsNew
<1> QED BY <1>2, <1>3 DEF SameKey

LEMMA NewBaseline ==
  ASSUME NEW p \in Procs, IInv, Commit(p), proc[p].own["baselines"] # {}
  PROVE  /\ proc[p].own["baselines"] = {proc[p].wanted}
         /\ proc[p].own["recipes"] = {proc[p].wanted}
         /\ Unshared(proc[p].wanted) /\ proc[p].candidate # NoRecipe
         /\ ConditionLock(p) \in proc[p].holds
<1>1. OwnOK(p) /\ ReliesOn(p) /\ LocksOK(p) /\ proc[p].pc = "commit"
  BY DEF IInv, ProcOK, Commit
<1>2. /\ proc[p].own["baselines"] = {proc[p].wanted} /\ proc[p].candidate # NoRecipe
      /\ proc[p].own["recipes"] = {proc[p].wanted}
  BY <1>1 DEF OwnOK
<1>3. Unshared(proc[p].wanted)
  BY <1>1, <1>2 DEF ReliesOn
<1>4. ConditionLock(p) \in proc[p].holds
  BY <1>1, <1>2 DEF LocksOK
<1> QED BY <1>2, <1>3, <1>4

LEMMA NewAssignment ==
  ASSUME NEW p \in Procs, IInv, Commit(p), proc[p].own["assigned"] # {}
  PROVE  /\ proc[p].own["assigned"] = {<<proc[p].candidate, proc[p].wanted>>}
         /\ proc[p].candidate \in db["recipes"] \ db["baselines"]
         /\ AssignmentsOf(proc[p].candidate) = {}
         /\ proc[p].wanted.condition = proc[p].candidate.condition
         /\ \/ proc[p].wanted \in db["baselines"] /\ proc[p].own["recipes"] = {}
               /\ proc[p].own["baselines"] = {}
            \/ proc[p].own["baselines"] = {proc[p].wanted}
               /\ proc[p].own["recipes"] = {proc[p].wanted}
<1>1. OwnOK(p) /\ ReliesOn(p)
  BY DEF IInv, ProcOK
<1>2. /\ proc[p].own["assigned"] = {<<proc[p].candidate, proc[p].wanted>>}
      /\ proc[p].candidate # NoRecipe
      /\ proc[p].own["baselines"] = proc[p].own["recipes"]
      /\ proc[p].own["recipes"] \in {{}, {proc[p].wanted}}
  BY <1>1 DEF OwnOK
<1>3. /\ proc[p].candidate \in db["recipes"] \ db["baselines"]
      /\ AssignmentsOf(proc[p].candidate) = {}
      /\ proc[p].wanted.condition = proc[p].candidate.condition
      /\ proc[p].own["recipes"] = {} => proc[p].wanted \in db["baselines"]
  BY <1>1, <1>2 DEF ReliesOn
<1> QED BY <1>2, <1>3

\* A new recipe takes the next number of its name and moves no other name.
LEMMA NumberedAfter ==
  ASSUME NEW p \in Procs, IInv, Commit(p)
  PROVE  /\ \A name, n : proc[p].own["recipes"] = {} \/ name # proc[p].wanted.name =>
               (Numbered(name, n)' <=> Numbered(name, n))
         /\ \A name, n : /\ proc[p].own["recipes"] # {}
                         /\ name = proc[p].wanted.name /\ n = proc[p].wanted.version
                         => Numbered(name, n)'
<1>1. db'["recipes"] = db["recipes"] \cup proc[p].own["recipes"]
  BY Added
<1>2. CASE proc[p].own["recipes"] = {}
  BY <1>1, <1>2 DEF Numbered
<1>3. CASE proc[p].own["recipes"] # {}
  <2> DEFINE w == proc[p].wanted
  <2>1. /\ db'["recipes"] = db["recipes"] \cup {w} /\ w \in RecipeVersions
        /\ Numbered(w.name, w.version - 1)
    BY <1>1, <1>3, NewRecipe
  <2>2. w.version \in Nat \ {0}
    BY <2>1 DEF RecipeVersions
  <2> HIDE DEF w
  <2>3. ASSUME NEW name, name # w.name, NEW n PROVE Numbered(name, n)' <=> Numbered(name, n)
    BY <2>1, <2>3 DEF Numbered
  <2>4. ASSUME NEW v \in Nat \ {0}
        PROVE  (\E r \in db["recipes"] \cup {w} : r.name = w.name /\ r.version = v)
                 <=> v <= w.version
    <3>1. (\E r \in db["recipes"] : r.name = w.name /\ r.version = v) <=> v <= w.version - 1
      BY <2>1 DEF Numbered
    <3>2. v <= w.version <=> v <= w.version - 1 \/ v = w.version
      BY <2>2
    <3> QED BY <3>1, <3>2
  <2>5. \A name, n : name = w.name /\ n = w.version => Numbered(name, n)'
    BY <2>1, <2>4 DEF Numbered
  <2> QED BY <1>3, <2>3, <2>5 DEF w
<1> QED BY <1>2, <1>3

LEMMA CatalogAfter ==
  ASSUME NEW p \in Procs, IInv, Commit(p)
  PROVE  TypeOK' /\ CatalogOK' /\ OneBaselinePerCondition'
<1> DEFINE w == proc[p].wanted
           k == proc[p].candidate
           R == proc[p].own["recipes"]
           B == proc[p].own["baselines"]
           A == proc[p].own["assigned"]
<1>1. /\ db' \in [Tables -> SUBSET Row] /\ proc' \in [Procs -> Control]
      /\ db'["recipes"] = db["recipes"] \cup R
      /\ db'["baselines"] = db["baselines"] \cup B
      /\ db'["assigned"] = db["assigned"] \cup A
  BY Added
<1>2. /\ db["baselines"] \subseteq db["recipes"] /\ db["recipes"] \subseteq RecipeVersions
      /\ db["assigned"] \subseteq db["recipes"] \X db["baselines"]
      /\ CatalogOK /\ OneBaselinePerCondition
  BY DEF IInv, TypeOK
<1>3. R # {} => /\ R = {w} /\ w \in RecipeVersions
                /\ \A q \in db["recipes"] : ~SameKey(q, w)
  BY NewRecipe
<1>4. B # {} => B = {w} /\ R = {w} /\ Unshared(w)
  BY NewBaseline
<1>5. A # {} => /\ A = {<<k, w>>} /\ k \in db["recipes"] \ db["baselines"]
                /\ AssignmentsOf(k) = {}
                /\ w \in db["baselines"] \/ (B = {w} /\ R = {w})
  BY NewAssignment
<1>6. \A name \in Names : \E n \in Nat : Numbered(name, n)'
  <2> SUFFICES ASSUME NEW name \in Names PROVE \E n \in Nat : Numbered(name, n)'
    OBVIOUS
  <2>1. CASE R = {} \/ name # w.name
    BY <1>2, <2>1, NumberedAfter DEF CatalogOK
  <2>2. CASE R # {} /\ name = w.name
    <3>1. w.version \in Nat
      BY <1>3, <2>2 DEF RecipeVersions
    <3>2. \A n : n = w.version => Numbered(name, n)'
      BY <2>2, NumberedAfter
    <3> QED BY <3>1, <3>2
  <2> QED BY <2>1, <2>2
<1> HIDE DEF w, k, R, B, A
<1>7. TypeOK'
  <2>1. /\ db'["recipes"] \subseteq RecipeVersions /\ db'["baselines"] \subseteq db'["recipes"]
    BY <1>1, <1>2, <1>3, <1>4
  <2>2. db'["assigned"] \subseteq db'["recipes"] \X db'["baselines"]
    BY <1>1, <1>2, <1>5
  <2> QED BY <1>1, <2>1, <2>2 DEF TypeOK
<1>8. \A r, q \in db'["recipes"] : SameKey(r, q) => r = q
  BY <1>1, <1>2, <1>3 DEF CatalogOK, SameKey
<1>9. \A pair, other \in db'["assigned"] : pair[1] = other[1] => pair = other
  <2>1. A # {} => \A pair \in db["assigned"] : pair[1] # k
    BY <1>5 DEF AssignmentsOf
  <2> QED BY <1>1, <1>2, <1>5, <2>1 DEF CatalogOK
<1>10. OneBaselinePerCondition'
  BY <1>1, <1>2, <1>4 DEF OneBaselinePerCondition, Unshared
<1> QED BY <1>6, <1>7, <1>8, <1>9, <1>10 DEF CatalogOK

\* Nobody else relies on what a commit changes.
LEMMA OthersAfter ==
  ASSUME NEW p \in Procs, IInv, Commit(p), NEW q \in Procs \ {p}
  PROVE  ProcOK(q)'
<1> DEFINE w == proc[p].wanted
           x == proc[q].wanted
<1>1. /\ proc'[q] = proc[q] /\ ProcOK(q) /\ LocksOK(q) /\ OwnOK(q) /\ ReliesOn(q) /\ Apart(p, q)
  BY Added DEF IInv, ProcOK
<1>2. /\ db'["recipes"] = db["recipes"] \cup proc[p].own["recipes"]
      /\ db'["baselines"] = db["baselines"] \cup proc[p].own["baselines"]
      /\ db'["assigned"] = db["assigned"] \cup proc[p].own["assigned"]
  BY Added
<1>3. LocksOK(q)' /\ OwnOK(q)'
  BY <1>1 DEF LocksOK, OwnOK, NameLock, ConditionLock
<1>4. ASSUME proc[q].pc = "insert" \/ proc[q].own["recipes"] # {}
      PROVE  \A name, n : name = x.name /\ n = x.version - 1 => Numbered(name, n)'
  <2>1. NameLock(q) \in proc[q].holds /\ Numbered(x.name, x.version - 1)
    BY <1>1, <1>4 DEF LocksOK, ReliesOn, Inserting
  <2>2. proc[p].own["recipes"] = {} \/ x.name # w.name
    <3>1. proc[p].own["recipes"] # {} => NameLock(p) # NameLock(q)
      BY <1>1, <2>1, NewRecipe DEF Apart
    <3> QED BY <3>1 DEF NameLock
  <2> QED BY <2>1, <2>2, NumberedAfter
<1>5. ASSUME proc[q].candidate # NoRecipe
      PROVE  proc[q].candidate \in db'["recipes"] \ db'["baselines"]
  <2>1. proc[q].candidate \in db["recipes"] \ db["baselines"]
    BY <1>1, <1>5 DEF ReliesOn
  <2>2. proc[p].own["baselines"] # {} => proc[p].own["baselines"] = {w} /\ w \notin db["recipes"]
    BY NewBaseline, NewRecipe
  <2> QED BY <1>2, <2>1, <2>2
<1>6. ASSUME proc[q].candidate # NoRecipe,
             proc[q].pc \in {"name"} \cup Inserting \/ proc[q].own["recipes"] # {}
      PROVE  \A b \in db'["baselines"] : ~(b.condition = x.condition /\ b.prompt = x.prompt)
  <2>1. Unshared(x) /\ ConditionLock(q) \in proc[q].holds
    BY <1>1, <1>6 DEF ReliesOn, LocksOK, OwnOK, Inserting
  <2>2. proc[p].own["baselines"] # {} => ConditionLock(p) # ConditionLock(q)
    BY <1>1, <2>1, NewBaseline DEF Apart
  <2>3. proc[p].own["baselines"] # {} => ~(w.condition = x.condition /\ w.prompt = x.prompt)
    BY <2>2 DEF ConditionLock
  <2>4. \A b \in proc[p].own["baselines"] : b = w
    BY NewBaseline
  <2> QED BY <1>2, <2>1, <2>3, <2>4 DEF Unshared
<1>7. ASSUME proc[q].own["assigned"] # {}
      PROVE  \A pair \in db'["assigned"] : pair[1] # proc[q].candidate
  <2>1. AssignmentsOf(proc[q].candidate) = {}
    BY <1>1, <1>7 DEF ReliesOn
  <2>2. \A pair \in proc[p].own["assigned"] :
          pair[1] = proc[p].candidate /\ proc[p].candidate # proc[q].candidate
    BY <1>1, <1>7, NewAssignment DEF Apart
  <2> QED BY <1>2, <2>1, <2>2 DEF AssignmentsOf
<1>8. ReliesOn(q)'
  <2> DEFINE s == proc[q]
  <2>1. /\ s.pc \in {"name", "condition"} \cup Inserting \cup Registering => x \in Drafts
        /\ s.pc = "insert" \/ s.own["recipes"] # {} => x \in RecipeVersions
        /\ s.candidate # NoRecipe => x \in Drafts /\ x.condition = s.candidate.condition
        /\ /\ s.pc = "assign" \/ s.own["assigned"] # {}
           /\ s.own["recipes"] = {}
           => x \in db'["baselines"]
        /\ s.pc # "collided"
    BY <1>1, <1>2 DEF ReliesOn
  <2>2. proc'[q].pc = "insert" \/ proc'[q].own["recipes"] # {} =>
          Numbered(proc[q].wanted.name, proc[q].wanted.version - 1)'
    BY <1>1, <1>4
  <2>3. proc'[q].candidate # NoRecipe /\
          (proc'[q].pc \in {"name"} \cup Inserting \/ proc'[q].own["recipes"] # {}) =>
            Unshared(proc[q].wanted)'
    BY <1>1, <1>6 DEF Unshared
  <2>4. proc'[q].own["assigned"] # {} => AssignmentsOf(proc[q].candidate)' = {}
    BY <1>1, <1>7 DEF AssignmentsOf
  <2> QED BY <1>1, <1>5, <2>1, <2>2, <2>3, <2>4 DEF ReliesOn
<1> QED BY <1>3, <1>8 DEF ProcOK

LEMMA CommitStep == ASSUME NEW p \in Procs, IInv, Commit(p) PROVE IInv'
<1>1. TypeOK' /\ CatalogOK' /\ OneBaselinePerCondition'
  BY CatalogAfter
<1>2. proc'[p] = Idle /\ \A q \in Procs \ {p} : proc'[q] = proc[q]
  BY Added
<1>3. ProcOK(p)'
  BY <1>2, IdleIsControl, QuietIsOK
<1>4. \A q \in Procs : ProcOK(q)'
  BY <1>3, OthersAfter
<1>5. ASSUME NEW x \in Procs, NEW y \in Procs, x # y PROVE Apart(x, y)'
  <2>1. CASE x # p /\ y # p
    <3>1. Apart(x, y) /\ proc'[x] = proc[x] /\ proc'[y] = proc[y]
      BY <1>2, <1>5, <2>1 DEF IInv
    <3> QED BY <3>1 DEF Apart
  <2>2. CASE x = p \/ y = p
    <3>1. Idle.holds = {} /\ Idle.own["assigned"] = {}
      BY IdleIsControl DEF Tables
    <3> QED BY <1>2, <2>2, <3>1 DEF Apart
  <2> QED BY <2>1, <2>2
<1> QED BY <1>1, <1>4, <1>5 DEF IInv

-----------------------------------------------------------------------------
(* Theorems *)

LEMMA StepPreserves == IInv /\ [Next]_vars => IInv'
<1> SUFFICES ASSUME IInv, [Next]_vars PROVE IInv'
  OBVIOUS
<1>1. CASE UNCHANGED vars
  BY <1>1 DEF vars, IInv, TypeOK, CatalogOK, Numbered, OneBaselinePerCondition, ProcOK, LocksOK,
     NameLock, ConditionLock, OwnOK, ReliesOn, Unshared, AssignmentsOf, Apart
<1>2. CASE Next
  <2> SUFFICES ASSUME NEW p \in Procs,
                      \/ create_recipe(p) \/ register_primary_baseline(p) \/ StartPlan(p)
                      \/ Continue(p) \/ Fail(p)
               PROVE  IInv'
    BY <1>2 DEF Next
  <2>1. CASE create_recipe(p)
    BY <2>1, CreateStep
  <2>2. CASE register_primary_baseline(p)
    BY <2>2, RegisterStep
  <2>3. CASE StartPlan(p)
    BY <2>3, StartPlanStep
  <2>4. CASE Insert(p)
    <3>1. CASE _save_prompt(p)
      <4>1. proc[p].wanted.prompt \in Prompts
        BY <3>1 DEF _save_prompt, SaveContent, IInv, ProcOK, ReliesOn, Inserting, Drafts
      <4> QED BY <3>1, <4>1, ContentStep DEF _save_prompt, Inserting
    <3>2. CASE _save_schema(p)
      BY <3>2, ContentStep DEF _save_schema, Inserting
    <3> QED BY <2>4, <3>1, <3>2, LockNameStep, ReadVersionStep, InsertRecipeStep DEF Insert
  <2>5. CASE Register(p)
    BY <2>5, LockConditionStep, CheckAssignmentStep, FindBaselineStep, InsertAssignmentStep
       DEF Register
  <2>6. CASE Commit(p)
    BY <2>6, CommitStep
  <2>7. CASE ReadFlag(p)
    BY <2>7, ReadFlagStep
  <2>8. CASE ReadLink(p)
    BY <2>8, ReadLinkStep
  <2>9. CASE Fail(p)
    BY <2>9, FailStep
  <2> QED BY <2>1, <2>2, <2>3, <2>4, <2>5, <2>6, <2>7, <2>8, <2>9 DEF Continue
<1> QED BY <1>1, <1>2

\* In every reachable state, the invariant of RecipesInv holds: the catalog is numbered
\* without gaps, and what each transaction has read is still true.
THEOREM Invariance == Spec => []IInv
<1>1. Init => IInv
  <2> SUFFICES ASSUME Init PROVE IInv
    OBVIOUS
  <2>1. \A t \in Tables : db[t] = {}
    BY DEF Init, Empty
  <2>2. db["recipes"] = {} /\ db["baselines"] = {} /\ db["assigned"] = {}
    BY <2>1 DEF Tables
  <2>3. /\ Idle \in Control /\ Idle.pc = "idle" /\ Idle.holds = {}
        /\ Idle.candidate = NoRecipe /\ Idle.own["recipes"] = {}
        /\ Idle.own["baselines"] = {} /\ Idle.own["assigned"] = {}
    BY IdleIsControl DEF Tables
  <2>4. TypeOK
    BY <2>2, <2>3 DEF Init, TypeOK, Empty
  <2>5. CatalogOK /\ OneBaselinePerCondition
    <3>1. \A name \in Names : Numbered(name, 0)
      BY <2>2 DEF Numbered
    <3> QED BY <2>2, <3>1 DEF CatalogOK, OneBaselinePerCondition
  <2>6. ASSUME NEW p \in Procs PROVE proc[p] = Idle
    BY DEF Init
  <2>7. ASSUME NEW p \in Procs PROVE ProcOK(p)
    <3>1. LocksOK(p) /\ OwnOK(p)
      BY <2>3, <2>6 DEF LocksOK, OwnOK, Inserting, Registering
    <3>2. ReliesOn(p)
      BY <2>3, <2>6 DEF ReliesOn, Inserting, Registering
    <3> QED BY <3>1, <3>2 DEF ProcOK
  <2>8. \A p, q \in Procs : p # q => Apart(p, q)
    BY <2>3, <2>6 DEF Apart
  <2> QED BY <2>4, <2>5, <2>7, <2>8 DEF IInv
<1> QED BY <1>1, StepPreserves, PTL DEF Spec

\* However the registrations of several processes interleave, a condition and a minimal
\* prompt have one baseline: only the advisory lock of register_primary_baseline, held
\* to the end of its transaction, says so.
THEOREM OneBaseline == Spec => []OneBaselinePerCondition
<1>1. IInv => OneBaselinePerCondition
  BY DEF IInv
<1> QED BY <1>1, Invariance, PTL

\* A save never meets its own version number in the table, and numbers have no gaps: a
\* name is locked from the reading of its highest version to the end of the transaction.
THEOREM NoCollisions == Spec => []SavesDoNotCollide
<1>1. IInv => SavesDoNotCollide
  <2> SUFFICES ASSUME IInv PROVE SavesDoNotCollide
    OBVIOUS
  <2>1. \A p \in Procs : proc[p].pc # "collided"
    BY DEF IInv, ProcOK, ReliesOn
  <2>2. ASSUME NEW r \in db["recipes"], NEW v \in 1..r.version
        PROVE  \E q \in db["recipes"] : q.name = r.name /\ q.version = v
    <3>1. r.name \in Names /\ r.version \in Nat \ {0}
      BY DEF IInv, TypeOK, RecipeVersions
    <3>2. PICK n \in Nat : Numbered(r.name, n)
      BY <3>1 DEF IInv, CatalogOK
    <3>3. r.version <= n
      BY <3>1, <3>2 DEF Numbered
    <3>4. v \in Nat \ {0} /\ v <= n
      BY <3>1, <3>2, <3>3
    <3> QED BY <3>2, <3>4 DEF Numbered
  <2> QED BY <2>1, <2>2 DEF SavesDoNotCollide
<1> QED BY <1>1, Invariance, PTL

\* Recipes implements RecipeCatalog: seen from outside, a save adds one recipe with the
\* next number of its name, a registration adds the assignment together with the
\* baseline it needs, and a failed command adds nothing.
THEOREM CatalogRefinement == Spec => CatalogSpec
<1> DEFINE v == <<db["recipes"], db["baselines"], db["assigned"]>>
<1>1. Init => Catalog!Init
  BY DEF Init, Empty, Tables, Catalog!Init
<1>2. IInv /\ [Next]_vars => [Catalog!Next]_v
  <2> SUFFICES ASSUME IInv, [Next]_vars, db' # db PROVE [Catalog!Next]_v
    OBVIOUS
  <2>1. PICK p \in Procs : Commit(p)
    BY DEF vars, Next, create_recipe, register_primary_baseline, StartPlan, Continue, Insert,
       Register, ReadFlag, ReadLink, Fail, LockName, _save_prompt, _save_schema, SaveContent,
       ReadVersion, InsertRecipe, LockCondition, CheckAssignment, FindBaseline, InsertAssignment
  <2> DEFINE w == proc[p].wanted
             k == proc[p].candidate
             R == proc[p].own["recipes"]
             B == proc[p].own["baselines"]
             A == proc[p].own["assigned"]
  <2>2. /\ db["recipes"]' = db["recipes"] \cup R /\ db["baselines"]' = db["baselines"] \cup B
        /\ db["assigned"]' = db["assigned"] \cup A
    BY <2>1, Added
  <2>3. R # {} => R = {w} /\ w \notin db["recipes"] /\ Catalog!Due(w)
    <3> SUFFICES ASSUME R # {} PROVE R = {w} /\ w \notin db["recipes"] /\ Catalog!Due(w)
      OBVIOUS
    <3>1. /\ R = {w} /\ w \in RecipeVersions /\ w \notin db["recipes"]
          /\ Numbered(w.name, w.version - 1)
      BY <2>1, NewRecipe
    <3>2. w.version \in Nat \ {0} /\ \A q \in db["recipes"] : q.version \in Nat \ {0}
      BY <3>1 DEF IInv, TypeOK, RecipeVersions
    <3>3. \A n : n \in 1..(w.version - 1) <=>
                \E q \in db["recipes"] : q.name = w.name /\ q.version = n
      BY <3>1, <3>2 DEF Numbered
    <3>4. Catalog!Due(w)
      BY <3>3 DEF Catalog!Due
    <3> QED BY <3>1, <3>4
  <2>4. A = {} => B = {}
    <3>1. OwnOK(p) /\ proc[p].pc = "commit"
      BY <2>1 DEF IInv, ProcOK, Commit
    <3> QED BY <3>1 DEF OwnOK
  <2>5. CASE A = {} /\ R = {}
    BY <2>2, <2>4, <2>5
  <2>6. CASE A = {} /\ R # {}
    <3>1. Catalog!Save(w)
      BY <2>2, <2>3, <2>4, <2>6 DEF Catalog!Save
    <3>2. w \in db["recipes"]' \ db["recipes"]
      BY <2>2, <2>3, <2>6
    <3> QED BY <3>1, <3>2 DEF Catalog!Next
  <2>7. CASE A # {}
    <3>1. /\ A = {<<k, w>>} /\ k \in db["recipes"] \ db["baselines"]
          /\ AssignmentsOf(k) = {} /\ w.condition = k.condition
          /\ \/ w \in db["baselines"] /\ R = {} /\ B = {}
             \/ B = {w} /\ R = {w}
      BY <2>1, <2>7, NewAssignment
    <3> HIDE DEF w, k, R, B, A
    <3>2. \A pair \in db["assigned"] : pair[1] # k
      BY <3>1 DEF AssignmentsOf
    <3>3. Catalog!Assign(k, w)
      BY <2>2, <2>3, <3>1, <3>2 DEF Catalog!Assign
    <3>4. <<k, w>> \in db["assigned"]' \ db["assigned"]
      BY <2>2, <3>1, <3>2
    <3> QED BY <3>3, <3>4 DEF Catalog!Next
  <2> QED BY <2>5, <2>6, <2>7
<1> QED BY <1>1, <1>2, Invariance, PTL DEF Spec, CatalogSpec, Catalog!Spec

-----------------------------------------------------------------------------
(* What planners have read stays true *)

\* The catalog only grows: no recipe becomes a baseline later, and no candidate gets a
\* second assignment.
Grown ==
  /\ db["recipes"] \subseteq db'["recipes"] /\ db["baselines"] \subseteq db'["baselines"]
  /\ db["assigned"] \subseteq db'["assigned"]
  /\ \A r \in db["recipes"] : r \in db'["baselines"] => r \in db["baselines"]
  /\ \A pair \in db'["assigned"] : pair \notin db["assigned"] =>
       AssignmentsOf(pair[1]) = {} /\ pair[1].condition = pair[2].condition

LEMMA CatalogGrows == IInv /\ [Next]_vars => Grown
<1> SUFFICES ASSUME IInv, [Next]_vars PROVE Grown
  OBVIOUS
<1>1. CASE db' = db
  BY <1>1 DEF Grown
<1>2. CASE db' # db
  <2>1. PICK p \in Procs : Commit(p)
    BY <1>2 DEF vars, Next, create_recipe, register_primary_baseline, StartPlan, Continue, Insert,
       Register, ReadFlag, ReadLink, Fail, LockName, _save_prompt, _save_schema, SaveContent,
       ReadVersion, InsertRecipe, LockCondition, CheckAssignment, FindBaseline, InsertAssignment
  <2>2. /\ db'["recipes"] = db["recipes"] \cup proc[p].own["recipes"]
        /\ db'["baselines"] = db["baselines"] \cup proc[p].own["baselines"]
        /\ db'["assigned"] = db["assigned"] \cup proc[p].own["assigned"]
    BY <2>1, Added
  <2>3. \A r \in proc[p].own["baselines"] : r \notin db["recipes"]
    BY <2>1, NewBaseline, NewRecipe
  <2>4. \A pair \in proc[p].own["assigned"] :
          AssignmentsOf(pair[1]) = {} /\ pair[1].condition = pair[2].condition
    BY <2>1, NewAssignment
  <2> QED BY <2>2, <2>3, <2>4 DEF Grown
<1> QED BY <1>1, <1>2

\* What the committed rows say of a recipe they will always say.
LEMMA FactsStay ==
  ASSUME Grown, NEW r \in db["recipes"]
  PROVE  /\ r \in db'["recipes"] /\ (r \in db'["baselines"] <=> r \in db["baselines"])
         /\ \A flag, b : IsLink(db["assigned"], r, flag, b) => IsLink(db'["assigned"], r, flag, b)
<1>1. ASSUME NEW b, {pair \in db["assigned"] : pair[1] = r} = {<<r, b>>}
      PROVE  {pair \in db'["assigned"] : pair[1] = r} = {<<r, b>>}
  <2>1. \A pair \in db'["assigned"] : pair \notin db["assigned"] => pair[1] # r
    BY <1>1 DEF Grown, AssignmentsOf
  <2> QED BY <1>1, <2>1 DEF Grown
<1> QED BY <1>1 DEF Grown, IsLink

\* Only planning leads to a plan.
LEMMA OnlyPlannersPlan ==
  ASSUME IInv, Next, NEW q \in Procs, proc'[q].pc \in Planning
  PROVE  proc'[q] = proc[q] \/ StartPlan(q) \/ ReadFlag(q) \/ ReadLink(q)
<1>1. PICK p \in Procs :
        \/ create_recipe(p) \/ register_primary_baseline(p) \/ StartPlan(p)
        \/ Continue(p) \/ Fail(p)
  BY DEF Next
<1>2. proc \in [Procs -> Control]
  BY DEF IInv, TypeOK
<1>3. CASE p # q
  <2>1. \A c : proc' = [proc EXCEPT ![p] = c] => proc'[q] = proc[q]
    BY <1>2, <1>3
  <2> QED BY <1>1, <1>2, <1>3
          DEF Continue, Insert, Register, create_recipe, register_primary_baseline, StartPlan,
              ReadFlag, ReadLink, Fail, LockName, Lock, Goto, _save_prompt, _save_schema,
              SaveContent, ReadVersion, InsertRecipe, LockCondition, CheckAssignment,
              FindBaseline, InsertAssignment, Commit
<1>4. CASE p = q
  <2> USE <1>2 DEF Planning
  <2>1. ~(Fail(q) \/ Commit(q))
    BY DEF Fail, Commit, Idle
  <2>2. ~create_recipe(q)
    <3> SUFFICES ASSUME create_recipe(q) PROVE FALSE
      OBVIOUS
    <3>1. PICK w : proc' = [proc EXCEPT ![q] = [Idle EXCEPT !.pc = "name", !.wanted = w]]
      BY DEF create_recipe
    <3> QED BY <3>1 DEF Idle
  <2>3. ~register_primary_baseline(q)
    <3> SUFFICES ASSUME register_primary_baseline(q) PROVE FALSE
      OBVIOUS
    <3>1. PICK k, w :
            proc' = [proc EXCEPT ![q] =
                       [Idle EXCEPT !.pc = "condition", !.candidate = k, !.wanted = w]]
      BY DEF register_primary_baseline
    <3> QED BY <3>1 DEF Idle
  <2>4. ~(LockName(q) \/ LockCondition(q))
    BY DEF LockName, LockCondition, Lock, Control
  <2>5. ~(_save_prompt(q) \/ _save_schema(q))
    BY DEF _save_prompt, _save_schema, SaveContent, Control
  <2>6. ~ReadVersion(q)
    BY DEF ReadVersion, Control
  <2>7. ~InsertRecipe(q)
    BY DEF InsertRecipe, Control, Idle
  <2>8. ~(CheckAssignment(q) \/ FindBaseline(q))
    BY DEF CheckAssignment, Goto, FindBaseline, Control
  <2>9. ~InsertAssignment(q)
    BY DEF InsertAssignment, Control
  <2> QED BY <1>1, <1>4, <2>1, <2>2, <2>3, <2>4, <2>5, <2>6, <2>7, <2>8, <2>9
          DEF Continue, Insert, Register
<1> QED BY <1>3, <1>4

LEMMA StartedIsRead == ASSUME NEW p \in Procs, IInv, Reading, StartPlan(p) PROVE ReadOK(p)'
<1>1. PICK r \in db["recipes"], q \in db["recipes"] :
        r # q /\ proc' = [proc EXCEPT ![p] = [Idle EXCEPT !.pc = "flags", !.explicit = <<r, q>>]]
  BY DEF StartPlan
<1> DEFINE c == proc'[p]
<1>2. /\ c.pc = "flags" /\ c.explicit = <<r, q>> /\ c.flags = <<>> /\ c.links = <<>>
      /\ db' = db
  BY <1>1 DEF IInv, TypeOK, Idle, StartPlan
<1> HIDE DEF c
<1>3. /\ Len(c.explicit) = 2 /\ c.explicit[1] = r /\ c.explicit[2] = q
      /\ Len(c.flags) = 0 /\ DOMAIN c.flags = {} /\ DOMAIN c.links = {}
  BY <1>2
<1>4. \A i \in 1..2 : c.explicit[i] \in db["recipes"]
  BY <1>3
<1> QED BY <1>1, <1>2, <1>3, <1>4 DEF ReadOK, c

LEMMA FlagIsRead == ASSUME NEW p \in Procs, IInv, Reading, ReadFlag(p) PROVE ReadOK(p)'
<1> DEFINE plan == proc[p]
           c == proc'[p]
           i == Len(plan.flags) + 1
<1>1. /\ plan \in Control /\ ReadOK(p) /\ plan.pc = "flags" /\ db' = db
      /\ c.pc = IF i = Len(plan.explicit) THEN "links" ELSE "flags"
      /\ c.explicit = plan.explicit /\ c.links = plan.links
      /\ c.flags = Append(plan.flags, plan.explicit[i] \in db["baselines"])
  BY DEF IsBaseline, IInv, TypeOK, Reading, ReadFlag
<1>2. /\ plan.flags \in Seq(BOOLEAN) /\ Len(plan.explicit) = 2 /\ Len(plan.flags) \in 0..1
      /\ plan.links = <<>> /\ plan.explicit[1] # plan.explicit[2]
      /\ \A j \in 1..2 : plan.explicit[j] \in db["recipes"]
      /\ \A j \in DOMAIN plan.flags : plan.flags[j] = (plan.explicit[j] \in db["baselines"])
  BY <1>1 DEF ReadOK, Planning, Control
<1> HIDE DEF c, plan
<1>3. /\ Len(c.flags) = i /\ DOMAIN c.flags = 1..i
      /\ \A j \in DOMAIN plan.flags : c.flags[j] = plan.flags[j]
      /\ c.flags[i] = (plan.explicit[i] \in db["baselines"]) /\ DOMAIN plan.flags = 1..(i - 1)
  BY <1>1, <1>2
<1>4. \A j \in DOMAIN c.flags : c.flags[j] = (c.explicit[j] \in db["baselines"])
  BY <1>1, <1>2, <1>3
<1>5. \A j \in DOMAIN c.flags : c.flags[j] = (c.explicit[j] \in db'["baselines"])
  BY <1>1, <1>4
<1>6. DOMAIN c.links = {} /\ Len(c.links) = 0
  BY <1>1, <1>2
<1>7. /\ c.pc = "flags" => Len(c.flags) \in 0..1
      /\ c.pc # "flags" => Len(c.flags) = 2
      /\ c.pc \in {"flags", "links"}
  BY <1>1, <1>2, <1>3
<1> QED BY <1>1, <1>2, <1>5, <1>6, <1>7 DEF ReadOK, c

LEMMA LinkIsRead == ASSUME NEW p \in Procs, IInv, Reading, ReadLink(p) PROVE ReadOK(p)'
<1> DEFINE plan == proc[p]
           c == proc'[p]
           i == Len(plan.links) + 1
<1>1. PICK b \in BaselineOf(plan.explicit[i], plan.flags[i]) :
        proc' = [proc EXCEPT ![p].links = Append(@, b),
                             ![p].pc = IF i = Len(plan.explicit) THEN "planned" ELSE @]
  BY DEF ReadLink
<1>2. /\ plan \in Control /\ ReadOK(p) /\ plan.pc = "links" /\ db' = db
      /\ c.pc = IF i = Len(plan.explicit) THEN "planned" ELSE "links"
      /\ c.explicit = plan.explicit /\ c.flags = plan.flags /\ c.links = Append(plan.links, b)
  <2>1. plan \in Control /\ ReadOK(p) /\ plan.pc = "links" /\ db' = db
    BY DEF IInv, TypeOK, Reading, ReadLink
  <2> QED BY <1>1, <2>1 DEF IInv, TypeOK, Control
<1>3. /\ plan.links \in Seq(RecipeVersions \cup {NoRecipe})
      /\ Len(plan.explicit) = 2 /\ Len(plan.links) \in 0..1 /\ Len(plan.flags) = 2
      /\ plan.explicit[1] # plan.explicit[2]
      /\ \A j \in 1..2 : plan.explicit[j] \in db["recipes"]
      /\ \A j \in DOMAIN plan.flags : plan.flags[j] = (plan.explicit[j] \in db["baselines"])
      /\ \A j \in DOMAIN plan.links :
           IsLink(db["assigned"], plan.explicit[j], plan.flags[j], plan.links[j])
  BY <1>2 DEF ReadOK, Planning, Control
<1>4. IsLink(db["assigned"], plan.explicit[i], plan.flags[i], b)
  <2>1. CASE plan.flags[i]
    BY <1>1, <2>1 DEF BaselineOf, IsLink
  <2>2. CASE ~plan.flags[i]
    <3>1. PICK pair \in AssignmentsOf(plan.explicit[i]) : b = pair[2]
      BY <1>1, <2>2 DEF BaselineOf
    <3>2. pair \in db["assigned"] /\ pair[1] = plan.explicit[i] /\ pair = <<pair[1], pair[2]>>
      BY <3>1 DEF AssignmentsOf, IInv, TypeOK
    <3>3. \A other \in db["assigned"] : other[1] = plan.explicit[i] => other = pair
      BY <3>2 DEF IInv, CatalogOK
    <3>4. {x \in db["assigned"] : x[1] = plan.explicit[i]} = {pair}
      BY <3>2, <3>3
    <3> QED BY <2>2, <3>1, <3>2, <3>4 DEF IsLink
  <2> QED BY <2>1, <2>2
<1> HIDE DEF c, plan
<1>5. /\ Len(c.links) = i /\ DOMAIN c.links = 1..i /\ c.links[i] = b
      /\ \A j \in DOMAIN plan.links : c.links[j] = plan.links[j]
      /\ DOMAIN plan.links = 1..(i - 1)
  BY <1>2, <1>3
<1>6. \A j \in DOMAIN c.links : IsLink(db["assigned"], plan.explicit[j], plan.flags[j], c.links[j])
  <2>1. \A j \in DOMAIN c.links : j \in DOMAIN plan.links \/ j = i
    BY <1>3, <1>5
  <2> QED BY <1>3, <1>4, <1>5, <2>1
<1>7. \A j \in DOMAIN c.links : IsLink(db'["assigned"], c.explicit[j], c.flags[j], c.links[j])
  BY <1>2, <1>6
<1>8. \A j \in DOMAIN c.flags : c.flags[j] = (c.explicit[j] \in db'["baselines"])
  BY <1>2, <1>3
<1>9. /\ c.pc = "links" => Len(c.links) \in 0..1
      /\ c.pc = "planned" => Len(c.links) = 2
      /\ c.pc \in {"links", "planned"}
  BY <1>2, <1>3, <1>5
<1> QED BY <1>2, <1>3, <1>7, <1>8, <1>9 DEF ReadOK, c

LEMMA ReadStays ==
  ASSUME NEW p \in Procs, ReadOK(p), Grown, proc'[p] = proc[p], IInv
  PROVE  ReadOK(p)'
<1> DEFINE plan == proc[p]
<1> SUFFICES ASSUME plan.pc \in Planning PROVE ReadOK(p)'
  BY DEF ReadOK
<1>1. /\ Len(plan.explicit) = 2 /\ plan.explicit[1] # plan.explicit[2]
      /\ plan.pc = "flags" => Len(plan.flags) \in 0..1 /\ plan.links = <<>>
      /\ plan.pc # "flags" => Len(plan.flags) = 2
      /\ plan.pc = "links" => Len(plan.links) \in 0..1
      /\ plan.pc = "planned" => Len(plan.links) = 2
      /\ \A i \in 1..2 : plan.explicit[i] \in db["recipes"]
      /\ \A i \in DOMAIN plan.flags : plan.flags[i] = (plan.explicit[i] \in db["baselines"])
      /\ \A i \in DOMAIN plan.links :
           IsLink(db["assigned"], plan.explicit[i], plan.flags[i], plan.links[i])
  BY DEF ReadOK
<1>2. plan.flags \in Seq(BOOLEAN) /\ plan.links \in Seq(RecipeVersions \cup {NoRecipe})
  BY DEF IInv, TypeOK, Control
<1> HIDE DEF plan
<1>3. DOMAIN plan.flags \subseteq 1..2 /\ DOMAIN plan.links \subseteq 1..2
  BY <1>1, <1>2 DEF Planning
<1>4. \A i \in 1..2 : plan.explicit[i] \in db'["recipes"]
  BY <1>1, FactsStay
<1>5. \A i \in DOMAIN plan.flags : plan.flags[i] = (plan.explicit[i] \in db'["baselines"])
  BY <1>1, <1>3, FactsStay
<1>6. \A i \in DOMAIN plan.links :
        IsLink(db'["assigned"], plan.explicit[i], plan.flags[i], plan.links[i])
  BY <1>1, <1>3, FactsStay
<1> QED BY <1>1, <1>4, <1>5, <1>6 DEF ReadOK, plan

\* A plan is read statement by statement, while others register and save: what was read
\* first is still true when the last fact has been read.
THEOREM ReadingInvariance == Spec => []Reading
<1>1. Init => Reading
  BY DEF Init, Empty, Tables, Reading, ReadOK, Idle, Planning
<1>2. IInv /\ Reading /\ [Next]_vars => Reading'
  <2> SUFFICES ASSUME IInv, Reading, [Next]_vars PROVE Reading'
    OBVIOUS
  <2>1. Grown
    BY CatalogGrows
  <2>2. \A pair \in db'["assigned"] : pair[1].condition = pair[2].condition
    BY <2>1 DEF Grown, Reading
  <2>3. ASSUME NEW p \in Procs PROVE ReadOK(p)'
    <3>1. CASE proc'[p] = proc[p]
      BY <2>1, <3>1, ReadStays DEF Reading
    <3>2. CASE proc'[p].pc \notin Planning
      BY <3>2 DEF ReadOK
    <3>3. CASE Next /\ proc'[p].pc \in Planning
      BY <3>1, <3>3, OnlyPlannersPlan, StartedIsRead, FlagIsRead, LinkIsRead
    <3>4. CASE UNCHANGED vars
      BY <3>1, <3>4 DEF vars
    <3> QED BY <3>2, <3>3, <3>4
  <2> QED BY <2>2, <2>3 DEF Reading
<1> QED BY <1>1, <1>2, Invariance, PTL DEF Spec

-----------------------------------------------------------------------------
(* The plan of two recipes *)

LEMMA MaxOfOneOrTwo == Max({1}) = 1 /\ Max({2}) = 2 /\ Max(1..2) = 2
<1>1. \A S : S = 1..2 \/ S = {2} => \A x \in S : (\A y \in S : x >= y) <=> x = 2
  OBVIOUS
<1> QED BY <1>1 DEF Max

\* A fold over two elements takes the first and then the second.
LEMMA FoldOfTwo ==
  ASSUME NEW base, NEW two, DOMAIN two = 1..2
  PROVE  FoldLeft(place, base, two) = place(place(base, two[1]), two[2])
<1> DEFINE D == SUBSET (1..2)
           body(f) == [s \in D |-> IF s = {} THEN base
                                   ELSE place(f[s \ {Max(s)}], two[Max(s)])]
           g == [s \in D |-> IF s = {} THEN base
                             ELSE IF s = {1} THEN place(base, two[1])
                             ELSE IF s = {2} THEN place(base, two[2])
                             ELSE place(place(base, two[1]), two[2])]
           h == CHOOSE f : f = body(f)
<1>1. FoldLeft(place, base, two) = h[1..2]
  BY DEF FoldLeft, MapThenFoldSet
<1>2. ASSUME NEW s \in D PROVE s = {} \/ s = {1} \/ s = {2} \/ s = 1..2
  <2>1. 1..2 = {1, 2}
    OBVIOUS
  <2> QED BY <2>1
<1>3. g = body(g)
  <2>1. ASSUME NEW s \in D PROVE g[s] = body(g)[s]
    <3>1. CASE s = {} \/ s = {1} \/ s = {2}
      BY <3>1, MaxOfOneOrTwo
    <3>2. CASE s = 1..2
      <4>1. (1..2) \ {2} = {1} /\ 1..2 # {} /\ 1..2 # {1} /\ 1..2 # {2}
        OBVIOUS
      <4> QED BY <3>2, <4>1, MaxOfOneOrTwo
    <3> QED BY <1>2, <3>1, <3>2
  <2> QED BY <2>1
<1>4. h = body(h)
  <2> HIDE DEF g, body
  <2> QED BY <1>3
<1>5. h[1..2] = place(place(base, two[1]), two[2])
  <2>1. h[{}] = base
    BY <1>4
  <2>2. {1} \in D /\ {1} \ {1} = {} /\ {1} # {}
    OBVIOUS
  <2>3. 1..2 \in D /\ (1..2) \ {2} = {1} /\ 1..2 # {}
    OBVIOUS
  <2> HIDE DEF h
  <2>4. h[{1}] = place(base, two[1])
    <3>1. h[{1}] = place(h[{1} \ {Max({1})}], two[Max({1})])
      BY <1>4, <2>2
    <3> QED BY <2>1, <2>2, <3>1, MaxOfOneOrTwo
  <2> QED BY <1>4, <2>3, <2>4, MaxOfOneOrTwo
<1> QED BY <1>1, <1>5

\* Recipes in an order, each once; and that order with b in it.
Once(ordered) ==
  /\ ordered \in Seq(RecipeVersions)
  /\ \A i, j \in DOMAIN ordered : ordered[i] = ordered[j] => i = j

With(after, ordered, b) ==
  /\ \A i \in DOMAIN ordered : i \in DOMAIN after /\ after[i] = ordered[i]
  /\ b # NoRecipe => \E i \in DOMAIN after : after[i] = b

LEMMA Placed ==
  ASSUME NEW ordered, Once(ordered), NEW b \in RecipeVersions \cup {NoRecipe}
  PROVE  Once(place(ordered, b)) /\ With(place(ordered, b), ordered, b)
<1> DEFINE after == place(ordered, b)
<1> SUFFICES /\ after \in Seq(RecipeVersions)
             /\ \A i, j \in DOMAIN after : after[i] = after[j] => i = j
             /\ \A i \in DOMAIN ordered : i \in DOMAIN after /\ after[i] = ordered[i]
             /\ b # NoRecipe => \E i \in DOMAIN after : after[i] = b
  BY DEF Once, With
<1> USE DEF Once
<1>1. CASE b = NoRecipe
  BY <1>1 DEF place
<1>2. CASE Contains(ordered, b)
  BY <1>2 DEF place, Contains
<1>3. CASE b # NoRecipe /\ ~Contains(ordered, b)
  <2> DEFINE n == Len(ordered)
  <2>1. after = Append(ordered, b) /\ b \in RecipeVersions
    BY <1>3 DEF place
  <2> HIDE DEF after
  <2>2. /\ after \in Seq(RecipeVersions) /\ DOMAIN after = 1..(n + 1) /\ after[n + 1] = b
        /\ DOMAIN ordered = 1..n /\ n \in Nat
        /\ \A i \in 1..n : after[i] = ordered[i] /\ ordered[i] # b
    BY <1>3, <2>1 DEF Contains
  <2> HIDE DEF n
  <2>3. \A i, j \in 1..(n + 1) : after[i] = after[j] => i = j
    BY <2>2
  <2> QED BY <2>1, <2>2, <2>3
<1> QED BY <1>1, <1>2, <1>3

\* The plan that two recipes amount to has each recipe once, and beside a candidate the
\* baseline that the assignments name.
LEMMA PlanIsTrue ==
  ASSUME NEW p \in Procs, IInv, Reading, proc[p].pc = "planned"
  PROVE  /\ \A i, j \in DOMAIN PlanOf(p) : PlanOf(p)[i].recipe = PlanOf(p)[j].recipe => i = j
         /\ \A i \in DOMAIN PlanOf(p) :
              PlanOf(p)[i].label # "primary_baseline" =>
                \E b \in DOMAIN PlanOf(p) :
                  /\ PlanOf(p)[i].recipe \in PlanOf(p)[b].targets
                  /\ PlanOf(p)[b].label = "primary_baseline"
                  /\ PlanOf(p)[b].recipe.condition = PlanOf(p)[i].recipe.condition
<1> DEFINE e == proc[p].explicit
           f == proc[p].flags
           l == proc[p].links
           once == place(e, l[1])
           ordered == place(once, l[2])
           first == e[Min({i \in DOMAIN e : ~f[i]})]
           label(i) == IF i > Len(e) \/ f[i] THEN "primary_baseline"
                       ELSE candidate_label(ordered[i], first)
           targets(i) == {e[j] : j \in {k \in DOMAIN l : l[k] = ordered[i]}}
<1>1. /\ e \in Seq(RecipeVersions) /\ f \in Seq(BOOLEAN)
      /\ l \in Seq(RecipeVersions \cup {NoRecipe})
      /\ Len(e) = 2 /\ Len(f) = 2 /\ Len(l) = 2 /\ e[1] # e[2]
      /\ \A i \in DOMAIN f : f[i] = (e[i] \in db["baselines"])
      /\ \A i \in DOMAIN l : IsLink(db["assigned"], e[i], f[i], l[i])
  BY DEF IInv, TypeOK, Control, Reading, ReadOK, Planning
<1>2. /\ DOMAIN e = 1..2 /\ DOMAIN f = 1..2 /\ DOMAIN l = 1..2
      /\ l[1] \in RecipeVersions \cup {NoRecipe} /\ l[2] \in RecipeVersions \cup {NoRecipe}
  BY <1>1
<1>3. PlanOf(p) = [i \in DOMAIN ordered |->
                    [recipe |-> ordered[i], label |-> label(i), targets |-> targets(i)]]
  <2>1. FoldLeft(place, e, l) = ordered
    BY <1>2, FoldOfTwo
  <2> QED BY <2>1 DEF PlanOf, plan_recipes
<1> HIDE DEF e, f, l, ordered, label, targets
<1>4. /\ ordered \in Seq(RecipeVersions)
      /\ \A i, j \in DOMAIN ordered : ordered[i] = ordered[j] => i = j
      /\ \A i \in 1..2 : i \in DOMAIN ordered /\ ordered[i] = e[i]
      /\ \A i \in 1..2 : l[i] # NoRecipe => \E b \in DOMAIN ordered : ordered[b] = l[i]
  <2>1. Once(e)
    BY <1>1, <1>2 DEF Once
  <2>2. Once(once) /\ With(once, e, l[1])
    BY <1>2, <2>1, Placed
  <2> HIDE DEF once
  <2>3. Once(ordered) /\ With(ordered, once, l[2])
    BY <1>2, <2>2, Placed DEF ordered
  <2> QED BY <1>2, <2>2, <2>3 DEF Once, With
<1>5. ASSUME NEW i \in DOMAIN ordered, label(i) # "primary_baseline"
      PROVE  \E b \in DOMAIN ordered :
               /\ ordered[i] \in targets(b) /\ label(b) = "primary_baseline"
               /\ ordered[b].condition = ordered[i].condition
  <2>1. i \in 1..2 /\ ~f[i]
    BY <1>1, <1>4, <1>5 DEF label
  <2>2. /\ e[i] = ordered[i]
        /\ {pair \in db["assigned"] : pair[1] = e[i]} = {<<e[i], l[i]>>}
    BY <1>1, <1>2, <1>4, <2>1 DEF IsLink
  <2>3. <<e[i], l[i]>> \in db["assigned"]
    BY <2>2
  <2>4. /\ l[i] \in db["baselines"] /\ l[i] \in RecipeVersions
        /\ e[i].condition = l[i].condition
    <3>1. <<e[i], l[i]>>[1].condition = <<e[i], l[i]>>[2].condition
      BY <2>3 DEF Reading
    <3> QED BY <2>3, <3>1 DEF IInv, TypeOK
  <2>5. PICK b \in DOMAIN ordered : ordered[b] = l[i]
    BY <1>4, <2>1, <2>4, NoRecipeIsNoDraft
  <2>6. ordered[i] \in targets(b)
    BY <1>2, <2>1, <2>2, <2>5 DEF targets
  <2>7. label(b) = "primary_baseline"
    <3>1. CASE b > Len(e)
      BY <3>1 DEF label
    <3>2. CASE b \in 1..2
      <4>1. e[b] \in db["baselines"]
        BY <1>4, <2>4, <2>5, <3>2
      <4>2. f[b]
        BY <1>1, <1>2, <3>2, <4>1
      <4> QED BY <4>2 DEF label
    <3>3. b > Len(e) \/ b \in 1..2
      BY <1>1, <1>4
    <3> QED BY <3>1, <3>2, <3>3
  <2> QED BY <2>2, <2>4, <2>5, <2>6, <2>7
<1>6. /\ DOMAIN PlanOf(p) = DOMAIN ordered
      /\ \A i \in DOMAIN ordered :
           /\ PlanOf(p)[i].recipe = ordered[i] /\ PlanOf(p)[i].label = label(i)
           /\ PlanOf(p)[i].targets = targets(i)
  BY <1>3
<1> QED BY <1>4, <1>5, <1>6

\* However saves and registrations interleave with the statements of a planner, its plan
\* is true of what is committed when it is complete and ever after: each recipe once, and
\* beside each candidate the one baseline that is its own.
THEOREM PlansAreTrue == Spec => []PlansStayTrue
<1>1. IInv /\ Reading => PlansStayTrue
  <2> SUFFICES ASSUME IInv, Reading, NEW p \in Procs, proc[p].pc = "planned"
               PROVE  \A i \in DOMAIN proc[p].explicit :
                        /\ proc[p].flags[i] = IsBaseline(proc[p].explicit[i])
                        /\ BaselineOf(proc[p].explicit[i], proc[p].flags[i]) = {proc[p].links[i]}
    BY PlanIsTrue DEF PlansStayTrue
  <2> DEFINE plan == proc[p]
  <2>1. /\ DOMAIN plan.explicit = 1..2 /\ DOMAIN plan.flags = 1..2 /\ DOMAIN plan.links = 1..2
        /\ \A i \in DOMAIN plan.flags : plan.flags[i] = (plan.explicit[i] \in db["baselines"])
        /\ \A i \in DOMAIN plan.links :
             IsLink(db["assigned"], plan.explicit[i], plan.flags[i], plan.links[i])
    BY DEF IInv, TypeOK, Control, Reading, ReadOK, Planning
  <2> HIDE DEF plan
  <2>2. ASSUME NEW i \in 1..2
        PROVE  BaselineOf(plan.explicit[i], plan.flags[i]) = {plan.links[i]}
    <3>1. IsLink(db["assigned"], plan.explicit[i], plan.flags[i], plan.links[i])
      BY <2>1
    <3>2. CASE plan.flags[i]
      BY <3>1, <3>2 DEF IsLink, BaselineOf
    <3>3. CASE ~plan.flags[i]
      <4>1. AssignmentsOf(plan.explicit[i]) = {<<plan.explicit[i], plan.links[i]>>}
        BY <3>1, <3>3 DEF IsLink, AssignmentsOf
      <4> QED BY <3>3, <4>1 DEF BaselineOf
    <3> QED BY <3>2, <3>3
  <2> QED BY <2>1, <2>2 DEF IsBaseline, plan
<1> QED BY <1>1, Invariance, ReadingInvariance, PTL
=============================================================================
