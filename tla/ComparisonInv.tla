----------------------------- MODULE ComparisonInv -----------------------------
(***************************************************************************)
(* The inductive invariant behind the safety properties of Comparison.     *)
(* What a run's own rows contain follows from where the run is; what the   *)
(* world sees of them is all or nothing.                                   *)
(***************************************************************************)
EXTENDS Comparison

Executing == {"execute", "calling", "save"}
InPlan == Executing \cup {"member", "reuse"}
Plan(r) == run[r].request.plan

\* The local state of a run fits its program counter.
ControlOK(r) ==
  /\ run[r].pc \in Active => run[r].request \in Requests
  /\ run[r].pc \in Executing \cup {"reuse"} => run[r].pos \in 1..Len(Plan(r))
  /\ run[r].pc = "member" => run[r].pos \in 1..(Len(Plan(r)) + 1)
  /\ run[r].pc \notin Executing => run[r].attempts = <<>>
  /\ run[r].pc = "reuse" => run[r].cached \in ResultIds /\ ~run[r].request.regenerate

\* An open transaction hides everything the run wrote, a closed one nothing; what an
\* aborted transaction wrote is gone.
VisibilityOK(r) ==
  /\ open[r] <=> run[r].pc \in Active /\ ~run[r].autocommit
  /\ committed[r] = IF open[r] THEN Absent ELSE working[r]
  /\ run[r].pc = "aborted" /\ ~run[r].autocommit => working[r] = Absent

\* Requests sent so far for the member the run is at.
SentNow(r) == Len(run[r].attempts) + IF run[r].pc = "calling" THEN 1 ELSE 0

\* A planned member the run has not settled yet is untouched.
Untouched(r, i) ==
  /\ working[r].members[Plan(r)[i]] = PendingMember
  /\ working[r].results[Plan(r)[i]] = NoRow
  /\ billed[r][Plan(r)[i]] = IF i = run[r].pos THEN SentNow(r) ELSE 0

\* The rows the run works on: earlier members settled, the others untouched.
WorkingOK(r) ==
  run[r].pc \in InPlan =>
    /\ working[r].status = "running"
    /\ working[r].source = run[r].request.source
    /\ working[r].forced = run[r].request.regenerate
    /\ \A i \in 1..Len(Plan(r)) :
         IF i < run[r].pos THEN Settled(working[r].members[Plan(r)[i]]) ELSE Untouched(r, i)

\* Nothing was written before the freeze, and what is not planned has no member; a
\* run that has completed its invocation has settled the whole plan.
PlanOK(r) ==
  /\ run[r].pc \in {"idle", "plan"} =>
       working[r] = Absent /\ \A c \in Recipes : billed[r][c] = 0
  /\ run[r].pc \in InPlan \cup {"report", "done"} =>
       \A c \in Recipes \ Planned(run[r].request) :
         working[r].members[c] = NoMember /\ billed[r][c] = 0
  /\ run[r].pc \in {"report", "done"} =>
       /\ working[r].status = "completed"
       /\ \A c \in Planned(run[r].request) : Settled(working[r].members[c])

\* A generated member is backed by the run's own result.
GeneratedOK(r) ==
  \A c \in Recipes :
    working[r].members[c].state = "generated" =>
      /\ working[r].members[c].result = <<r, c>>
      /\ working[r].results[c].status # "none"
      /\ working[r].members[c].calls = billed[r][c]
      /\ working[r].results[c].calls = billed[r][c]
      /\ working[r].members[c].cost = "not_incurred" <=> billed[r][c] = 0

RunOK(r) == ControlOK(r) /\ VisibilityOK(r) /\ WorkingOK(r) /\ PlanOK(r) /\ GeneratedOK(r)

IInv == TypeOK /\ ReuseIsSound /\ \A r \in Runs : RunOK(r)
-----------------------------------------------------------------------------
(* What a run knows of the successes that others have made durable.  Nothing that *)
(* the other runs commit takes any of it back. *)

\* Successes that were durable when the run began still are.
KnownOK(r) ==
  \A c \in Recipes : \A t \in known[r][c] :
    \E q \in Runs \ {r} :
      /\ committed[q].source = run[r].request.source
      /\ committed[q].results[c].status = "succeeded"
      /\ committed[q].results[c].created = t

\* Among the rows, result id is a success of recipe c and another run for that source,
\* at least as new as all those of `stamps'.
Serves(rows, r, c, source, stamps, id) ==
  /\ id[1] \in Runs \ {r} /\ id[2] = c
  /\ rows[id[1]].source = source
  /\ rows[id[1]].results[c].status = "succeeded"
  /\ \A t \in stamps : rows[id[1]].results[c].created >= t

\* The hit a run is about to link is as new as what the run knows of, and a run that
\* executes a recipe knows of none; a decided success had an answer.
HitOK(r) ==
  /\ run[r].pc = "reuse" =>
       Serves(committed, r, Recipe(r), run[r].request.source, known[r][Recipe(r)],
              run[r].cached)
  /\ run[r].pc \in Executing /\ ~run[r].request.regenerate => known[r][Recipe(r)] = {}
  /\ run[r].pc = "save" /\ run[r].outcome.status = "succeeded" => run[r].attempts # <<>>

LinksOK(r) ==
  ~run[r].request.regenerate =>
    \A c \in Recipes :
      /\ known[r][c] # {} => billed[r][c] = 0
      /\ working[r].members[c].state = "reused" =>
           Serves(committed, r, c, run[r].request.source, known[r][c],
                  working[r].members[c].result)

MemoryOK(r) == KnownOK(r) /\ HitOK(r) /\ LinksOK(r)
Memory == \A r \in Runs : MemoryOK(r)
=============================================================================
