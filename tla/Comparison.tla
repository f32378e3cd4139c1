------------------------------ MODULE Comparison -------------------------------
(***************************************************************************)
(* `altiscope comparisons run': several processes execute frozen recipes   *)
(* on frozen sources against one Postgres database.                        *)
(*                                                                         *)
(* Each process owns one connection.  The rows it writes are its own       *)
(* invocation's, so its uncommitted state is a private version of those    *)
(* rows (`working') beside the committed one (`committed'); it reads its   *)
(* own version and everybody else's committed rows, statement by statement *)
(* (READ COMMITTED).  A connection is in autocommit mode or not.  When it  *)
(* is not, the first plain statement opens a transaction that stays open   *)
(* until the connection closes, and a later `with conn.transaction()'      *)
(* block is only a savepoint inside it.                                    *)
(*                                                                         *)
(* created_at is clock_timestamp(), the order of insertion; it is modelled *)
(* by a counter.                                                           *)
(***************************************************************************)
EXTENDS ComparisonRows, StructuredCalls

CONSTANTS
  Requests,     \* command lines: [source, plan, regenerate]
  Modes,        \* for each, the autocommit settings its connection may have
  RepairLimit,  \* the recipes' frozen repair limit
  Replies,      \* provider answers that are considered
  Priced        \* recipes whose frozen pricing is a configured estimate

ASSUME ConstantsAssumption ==
  /\ Requests \subseteq [source : Sources, plan : Seq(Recipes), regenerate : BOOLEAN]
  /\ \A q \in Requests :
       /\ Len(q.plan) >= 2
       /\ \A i, j \in 1..Len(q.plan) : q.plan[i] = q.plan[j] => i = j
  /\ Modes \in [Requests -> SUBSET BOOLEAN]
  /\ RepairLimit \in {0, 1}
  /\ Replies \subseteq Attempts
  /\ Priced \subseteq Recipes
  /\ NoSource \notin Sources
  /\ NoResult \notin ResultIds

VARIABLES
  committed, \* [Runs -> Rows]: what other connections see
  working,   \* [Runs -> Rows]: what the run's own connection sees of its rows
  open,      \* [Runs -> BOOLEAN]: an implicit transaction is open
  run,       \* [Runs -> Control]: the local state of run_comparison
  billed,    \* history, [Runs -> [Recipes -> Nat]]: requests sent for each member
  known,     \* history, [Runs -> [Recipes -> SUBSET Nat]]: created_at of the durable
             \*   successes for the run's source when the run began
  clock      \* the next created_at

db == <<committed, working, open>>
vars == <<committed, working, open, run, billed, known, clock>>

Ledger == INSTANCE ComparisonLedger WITH ledger <- committed

Active == {"plan", "member", "reuse", "execute", "calling", "save", "report"}
NoRequest == [source |-> NoSource, plan |-> <<>>, regenerate |-> FALSE]
NoOutcome == Outcome("failed", "none")

Control ==
  [pc : Active \cup {"idle", "done", "aborted"},
   autocommit : BOOLEAN,
   request : Requests \cup {NoRequest},
   pos : Nat,                             \* index into the plan
   cached : ResultIds \cup {NoResult},    \* find_comparison_result's answer
   attempts : Seq(Attempts),
   outcome : Outcomes]

Init ==
  /\ committed = [r \in Runs |-> Absent]
  /\ working = [r \in Runs |-> Absent]
  /\ open = [r \in Runs |-> FALSE]
  /\ run = [r \in Runs |->
       [pc |-> "idle", autocommit |-> FALSE, request |-> NoRequest, pos |-> 0,
        cached |-> NoResult, attempts |-> <<>>, outcome |-> NoOutcome]]
  /\ billed = [r \in Runs |-> [c \in Recipes |-> 0]]
  /\ known = [r \in Runs |-> [c \in Recipes |-> {}]]
  /\ clock = 1

-----------------------------------------------------------------------------
(* The connection *)

\* (faulty variant) Reads see what other transactions have not committed.
DirtyRead(r, q) == working[q]

\* What run r reads: its own rows as it left them, others' as committed.
Visible(r, q) == IF q = r THEN working[r] ELSE committed[q]

\* A plain statement outside any block.
PlainStatement(r) == open' = [open EXCEPT ![r] = ~run[r].autocommit]

\* (faulty variant) Nothing is committed before the connection closes.
BlockNeverCommits(r, rows) ==
  /\ working' = [working EXCEPT ![r] = rows]
  /\ UNCHANGED <<committed, open>>

\* A `with conn.transaction()' block that writes r's rows.  It commits only when
\* the connection was idle; otherwise its end releases a savepoint.
Block(r, rows) ==
  /\ working' = [working EXCEPT ![r] = rows]
  /\ committed' = IF open[r] THEN committed ELSE [committed EXCEPT ![r] = rows]
  /\ UNCHANGED open

Goto(r, pc) == run' = [run EXCEPT ![r].pc = pc]

\* The process ends and its local state is gone.
Exit(r, pc) ==
  run' = [run EXCEPT ![r] = [@ EXCEPT
            !.pc = pc, !.pos = 0, !.cached = NoResult, !.attempts = <<>>,
            !.outcome = NoOutcome]]

-----------------------------------------------------------------------------
(* Starting *)

Recipe(r) == run[r].request.plan[run[r].pos]
Planned(q) == {q.plan[i] : i \in 1..Len(q.plan)}

\* created_at of the durable successes for a source and a recipe.
Durable(source, c) ==
  {committed[q].results[c].created :
     q \in {p \in Runs : /\ committed[p].source = source
                         /\ committed[p].results[c].status = "succeeded"}}

\* load_source and plan_recipes: reads only, but they open the transaction.
Begin(r) ==
  /\ run[r].pc = "idle"
  /\ \E q \in Requests : \E m \in Modes[q] :
       /\ run' = [run EXCEPT ![r] = [@ EXCEPT !.pc = "plan", !.request = q, !.autocommit = m]]
       /\ open' = [open EXCEPT ![r] = ~m]
       /\ known' = [known EXCEPT ![r] = [c \in Recipes |-> Durable(q.source, c)]]
  /\ UNCHANGED <<committed, working, billed, clock>>

\* The invocation and all its pending members.
FrozenRows(q) ==
  [Absent EXCEPT
     !.status = "running", !.source = q.source, !.forced = q.regenerate,
     !.members = [c \in Recipes |-> IF c \in Planned(q) THEN PendingMember ELSE NoMember]]

create_invocation(r) ==
  /\ run[r].pc = "plan"
  /\ Block(r, FrozenRows(run[r].request))
  /\ run' = [run EXCEPT ![r] = [@ EXCEPT !.pc = "member", !.pos = 1]]
  /\ UNCHANGED <<billed, known, clock>>

-----------------------------------------------------------------------------
(* One member: look for a stored success, reuse it or execute the recipe *)

MemberDue(r) == run[r].pc = "member" /\ run[r].pos <= Len(run[r].request.plan)

\* (faulty variant) Failures are served from the cache too.
AnyStoredResult(r, c) ==
  {q \in Runs : /\ Visible(r, q).results[c].status # "none"
                /\ Visible(r, q).source = run[r].request.source}

\* (faulty variant) Only what a completed invocation left is served.
OfCompletedRuns(r, c) ==
  {q \in Runs : /\ Visible(r, q).results[c].status = "succeeded"
                /\ Visible(r, q).source = run[r].request.source
                /\ Visible(r, q).status = "completed"}

\* The stored successes under the cache key of (source, recipe).
CachedSuccesses(r, c) ==
  {q \in Runs : /\ Visible(r, q).results[c].status = "succeeded"
                /\ Visible(r, q).source = run[r].request.source}

\* ORDER BY created_at DESC LIMIT 1.
NewestOf(r, c, S) ==
  {q \in S : \A p \in S : Visible(r, p).results[c].created <= Visible(r, q).results[c].created}

\* (faulty variant) `--regenerate' consults the cache as well.
FindIgnoringRegenerate(r) ==
  LET S == CachedSuccesses(r, Recipe(r)) IN
  IF S = {} THEN {NoResult} ELSE NewestOf(r, Recipe(r), S) \X {Recipe(r)}

\* What the cache may answer: the newest stored success, if the run may use one.
find_comparison_result(r) ==
  LET S == CachedSuccesses(r, Recipe(r)) IN
  IF run[r].request.regenerate \/ S = {} THEN {NoResult}
  ELSE NewestOf(r, Recipe(r), S) \X {Recipe(r)}

Lookup(r) ==
  /\ MemberDue(r)
  /\ \E hit \in find_comparison_result(r) :
     run' = [run EXCEPT ![r] = [@ EXCEPT
               !.cached = hit, !.pc = IF hit = NoResult THEN "execute" ELSE "reuse"]]
  /\ IF run[r].request.regenerate THEN UNCHANGED open ELSE PlainStatement(r)
  /\ UNCHANGED <<committed, working, billed, known, clock>>

\* The checks of reuse_result; a failed check raises (Unwind).
reuse_result(r) ==
  LET q == run[r].cached[1]
      c == run[r].cached[2]
      hit == Visible(r, q)
  IN
  /\ run[r].pc = "reuse"
  /\ working[r].members[Recipe(r)].state = "pending"
  /\ hit.results[c].status = "succeeded"
  /\ hit.source = working[r].source /\ c = Recipe(r)
  /\ Block(r, [working[r] EXCEPT !.members[Recipe(r)] =
                 [NoMember EXCEPT !.state = "reused", !.result = run[r].cached]])
  /\ run' = [run EXCEPT ![r] = [@ EXCEPT
       !.pc = "member", !.pos = run[r].pos + 1, !.cached = NoResult]]
  /\ UNCHANGED <<billed, known, clock>>

Decide(r, outcome) == run' = [run EXCEPT ![r] = [@ EXCEPT !.pc = "save", !.outcome = outcome]]

\* The recipe names a credential that the environment does not hold, or the
\* frozen provider configuration cannot be built: nothing is sent.
Preflight(r) ==
  /\ run[r].pc = "execute" /\ run[r].attempts = <<>>
  /\ \E code \in {"credentials", "compatibility"} :
       Decide(r, Outcome("preflight_failed", code))
  /\ UNCHANGED <<db, billed, known, clock>>

\* The prepared request, original or repair, exceeds the frozen budget.
Oversized(r) ==
  /\ run[r].pc = "execute"
  /\ Decide(r, classify_structured_failure(run[r].attempts, TRUE))
  /\ UNCHANGED <<db, billed, known, clock>>

\* The provider request, original or repair, leaves the process.
Send(r) ==
  /\ run[r].pc = "execute"
  /\ Goto(r, "calling")
  /\ billed' = [billed EXCEPT ![r][Recipe(r)] = @ + 1]
  /\ UNCHANGED <<db, known, clock>>

\* The member goes round again for the repair, or is decided by its last answer.
AfterAnswer(control, attempts) ==
  IF MayAsk("recipe", attempts, RepairLimit)
  THEN [control EXCEPT !.pc = "execute", !.attempts = attempts]
  ELSE [control EXCEPT !.pc = "save", !.attempts = attempts,
          !.outcome = IF OK(LastOf(attempts)) THEN Outcome("succeeded", "none")
                      ELSE classify_structured_failure(attempts, FALSE)]

\* The provider's answer: an output, a malformed answer that may be replaced
\* once, or a failure.
Answer(r) ==
  /\ run[r].pc = "calling"
  /\ \E a \in Replies :
       run' = [run EXCEPT ![r] = AfterAnswer(run[r], Append(run[r].attempts, a))]
  /\ UNCHANGED <<db, billed, known, clock>>

\* (faulty variant) Only the attempt that produced the outcome is recorded.
LastAttemptOnly(attempts) == IF attempts = <<>> THEN <<>> ELSE <<LastOf(attempts)>>

\* The attempts that become llm_calls rows, in order.
save_recipe_calls(attempts) == attempts

\* A call is priced when the provider reported usage (every answer but a transport
\* failure is taken to) and the recipe has trusted rates; one unpriced call makes
\* the member's cost unavailable.
MemberCost(c, calls) ==
  IF calls = <<>> THEN "not_incurred"
  ELSE IF c \in Priced /\ \A i \in 1..Len(calls) : calls[i].stop # "transport_error"
       THEN "complete" ELSE "unavailable"

save_result(r) ==
  LET c == Recipe(r)
      calls == save_recipe_calls(run[r].attempts)
  IN
  /\ run[r].pc = "save"
  /\ run[r].outcome.status = "succeeded" => run[r].attempts # <<>>
  /\ working[r].members[c].state = "pending"
  /\ Block(r, [working[r] EXCEPT
       !.results[c] = [status |-> run[r].outcome.status, calls |-> Len(calls),
                       created |-> clock],
       !.members[c] = [state |-> "generated", result |-> <<r, c>>, calls |-> Len(calls),
                       cost |-> MemberCost(c, calls)]])
  /\ run' = [run EXCEPT ![r] = [@ EXCEPT
       !.pc = "member", !.pos = run[r].pos + 1, !.attempts = <<>>, !.outcome = NoOutcome]]
  /\ clock' = clock + 1
  /\ UNCHANGED <<billed, known>>

-----------------------------------------------------------------------------
(* Finishing *)

\* (faulty variant) The run is completed one member early.
AllButLastDone(r) ==
  run[r].pc = "member" /\ run[r].pos >= Len(run[r].request.plan)

AllMembersDone(r) == run[r].pc = "member" /\ run[r].pos > Len(run[r].request.plan)

complete_invocation(r) ==
  /\ AllMembersDone(r)
  /\ working[r].status = "running"
  /\ Block(r, [working[r] EXCEPT !.status =
       IF \E c \in Recipes : working[r].members[c].state = "pending"
       THEN "incomplete" ELSE "completed"])
  /\ Goto(r, "report")
  /\ UNCHANGED <<billed, known, clock>>

\* `with connect() as conn' is left normally: whatever is open is committed.
Close(r) ==
  /\ run[r].pc = "report"
  /\ committed' = [committed EXCEPT ![r] = working[r]]
  /\ open' = [open EXCEPT ![r] = FALSE]
  /\ Exit(r, "done")
  /\ UNCHANGED <<working, billed, known, clock>>

\* An exception, an interrupt or the death of the process: the open transaction,
\* if any, is rolled back.
Unwind(r) ==
  /\ run[r].pc \in Active
  /\ working' = [working EXCEPT ![r] = committed[r]]
  /\ open' = [open EXCEPT ![r] = FALSE]
  /\ Exit(r, "aborted")
  /\ UNCHANGED <<committed, billed, known, clock>>

Step(r) ==
  \/ create_invocation(r)
  \/ Lookup(r) \/ reuse_result(r)
  \/ Preflight(r) \/ Oversized(r) \/ Send(r) \/ Answer(r)
  \/ save_result(r)
  \/ complete_invocation(r) \/ Close(r)

Next == \E r \in Runs : Begin(r) \/ Step(r) \/ Unwind(r)

\* run_comparison is straight-line code, the SDK clients have timeouts and no
\* statement of one run waits for a row of another; nothing obliges a user to
\* start a run.
Spec == Init /\ [][Next]_vars /\ \A r \in Runs : WF_vars(Step(r))
-----------------------------------------------------------------------------
(* Properties *)

TypeOK ==
  /\ committed \in [Runs -> Rows]
  /\ working \in [Runs -> Rows]
  /\ open \in [Runs -> BOOLEAN]
  /\ run \in [Runs -> Control]
  /\ billed \in [Runs -> [Recipes -> Nat]]
  /\ known \in [Runs -> [Recipes -> SUBSET Nat]]
  /\ clock \in Nat \ {0}

\* A reused member costs nothing and links a success that another invocation has
\* made durable for the same source and the same recipe; `--regenerate' never
\* reuses (reuse_result, find_comparison_result).
ReuseIsSound ==
  \A r \in Runs, c \in Recipes :
    LET m == working[r].members[c] IN
    m.state = "reused" =>
      /\ m.calls = 0 /\ m.cost = "not_incurred" /\ billed[r][c] = 0
      /\ ~working[r].forced
      /\ \E q \in Runs \ {r} :
           /\ m.result = <<q, c>>
           /\ committed[q].source = working[r].source
           /\ committed[q].results[c].status = "succeeded"

\* The calls recorded for a generated member, durable or not, are exactly the
\* requests that were sent for it, the repair included, and its result agrees.
AccountingMatchesCalls ==
  \A r \in Runs, c \in Recipes :
    \A rows \in {committed[r], working[r]} :
      rows.members[c].state = "generated" =>
        /\ rows.members[c].calls = billed[r][c]
        /\ rows.results[c].calls = billed[r][c]
        /\ rows.members[c].cost = "not_incurred" <=> billed[r][c] = 0

\* A run that returns has a durable, completed invocation in which every planned
\* member is settled and every request it sent is accounted for.
DoneMeansSettled ==
  \A r \in Runs :
    run[r].pc = "done" =>
      /\ committed[r] = working[r]
      /\ committed[r].status = "completed"
      /\ \A c \in Recipes :
           /\ Settled(committed[r].members[c]) <=> c \in Planned(run[r].request)
           /\ billed[r][c] = committed[r].members[c].calls

\* A success that was durable when a run began spares the run the call, and the
\* run links a result for its own source at least as new as that one.
CommittedSuccessIsReused ==
  \A r \in Runs, c \in Recipes :
    known[r][c] # {} /\ ~run[r].request.regenerate =>
      /\ billed[r][c] = 0
      /\ working[r].members[c].state = "reused" =>
           LET id == working[r].members[c].result IN
           /\ committed[id[1]].source = run[r].request.source
           /\ \A t \in known[r][c] : committed[id[1]].results[id[2]].created >= t

\* On a connection that is not in autocommit mode (the CLI's) the rest of the
\* world sees nothing of an invocation before its process has closed the
\* connection: no running invocation, no pending member, no partial result.
ImplicitTransactionHidesTheRun ==
  \A r \in Runs :
    ~run[r].autocommit /\ run[r].pc # "done" => committed[r] = Absent

\* On an autocommit connection the invocation and all of its pending members are
\* durable before the first provider request leaves the process.
PendingMembersDurableBeforeCalls ==
  \A r \in Runs :
    run[r].autocommit /\ run[r].pc = "calling" =>
      /\ committed[r].status = "running"
      /\ \A i \in 1..Len(run[r].request.plan) :
           committed[r].members[run[r].request.plan[i]].state = "pending" <=> i >= run[r].pos

\* On an autocommit connection no later failure undoes a finished member.
AutocommitKeepsFinishedMembers ==
  [][\A r \in Runs, c \in Recipes :
       run[r].autocommit /\ Settled(working[r].members[c]) =>
         committed'[r].members[c] = working[r].members[c]]_vars

\* The committed rows implement the ledger.
LedgerSpec == Ledger!Spec

\* None of a run's own checks (reuse_result, save_result, complete_invocation) ever
\* fails, whatever the other runs commit between its lookup and its writes: only
\* something outside it aborts a run.
OwnChecksHold ==
  \A r \in Runs :
    /\ run[r].pc = "reuse" =>
         LET hit == Visible(r, run[r].cached[1]) IN
         /\ working[r].members[Recipe(r)].state = "pending"
         /\ hit.results[run[r].cached[2]].status = "succeeded"
         /\ hit.source = working[r].source /\ run[r].cached[2] = Recipe(r)
    /\ run[r].pc = "save" =>
         /\ working[r].members[Recipe(r)].state = "pending"
         /\ run[r].outcome.status = "succeeded" => run[r].attempts # <<>>
    /\ AllMembersDone(r) => working[r].status = "running"

\* ADR 0012, "Transaction and interruption boundaries", 1: no remote call holds a
\* database transaction.
NoRemoteCallHoldsTransaction ==
  \A r \in Runs : run[r].pc = "calling" => ~open[r]

\* ADR 0012, "Transaction and interruption boundaries", 3: members are committed
\* independently, so a failure does not roll back completed siblings.
FinishedMembersSurvive ==
  [][\A r \in Runs, c \in Recipes :
       Settled(working[r].members[c]) => working'[r].members[c] = working[r].members[c]]_vars
=============================================================================
