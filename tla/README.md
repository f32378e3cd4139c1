# A verification project for altiscope

TLA+ modules that model altiscope's pull request reports, combined reports, recipes,
comparison runs, assessments, human review and the paid evaluation workflow of
`examples/m3`, TLC configurations that check them on small instances, and
theorems with proofs that TLAPS checks. Every definition is translated from the
source; `PROJECT.json` maps each one to its lines.

Altiscope is a sequence of short-lived CLI commands on one Postgres database. Nothing
else is shared: there is no server, no queue and no thread. What is hard is therefore
what several processes do to the same rows between two commits, which commits there
are (a psycopg connection that is not in autocommit mode opens a transaction with its
first statement, and `with conn.transaction()` inside it is only a savepoint), what is
left when a process dies, and what a bounded loop does with an unpredictable model.

## 1. Inventory

| Component | State | Operations | Hard behaviour |
|---|---|---|---|
| Structured requests (`llm/execution.py`, `summarize/generate.py`, `aggregate/generate.py`, the adapters) | the attempts, the size of the next prompt | ask, measure, repair once, classify | budget boundaries of the longer repair prompt; what may be retried; what is recorded |
| Comparison runs (`comparison/service.py`, `store/comparisons.py`, `store/calls.py`) | invocations, members, results, calls | freeze a plan, look up, reuse, execute, save, complete | visibility and rollback, concurrent runs of one recipe, billed calls that nobody recorded |
| Human review (`store/evaluation.py`, `review/workflow.py`, `cli/main.py`) | sessions, exposures, revisions, observations, preparations | review, resume, reveal, observe, complete, show | blindness of the first judgment against concurrent reveals; interrupted commands |
| Collection and snapshots (`ingest/github/pat.py`, `store/snapshots.py`) | repositories, people, pull request versions | fetch, re-read, reconcile, version | a pull request or a repository name that moves; concurrent saves; lock order |
| Accounts (`summarize/service.py`, `store/accounts.py`, `aggregate/resolve.py`) | pr_summaries and which one is current | summarize, save, select as input, show | a snapshot superseded during the model call; failed reruns |
| Combined reports (`aggregate/*`, `store/aggregates.py`) | aggregate_reports and their inputs | plan, route, look up, generate, save | boundaries of the plan; caching of a tree whose inputs change; failure in the middle |
| Routing and registry (`llm/router.py`, `llm/registry.py`) | none (configuration) | route | sizes at the budget; the producer-exclusion rule |
| Assessments (`assessment/service.py`, `store/comparisons.py`) | assessments, call owners | assess one result, reject, save | identity rules on both sides of a call; two layers that must agree on what may be stored |
| Recipes and baselines (`store/recipes.py`, `store/baselines.py`, `plan_recipes`) | recipe versions, primary baselines | create, register, plan a comparison | concurrent registrations and saves under advisory locks; plans read statement by statement |
| Evaluation workflow (`examples/m3/run_openrouter_workflow.py`, `freeze_*.py`) | the progress file, the run specification, the spend | four stages, freeze the aggregate source, freeze the specification | a file and a database that a crash leaves apart; a spending cap; unknown costs; restarts |
| Migrations (`store/migrate.py`) | schema_migrations | apply pending | interruption, two appliers |
| Inspection, rendering, prompts, configuration, schemas, facts, diff policy, demo | none | pure functions and output | - |

The components interact only through rows. `ingest` writes snapshots that `summarize`
and `aggregate` read; `aggregate` also runs collection and `summarize` itself; accounts
are inputs of combined reports; accounts and combined reports are frozen as comparison
sources; recipes are what comparisons plan; comparison results are what assessments and
reviews are about. The workflow runner calls the same services and records their rows in
a file. The structured request loop is what every command calls between two statements.

What makes each correct, in a sentence: a request that is sent fits and what is saved of
it is what happened; a run is settled, accounted for and never rewritten once it is
visible; a judgment that is labelled blind was; a stored version is one state of one pull
request and is never rewritten; the current account is the newest published one of its
version; a combined report stands on exactly the versions that were resolved; a catalog
of recipes has one baseline per condition and prompt and no gaps; a recorded verdict is
an independent model's and a stored assessment owns every call that was made for it; the
workflow buys nothing more once its estimates reach the cap, repeats no success, and its
file says nothing that the database does not.

## 2. Modules

| Module | What it models | Used by |
|---|---|---|
| `StructuredCalls` | an answer after its adapter, when it may be repaired, the recorded outcome | `StructuredExecution`, `Comparison` |
| `StructuredExecution` | the loop of one request, of each of its three callers | `Assessment` |
| `Assessment` | `run_assessment` and `save_assessment` around such a request | |
| `ComparisonRows` | the rows of invocations, members and results | both below |
| `ComparisonLedger` | abstract: what the committed rows promise a reader | refined by `Comparison` |
| `Comparison` | `comparisons run` by several processes | |
| `ComparisonInv` | its inductive invariant | run and proof |
| `RecipeCatalog` | abstract: numbered versions and baselines that appear once, complete | refined by `Recipes` |
| `Recipes` | `recipes save`, `recipes baseline`, `plan_recipes` by several processes | |
| `RecipesInv` | its inductive invariant, and what a planning command has read | proof |
| `Review` | the commands of a review by several processes | |
| `ReviewInv` | its inductive invariant | proof |
| `VersionStore` | abstract: the history of contents and reports of each pull request | refined by `PullRequests` |
| `PullRequestRows` | shared rows, locks, GitHub, failure and deadlock detection | both below |
| `Ingestion`, `Accounts` | `ingest`; `summarize` and the selection of inputs | `PullRequests` |
| `PullRequests` | their composition, and its properties | |
| `PullRequestsInv` | its inductive invariant | proof |
| `Planner` | `plan_reduction` as an operator on sequences | `AggregateReports` |
| `AggregateReports` | the execution of a plan by several commands | |
| `Workflow` | the evaluation workflow: runner, operator, crashes, the rest of the world | |
| `WorkflowInv` | its inductive invariant | proof |
| `*Proofs` | theorems and lemmas | |
| `MC*`, `*.cfg` | instances for TLC | |

An action is one indivisible step of a process: a statement or a block whose effect
others cannot see in part, a provider call, or the end of a connection. Definitions keep
the names of the functions they translate (`create_invocation`, `find_comparison_result`,
`append_review_revision`, `load_snapshot`, `plan_reduction`, `find`, ...). Definitions
marked *(faulty variant)* are plausible bugs of the definition that follows them; no
specification uses them, and each shows that some property would notice.

**Structured requests.** `Ask` is one iteration of the loop with any answer an adapter can
return; `Oversized` is the check before it, on the first request and on the repair;
`Raise` is a call whose adapter raises what none of its `except` clauses names (an answer
without choices is an `IndexError`), and which nobody on the way catches; `GiveUp` leaves
the loop. The three callers differ in what counts as usable, in the
budget (`effective_budget`) and in what they save (`Failure`). Sizes are numbers.

**Assessment.** The same request, for a caller with a protocol of its own. A circumstance
says what `run_assessment` finds: the target, its attribution, the frozen identities, what
the producer's calls reported. `Refuse` and `Preflight` are everything before the request,
in the order of the checks; `Request` is a step of `StructuredExecution`; `Conclude` builds
the terminal; `Escape` is what becomes of an assessment whose request raised. `Savable` is
what `save_assessment` and its table accept, and `IsStorable` what PostgreSQL accepts (no
text with a NUL character): the terminal is stored, or (`Persist`) the error takes the calls
with it.

**Comparison.** Each process has its rows twice: `committed`, which others see, and
`working`, which its connection sees. `Block` says what the end of a
`with conn.transaction()` does, by mode: commit, or nothing until `Close`. `Unwind` is any
exception, interrupt or death. The plan is frozen by `create_invocation`; `Lookup`,
`reuse_result`, `Preflight`, `Send`, `Answer` and `save_result` are a member's path.
`billed` and `known` are history variables.

**Review.** A process's uncommitted rows are `wrote` in its record, which are also its row
locks. `_capture_initial_revision` is spread over the steps that a reviewer's prompts
separate. `shown` and `announced` record what reached a screen.

**Recipes.** A recipe is its name, version, condition (everything that is frozen except the
prompt) and prompt. A process holds its uncommitted rows (`own`) and its advisory locks
(`holds`) until the end of its transaction; a statement sees what is committed, and its
own. Inserts wait for an uncommitted duplicate of their key. `plan_recipes` reads one fact
per step, while others commit, and is then an operator on what was read. A process that
saves under a name reads the greatest version and inserts the next one in two steps, which
only the lock of the name protects; a version number that is taken leads to the state
`collided`, which is shown to be unreachable.

**Pull requests.** Collection is one read per step on a changing GitHub. A save takes its
locks one by one, in the code's order: the advisory lock of the identity, that of the
locator, the row of the latest version, one people row per login. `locks` holds them until
the transaction ends. The CLI's `summarize` is one transaction from `load_snapshot` to the
close of the connection; the one `aggregate` runs is in autocommit mode (`auto`).

**Combined reports.** A plan is the sequence of its nodes in execution order. A command
computes it from its inputs and takes one node at a time: `Lookup` routes and consults the
cache, `GenerateAndSave` is the call and the save (one durable block, and nothing of the
call is anywhere else before it). The cache key is the exact inputs and the routed model.

**Workflow.** What is paid for is a row of one sequence: results, reports, assessments. A
run of the program is `Start` of a stage, then for each unrecorded case either `Recover`, or
`SkipFailedTarget`, or `Begin`, one of `Reuse` and `Call` for each member, `Commit` and `Save`;
`Stop` is the end or a check that raises; `Raise` is a service that raises in the middle of
a case, as often as it likes; `Crash` may come between any two steps. The rows of the
members are the runner's own until `Commit` (`Seen` is what its connection sees).
`Existing` is what a lost record left behind. A member may cost more than its estimate; the history variable `overrun` is by how much the
case committed last did. The operator's tools (`FreezeAggregate`,
`FreezeSpec`) and other people (`Move`, `PublishForeign`) act between runs. A member of a
comparison is abstracted to its outcome; `Comparison` has the detail.

## 3. Runs

| Run | Instance | What it shows |
|---|---|---|
| `structured_execution` | all requests of 1-5 tokens around budgets of 3-9, repairs up to 2 tokens longer; two assessor requests in all circumstances with at most three deviations | calls fit, outcomes are truthful; a stored assessment owns every call, calls are lost only to an exception of the adapter or the database, and no verdict is taken from the producer's own model; every request and assessment is decided |
| `comparison` | two processes, two recipes, one repair; a run that repeats another in a connection of either mode, one that forces it in the other plan order on the CLI's connection, one of another source in autocommit mode (1.1 million states) | reuse, accounting, visibility and durability; that no check of a run is made to fail by another; the inductive invariant; refinement of `ComparisonLedger` |
| `comparison_remote_call`, `comparison_siblings` | two CLI processes | **violations**, see section 5 |
| `recipes` | two processes, two conditions of different models, two minimal prompts of different builds, up to two versions of a name (0.8 million states) | one baseline per condition and prompt, no collisions and no gaps, plans that stay true, refinement of `RecipeCatalog` |
| `review` | two processes, one session, two exposures, three revisions | labels, blindness of `comparisons review`, guided reveals, recorded exposures, observations, append-only history |
| `review_stale_exposures`, `review_interrupted` | one exposure | **violations**, see section 5 |
| `pull_requests` | two processes, one pull request in each of two repositories, three names, one edit, two accounts | no mixed content, locators, current accounts and selected inputs; refinement of `VersionStore` |
| `pull_requests_live` | the same, no renames, one account | every command ends, deadlocked saves included |
| `aggregate_reports` | two processes, three windows, three reports, one new version | cached trees and routable plans; the planner on all windows of up to four inputs of sizes 1-4 |
| `workflow` | two held-out pull requests, a candidate and a baseline in each comparison, members that cost 1, 3 or an unknown amount, estimated at 2, a cap of 13, cases that raise any number of times, one crash | the cap up to what one case costs above its estimate, the progress file, no paid success twice, a stop on unknown costs; completion or a reported reason |

Why these bounds are enough to be interesting:

- Two processes are enough for every race in the code, since each check concerns one other
  writer; the proofs are for any number of them.
- Two recipes in opposite plan orders make runs meet in the middle, and give a sibling to
  roll back. One repair gives a member with two calls. Both modes
  are combined where a mode matters: a run that reuses another's results, or not.
- A case of an assessment that deviates in three ways has every pair of reasons for
  rejection, and so their order. The two assessor requests are one that fits and one that
  does not. `m` and `M` are one model written in two ways.
- Two candidates of one condition share a baseline, another condition or another minimal
  prompt needs its own. A person can save under any name, a baseline's included, but the instance only
  saves under `a`: the lock and the numbering do not know whom a name is for.
- Two exposures allow one before and one after a judgment, and two observers to race;
  three revisions an initial one and one for each observer.
- The two pull requests name the same two people in opposite roles, so that their saves can
  deadlock. Three names let a repository take a name another has just given up, in any
  order. One edit gives two versions, and with two accounts a failed or slower rerun.
- Three stored reports are a whole tree of two leaves and a root, or repeated and failed
  attempts of a part of it. Each window, `<<1, 1>>` (one request), `<<4, 2>>` (a tree) and
  `<<7>>` (no plan), is an initial state.
- With a cap of 13 the workflow completes when its members are cheap, the assessments and a
  target that failed and is skipped included, and stops at the cap when they are not; one
  case that costs 3 where 2 were estimated exceeds it. One crash reaches every point between two steps; what
  is left then is what a second one would find.

`CHECK_DEADLOCK FALSE` is set throughout because commands end and bounds are reached;
waiting forever is the business of the liveness properties instead. Symmetry is over
processes, and only where no liveness property is checked.

### Fairness

- `Assessment`: weak fairness of the next step. It is straight-line code, and the SDK
  clients bound their requests.
- `Comparison`: weak fairness of each started run's steps, for the same reasons; nothing
  obliges anyone to start a run, or not to kill it.
- `PullRequests`: strong fairness of a process's steps, because a lock it waits for may be
  taken by others again and again and PostgreSQL's lock queues are first come, first
  served; and weak fairness of `DeadlockAborts`, because its deadlock detector runs.
- `Workflow`: weak fairness of the runner's steps, as above; strong fairness of starting each
  stage and of freezing, which is what an operator does who wants the workflow done. A
  stage that was started may be disabled again by another one, hence strong. `Raise` and
  `Crash` are not fair. A case that raises each time it is begun keeps the workflow from
  its end, so that `EventuallySettled` excuses behaviours in which `Raise` never ends; one
  that raises any finite number of times is not an excuse.
- `Review`, `Recipes` and `AggregateReports` have safety properties only: a review waits for
  people, and an advisory lock for as long as its holder lives.

## 4. Proofs

`AssessmentProofs` first proves of the request loop alone, for every budget, size and answer, that the state is
well typed, that every request sent fits (`CallsFit`), that a second call only replaces
malformed output (`RepairsAreBounded`) and that the saved outcome is truthful
(`OutcomeIsTruthful`). `StructuredCallsProofs` holds the lemmas on answers and outcomes it
and `ComparisonProofs` cite.

It then shows that the request inside an assessment is undisturbed
(`RequestsAreUndisturbed`: every step of the larger machine is a step of the smaller one or a
stutter), so that all of the above holds of it. With the truthful outcome and the
invariant `PhaseOK`, which says what each phase knows of the circumstance and the calls,
follow `CallsAreKept` (a stored row owns every call, and what `run_assessment` builds is
always accepted by `save_assessment`: only an exception of the adapter, or a text that
PostgreSQL refuses, loses the calls) and `Independence`.

`ComparisonProofs` proves, for any number of processes, recipes, sources and requests, and
any set of provider answers, that `IInv` is inductive (`Invariance`), and from it
`TypeCorrect`, `ReuseSound`, `Accounting`, `SettledWhenDone`, `HiddenUntilClosed`,
`FrozenBeforeCalls`, `AutocommitDurability` (an action property) and `LedgerRefinement`:
the detailed specification implements `ComparisonLedger!Spec`.

The invariant is needed because none of the properties is inductive. That a generated
member's calls are those billed depends on the attempts the process holds while it is
executing (`SentNow` in `Untouched`); that a run hides until it closes depends on `open`
following the program counter (`VisibilityOK`); that a finished run is settled depends on
the position in the plan (`WorkingOK`, `PlanOK`). `IInv` ties a run's rows to where the run
is (`ControlOK`, `VisibilityOK`, `WorkingOK`, `PlanOK`, `GeneratedOK`) and runs to each other
only through `ReuseIsSound`. The proofs have one step per action. The refinement uses the
invariant before and after a step: a step either leaves `committed` alone or publishes the
rows of one run, which `Extends` and `Backed` describe.

A second layer, `Memory`, is about what a run remembers of others: the successes that were
durable when it began (`known`), and the result it has linked or is about to link. Both stay
true because durable successes only accumulate, which is where the append-only half of the
first layer is used. `DurableSuccessReused` and `ChecksHold` follow.

`RecipesProofs` proves, for any number of processes, names, conditions and prompts, that
`RecipesInv!IInv` is inductive, and from it `OneBaseline`, `NoCollisions` and
`CatalogRefinement`. Neither property is inductive: a process that has read the greatest
version, or has found no baseline, acts on it several statements later. The invariant says
what each process relies on (`ReliesOn`: its version is the next of its name, its baseline
the first of its kind, its candidate unassigned) and which lock it holds meanwhile
(`LocksOK`); `Apart` says that no two processes hold the same lock. A step that writes
nothing concerns one process (`Framed`, `Calm`, `Locked`); in a commit, `OthersAfter` uses the
locks to show that nobody else relied on what changed. The refinement follows: a commit is
a `Save`, an `Assign` with or without its new baseline, or nothing.

A planning command holds no lock. What it has read so far (`Reading`) stays true for another
reason: the catalog only grows, an assignment is never changed, and no recipe that exists
becomes a baseline later. `PlansAreTrue` then unfolds `plan_recipes` for the two explicit
recipes a command names.

`ReviewProofs` proves, for any number of processes, sessions and assessments, that
`ReviewInv!IInv` is inductive. It says of the committed rows of a session that they fit each
other (a label and what it was computed from, an observation and its revision), of each
command that what it has read and written fits its step and the committed rows (`Fits`), and
that no two commands have written rows of one session that exclude each other (`Apart`: the
row locks). A commit merges what a command wrote; because of `Fits` the result is a history
again, and because of `Apart` nobody else's command is disturbed. The labels, the blindness of
`comparisons review`, guided reveals, exposures, observations and the append-only history
(`HistoryGrows`, an action property) follow.

`PullRequestsProofs` does the same for collection, summaries and the selection of inputs:
the stored rows are well formed, a command's local data fit its step, and advisory locks
have one holder, so that what was read under a lock is still true when it is used. On it
rest the six theorems on stored versions, locators and accounts and `StoreRefinement`: the
end of a transaction is one `AddVersion`, one `AddReport` or nothing of `VersionStore`,
however the transaction's statements interleaved with others, were aborted or deadlocked.

`WorkflowProofs` proves, for any cases, plans, costs, cap and number of crashes, what the
runner promises. `CapIsKept` assumes nothing of what a member costs: the code calls its
estimate no upper bound. `Begin` reserves the estimate of the whole case below the cap, so
that while a case is worked on the recorded spend and its estimate fit (`Reserved`); its
commit adds at most the estimate and what the case has cost above it (`overrun`), and no
other case begins before the spend and its own estimate fit again. The file
tells the truth because a case that is worked on is not in it, every member of an executed
case has a row (`CaseOK`), and rows are never removed. No success is repeated because what the
runner sees, its own uncommitted rows included, has one success for each member
(`OneSuccess`), and a report or assessment is only begun when none exists.

`AggregateReportsProofs` is about windows of any length, plans of any depth and any number of
commands. Its first half is the planner. `Chunk`, `Parent` and the levels of
`plan_reduction` are recursive functions; each is replaced by the facts that hold at every
step of its recursion (`ChunkCuts`, `ParentByParts`, `Levels`), with an induction principle
that is proved for sets of numbers instead of operators (`Induction`, from the library's
well-foundedness of `Nat`; `Recursion` gives the functions themselves). A tree is described by
`Spans`: each node has an interval of positions, a leaf exactly its own, an inner node those of
its children one after the other, and each node but the root has one parent. The leaves have
spans, a round keeps them (`ParentSpans`, the longest proof here) and leaves fewer trees unless
two planned reports do not fit together (`RoundSteps`), so that as many rounds as there are
inputs end in one tree or the error (`LastLevel`), and there is an error exactly if `MustFail`
says so (`PlanSpans`). What spans say is what `CoversInOrder` asks for (`SpansCover`):
`PlannerIsSound` states `PlanIsSound` for any inputs.

The second half is the execution. `Inv` says of the stored rows that each was made of rows
stored before it, and of a command that the report of each node it has finished is published
and stands on the resolved inputs of exactly that node's span (`Working`, `Holds`). A finished
command's last node is the root, whose span is the window (`Coverage`). A cached report is as
good as a new one because the cache matches exact inputs, and what is under a stored report
never changes when others are stored (`SourcesGrow`). A planned request can fail to be routed
only because of a report larger than its reservation (`PlannedRequestsRoute`), since the plan
fits the largest candidate and routing takes any that is large enough. `ReuseHolds` is the
remaining property of the run.

Assumptions: `AggregateConstants`, `ConstantsAssumption`, `AssessmentAssumption`, `CircumstancesAssumption`,
`RecipesAssumption`, `ReviewConstants`, `PullRequestConstants`, `WorkflowAssumption` and the
other named ASSUMEs of the modules, which are the types of the constants and, for plans,
what `plan_recipes` enforces (two or more distinct recipes). `RecipesAssumption` also says
that conditions have different baseline names, as their hashes differ.

Proved only, and not an invariant of a run: `RepairsAreBounded`, `HiddenUntilClosed`,
`FrozenBeforeCalls`, `PhaseOK`, and the inductive invariants other than that of `Comparison`.

Only model-checked: liveness (`EventuallyDecided`, `EveryCommandEnds`, `EventuallySettled`),
which is out of the prover's reach with fairness. Every safety and action property of the
passing runs is also a theorem.

## 5. Disagreements with the documentation

- `NoRemoteCallHoldsTransaction` (`comparison_remote_call`): ADR-0012 says that no remote
  call holds a database transaction; on the CLI's connection every provider call does.
- `FinishedMembersSurvive` (`comparison_siblings`): ADR-0012 says that members are committed
  independently; on the CLI's connection a later failure rolls finished siblings back. On an
  autocommit connection the promise holds, and is proved (`AutocommitDurability`).
- `ConfirmedMeansUnexposed` (`review_stale_exposures`): the protocol says that an initial
  revision is `confirmed_unexposed` only if no exposure preceded it; `reviews resume` uses
  exposures it read before it prompted.
- `InterruptedReviewCanBeResumed` (`review_interrupted`): the guide tells how to resume an
  interrupted review by the identifier that was printed; the interrupt rolls it back.

## 6. Abstractions and what is not modelled

- Documents, prompts, hashes, names and answers are model values or members of small sets;
  token estimates are numbers; whether an answer is malformed is a choice.
- Postgres runs at READ COMMITTED; a statement is atomic. `created_at` in `Comparison` is the
  database clock, hence a counter; in `AggregateReports` it is each process's own clock, hence
  any published match may be the newest.
- GitHub: every edit moves `updated_at` (the documentation says that not every concurrent
  edit can be detected), and a name that redirects is not reassigned while a collection
  is using it (`Rename`'s guard). Without either, what is collected could be mixed.
- Summaries, reports and assessments are written by one block after their calls. A process
  that dies in between leaves no record of the calls; ADR-0012 accepts that for comparisons,
  and the workflow's cap is about recorded spend (`CapHoldsUpToOneCase`).
- `Workflow` has one runner at a time, as its guide prescribes.
- `Recipes` has one stage, and one command in a transaction: `prepare_openrouter_demo` saves
  several recipes in one, and is not modelled. A plan names two explicit recipes, with their
  baselines: the branch of `--no-baselines` is left out, and no property tells the labels
  `candidate` and `model_comparison` apart.
- `Review` has the commands of a session. What `comparisons assess --reveal` and
  `show-comparison` print outside of one is not in it.
- `Comparison` counts the calls of a member and tells whether its cost is complete; no property
  relates that to the price of each call once the member is saved.
- Not modelled: `show` (which reads the current account in three statements), the walk over
  the pages of a window, the documents and hashes of frozen sources, migrations, and
  everything that only renders or computes. `PROJECT.json` lists each with its reason, and
  the hazards that no property covers.

## 7. Plan

Done: structured requests, comparison, review, pull requests, combined reports; then
assessments, recipes and baselines, the evaluation workflow, the abstract version store
and the abstract recipe catalog; proofs of requests, assessments, comparisons, recipes,
reviews, pull requests, the planner and combined reports, and the workflow.

Next, proving more:
1. That `AggregateReports` implements an abstract store of reports, in which a report appears
   at once with everything under it.
2. An abstract specification of `Workflow` (paid successes that only accumulate below a cap),
   and that the runner implements it.

Next, extending the model:
1. `show` and the walk over a window's pages in `PullRequests`.
2. `Migrations`: `apply_pending` by two processes with interruptions.
3. Several saves in one transaction of `Recipes`, whose locks could then be taken in
   opposite orders.
