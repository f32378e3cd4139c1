---------------------------- MODULE AggregateReports ----------------------------
(***************************************************************************)
(* `aggregate' once its inputs are resolved: aggregate_reports plans a     *)
(* tree of requests and executes it, node by node, on the reports that     *)
(* other processes store at the same time.  The connection is in           *)
(* autocommit mode, so a report is durable once save returns.              *)
(*                                                                         *)
(* All commands ask for the same repository, window, altitude and prompt;  *)
(* the cache key then is the exact inputs and the routed model.  Token     *)
(* sizes are the estimates routing and planning work with.                 *)
(***************************************************************************)
EXTENDS Planner

CONSTANTS
  Procs,
  Windows,     \* sizes of the pull request reports a window may hold
  Budgets,     \* input budgets of the candidate models, in configured order
  Envelope,    \* what a request costs besides its inputs
  Separator,   \* what rendering adds to each input
  ChildTokens, \* reserved_output_tokens: the planned size of a report
  Outcomes,    \* what generate_aggregate may return
  PlanInputs,  \* the windows on which PlanIsSound checks the planner
  MaxVersions, \* bound on the new versions of the pull request reports
  MaxReports   \* bound on the stored reports

ASSUME AggregateConstants ==
  /\ \A window \in Windows : window \in Seq(Nat) \ {<<>>}  \* no inputs, no report
  /\ \A sizes \in PlanInputs : sizes \in Seq(Nat)
  /\ Budgets \in Seq(Nat) /\ Budgets # <<>>
  /\ Envelope \in Nat /\ Separator \in Nat /\ ChildTokens \in Nat \ {0}
  /\ Outcomes \subseteq [status : {"published", "failed"}, tokens : Nat]
  /\ MaxVersions \in Nat /\ MaxReports \in Nat

VARIABLES
  window,   \* sizes of the reports of this window's pull requests
  versions, \* the current version of each of them
  reports,  \* aggregate_reports rows, in the order of their insertion
  proc

vars == <<window, versions, reports, proc>>

Models == DOMAIN Budgets
PrInput(i, v) == [kind |-> "pr", id |-> i, version |-> v]
AggregateInput(i) == [kind |-> "aggregate", id |-> i, version |-> 0]
Inputs == [kind : {"pr", "aggregate"}, id : Nat \ {0}, version : Nat]

Rows == [inputs : Seq(Inputs), model : Models, status : {"published", "failed"},
         tokens : Nat]

Idle == [pc |-> "idle", force |-> FALSE, plan |-> <<>>, supplied |-> <<>>, results |-> <<>>,
         model |-> 0, before |-> 0]

Init ==
  /\ window \in Windows
  /\ versions = [i \in DOMAIN window |-> 1]
  /\ reports = <<>>
  /\ proc = [p \in Procs |-> Idle]

-----------------------------------------------------------------------------
(* Sizes, routing and the plan *)

estimate(sizes) == Envelope + Sum([i \in DOMAIN sizes |-> sizes[i] + Separator])

\* The first candidate that fits; none is a RoutingError.
route(tokens) ==
  LET fitting == {m \in Models : tokens <= Budgets[m]} IN
  IF fitting = {} THEN {} ELSE {Min(fitting)}

\* (faulty variant) The plan reserves nothing for what surrounds an input.
PlanWithoutOverhead(sizes) ==
  IF route(estimate(sizes)) # {} THEN Leaf([i \in DOMAIN sizes |-> i])
  ELSE plan_reduction(sizes, ChildTokens, Max(ToSet(Budgets)) - Envelope, 0)

\* One request when it fits, else a tree for the largest candidate.
Plan(sizes) ==
  IF route(estimate(sizes)) # {} THEN Leaf([i \in DOMAIN sizes |-> i])
  ELSE plan_reduction(sizes, ChildTokens, Max(ToSet(Budgets)) - Envelope, Separator)

Size(input) == IF input.kind = "pr" THEN window[input.id] ELSE reports[input.id].tokens

Step(p) == Len(proc[p].results) + 1
Node(p) == proc[p].plan[Step(p)]

IsRoot(p) == Step(p) = Len(proc[p].plan)

\* What the node's request is given: the command's inputs, or its children's reports.
Supplied(p) ==
  IF Node(p).children = <<>>
  THEN [k \in DOMAIN Node(p).items |-> proc[p].supplied[Node(p).items[k]]]
  ELSE [k \in DOMAIN Node(p).children |->
          AggregateInput(proc[p].results[Node(p).children[k]])]

\* (faulty variant) The key leaves the versions of the inputs out.
MatchesAnyVersion(row, inputs, model) ==
  /\ row.model = model
  /\ [i \in DOMAIN row.inputs |-> [row.inputs[i] EXCEPT !.version = 0]] =
       [i \in DOMAIN inputs |-> [inputs[i] EXCEPT !.version = 0]]

\* row.input_hash = cache_key(...)
Matches(row, inputs, model) == row.inputs = inputs /\ row.model = model

Matching(inputs, model) == {i \in DOMAIN reports : Matches(reports[i], inputs, model)}

\* (faulty variant) The newest report is looked at first, and its status then.
NewestIfPublished(inputs, model) ==
  LET matching == Matching(inputs, model) IN
  IF matching = {} \/ reports[Max(matching)].status = "failed" THEN {} ELSE {Max(matching)}

\* The newest published match; created_at is the clock of the process that made
\* it, so that the newest may be any of them.
find(inputs, model) ==
  {i \in Matching(inputs, model) : reports[i].status = "published"}

-----------------------------------------------------------------------------
(* The steps of a command *)

\* `summarize' publishes a new report of a pull request.
Resummarize(i) ==
  /\ Sum(versions) - Len(window) < MaxVersions
  /\ versions' = [versions EXCEPT ![i] = @ + 1]
  /\ UNCHANGED <<window, reports, proc>>

\* A PlanningError ends the command before it has done anything.
Begin(p) ==
  /\ proc[p].pc \in {"idle", "done", "failed", "unroutable"}
  /\ \E force \in BOOLEAN, plan \in {Plan(window)} \ {Unplannable} :
       proc' = [proc EXCEPT ![p] =
         [Idle EXCEPT !.pc = "node", !.force = force, !.plan = plan,
                      !.supplied = [i \in DOMAIN window |-> PrInput(i, versions[i])]]]
  /\ UNCHANGED <<window, versions, reports>>

\* The node's report is the next result; the root's ends the command.
Advanced(p, report) ==
  [proc[p] EXCEPT !.pc = IF IsRoot(p) THEN "done" ELSE "node",
                  !.results = Append(@, report), !.model = 0, !.before = 0]

RoutingFails(p) ==
  /\ proc[p].pc = "node"
  /\ LET supplied == Supplied(p) IN
     route(estimate([i \in DOMAIN supplied |-> Size(supplied[i])])) = {}
  /\ proc' = [proc EXCEPT ![p].pc = "unroutable"]
  /\ UNCHANGED <<window, versions, reports>>

\* execute up to the cache lookup.
Lookup(p) ==
  LET supplied == Supplied(p) IN
  /\ proc[p].pc = "node"
  /\ \E model \in route(estimate([i \in DOMAIN supplied |-> Size(supplied[i])])) :
       LET cached == IF proc[p].force THEN {} ELSE find(supplied, model) IN
       \/ /\ cached = {}
          /\ proc' = [proc EXCEPT ![p].pc = "generate", ![p].model = model,
                                   ![p].before = Len(reports)]
       \/ \E i \in cached : proc' = [proc EXCEPT ![p] = Advanced(p, i)]
  /\ UNCHANGED <<window, versions, reports>>

Row(p, outcome) ==
  [inputs |-> Supplied(p), model |-> proc[p].model, status |-> outcome.status,
   tokens |-> outcome.tokens]

\* The model calls and the save that follows them; a failed report is kept, and
\* raises AggregateError.
GenerateAndSave(p) ==
  /\ proc[p].pc = "generate" /\ Len(reports) < MaxReports
  /\ \E outcome \in Outcomes :
       /\ reports' = Append(reports, Row(p, outcome))
       /\ proc' = [proc EXCEPT ![p] =
            IF outcome.status = "published" THEN Advanced(p, Len(reports) + 1)
            ELSE [@ EXCEPT !.pc = "failed"]]
  /\ UNCHANGED <<window, versions>>

\* The process dies, between its calls and their save too.
Crash(p) ==
  /\ proc[p].pc \in {"node", "generate"}
  /\ proc' = [proc EXCEPT ![p] = Idle]
  /\ UNCHANGED <<window, versions, reports>>

Next ==
  \/ \E i \in DOMAIN window : Resummarize(i)
  \/ \E p \in Procs :
       Begin(p) \/ RoutingFails(p) \/ Lookup(p) \/ GenerateAndSave(p) \/ Crash(p)

Spec == Init /\ [][Next]_vars
-----------------------------------------------------------------------------
(* Properties *)

Processes ==
  [pc : {"idle", "node", "generate", "done", "failed", "unroutable"},
   force : BOOLEAN,
   plan : {<<>>, Plan(window)},
   supplied : Seq(Inputs),       \* the resolved pull request reports
   results : Seq(Nat \ {0}),     \* reports of the nodes executed so far
   model : Models \cup {0},
   before : 0..MaxReports]       \* history: how many reports its lookup had to look at

TypeOK ==
  /\ window \in Windows
  /\ versions \in [DOMAIN window -> Nat \ {0}]
  /\ reports \in Seq(Rows)
  /\ proc \in [Procs -> Processes]
  /\ \A p \in Procs : proc[p].pc \in {"node", "generate"} => Step(p) \in DOMAIN proc[p].plan

\* The pull request reports under a stored report, in the order in which the
\* requests below it were given them.
Sources ==
  LET sources[i \in 0..Len(reports)] ==
        IF i = 0 THEN <<>>
        ELSE FlattenSeq([k \in DOMAIN reports[i].inputs |->
               LET input == reports[i].inputs[k] IN
               IF input.kind = "pr" THEN <<input>>
               ELSE IF input.id < i THEN sources[input.id] ELSE <<>>])
  IN sources

\* A finished command returns a published report of exactly the versions it
\* resolved: each once and in order, through every level and every cached part.
ReportsCoverTheWindow ==
  \A p \in Procs :
    proc[p].pc = "done" =>
      LET result == proc[p].results[Len(proc[p].results)] IN
      reports[result].status = "published" /\ Sources[result] = proc[p].supplied

\* The plan holds for the requests that are sent: routing fails only when a report
\* is larger than what the plan reserved for it.
PlannedRequestsAreRoutable ==
  \A p \in Procs :
    proc[p].pc = "unroutable" =>
      \E n \in ToSet(Node(p).children) : reports[proc[p].results[n]].tokens > ChildTokens

\* docs/releases/m2.md: repeating a request reuses completed nodes.  Whatever
\* happened before, failures, crashes and --regenerate included, a command without
\* --regenerate asks for nothing that was published when it looked.
CompletedNodesAreReused ==
  \A p \in Procs : proc[p].pc = "generate" /\ ~proc[p].force =>
    \A i \in 1..proc[p].before :
      reports[i].status = "published" => ~Matches(reports[i], Supplied(p), proc[p].model)

\* The planner, on every window (evaluated before the first step): a plan covers
\* its inputs in order and fits its budget, and it fails only when it must.
PlanIsSound ==
  (versions = [i \in DOMAIN window |-> 1] /\ reports = <<>> /\ proc = [p \in Procs |-> Idle]) =>
  \A sizes \in PlanInputs :
    LET budget == Max(ToSet(Budgets)) - Envelope
        tree == plan_reduction(sizes, ChildTokens, budget, Separator)
    IN IF MustFail(sizes, ChildTokens, budget, Separator) THEN tree = Unplannable
       ELSE /\ tree # Unplannable
            /\ CoversInOrder(tree, Len(sizes))
            /\ FitsPlan(tree, sizes, ChildTokens, budget, Separator)
=============================================================================
