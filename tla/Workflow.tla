-------------------------------- MODULE Workflow --------------------------------
(***************************************************************************)
(* examples/m3: an operator drives a paid evaluation, stage by stage and   *)
(* case by case, with a runner that may die anywhere and is started again. *)
(* Progress is a file beside the database.  A case is committed first and  *)
(* recorded in the file afterwards, so that a restart may find work that   *)
(* is stored but not recorded.                                             *)
(*                                                                         *)
(* Everything that is paid for is a row of one sequence, identified by its *)
(* position: results of a comparison (phases "pr" and "aggregate"),        *)
(* reports ("upstream") and assessments ("assess").  One runner runs at a  *)
(* time, with one scope and one cap, as the operator's guide prescribes.   *)
(***************************************************************************)
EXTENDS SequencesExt, Integers

CONSTANTS
  Cases, HeldOut,        \* sequences of frozen pull request sources
  PrPlan, AggregatePlan, \* recipes of a comparison, baselines included
  Baselines,             \* those that are planned as primary baselines
  Upstream, Assessor, Foreign, \* who makes a report or an assessment; another provider
  Ceiling,               \* what _ceiling estimates for one member, its repair included
  Cap,
  Outcomes,              \* what one member may come to
  Disturbed,             \* held-out pull requests that others work on as well
  MaxCrashes             \* bound

\* A sequence of whatever its members are.
IsSequence(s) == s \in Seq(ToSet(s))

ASSUME WorkflowAssumption ==
  /\ \A s \in {Cases, HeldOut, PrPlan, AggregatePlan} : IsSequence(s)
  /\ ToSet(HeldOut) \subseteq ToSet(Cases)
  /\ Ceiling \in Nat /\ Cap \in Nat /\ MaxCrashes \in Nat
  /\ Disturbed \subseteq ToSet(HeldOut)
  /\ Baselines \subseteq ToSet(PrPlan \o AggregatePlan)
  \* An estimate is no upper bound: a member may cost more than its ceiling.
  /\ Outcomes \subseteq [status : {"succeeded", "failed"}, cost : Nat, known : BOOLEAN]

VARIABLES
  rows,    \* committed: [phase, of, by, status]
  spent,   \* sum(cost_usd) of the committed calls whose cost is complete
  unknown, \* some committed call has no complete cost
  sources, \* frozen aggregate sources: the reports they were made of
  moved,   \* pull requests whose latest snapshot is not the frozen one any more
  file,    \* the progress file: [phase, of] -> the recorded rows
  spec,    \* the run spec: the reports of its aggregate source, <<>> before the freeze
  runner,
  crashes, \* history
  overrun  \* history: what the case committed last has cost above its estimate

database == <<rows, spent, unknown, sources>>
history == <<crashes, overrun>>
vars == <<database, moved, file, spec, runner, history>>

Phases == {"pr", "upstream", "aggregate", "assess"}

\* What the runner has done of a case is `own', the rows of its transaction, what they
\* cost as far as that is known, and whether it is.
Idle == [pc |-> "idle", phase |-> "none", of |-> <<>>, member |-> 1, own |-> <<>>,
         cost |-> 0, known |-> TRUE]

Init ==
  /\ rows = <<>> /\ spent = 0 /\ unknown = FALSE /\ sources = {}
  /\ moved = {} /\ file = <<>> /\ spec = <<>>
  /\ runner = Idle /\ crashes = 0 /\ overrun = 0

-----------------------------------------------------------------------------
(* What there is to do *)

Recorded(phase, of) == <<phase, of>> \in DOMAIN file
Entry(phase, of) == file[<<phase, of>>]

RecordedReports == [i \in DOMAIN HeldOut |-> Entry("upstream", <<HeldOut[i]>>)[1].row]

\* The saved results of candidates and model comparisons, successful or not.
Targets ==
  LET entries == [i \in DOMAIN Cases |-> Entry("pr", <<Cases[i]>>)]
  IN SelectSeq(FlattenSeq(Append(entries, Entry("aggregate", spec))),
               LAMBDA member : rows[member.row].by \notin Baselines)

Singletons(seq) == [i \in DOMAIN seq |-> <<seq[i]>>]

\* The cases of a phase in the order in which they are worked off.
Items(phase) ==
  CASE phase = "pr" -> Singletons(Cases)
    [] phase = "upstream" -> Singletons(HeldOut)
    [] phase = "aggregate" -> <<spec>>
    [] phase = "assess" -> [i \in DOMAIN Targets |-> <<Targets[i].row>>]

Members(phase) ==
  CASE phase = "pr" -> PrPlan
    [] phase = "upstream" -> <<Upstream>>
    [] phase = "aggregate" -> AggregatePlan
    [] phase = "assess" -> <<Assessor>>

\* The first case that the file does not record, if there is one.
NextCase(phase) ==
  {Items(phase)[i] : i \in {j \in DOMAIN Items(phase) :
     /\ ~Recorded(phase, Items(phase)[j])
     /\ \A k \in 1..(j - 1) : Recorded(phase, Items(phase)[k])}}

\* (faulty variant) The baselines of a comparison are not paid for.
CeilingOfCandidates(phase) ==
  Ceiling * Len(SelectSeq(Members(phase), LAMBDA by : by \notin Baselines))

CeilingOf(phase) == Ceiling * Len(Members(phase))

HasRoom(phase) == spent + CeilingOf(phase) <= Cap

\* What the runner's connection sees: the committed rows, and its own.
Seen == rows \o runner.own

RowsOf(phase, of, by) ==
  {i \in DOMAIN Seen : Seen[i].phase = phase /\ Seen[i].of = of /\ Seen[i].by = by}

Succeeded(S) == {i \in S : Seen[i].status = "succeeded"}

\* (faulty variant) What the progress file does not record is made again.
NothingExists(phase, of) == {}

\* A report or an assessment that a lost record left behind; a failed assessment
\* is one as well, a failed report is not.
Existing(phase, of) ==
  CASE phase = "upstream" -> Succeeded(RowsOf(phase, of, Upstream))
    [] phase = "assess" -> RowsOf(phase, of, Assessor)
    [] OTHER -> {}

-----------------------------------------------------------------------------
(* The runner *)

\* (faulty variant) Unknown costs count as nothing.
AnySpend == TRUE

\* _spent stops when a call has no complete cost.
SpendIsKnown == ~unknown

Start(phase) ==
  /\ runner = Idle /\ SpendIsKnown
  /\ phase # "upstream" => spec # <<>>
  /\ runner' = [Idle EXCEPT !.pc = "next", !.phase = phase]
  /\ UNCHANGED <<database, moved, file, spec, history>>

\* The checks at the start of a stage.
Ready(phase) ==
  CASE phase = "aggregate" -> spec = RecordedReports
    [] phase = "assess" ->
         /\ \A i \in DOMAIN Cases : Recorded("pr", <<Cases[i]>>)
         /\ Recorded("aggregate", spec)
    [] OTHER -> TRUE

At(phase) == runner.pc = "next" /\ runner.phase = phase
Due(phase) == IF At(phase) /\ Ready(phase) THEN NextCase(phase) ELSE {}

\* (faulty variant) The snapshots are compared before the records are consulted.
AnyHasMoved(phase, of) == phase = "upstream" /\ moved # {}

HasMoved(phase, of) == phase = "upstream" /\ of[1] \in moved
TargetFailed(phase, of) == phase = "assess" /\ rows[of[1]].status = "failed"
Stored(phase, of) == ~TargetFailed(phase, of) /\ Existing(phase, of) # {}
IsNew(phase, of) == ~HasMoved(phase, of) /\ ~TargetFailed(phase, of) /\ ~Stored(phase, of)

\* Nothing is left, or a check raises.
Stop(phase) ==
  /\ At(phase)
  /\ \/ Due(phase) = {}
     \/ \E of \in Due(phase) : HasMoved(phase, of)
     \/ \E of \in Due(phase) : IsNew(phase, of) /\ ~(SpendIsKnown /\ HasRoom(phase))
  /\ runner' = Idle
  /\ UNCHANGED <<database, moved, file, spec, history>>

Record(phase, of, entry) ==
  file' = [key \in DOMAIN file \cup {<<phase, of>>} |->
             IF key = <<phase, of>> THEN entry ELSE file[key]]

\* A case whose row exists already is recorded without a call.
Recover(phase) ==
  /\ \E of \in Due(phase) :
       LET row == Max(Existing(phase, of)) IN
       /\ ~HasMoved(phase, of) /\ Stored(phase, of)
       /\ Record(phase, of, <<[row |-> row, status |-> rows[row].status]>>)
  /\ UNCHANGED <<database, moved, spec, runner, history>>

\* "not_run_target_failed"
SkipFailedTarget(phase) ==
  /\ \E of \in Due(phase) : TargetFailed(phase, of) /\ Record(phase, of, <<>>)
  /\ UNCHANGED <<database, moved, spec, runner, history>>

\* run_comparison, summarize or run_assessment begins, in the transaction that `_spent'
\* has opened.
Begin(phase) ==
  /\ SpendIsKnown /\ HasRoom(phase)
  /\ \E of \in Due(phase) :
       IsNew(phase, of) /\ runner' = [runner EXCEPT !.pc = "execute", !.of = of]
  /\ UNCHANGED <<database, moved, file, spec, history>>

IsComparison == runner.phase \in {"pr", "aggregate"}
Member == Members(runner.phase)[runner.member]
Executing == runner.pc = "execute" /\ runner.member <= Len(Members(runner.phase))

IsReusable == IsComparison /\ Succeeded(RowsOf(runner.phase, runner.of, Member)) # {}

\* A member of a comparison that has a success to reuse costs nothing.
Reuse ==
  /\ Executing /\ IsReusable
  /\ runner' = [runner EXCEPT !.member = @ + 1]
  /\ UNCHANGED <<database, moved, file, spec, history>>

Call ==
  /\ Executing /\ ~IsReusable
  /\ \E o \in Outcomes :
       runner' = [runner EXCEPT
         !.member = @ + 1,
         !.own = Append(@, [phase |-> runner.phase, of |-> runner.of, by |-> Member,
                            status |-> o.status]),
         !.cost = @ + IF o.known THEN o.cost ELSE 0,
         !.known = @ /\ o.known]
  /\ UNCHANGED <<database, moved, file, spec, history>>

\* summarize, run_comparison or run_assessment raises, the first time or every time: the
\* connection rolls the case back, and the runner ends with the error.
Raise ==
  /\ runner.pc = "execute"
  /\ runner' = Idle
  /\ UNCHANGED <<database, moved, file, spec, history>>

Executed == runner.pc = "execute" /\ runner.member > Len(Members(runner.phase))

\* (faulty variant) conn.commit() is left to the end of the connection.
LeaveOpen ==
  /\ Executed
  /\ runner' = [runner EXCEPT !.pc = "save"]
  /\ UNCHANGED <<database, moved, file, spec, history>>

Commit ==
  /\ Executed
  /\ rows' = Seen
  /\ spent' = spent + runner.cost
  /\ unknown' = (unknown \/ ~runner.known)
  /\ runner' = [Idle EXCEPT !.pc = "save", !.phase = runner.phase, !.of = runner.of]
  /\ overrun' = Max({0, runner.cost - Ceiling * Len(Members(runner.phase))})
  /\ UNCHANGED <<sources, moved, file, spec, crashes>>

\* The row of each member: the success it reused or made, or else its new failure.
RowOf(by) ==
  LET mine == RowsOf(runner.phase, runner.of, by)
      good == Succeeded(mine)
  IN Max(IF good # {} THEN good ELSE mine)

\* The file is replaced; printing the spend then stops when it is not known.
Save ==
  LET members == Members(runner.phase) IN
  /\ runner.pc = "save"
  /\ Record(runner.phase, runner.of,
            [m \in DOMAIN members |-> [row |-> RowOf(members[m]),
                                       status |-> Seen[RowOf(members[m])].status]])
  /\ runner' = IF SpendIsKnown THEN [Idle EXCEPT !.pc = "next", !.phase = runner.phase]
               ELSE Idle
  /\ UNCHANGED <<database, moved, spec, history>>

\* The process dies, and what it has not committed is gone (the provider's bill is
\* not: the cap is about recorded spend).
Crash ==
  /\ runner # Idle /\ crashes < MaxCrashes
  /\ runner' = Idle /\ crashes' = crashes + 1
  /\ UNCHANGED <<database, moved, file, spec, overrun>>

-----------------------------------------------------------------------------
(* The operator's other tools, and the rest of the world, until the spec is frozen: *)
(* what they do afterwards nobody reads any more. *)

AllUpstreamRecorded == \A i \in DOMAIN HeldOut : Recorded("upstream", <<HeldOut[i]>>)
UpstreamSucceeded ==
  \A i \in DOMAIN HeldOut : Entry("upstream", <<HeldOut[i]>>)[1].status = "succeeded"

\* freeze_openrouter_aggregate: any published report of each frozen snapshot.
FreezeAggregate(reports) ==
  /\ runner = Idle /\ spec = <<>>
  /\ \A i \in DOMAIN HeldOut :
       /\ rows[reports[i]].phase = "upstream" /\ rows[reports[i]].of = <<HeldOut[i]>>
       /\ rows[reports[i]].status = "succeeded"
  /\ sources' = sources \cup {reports}
  /\ UNCHANGED <<rows, spent, unknown, moved, file, spec, runner, history>>

\* The operator freezes the reports that the progress file names.
FreezeRecorded ==
  AllUpstreamRecorded /\ UpstreamSucceeded /\ FreezeAggregate(RecordedReports)

\* freeze_workflow_spec: written once, of exactly the recorded reports.
FreezeSpec ==
  /\ runner = Idle /\ spec = <<>>
  /\ AllUpstreamRecorded /\ UpstreamSucceeded
  /\ RecordedReports \in sources
  /\ spec' = RecordedReports
  /\ UNCHANGED <<database, moved, file, runner, history>>

\* A pull request is collected again and has changed.
Move(case) ==
  /\ spec = <<>>
  /\ moved' = moved \cup {case}
  /\ UNCHANGED <<database, file, spec, runner, history>>

\* `summarize' with another provider publishes a report of the frozen snapshot.
PublishForeign(case) ==
  /\ spec = <<>> /\ runner = Idle
  /\ RowsOf("upstream", <<case>>, Foreign) = {}
  /\ rows' = Append(rows, [phase |-> "upstream", of |-> <<case>>, by |-> Foreign,
                           status |-> "succeeded"])
  /\ UNCHANGED <<spent, unknown, sources, moved, file, spec, runner, history>>

Step ==
  \/ \E phase \in Phases :
       Stop(phase) \/ Recover(phase) \/ SkipFailedTarget(phase) \/ Begin(phase)
  \/ Reuse \/ Call \/ Commit \/ Save

Next ==
  \/ \E phase \in Phases : Start(phase)
  \/ Step \/ Raise \/ Crash
  \/ \E reports \in [DOMAIN HeldOut -> DOMAIN rows] : FreezeAggregate(reports)
  \/ FreezeSpec
  \/ \E case \in Disturbed : Move(case) \/ PublishForeign(case)

\* The runner is straight-line code around clients that have timeouts.  An operator
\* who wants the workflow done starts every stage again and again, and freezes what
\* can be frozen.
Fairness ==
  /\ WF_vars(Step)
  /\ \A phase \in Phases : SF_vars(Start(phase))
  /\ SF_vars(FreezeRecorded) /\ SF_vars(FreezeSpec)

Spec == Init /\ [][Next]_vars /\ Fairness
-----------------------------------------------------------------------------
(* Properties *)

\* docs/evaluation/m3-workflow-plan.md: "stop before projected spend exceeds the
\* approved cap".  Only projected spend can be bounded, since "actual usage and provider
\* pricing may differ": what is recorded exceeds the cap by no more than what the case
\* committed last has cost above its estimate, baselines, repairs, failures and
\* restarts included.  One wrong estimate is never followed by another paid case.
CapHoldsUpToOneCase == spent <= Cap + overrun

\* "Progress is saved after each case so a failed process does not hide completed
\* results": wherever the runner died, the file names stored rows of the recorded
\* case, with their status, and the frozen source is made of the recorded reports.
ProgressIsDurable ==
  /\ \A key \in DOMAIN file : \A m \in DOMAIN file[key] :
       LET member == file[key][m] IN
       /\ member.row \in DOMAIN rows
       /\ rows[member.row].phase = key[1] /\ rows[member.row].of = key[2]
       /\ rows[member.row].by = Members(key[1])[m]
       /\ rows[member.row].status = member.status
  /\ spec # <<>> => AllUpstreamRecorded /\ UpstreamSucceeded /\ spec = RecordedReports

\* What was paid for and stored is not paid for again, although its record may have
\* been lost: one success per member of a case, and one assessment of a target.
SuccessesAreNotRepeated ==
  \A i, j \in DOMAIN rows :
    /\ rows[i].phase = rows[j].phase
    /\ rows[i].of = rows[j].of
    /\ rows[i].by = rows[j].by
    /\ rows[i].phase = "assess" \/ "failed" \notin {rows[i].status, rows[j].status}
    => i = j

\* "stop for manual spend review": no case is worked on after a cost could not be told.
UnknownCostStops == unknown => runner.pc # "execute"

Complete ==
  /\ \A i \in DOMAIN Cases : Recorded("pr", <<Cases[i]>>)
  /\ Recorded("aggregate", spec)
  /\ \A i \in DOMAIN Targets : Recorded("assess", <<Targets[i].row>>)

\* Reasons for which only a person can help.  The cap is one when the case that a stage
\* would begin next has no room below it.
NoRoom(phase) ==
  /\ runner = Idle /\ (phase # "upstream" => spec # <<>>) /\ Ready(phase)
  /\ \E of \in NextCase(phase) : IsNew(phase, of) /\ ~HasRoom(phase)

Blocked ==
  \/ unknown
  \/ \E phase \in Phases : NoRoom(phase)
  \/ \E i \in DOMAIN HeldOut :
       IF Recorded("upstream", <<HeldOut[i]>>)
       THEN Entry("upstream", <<HeldOut[i]>>)[1].status = "failed"
       ELSE HeldOut[i] \in moved

\* However often the runner dies, the workflow is completed, or stops for one of the
\* reasons the runner reports: an unknown cost, the cap, a changed pull request, or
\* a report that failed.  Only a case that raises again and again keeps it from both.
EventuallySettled == []<><<Raise>>_vars \/ <>(Complete \/ Blocked)
=============================================================================
