----------------------------- MODULE WorkflowProofs -----------------------------
(***************************************************************************)
(* Proofs about Workflow, for any cases, plans, costs and number of        *)
(* crashes: IInv is inductive, and what follows from it.  A step either    *)
(* leaves the rows and the file alone, extends one of them, or appends to  *)
(* the runner's own rows.                                                  *)
(***************************************************************************)
EXTENDS WorkflowInv, WellFoundedInduction, TLAPS

-----------------------------------------------------------------------------
(* Sequences, and the greatest number of a set *)

LEMMA Sequence ==
  ASSUME NEW s, IsSequence(s)
  PROVE  Len(s) \in Nat /\ DOMAIN s = 1..Len(s)
  BY DEF IsSequence

\* t is s with something appended.
Extends(t, s) == \A i \in DOMAIN s : i \in DOMAIN t /\ t[i] = s[i]

LEMMA Appended ==
  ASSUME NEW s, IsSequence(s), NEW e
  PROVE  /\ IsSequence(Append(s, e)) /\ Extends(Append(s, e), s)
         /\ DOMAIN Append(s, e) = 1..(Len(s) + 1) /\ Len(Append(s, e)) = Len(s) + 1
         /\ Append(s, e)[Len(s) + 1] = e
<1> DEFINE S == ToSet(s) \cup {e}
           t == Append(s, e)
<1>1. s \in Seq(S) /\ e \in S
  <2>1. s \in Seq(ToSet(s)) /\ ToSet(s) \subseteq S
    BY DEF IsSequence
  <2> QED BY <2>1
<1> HIDE DEF S
<1>2. /\ t \in Seq(S) /\ Len(t) = Len(s) + 1 /\ t[Len(s) + 1] = e
      /\ \A i \in 1..Len(s) : t[i] = s[i]
  BY <1>1
<1>3. DOMAIN t = 1..(Len(s) + 1) /\ DOMAIN s = 1..Len(s) /\ Len(s) \in Nat
  BY <1>1, <1>2
<1> HIDE DEF t
<1>4. t \in Seq(ToSet(t))
  <2>1. t \in [1..Len(t) -> S] /\ Len(t) \in Nat
    BY <1>2
  <2>2. t \in [1..Len(t) -> ToSet(t)]
    BY <2>1 DEF ToSet
  <2> QED BY <2>1, <2>2
<1> QED BY <1>2, <1>3, <1>4 DEF IsSequence, Extends, t

LEMMA Concatenated ==
  ASSUME NEW s, IsSequence(s), NEW t, IsSequence(t)
  PROVE  /\ IsSequence(s \o t) /\ Extends(s \o t, s)
         /\ DOMAIN (s \o t) = 1..(Len(s) + Len(t))
         /\ \A i \in DOMAIN t : (s \o t)[Len(s) + i] = t[i]
         /\ t = <<>> => s \o t = s
<1> DEFINE S == ToSet(s) \cup ToSet(t)
           u == s \o t
<1>1. s \in Seq(S) /\ t \in Seq(S)
  <2>1. s \in Seq(ToSet(s)) /\ t \in Seq(ToSet(t))
    BY DEF IsSequence
  <2> QED BY <2>1
<1> HIDE DEF S
<1>2. /\ u \in Seq(S) /\ Len(u) = Len(s) + Len(t)
      /\ \A i \in 1..Len(s) : u[i] = s[i]
      /\ t = <<>> => u = s
  BY <1>1
<1>3. \A i \in 1..Len(t) : u[Len(s) + i] = t[i]
  BY <1>1
<1>4. /\ DOMAIN u = 1..(Len(s) + Len(t)) /\ DOMAIN s = 1..Len(s) /\ Len(s) \in Nat
      /\ Len(t) \in Nat /\ DOMAIN t = 1..Len(t)
  BY <1>1, <1>2
<1> HIDE DEF u
<1>5. u \in Seq(ToSet(u))
  <2>1. u \in [1..Len(u) -> S] /\ Len(u) \in Nat
    BY <1>2
  <2>2. u \in [1..Len(u) -> ToSet(u)]
    BY <2>1 DEF ToSet
  <2> QED BY <2>1, <2>2
<1>6. IsSequence(u) /\ Extends(u, s) /\ \A i \in DOMAIN t : u[Len(s) + i] = t[i]
  BY <1>2, <1>3, <1>4, <1>5 DEF IsSequence, Extends
<1> QED BY <1>2, <1>4, <1>6 DEF u

LEMMA NothingIsASequence == IsSequence(<<>>) /\ DOMAIN <<>> = {}
  BY DEF IsSequence

\* Positions in a sequence have a last one.
LEMMA MaxIsMember ==
  ASSUME NEW n \in Nat, NEW S, S \subseteq 1..n, S # {}
  PROVE  Max(S) \in S
<1> DEFINE T == {n - i : i \in S}
<1>1. T \subseteq Nat /\ T # {}
  <2>1. \A i \in S : n - i \in Nat
    OBVIOUS
  <2> QED BY <2>1
<1>2. PICK x \in T : \A y \in T : ~(<<y, x>> \in OpToRel(<, Nat))
  BY <1>1, WFMin, NatLessThanWellFounded
<1>3. \A y \in T : ~(y < x)
  <2>1. \A y \in T : y \in Nat /\ x \in Nat
    BY <1>1
  <2>2. \A y, z \in Nat : y < z => <<y, z>> \in OpToRel(<, Nat)
    BY DEF OpToRel
  <2> QED BY <1>2, <2>1, <2>2
<1>4. PICK i \in S : x = n - i
  OBVIOUS
<1>5. \A j \in S : i >= j
  <2> SUFFICES ASSUME NEW j \in S PROVE i >= j
    OBVIOUS
  <2>1. n - j \in T
    OBVIOUS
  <2>2. ~(n - j < n - i) /\ i \in 1..n /\ j \in 1..n
    BY <1>3, <1>4, <2>1
  <2> QED BY <2>2
<1> QED BY <1>5 DEF Max

LEMMA MaxOfTwo ==
  ASSUME NEW x \in Int
  PROVE  Max({0, x}) \in Nat /\ x <= Max({0, x})
<1>1. \E m \in {0, x} : \A y \in {0, x} : m >= y
  <2>1. CASE x >= 0
    BY <2>1
  <2>2. CASE ~(x >= 0)
    BY <2>2
  <2> QED BY <2>1, <2>2
<1>2. Max({0, x}) \in {0, x} /\ \A y \in {0, x} : Max({0, x}) >= y
  BY <1>1 DEF Max
<1> QED BY <1>2

-----------------------------------------------------------------------------
(* What grows *)

\* A case that is recorded stays recorded, and its entry as it is.
LEMMA Recording ==
  ASSUME NEW phase, NEW of, NEW entry, ~Recorded(phase, of), Record(phase, of, entry)
  PROVE  /\ DOMAIN file' = DOMAIN file \cup {<<phase, of>>}
         /\ \A key \in DOMAIN file : file'[key] = file[key]
         /\ file'[<<phase, of>>] = entry
  BY DEF Record, Recorded

\* A member of an entry is a row of the case.
IsMember(s, member, phase, of, by) ==
  /\ member.row \in DOMAIN s
  /\ s[member.row].phase = phase /\ s[member.row].of = of /\ s[member.row].by = by
  /\ s[member.row].status = member.status

Upstreams(f) ==
  /\ \A i \in DOMAIN HeldOut : <<"upstream", <<HeldOut[i]>>>> \in DOMAIN f
  /\ \A i \in DOMAIN HeldOut : f[<<"upstream", <<HeldOut[i]>>>>][1].status = "succeeded"
  /\ spec = [i \in DOMAIN HeldOut |-> f[<<"upstream", <<HeldOut[i]>>>>][1].row]

LEMMA Durable ==
  ProgressIsDurable <=>
    /\ \A key \in DOMAIN file : \A m \in DOMAIN file[key] :
         IsMember(rows, file[key][m], key[1], key[2], Members(key[1])[m])
    /\ spec # <<>> => Upstreams(file)
  BY DEF ProgressIsDurable, IsMember, Upstreams, AllUpstreamRecorded, UpstreamSucceeded,
         RecordedReports, Recorded, Entry

LEMMA DurableAfter ==
  ProgressIsDurable' <=>
    /\ \A key \in DOMAIN file' : \A m \in DOMAIN file'[key] :
         IsMember(rows', file'[key][m], key[1], key[2], Members(key[1])[m])
    /\ spec' # <<>> => Upstreams(file)'
  BY DEF ProgressIsDurable, IsMember, Upstreams, AllUpstreamRecorded, UpstreamSucceeded,
         RecordedReports, Recorded, Entry

LEMMA RowsGrow ==
  ASSUME ProgressIsDurable, Extends(rows', rows), UNCHANGED <<file, spec>>
  PROVE  ProgressIsDurable'
<1>1. ASSUME NEW member, NEW phase, NEW of, NEW by, IsMember(rows, member, phase, of, by)
      PROVE  IsMember(rows', member, phase, of, by)
  BY <1>1 DEF IsMember, Extends
<1>2. Upstreams(file)' <=> Upstreams(file)
  BY DEF Upstreams
<1> QED BY <1>1, <1>2, Durable, DurableAfter

LEMMA FileGrows ==
  ASSUME ProgressIsDurable, NEW phase, NEW of, NEW entry, ~Recorded(phase, of),
         Record(phase, of, entry), UNCHANGED <<rows, spec>>,
         \A m \in DOMAIN entry : IsMember(rows, entry[m], phase, of, Members(phase)[m])
  PROVE  ProgressIsDurable'
<1>1. /\ DOMAIN file' = DOMAIN file \cup {<<phase, of>>}
      /\ \A key \in DOMAIN file : file'[key] = file[key]
      /\ file'[<<phase, of>>] = entry
  BY Recording
<1>2. Upstreams(file) => Upstreams(file)'
  BY <1>1 DEF Upstreams
<1>3. ASSUME NEW key \in DOMAIN file', NEW m \in DOMAIN file'[key]
      PROVE  IsMember(rows', file'[key][m], key[1], key[2], Members(key[1])[m])
  <2>1. CASE key = <<phase, of>>
    BY <1>1, <1>3, <2>1
  <2>2. CASE key \in DOMAIN file
    BY <1>1, <1>3, <2>2, Durable
  <2> QED BY <1>1, <1>3, <2>1, <2>2
<1> QED BY <1>2, <1>3, Durable, DurableAfter

-----------------------------------------------------------------------------
(* Between two cases *)

LEMMA MembersAreASequence ==
  ASSUME NEW phase \in Phases
  PROVE  /\ Len(Members(phase)) \in Nat /\ DOMAIN Members(phase) = 1..Len(Members(phase))
         /\ phase \in {"upstream", "assess"} => Len(Members(phase)) = 1
<1>1. CASE phase \in {"upstream", "assess"}
  BY <1>1 DEF Members
<1>2. CASE phase = "pr"
  <2>1. Members(phase) = PrPlan
    BY <1>2 DEF Members
  <2>2. IsSequence(PrPlan)
    BY WorkflowAssumption
  <2> QED BY <1>2, <2>1, <2>2, Sequence
<1>3. CASE phase = "aggregate"
  <2>1. Members(phase) = AggregatePlan
    BY <1>3 DEF Members
  <2>2. IsSequence(AggregatePlan)
    BY WorkflowAssumption
  <2> QED BY <1>3, <2>1, <2>2, Sequence
<1> QED BY <1>1, <1>2, <1>3 DEF Phases

Statuses(s) == \A i \in DOMAIN s : s[i].status \in {"succeeded", "failed"}

\* What is committed is in order whatever the runner does.
Kept ==
  /\ IsSequence(rows) /\ Statuses(rows) /\ OneSuccess(rows)
  /\ spent \in Nat /\ unknown \in BOOLEAN
  /\ overrun \in Nat /\ spent <= Cap + overrun
  /\ ProgressIsDurable

Rested ==
  /\ Kept
  /\ \/ runner = Idle
     \/ \E phase \in Phases : \E of :
          runner = [Idle EXCEPT !.pc = "next", !.phase = phase, !.of = of]

LEMMA OneSuccessBefore ==
  ASSUME NEW s, NEW t, Extends(t, s), OneSuccess(t)
  PROVE  OneSuccess(s)
  BY DEF Extends, OneSuccess

LEMMA IsKept == IInv => Kept
<1> SUFFICES ASSUME IInv PROVE Kept
  OBVIOUS
<1>1. IsSequence(rows) /\ IsSequence(runner.own)
  BY DEF IInv, Shape
<1>2. Extends(Seen, rows)
  BY <1>1, Concatenated DEF Seen
<1>3. OneSuccess(rows)
  BY <1>2, OneSuccessBefore DEF IInv
<1>4. Statuses(rows)
  BY <1>2 DEF IInv, Shape, Statuses, Extends
<1> QED BY <1>1, <1>3, <1>4 DEF IInv, Shape, Reserved, Kept

\* Outside a case the runner sees what is committed.
LEMMA SeesTheRows == RunnerOK /\ IsSequence(rows) /\ runner.pc # "execute" => Seen = rows
<1> SUFFICES ASSUME RunnerOK, IsSequence(rows), runner.pc # "execute" PROVE Seen = rows
  OBVIOUS
<1>1. runner.own = <<>>
  BY DEF RunnerOK, Idle
<1> QED BY <1>1, Concatenated, NothingIsASequence DEF Seen

LEMMA RestIsSafe == Rested => IInv
<1> SUFFICES ASSUME Rested PROVE IInv
  OBVIOUS
<1> USE DEF Rested, Kept
<1>1. /\ runner.pc \in {"idle", "next"} /\ runner.own = <<>> /\ runner.member = 1
      /\ runner.cost = 0 /\ runner.known = TRUE /\ DOMAIN runner = DOMAIN Idle
  <2>1. CASE runner = Idle
    BY <2>1 DEF Idle
  <2>2. ASSUME NEW phase, NEW of,
               runner = [Idle EXCEPT !.pc = "next", !.phase = phase, !.of = of]
        PROVE  /\ runner.pc = "next" /\ runner.own = <<>> /\ runner.member = 1
               /\ runner.cost = 0 /\ runner.known = TRUE /\ DOMAIN runner = DOMAIN Idle
    <3>1. DOMAIN runner = DOMAIN Idle
      BY <2>2
    <3>2. /\ runner.pc = "next" /\ runner.own = <<>> /\ runner.member = 1
          /\ runner.cost = 0 /\ runner.known = TRUE
      BY <2>2 DEF Idle
    <3> QED BY <3>1, <3>2
  <2> QED BY <2>1, <2>2
<1>2. RunnerOK
  <2>1. CASE runner = Idle
    BY <2>1 DEF RunnerOK, Idle
  <2>2. CASE \E phase \in Phases : \E of :
               runner = [Idle EXCEPT !.pc = "next", !.phase = phase, !.of = of]
    BY <2>2 DEF RunnerOK, Idle
  <2> QED BY <2>1, <2>2
<1>3. Seen = rows
  BY <1>1, <1>2, SeesTheRows
<1>4. Shape
  <2>1. \A i \in DOMAIN Seen : Seen[i].status \in {"succeeded", "failed"}
    BY <1>3 DEF Statuses
  <2>2. runner.member \in Nat \ {0} /\ runner.cost \in Nat
    <3>1. runner.member = 1 /\ runner.cost = 0
      BY <1>1
    <3> QED BY ONLY <3>1
  <2>3. runner.known \in BOOLEAN
    BY <1>1
  <2>4. IsSequence(runner.own)
    BY <1>1, NothingIsASequence
  <2> QED BY <1>1, <2>1, <2>2, <2>3, <2>4 DEF Shape
<1>5. Reserved /\ CaseOK
  BY <1>1 DEF Reserved, CaseOK
<1> QED BY <1>2, <1>3, <1>4, <1>5 DEF IInv

LEMMA RestStaysSafe == Rested' => IInv'
<1>1. (Rested => IInv)'
  BY RestIsSafe, PTL
<1> QED BY <1>1

LEMMA InitRests == Init => IInv
<1> SUFFICES ASSUME Init PROVE Rested
  BY RestIsSafe
<1>1. IsSequence(rows) /\ DOMAIN rows = {} /\ DOMAIN file = {} /\ spec = <<>>
  BY NothingIsASequence DEF Init
<1>2. ProgressIsDurable
  BY <1>1, Durable
<1>3. spent = 0 /\ overrun = 0 /\ unknown = FALSE /\ Cap \in Nat /\ runner = Idle
  BY WorkflowAssumption DEF Init
<1>4. spent \in Nat /\ overrun \in Nat /\ spent <= Cap + overrun
  BY <1>3
<1>5. Statuses(rows) /\ OneSuccess(rows)
  BY <1>1 DEF Statuses, OneSuccess
<1> QED BY <1>1, <1>2, <1>3, <1>4, <1>5 DEF Rested, Kept

LEMMA IdleHasNoCase ==
  ASSUME NEW phase
  PROVE  [Idle EXCEPT !.pc = "next", !.phase = phase]
           = [Idle EXCEPT !.pc = "next", !.phase = phase, !.of = <<>>]
<1> DEFINE r == [Idle EXCEPT !.pc = "next", !.phase = phase]
<1>1. r = [x \in DOMAIN r |-> r[x]]
  OBVIOUS
<1>2. r.of = <<>>
  BY DEF Idle
<1> HIDE DEF r
<1>3. r = [r EXCEPT !.of = <<>>]
  BY <1>1, <1>2
<1> QED BY <1>3 DEF r

\* Nothing that is committed or recorded changes, and the runner comes to rest.
LEMMA Resting ==
  ASSUME IInv, UNCHANGED <<rows, spent, overrun, unknown, file, spec>>,
         \/ runner' = Idle
         \/ \E phase \in Phases : runner' = [Idle EXCEPT !.pc = "next", !.phase = phase]
  PROVE  IInv'
<1>1. Kept
  BY IsKept
<1>2. ProgressIsDurable'
  BY <1>1, Durable, DurableAfter DEF Upstreams, Kept
<1>3. Kept'
  BY <1>1, <1>2 DEF Kept, Statuses, OneSuccess
<1>4. runner' = Idle \/ \E phase \in Phases : \E of :
        runner' = [Idle EXCEPT !.pc = "next", !.phase = phase, !.of = of]
  <2>1. ASSUME NEW phase \in Phases, runner' = [Idle EXCEPT !.pc = "next", !.phase = phase]
        PROVE  runner' = [Idle EXCEPT !.pc = "next", !.phase = phase, !.of = <<>>]
    BY <2>1, IdleHasNoCase
  <2> QED BY <2>1
<1>5. Idle' = Idle /\ Phases' = Phases
  BY DEF Idle, Phases
<1> QED BY <1>3, <1>4, <1>5, RestStaysSafe DEF Rested

LEMMA QuietSteps ==
  ASSUME IInv, NEW phase \in Phases, Start(phase) \/ Stop(phase) \/ Raise \/ Crash
  PROVE  IInv'
  BY Resting DEF Start, Stop, Raise, Crash, database, history

\* Nothing the invariant speaks of changes.
LEMMA Unchanged ==
  ASSUME IInv, UNCHANGED <<rows, spent, overrun, unknown, file, spec, runner>>
  PROVE  IInv'
<1>1. Seen' = Seen
  BY DEF Seen
<1>2. ProgressIsDurable'
  BY Durable, DurableAfter DEF Upstreams, IInv
<1>3. CaseOK'
  BY <1>1 DEF IInv, CaseOK, HasRow, RowsOf, Existing, Succeeded
<1>4. RunnerOK' /\ Shape' /\ Reserved' /\ OneSuccess(Seen)'
  BY <1>1 DEF IInv, RunnerOK, Shape, Reserved, CeilingOf, Members, OneSuccess, Recorded
<1> QED BY <1>2, <1>3, <1>4 DEF IInv

LEMMA FreezeAggregateKeeps ==
  ASSUME IInv, NEW reports, FreezeAggregate(reports) \/ UNCHANGED vars
  PROVE  IInv'
  BY Unchanged DEF FreezeAggregate, vars, database, history

LEMMA MoveKeeps ==
  ASSUME IInv, NEW case, Move(case)
  PROVE  IInv'
  BY Unchanged DEF Move, database, history

LEMMA FreezeSpecKeeps ==
  ASSUME IInv, FreezeSpec
  PROVE  IInv'
<1>1. Kept /\ UNCHANGED <<rows, spent, overrun, unknown, file, runner>> /\ runner = Idle
  BY IsKept DEF FreezeSpec, database, history
<1>2. Upstreams(file)'
  BY <1>1 DEF FreezeSpec, Upstreams, AllUpstreamRecorded, UpstreamSucceeded, RecordedReports,
              Recorded, Entry
<1>3. ProgressIsDurable'
  BY <1>1, <1>2, Durable, DurableAfter DEF Kept
<1>4. Kept'
  BY <1>1, <1>3 DEF Kept, Statuses, OneSuccess
<1> QED BY <1>1, <1>4, RestStaysSafe DEF Rested

-----------------------------------------------------------------------------
(* The steps of the runner *)

\* A case that is due is not in the file.
LEMMA DueIsUnrecorded ==
  ASSUME NEW phase, NEW of \in Due(phase)
  PROVE  At(phase) /\ ~Recorded(phase, of)
  BY DEF Due, NextCase

LEMMA AtRest ==
  ASSUME IInv, NEW phase \in Phases, At(phase)
  PROVE  /\ Kept /\ Seen = rows
         /\ runner = [Idle EXCEPT !.pc = "next", !.phase = phase, !.of = runner.of]
<1>1. runner.pc = "next" /\ runner.phase = phase
  BY DEF At
<1>2. runner = [Idle EXCEPT !.pc = runner.pc, !.phase = runner.phase, !.of = runner.of]
  BY <1>1 DEF IInv, RunnerOK
<1>3. Seen = rows
  BY <1>1, SeesTheRows DEF IInv, Shape
<1> QED BY <1>1, <1>2, <1>3, IsKept

\* Between two cases, the file may grow by an entry whose members are rows of its case.
LEMMA RecordingKeeps ==
  ASSUME Kept, NEW phase, NEW of, NEW entry, ~Recorded(phase, of),
         Record(phase, of, entry), UNCHANGED <<rows, spent, overrun, unknown, spec>>,
         \A m \in DOMAIN entry : IsMember(rows, entry[m], phase, of, Members(phase)[m]),
         \/ runner' = Idle
         \/ \E p \in Phases : \E c :
              runner' = [Idle EXCEPT !.pc = "next", !.phase = p, !.of = c]
  PROVE  IInv'
<1>1. ProgressIsDurable'
  BY FileGrows DEF Kept
<1>2. Kept'
  BY <1>1 DEF Kept, Statuses, OneSuccess
<1>3. Idle' = Idle /\ Phases' = Phases
  BY DEF Idle, Phases
<1> QED BY <1>2, <1>3, RestStaysSafe DEF Rested

LEMMA RecoverKeeps ==
  ASSUME IInv, NEW phase \in Phases, Recover(phase)
  PROVE  IInv'
<1>1. PICK of \in Due(phase) :
        /\ Stored(phase, of)
        /\ Record(phase, of, <<[row |-> Max(Existing(phase, of)),
                                status |-> rows[Max(Existing(phase, of))].status]>>)
  BY DEF Recover
<1>2. At(phase) /\ ~Recorded(phase, of)
  BY DueIsUnrecorded
<1>3. /\ Kept /\ Seen = rows
      /\ runner = [Idle EXCEPT !.pc = "next", !.phase = phase, !.of = runner.of]
  BY <1>2, AtRest
<1> DEFINE row == Max(Existing(phase, of))
           entry == <<[row |-> row, status |-> rows[row].status]>>
<1>4. Existing(phase, of) # {}
  BY <1>1 DEF Stored
<1>5. Existing(phase, of) \subseteq 1..Len(rows) /\ Len(rows) \in Nat
  <2>1. DOMAIN rows = 1..Len(rows) /\ Len(rows) \in Nat
    BY <1>3, Sequence DEF Kept
  <2>2. Existing(phase, of) \subseteq DOMAIN rows
    BY <1>3 DEF Existing, RowsOf, Succeeded
  <2> QED BY <2>1, <2>2
<1>6. row \in Existing(phase, of)
  BY <1>4, <1>5, MaxIsMember
<1> HIDE DEF row
<1>7. IsMember(rows, entry[1], phase, of, Members(phase)[1])
  <2>1. CASE phase = "upstream"
    <3>1. Members(phase)[1] = Upstream
      BY <2>1 DEF Members
    <3>2. row \in Succeeded(RowsOf(phase, of, Upstream))
      BY <1>6, <2>1 DEF Existing
    <3> QED BY <1>3, <3>1, <3>2 DEF Succeeded, RowsOf, IsMember
  <2>2. CASE phase = "assess"
    <3>1. Members(phase)[1] = Assessor
      BY <2>2 DEF Members
    <3>2. row \in RowsOf(phase, of, Assessor)
      BY <1>6, <2>2 DEF Existing
    <3> QED BY <1>3, <3>1, <3>2 DEF RowsOf, IsMember
  <2>3. CASE phase \notin {"upstream", "assess"}
    BY <1>4, <2>3 DEF Existing
  <2> QED BY <2>1, <2>2, <2>3
<1>8. Record(phase, of, entry)
  BY <1>1 DEF row
<1>9. UNCHANGED <<rows, spent, overrun, unknown, spec, runner>>
  BY DEF Recover, database, history
<1>10. \A m \in DOMAIN entry : IsMember(rows, entry[m], phase, of, Members(phase)[m])
  <2>1. DOMAIN entry = {1}
    OBVIOUS
  <2> HIDE DEF entry
  <2> QED BY <1>7, <2>1
<1> HIDE DEF entry
<1> QED BY <1>2, <1>3, <1>8, <1>9, <1>10, RecordingKeeps

LEMMA SkipKeeps ==
  ASSUME IInv, NEW phase \in Phases, SkipFailedTarget(phase)
  PROVE  IInv'
<1>1. PICK of \in Due(phase) : Record(phase, of, <<>>)
  BY DEF SkipFailedTarget
<1>2. At(phase) /\ ~Recorded(phase, of)
  BY DueIsUnrecorded
<1>3. /\ Kept
      /\ runner = [Idle EXCEPT !.pc = "next", !.phase = phase, !.of = runner.of]
  BY <1>2, AtRest
<1>4. UNCHANGED <<rows, spent, overrun, unknown, spec, runner>> /\ DOMAIN <<>> = {}
  BY NothingIsASequence DEF SkipFailedTarget, database, history
<1>5. \A m \in DOMAIN <<>> : IsMember(rows, <<>>[m], phase, of, Members(phase)[m])
  BY <1>4
<1> QED BY <1>1, <1>2, <1>3, <1>4, <1>5, RecordingKeeps

LEMMA BeginKeeps ==
  ASSUME IInv, NEW phase \in Phases, Begin(phase)
  PROVE  IInv'
<1>1. PICK of \in Due(phase) :
        IsNew(phase, of) /\ runner' = [runner EXCEPT !.pc = "execute", !.of = of]
  BY DEF Begin
<1>2. At(phase) /\ ~Recorded(phase, of)
  BY DueIsUnrecorded
<1>3. /\ Kept /\ Seen = rows
      /\ runner = [Idle EXCEPT !.pc = "next", !.phase = phase, !.of = runner.of]
  BY <1>2, AtRest
<1>4. /\ UNCHANGED <<rows, spent, overrun, unknown, file, spec>> /\ ~unknown
      /\ spent + CeilingOf(phase) <= Cap
  BY DEF Begin, database, history, SpendIsKnown, HasRoom
<1>5. /\ runner'.pc = "execute" /\ runner'.phase = phase /\ runner'.of = of
      /\ runner'.member = 1 /\ runner'.own = <<>> /\ runner'.cost = 0
  BY <1>1, <1>3 DEF Idle
<1>6. runner'.known = TRUE /\ DOMAIN runner' = DOMAIN Idle
  <2>1. DOMAIN runner = DOMAIN Idle
    BY DEF IInv, Shape
  <2>2. DOMAIN runner' = DOMAIN runner
    BY <1>1
  <2>3. runner.known = TRUE
    BY <1>3 DEF Idle
  <2>4. runner'.known = runner.known
    BY <1>1
  <2> QED BY <2>1, <2>2, <2>3, <2>4
<1>7. Seen' = rows
  <2>1. runner.own = <<>>
    BY <1>3 DEF Idle
  <2> QED BY <1>3, <1>4, <1>5, <2>1 DEF Seen
<1>8. RunnerOK'
  BY <1>2, <1>4, <1>5 DEF RunnerOK, Recorded
<1>9. Shape'
  <2>1. IsSequence(rows') /\ IsSequence(runner'.own)
    BY <1>3, <1>4, <1>5, NothingIsASequence DEF Kept
  <2>2. \A i \in DOMAIN Seen' : Seen'[i].status \in {"succeeded", "failed"}
    BY <1>3, <1>7 DEF Kept, Statuses
  <2>3. spent' \in Nat /\ unknown' \in BOOLEAN
    BY <1>3, <1>4 DEF Kept
  <2>4. runner'.member \in Nat \ {0} /\ runner'.cost \in Nat
    BY ONLY <1>5
  <2>5. runner'.known \in BOOLEAN /\ DOMAIN runner' = DOMAIN Idle'
    BY <1>6 DEF Idle
  <2> QED BY <2>1, <2>2, <2>3, <2>4, <2>5 DEF Shape
<1>10. Reserved'
  <2>1. CeilingOf(runner.phase)' = CeilingOf(phase)
    BY <1>5 DEF CeilingOf, Members, Phases
  <2> QED BY <1>3, <1>4, <1>5, <2>1 DEF Reserved, Kept
<1>11. CaseOK'
  <2>1. Existing(phase, of) = {}
    BY <1>1 DEF IsNew, Stored
  <2>2. Existing(runner.phase, runner.of)' = Existing(phase, of)
    BY <1>3, <1>5, <1>7 DEF Existing, Succeeded, RowsOf
  <2> QED BY <1>4, <1>5, <2>1, <2>2 DEF CaseOK
<1>12. OneSuccess(Seen)'
  BY <1>3, <1>7 DEF Kept, OneSuccess
<1>13. ProgressIsDurable'
  BY <1>3, <1>4, Durable, DurableAfter DEF Upstreams, Kept
<1> QED BY <1>8, <1>9, <1>10, <1>11, <1>12, <1>13 DEF IInv

LEMMA Working ==
  ASSUME IInv, Executing
  PROVE  /\ runner.phase \in Phases /\ runner.member \in Nat
         /\ runner.member \in DOMAIN Members(runner.phase)
         /\ runner.phase \in {"upstream", "assess"} => runner.member = 1
<1> DEFINE n == Len(Members(runner.phase))
           m == runner.member
<1>1. runner.pc = "execute" /\ m <= n
  BY DEF Executing
<1>2. runner.phase \in Phases
  BY <1>1 DEF IInv, RunnerOK
<1>3. /\ n \in Nat /\ DOMAIN Members(runner.phase) = 1..n
      /\ runner.phase \in {"upstream", "assess"} => n = 1
  BY <1>2, MembersAreASequence
<1>4. m \in Nat \ {0}
  BY DEF IInv, Shape
<1> HIDE DEF n, m
<1>5. m \in 1..n /\ (n = 1 => m = 1)
  BY <1>1, <1>3, <1>4
<1> QED BY <1>2, <1>3, <1>4, <1>5 DEF m

\* While a case is worked on, its estimate stays reserved.
LEMMA StaysReserved ==
  ASSUME IInv, runner.pc = "execute", runner'.phase = runner.phase,
         UNCHANGED <<spent, overrun>>
  PROVE  Reserved'
<1>1. CeilingOf(runner.phase)' = CeilingOf(runner.phase)
  BY DEF CeilingOf, Members
<1> QED BY <1>1 DEF IInv, Reserved

LEMMA ReuseKeeps ==
  ASSUME IInv, Reuse
  PROVE  IInv'
<1>1. /\ Executing /\ IsReusable /\ runner.pc = "execute"
      /\ runner' = [runner EXCEPT !.member = runner.member + 1]
      /\ UNCHANGED <<rows, spent, overrun, unknown, file, spec>>
  BY DEF Reuse, Executing, database, history
<1>2. /\ runner.phase \in Phases /\ runner.member \in Nat
  BY <1>1, Working
<1>3. DOMAIN runner = DOMAIN Idle
  BY DEF IInv, Shape
<1>4. /\ runner'.pc = "execute" /\ runner'.phase = runner.phase /\ runner'.of = runner.of
      /\ runner'.own = runner.own /\ runner'.cost = runner.cost
      /\ runner'.known = runner.known /\ DOMAIN runner' = DOMAIN Idle
  BY <1>1, <1>3 DEF Idle
<1>5. runner'.member = runner.member + 1
  <2>1. "member" \in DOMAIN runner
    BY <1>3 DEF Idle
  <2> QED BY <1>1, <2>1
<1>6. Seen' = Seen
  BY <1>1, <1>4 DEF Seen
<1>7. Members(runner.phase)' = Members(runner.phase)
  BY <1>2, <1>4 DEF Members, Phases
<1>8. RunnerOK'
  BY <1>1, <1>2, <1>4 DEF RunnerOK, IInv, Recorded
<1>9. Shape'
  <2>1. runner'.member \in Nat \ {0}
    BY <1>2, <1>5
  <2>2. IsSequence(rows') /\ IsSequence(runner'.own)
    BY <1>1, <1>4 DEF IInv, Shape
  <2>3. \A i \in DOMAIN Seen' : Seen'[i].status \in {"succeeded", "failed"}
    BY <1>6 DEF IInv, Shape
  <2>4. spent' \in Nat /\ unknown' \in BOOLEAN /\ runner'.cost \in Nat /\ runner'.known \in BOOLEAN
    BY <1>1, <1>4 DEF IInv, Shape
  <2>5. DOMAIN runner' = DOMAIN Idle'
    BY <1>4 DEF Idle
  <2> QED BY <2>1, <2>2, <2>3, <2>4, <2>5 DEF Shape
<1>10. Reserved'
  BY <1>1, <1>4, StaysReserved
<1>11. CaseOK'
  <2>1. ~unknown /\ \A i \in DOMAIN runner.own :
          runner.own[i].phase = runner.phase /\ runner.own[i].of = runner.of
    BY <1>1 DEF IInv, CaseOK
  <2>2. runner'.member # 1
    BY <1>5, <1>2, Working, <1>1 DEF IInv, Shape
  <2>3. ASSUME NEW k \in 1..(runner'.member - 1)
        PROVE  RowsOf(runner.phase, runner.of, Members(runner.phase)[k]) # {}
    <3>1. k \in 1..(runner.member - 1) \/ k = runner.member
      BY <1>2, <1>5
    <3>2. CASE k = runner.member
      BY <1>1, <3>2 DEF IsReusable, Member, Succeeded
    <3>3. CASE k \in 1..(runner.member - 1)
      BY <1>1, <3>3 DEF IInv, CaseOK, HasRow
    <3> QED BY <3>1, <3>2, <3>3
  <2>4. \A k \in 1..(runner'.member - 1) : HasRow(Members(runner.phase)[k])'
    BY <1>4, <1>6, <1>7, <2>3 DEF HasRow, RowsOf
  <2> QED BY <1>1, <1>4, <2>1, <2>2, <2>4 DEF CaseOK
<1>12. OneSuccess(Seen)'
  BY <1>6 DEF IInv, OneSuccess
<1>13. ProgressIsDurable'
  BY <1>1, Durable, DurableAfter DEF Upstreams, IInv
<1> QED BY <1>8, <1>9, <1>10, <1>11, <1>12, <1>13 DEF IInv

LEMMA AppendedBehind ==
  ASSUME NEW s, IsSequence(s), NEW t, IsSequence(t), NEW e
  PROVE  s \o Append(t, e) = Append(s \o t, e)
<1> DEFINE S == ToSet(s) \cup ToSet(t) \cup {e}
<1>1. s \in Seq(S) /\ t \in Seq(S) /\ e \in S
  <2>1. s \in Seq(ToSet(s)) /\ t \in Seq(ToSet(t))
    BY DEF IsSequence
  <2> QED BY <2>1
<1> HIDE DEF S
<1> QED BY <1>1

\* What a member makes of a case is its first success, and of an upstream report or
\* an assessment the first of all.
LEMMA MadeOnce ==
  ASSUME IInv, Executing, ~IsReusable, NEW i \in DOMAIN Seen,
         Seen[i].phase = runner.phase, Seen[i].of = runner.of, Seen[i].by = Member
  PROVE  runner.phase # "assess" /\ Seen[i].status = "failed"
<1>1. /\ runner.phase \in Phases /\ runner.pc = "execute"
      /\ runner.phase \in {"upstream", "assess"} => runner.member = 1
  BY Working DEF Executing
<1>2. i \in RowsOf(runner.phase, runner.of, Member)
  BY DEF RowsOf
<1>3. Seen[i].status \in {"succeeded", "failed"}
  BY DEF IInv, Shape
<1>4. CASE runner.phase \in {"pr", "aggregate"}
  BY <1>2, <1>3, <1>4 DEF IsReusable, IsComparison, Succeeded
<1>5. CASE runner.phase \in {"upstream", "assess"}
  <2>1. Existing(runner.phase, runner.of) = {}
    BY <1>1, <1>5 DEF IInv, CaseOK
  <2>2. CASE runner.phase = "upstream"
    <3>1. Member = Upstream
      BY <1>1, <2>2 DEF Member, Members
    <3> QED BY <1>2, <1>3, <2>1, <2>2, <3>1 DEF Existing, Succeeded
  <2>3. CASE runner.phase = "assess"
    <3>1. Member = Assessor
      BY <1>1, <2>3 DEF Member, Members
    <3> QED BY <1>2, <2>1, <2>3, <3>1 DEF Existing
  <2> QED BY <1>5, <2>2, <2>3
<1> QED BY <1>1, <1>4, <1>5 DEF Phases

LEMMA CallKeeps ==
  ASSUME IInv, Call
  PROVE  IInv'
<1> DEFINE row(o) == [phase |-> runner.phase, of |-> runner.of, by |-> Member,
                      status |-> o.status]
<1>1. PICK o \in Outcomes :
        runner' = [runner EXCEPT
                     !.member = runner.member + 1,
                     !.own = Append(runner.own, row(o)),
                     !.cost = runner.cost + (IF o.known THEN o.cost ELSE 0),
                     !.known = runner.known /\ o.known]
  BY DEF Call
<1>2. /\ Executing /\ ~IsReusable /\ runner.pc = "execute"
      /\ UNCHANGED <<rows, spent, overrun, unknown, file, spec>>
  BY DEF Call, Executing, database, history
<1>3. /\ runner.phase \in Phases /\ runner.member \in Nat
      /\ runner.member \in DOMAIN Members(runner.phase)
  BY <1>2, Working
<1> DEFINE e == row(o)
<1>4. /\ e.phase = runner.phase /\ e.of = runner.of /\ e.by = Member
      /\ e.status \in {"succeeded", "failed"}
  BY WorkflowAssumption
<1>5. o.cost \in Nat /\ o.known \in BOOLEAN
  BY WorkflowAssumption
<1>6. DOMAIN runner = DOMAIN Idle
  BY DEF IInv, Shape
<1>7. runner' = [runner EXCEPT
                   !.member = runner.member + 1, !.own = Append(runner.own, e),
                   !.cost = runner.cost + (IF o.known THEN o.cost ELSE 0),
                   !.known = runner.known /\ o.known]
  BY <1>1
<1> HIDE DEF e, row
<1>8. /\ runner'.pc = "execute" /\ runner'.phase = runner.phase /\ runner'.of = runner.of
      /\ runner'.own = Append(runner.own, e) /\ DOMAIN runner' = DOMAIN Idle
  BY <1>2, <1>6, <1>7 DEF Idle
<1>9. runner'.member = runner.member + 1
  BY <1>6, <1>7 DEF Idle
<1>10. runner'.cost = runner.cost + (IF o.known THEN o.cost ELSE 0)
  BY <1>6, <1>7 DEF Idle
<1>11. runner'.known = (runner.known /\ o.known)
  BY <1>6, <1>7 DEF Idle
<1>12. IsSequence(rows) /\ IsSequence(runner.own)
  BY DEF IInv, Shape
<1>13. IsSequence(Seen) /\ Seen' = Append(Seen, e)
  <2>1. Seen' = rows \o Append(runner.own, e)
    BY <1>2, <1>8 DEF Seen
  <2>2. rows \o Append(runner.own, e) = Append(Seen, e)
    BY <1>12, AppendedBehind DEF Seen
  <2>3. IsSequence(Seen)
    BY <1>12, Concatenated DEF Seen
  <2> QED BY <2>1, <2>2, <2>3
<1> DEFINE n == Len(Seen)
<1>14. /\ Extends(Seen', Seen) /\ DOMAIN Seen' = DOMAIN Seen \cup {n + 1} /\ Seen'[n + 1] = e
       /\ n + 1 \notin DOMAIN Seen
  <2>1. DOMAIN Seen = 1..n /\ n \in Nat
    BY <1>13, Sequence
  <2>2. /\ Extends(Seen', Seen) /\ DOMAIN Seen' = 1..(n + 1) /\ Seen'[n + 1] = e
    BY <1>13, Appended
  <2>3. 1..(n + 1) = (1..n) \cup {n + 1} /\ n + 1 \notin 1..n
    BY <2>1
  <2> QED BY <2>1, <2>2, <2>3
<1> HIDE DEF n
<1>15. Members(runner.phase)' = Members(runner.phase)
  BY <1>3, <1>8 DEF Members, Phases
<1>16. RunnerOK'
  BY <1>2, <1>3, <1>8 DEF RunnerOK, IInv, Recorded
<1>17. Shape'
  <2>1. runner'.member \in Nat \ {0}
    BY <1>3, <1>9
  <2>2. IsSequence(rows') /\ IsSequence(runner'.own)
    BY <1>2, <1>8, <1>12, Appended
  <2>3. \A i \in DOMAIN Seen' : Seen'[i].status \in {"succeeded", "failed"}
    BY <1>4, <1>14 DEF IInv, Shape, Extends
  <2>4. runner'.cost \in Nat
    <3>1. runner.cost \in Nat
      BY DEF IInv, Shape
    <3> QED BY <1>5, <1>10, <3>1
  <2>5. runner'.known \in BOOLEAN
    BY <1>11
  <2>6. spent' \in Nat /\ unknown' \in BOOLEAN
    BY <1>2 DEF IInv, Shape
  <2>7. DOMAIN runner' = DOMAIN Idle'
    BY <1>8 DEF Idle
  <2> QED BY <2>1, <2>2, <2>3, <2>4, <2>5, <2>6, <2>7 DEF Shape
<1>18. Reserved'
  BY <1>2, <1>8, StaysReserved
<1>19. CaseOK'
  <2>1. ~unknown /\ \A i \in DOMAIN runner.own :
          runner.own[i].phase = runner.phase /\ runner.own[i].of = runner.of
    BY <1>2 DEF IInv, CaseOK
  <2>2. \A i \in DOMAIN runner'.own :
          runner'.own[i].phase = runner'.phase /\ runner'.own[i].of = runner'.of
    <3>1. DOMAIN runner.own = 1..Len(runner.own) /\ Len(runner.own) \in Nat
      BY <1>12, Sequence
    <3>2. /\ DOMAIN runner'.own = 1..(Len(runner.own) + 1)
          /\ Extends(runner'.own, runner.own) /\ runner'.own[Len(runner.own) + 1] = e
      BY <1>8, <1>12, Appended
    <3>3. DOMAIN runner'.own = DOMAIN runner.own \cup {Len(runner.own) + 1}
      BY <3>1, <3>2
    <3> QED BY <1>4, <1>8, <2>1, <3>2, <3>3 DEF Extends
  <2>3. runner'.member # 1
    <3>1. runner.member \in Nat \ {0}
      BY DEF IInv, Shape
    <3> QED BY <1>9, <3>1
  <2>4. ASSUME NEW by PROVE
          RowsOf(runner.phase, runner.of, by) \subseteq
            {i \in DOMAIN Seen' : /\ Seen'[i].phase = runner.phase
                                  /\ Seen'[i].of = runner.of /\ Seen'[i].by = by}
    BY <1>14 DEF RowsOf, Extends
  <2>5. ASSUME NEW k \in 1..(runner'.member - 1)
        PROVE  {i \in DOMAIN Seen' : /\ Seen'[i].phase = runner.phase
                                     /\ Seen'[i].of = runner.of
                                     /\ Seen'[i].by = Members(runner.phase)[k]} # {}
    <3>1. k \in 1..(runner.member - 1) \/ k = runner.member
      BY <1>3, <1>9
    <3>2. CASE k = runner.member
      BY <1>4, <1>14, <3>2 DEF Member
    <3>3. CASE k \in 1..(runner.member - 1)
      <4>1. RowsOf(runner.phase, runner.of, Members(runner.phase)[k]) # {}
        BY <1>2, <3>3 DEF IInv, CaseOK, HasRow
      <4> QED BY <2>4, <4>1
    <3> QED BY <3>1, <3>2, <3>3
  <2>6. \A k \in 1..(runner'.member - 1) : HasRow(Members(runner.phase)[k])'
    BY <1>8, <1>15, <2>5 DEF HasRow, RowsOf
  <2> QED BY <1>2, <1>8, <2>1, <2>2, <2>3, <2>6 DEF CaseOK
<1>20. OneSuccess(Seen')
  <2> SUFFICES ASSUME NEW i \in DOMAIN Seen', NEW j \in DOMAIN Seen',
                      Seen'[i].phase = Seen'[j].phase, Seen'[i].of = Seen'[j].of,
                      Seen'[i].by = Seen'[j].by,
                      Seen'[i].phase = "assess"
                        \/ "failed" \notin {Seen'[i].status, Seen'[j].status}
               PROVE  i = j
    BY DEF OneSuccess
  <2>1. CASE i \in DOMAIN Seen /\ j \in DOMAIN Seen
    BY <1>14, <2>1 DEF IInv, OneSuccess, Extends
  <2>2. ASSUME NEW k \in DOMAIN Seen,
               e.phase = Seen[k].phase, e.of = Seen[k].of, e.by = Seen[k].by
        PROVE  e.phase # "assess" /\ Seen[k].status = "failed"
    BY <1>2, <1>4, <2>2, MadeOnce
  <2>3. CASE i \in DOMAIN Seen /\ j = n + 1
    BY <1>14, <2>2, <2>3 DEF Extends
  <2>4. CASE j \in DOMAIN Seen /\ i = n + 1
    BY <1>14, <2>2, <2>4 DEF Extends
  <2> QED BY <1>14, <2>1, <2>3, <2>4
<1>21. ProgressIsDurable'
  BY <1>2, Durable, DurableAfter DEF Upstreams, IInv
<1> QED BY <1>16, <1>17, <1>18, <1>19, <1>20, <1>21 DEF IInv, OneSuccess

LEMMA CommitKeeps ==
  ASSUME IInv, Commit
  PROVE  IInv'
<1>1. /\ runner.pc = "execute" /\ runner.member > Len(Members(runner.phase))
      /\ rows' = Seen /\ spent' = spent + runner.cost
      /\ unknown' = (unknown \/ ~runner.known)
      /\ runner' = [Idle EXCEPT !.pc = "save", !.phase = runner.phase, !.of = runner.of]
      /\ UNCHANGED <<file, spec>>
  BY DEF Commit, Executed
<1>2. runner.phase \in Phases /\ ~Recorded(runner.phase, runner.of)
  BY <1>1 DEF IInv, RunnerOK
<1>3. /\ runner'.pc = "save" /\ runner'.phase = runner.phase /\ runner'.of = runner.of
      /\ runner'.member = 1 /\ runner'.own = <<>> /\ runner'.cost = 0
  BY <1>1 DEF Idle
<1>4. runner'.known = TRUE /\ DOMAIN runner' = DOMAIN Idle
  <2>1. runner'.known = TRUE
    BY <1>1 DEF Idle
  <2>2. DOMAIN runner' = DOMAIN Idle
    BY <1>1
  <2> QED BY <2>1, <2>2
<1>5. IsSequence(Seen) /\ Extends(Seen, rows)
  BY Concatenated DEF Seen, IInv, Shape
<1>6. Seen' = Seen
  <2>1. Seen' = Seen \o <<>>
    BY <1>1, <1>3 DEF Seen
  <2> QED BY <1>5, <2>1, Concatenated, NothingIsASequence
<1>7. RunnerOK'
  BY <1>1, <1>2, <1>3 DEF RunnerOK, Recorded, Idle
<1>8. Shape'
  <2>1. IsSequence(rows') /\ IsSequence(runner'.own)
    BY <1>1, <1>3, <1>5, NothingIsASequence
  <2>2. \A i \in DOMAIN Seen' : Seen'[i].status \in {"succeeded", "failed"}
    BY <1>6 DEF IInv, Shape
  <2>3. spent' \in Nat
    <3>1. spent \in Nat /\ runner.cost \in Nat
      BY DEF IInv, Shape
    <3> QED BY <1>1, <3>1
  <2>4. unknown' \in BOOLEAN
    BY <1>1
  <2>5. runner'.member \in Nat \ {0} /\ runner'.cost \in Nat
    BY ONLY <1>3
  <2>6. runner'.known \in BOOLEAN /\ DOMAIN runner' = DOMAIN Idle'
    BY <1>4 DEF Idle
  <2> QED BY <2>1, <2>2, <2>3, <2>4, <2>5, <2>6 DEF Shape
<1>9. Reserved'
  <2> DEFINE estimate == Ceiling * Len(Members(runner.phase))
  <2>1. estimate \in Nat
    <3>1. \A a, b \in Nat : a * b \in Nat
      OBVIOUS
    <3> QED BY <1>2, <3>1, MembersAreASequence, WorkflowAssumption
  <2>2. spent + estimate <= Cap
    BY <1>1 DEF IInv, Reserved, CeilingOf
  <2>3. spent \in Nat /\ runner.cost \in Nat /\ Cap \in Nat
    BY WorkflowAssumption DEF IInv, Shape
  <2>4. overrun' = Max({0, runner.cost - estimate})
    BY DEF Commit
  <2> HIDE DEF estimate
  <2>5. overrun' \in Nat /\ runner.cost - estimate <= overrun'
    BY <2>1, <2>3, <2>4, MaxOfTwo
  <2> QED BY <1>1, <1>3, <2>1, <2>2, <2>3, <2>5 DEF Reserved
<1>10. CaseOK'
  <2>1. DOMAIN Members(runner.phase) = 1..Len(Members(runner.phase))
        /\ Len(Members(runner.phase)) \in Nat
    BY <1>2, MembersAreASequence
  <2>2. runner.member \in Nat
    BY DEF IInv, Shape
  <2>3. DOMAIN Members(runner.phase) \subseteq 1..(runner.member - 1)
    BY <1>1, <2>1, <2>2
  <2>4. \A m \in DOMAIN Members(runner.phase) :
          RowsOf(runner.phase, runner.of, Members(runner.phase)[m]) # {}
    BY <1>1, <2>3 DEF IInv, CaseOK, HasRow
  <2>5. Members(runner.phase)' = Members(runner.phase)
    BY <1>2, <1>3 DEF Members, Phases
  <2>6. \A m \in DOMAIN Members(runner.phase) : HasRow(Members(runner.phase)[m])'
    BY <1>3, <1>6, <2>4, <2>5 DEF HasRow, RowsOf
  <2> QED BY <1>3, <2>5, <2>6 DEF CaseOK
<1>11. OneSuccess(Seen)'
  BY <1>6 DEF IInv, OneSuccess
<1>12. ProgressIsDurable'
  BY <1>1, <1>5, RowsGrow DEF IInv
<1> QED BY <1>7, <1>8, <1>9, <1>10, <1>11, <1>12 DEF IInv

LEMMA SaveKeeps ==
  ASSUME IInv, Save
  PROVE  IInv'
<1> DEFINE phase == runner.phase
           of == runner.of
           members == Members(phase)
           entry == [m \in DOMAIN members |-> [row |-> RowOf(members[m]),
                                               status |-> Seen[RowOf(members[m])].status]]
<1>1. /\ runner.pc = "save" /\ Record(phase, of, entry)
      /\ UNCHANGED <<rows, spent, overrun, unknown, spec>>
      /\ \/ runner' = Idle
         \/ runner' = [Idle EXCEPT !.pc = "next", !.phase = phase]
  BY DEF Save, database, history
<1>2. phase \in Phases /\ ~Recorded(phase, of)
  BY <1>1 DEF IInv, RunnerOK
<1>3. Kept /\ Seen = rows
  BY <1>1, IsKept, SeesTheRows DEF IInv, Shape
<1>4. Len(rows) \in Nat /\ DOMAIN rows = 1..Len(rows)
  BY <1>3, Sequence DEF Kept
<1>5. ASSUME NEW by, HasRow(by)
      PROVE  RowOf(by) \in RowsOf(phase, of, by)
  <2> DEFINE mine == RowsOf(phase, of, by)
             chosen == IF Succeeded(mine) # {} THEN Succeeded(mine) ELSE mine
  <2>1. mine # {} /\ mine \subseteq DOMAIN rows
    BY <1>3, <1>5 DEF HasRow, RowsOf
  <2>2. chosen # {} /\ chosen \subseteq mine
    BY <2>1 DEF Succeeded
  <2>3. RowOf(by) = Max(chosen)
    BY DEF RowOf
  <2> HIDE DEF chosen
  <2> QED BY <1>4, <2>1, <2>2, <2>3, MaxIsMember
<1>6. \A m \in DOMAIN members : HasRow(members[m])
  BY <1>1 DEF IInv, CaseOK
<1>7. \A m \in DOMAIN entry : IsMember(rows, entry[m], phase, of, Members(phase)[m])
  <2> SUFFICES ASSUME NEW m \in DOMAIN members
               PROVE  IsMember(rows, entry[m], phase, of, members[m])
    OBVIOUS
  <2>1. RowOf(members[m]) \in RowsOf(phase, of, members[m])
    BY <1>5, <1>6
  <2>2. entry[m].row = RowOf(members[m]) /\ entry[m].status = rows[RowOf(members[m])].status
    BY <1>3
  <2> HIDE DEF entry, members
  <2> QED BY <1>3, <2>1, <2>2 DEF RowsOf, IsMember
<1>8. \/ runner' = Idle
      \/ \E p \in Phases : \E c :
           runner' = [Idle EXCEPT !.pc = "next", !.phase = p, !.of = c]
  <2>1. CASE runner' = [Idle EXCEPT !.pc = "next", !.phase = phase]
    <3>1. runner' = [Idle EXCEPT !.pc = "next", !.phase = phase, !.of = <<>>]
      BY <2>1, IdleHasNoCase
    <3> QED BY <1>2, <3>1
  <2> QED BY <1>1, <2>1
<1> HIDE DEF entry
<1> QED BY <1>1, <1>2, <1>3, <1>7, <1>8, RecordingKeeps

LEMMA PublishForeignKeeps ==
  ASSUME IInv, NEW case, PublishForeign(case)
  PROVE  IInv'
<1> DEFINE e == [phase |-> "upstream", of |-> <<case>>, by |-> Foreign,
                 status |-> "succeeded"]
<1>1. /\ runner = Idle /\ rows' = Append(rows, e)
      /\ RowsOf("upstream", <<case>>, Foreign) = {}
      /\ UNCHANGED <<spent, overrun, unknown, file, spec, runner>>
  BY DEF PublishForeign, history
<1>2. e.phase = "upstream" /\ e.of = <<case>> /\ e.by = Foreign /\ e.status = "succeeded"
  OBVIOUS
<1> HIDE DEF e
<1>3. Kept /\ Seen = rows
  <2>1. runner.pc # "execute"
    BY <1>1 DEF Idle
  <2> QED BY <2>1, IsKept, SeesTheRows DEF IInv, Shape
<1> DEFINE n == Len(rows)
<1>4. /\ IsSequence(rows') /\ Extends(rows', rows) /\ DOMAIN rows' = DOMAIN rows \cup {n + 1}
      /\ rows'[n + 1] = e /\ n + 1 \notin DOMAIN rows
  <2>1. DOMAIN rows = 1..n /\ n \in Nat
    BY <1>3, Sequence DEF Kept
  <2>2. /\ IsSequence(rows') /\ Extends(rows', rows) /\ DOMAIN rows' = 1..(n + 1)
        /\ rows'[n + 1] = e
    BY <1>1, <1>3, Appended DEF Kept
  <2>3. 1..(n + 1) = (1..n) \cup {n + 1} /\ n + 1 \notin 1..n
    BY <2>1
  <2> QED BY <2>1, <2>2, <2>3
<1> HIDE DEF n
<1>5. Statuses(rows')
  BY <1>2, <1>3, <1>4 DEF Kept, Statuses, Extends
<1>6. OneSuccess(rows')
  <2>1. \A k \in DOMAIN rows :
          ~(rows[k].phase = e.phase /\ rows[k].of = e.of /\ rows[k].by = e.by)
    BY <1>1, <1>2, <1>3 DEF RowsOf
  <2> QED BY <1>3, <1>4, <2>1 DEF Kept, OneSuccess, Extends
<1>7. ProgressIsDurable'
  BY <1>1, <1>3, <1>4, RowsGrow DEF Kept
<1>8. Kept'
  BY <1>1, <1>3, <1>4, <1>5, <1>6, <1>7 DEF Kept, Statuses, OneSuccess
<1>9. runner' = Idle'
  BY <1>1 DEF Idle
<1> QED BY <1>8, <1>9, RestStaysSafe DEF Rested

-----------------------------------------------------------------------------
(* Theorems *)

\* The invariant behind the others holds however the runner, its crashes and the
\* operator's other tools interleave.
THEOREM Invariance == Spec => []IInv
<1>1. Init => IInv
  BY InitRests
<1>2. IInv /\ [Next]_vars => IInv'
  <2> SUFFICES ASSUME IInv, [Next]_vars PROVE IInv'
    OBVIOUS
  <2>1. ASSUME NEW phase \in Phases, Start(phase) PROVE IInv'
    BY <2>1, QuietSteps
  <2>2. ASSUME NEW phase \in Phases,
               Stop(phase) \/ Recover(phase) \/ SkipFailedTarget(phase) \/ Begin(phase)
        PROVE  IInv'
    BY <2>2, QuietSteps, RecoverKeeps, SkipKeeps, BeginKeeps
  <2>3. CASE Reuse \/ Call \/ Commit \/ Save
    BY <2>3, ReuseKeeps, CallKeeps, CommitKeeps, SaveKeeps
  <2>4. CASE Raise \/ Crash
    BY <2>4, QuietSteps DEF Phases
  <2>5. ASSUME NEW reports, FreezeAggregate(reports) PROVE IInv'
    BY <2>5, FreezeAggregateKeeps
  <2>6. CASE FreezeSpec
    BY <2>6, FreezeSpecKeeps
  <2>7. ASSUME NEW case, Move(case) \/ PublishForeign(case) PROVE IInv'
    BY <2>7, MoveKeeps, PublishForeignKeeps
  <2>8. CASE UNCHANGED vars
    BY <2>8, FreezeAggregateKeeps
  <2> QED BY <2>1, <2>2, <2>3, <2>4, <2>5, <2>6, <2>7, <2>8 DEF Next, Step
<1> QED BY <1>1, <1>2, PTL DEF Spec

\* Recorded spend exceeds the cap by no more than what the case committed last has cost
\* above its estimate, whatever members cost: `_ceiling' reserves the estimate of every
\* member, baselines included, before a case begins, and what is recorded counts then.
THEOREM CapIsKept == Spec => []CapHoldsUpToOneCase
<1>1. IInv => CapHoldsUpToOneCase
  BY DEF IInv, Reserved, CapHoldsUpToOneCase
<1> QED BY <1>1, Invariance, PTL

\* Whatever the progress file records is a committed row of that case, recipe and
\* status, and the frozen run spec names the recorded reports, whenever the runner died.
THEOREM ProgressStaysDurable == Spec => []ProgressIsDurable
<1>1. IInv => ProgressIsDurable
  BY DEF IInv
<1> QED BY <1>1, Invariance, PTL

\* No member of a case has two successes, and no target two assessments, although the
\* record of a committed case may have been lost.
THEOREM NothingPaidTwice == Spec => []SuccessesAreNotRepeated
<1>1. IInv => SuccessesAreNotRepeated
  BY IsKept DEF Kept, OneSuccess, SuccessesAreNotRepeated
<1> QED BY <1>1, Invariance, PTL

\* After a cost that nobody could tell no case is begun.
THEOREM UnknownStops == Spec => []UnknownCostStops
<1>1. IInv => UnknownCostStops
  BY DEF IInv, CaseOK, UnknownCostStops
<1> QED BY <1>1, Invariance, PTL
=============================================================================
