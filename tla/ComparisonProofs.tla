--------------------------- MODULE ComparisonProofs ----------------------------
(***************************************************************************)
(* Proofs about Comparison, for any number of processes, recipes, sources, *)
(* command lines and provider answers.  A step of one run leaves the state *)
(* of every other run alone, so the invariant of the others is preserved   *)
(* for the asking; what they may depend on is that a success, once         *)
(* durable, stays (SuccessesKept).                                         *)
(***************************************************************************)
EXTENDS ComparisonInv, StructuredCallsProofs, TLAPS

-----------------------------------------------------------------------------
(* Rows and requests *)

LEMMA RowTypes ==
  /\ NoMember \in MemberRows /\ PendingMember \in MemberRows
  /\ NoRow \in ResultRows /\ Absent \in Rows
<1>1. NoMember \in MemberRows /\ PendingMember \in MemberRows /\ NoRow \in ResultRows
  BY DEF NoMember, PendingMember, NoRow, MemberRows, ResultRows
<1> QED BY <1>1 DEF Absent, Rows

LEMMA RequestTypes ==
  ASSUME NEW q \in Requests
  PROVE  /\ q.source \in Sources /\ q.regenerate \in BOOLEAN
         /\ Len(q.plan) \in Nat /\ Len(q.plan) >= 2
         /\ \A i \in 1..Len(q.plan) : q.plan[i] \in Recipes
         /\ \A i, j \in 1..Len(q.plan) : q.plan[i] = q.plan[j] => i = j
BY ConstantsAssumption

LEMMA FrozenRowsType ==
  ASSUME NEW q \in Requests
  PROVE  FrozenRows(q) \in Rows
<1>1. q.source \in Sources \cup {NoSource} /\ q.regenerate \in BOOLEAN
  BY RequestTypes
<1> QED BY <1>1, RowTypes DEF FrozenRows, Absent, Rows

-----------------------------------------------------------------------------
(* Frames *)

\* One run acts.
Acts(r) == Begin(r) \/ Step(r) \/ Unwind(r)

\* A block changes the rows of the run it belongs to, for itself at once and for the
\* world if the connection was idle.
LEMMA BlockEffect ==
  ASSUME TypeOK, NEW r \in Runs, NEW rows \in Rows, Block(r, rows)
  PROVE  /\ committed' \in [Runs -> Rows] /\ working' \in [Runs -> Rows] /\ open' = open
         /\ working'[r] = rows
         /\ committed'[r] = IF open[r] THEN committed[r] ELSE rows
         /\ \A x \in Runs \ {r} : working'[x] = working[x] /\ committed'[x] = committed[x]
BY DEF TypeOK, Block

\* The local state of the run that acts is replaced.
LEMMA ControlEffect ==
  ASSUME TypeOK, NEW r \in Runs, NEW new \in Control, run' = [run EXCEPT ![r] = new]
  PROVE  /\ run' \in [Runs -> Control] /\ run'[r] = new
         /\ \A x \in Runs \ {r} : run'[x] = run[x]
BY DEF TypeOK

\* What a step of r leaves alone.
Unmoved(x) ==
  /\ run'[x] = run[x] /\ working'[x] = working[x] /\ committed'[x] = committed[x]
  /\ open'[x] = open[x] /\ billed'[x] = billed[x]

LEMMA OthersUnmoved ==
  ASSUME TypeOK, NEW r \in Runs, Acts(r), NEW x \in Runs \ {r}
  PROVE  Unmoved(x)
<1> USE DEF TypeOK, Unmoved
<1>1. CASE Begin(r)
  BY <1>1 DEF Begin
<1>2. CASE Unwind(r)
  BY <1>2 DEF Unwind, Exit
<1>3. CASE create_invocation(r)
  BY <1>3 DEF create_invocation, Block
<1>4. CASE Lookup(r)
  BY <1>4 DEF Lookup, PlainStatement
<1>5. CASE reuse_result(r)
  BY <1>5 DEF reuse_result, Block
<1>6. CASE Preflight(r)
  BY <1>6 DEF Preflight, Decide, db
<1>7. CASE Oversized(r)
  BY <1>7 DEF Oversized, Decide, db
<1>8. CASE Send(r)
  BY <1>8 DEF Send, Goto, db
<1>9. CASE Answer(r)
  BY <1>9 DEF Answer, db
<1>10. CASE save_result(r)
  BY <1>10 DEF save_result, Block
<1>11. CASE complete_invocation(r)
  BY <1>11 DEF complete_invocation, Block, Goto
<1>12. CASE Close(r)
  BY <1>12 DEF Close, Exit
<1> QED BY <1>1, <1>2, <1>3, <1>4, <1>5, <1>6, <1>7, <1>8, <1>9, <1>10, <1>11, <1>12
        DEF Acts, Step

\* The invariant of a run that did not move is preserved.
LEMMA UnmovedOK ==
  ASSUME NEW x \in Runs, Unmoved(x), RunOK(x)
  PROVE  RunOK(x)'
<1> USE DEF Unmoved
<1>1. ControlOK(x)'
  BY DEF RunOK, ControlOK, Plan
<1>2. VisibilityOK(x)'
  BY DEF RunOK, VisibilityOK
<1>3. WorkingOK(x)'
  <2>1. Plan(x)' = Plan(x) /\ SentNow(x)' = SentNow(x)
    BY DEF Plan, SentNow
  <2>2. \A i : Untouched(x, i)' <=> Untouched(x, i)
    BY <2>1 DEF Untouched
  <2> QED BY <2>1, <2>2 DEF RunOK, WorkingOK
<1>4. PlanOK(x)'
  BY DEF RunOK, PlanOK
<1>5. GeneratedOK(x)'
  BY DEF RunOK, GeneratedOK
<1> QED BY <1>1, <1>2, <1>3, <1>4, <1>5 DEF RunOK

-----------------------------------------------------------------------------
(* What every action of a run establishes *)

\* ReuseIsSound for one run.
ReusedOK(r) ==
  \A c \in Recipes :
    working[r].members[c].state = "reused" =>
      /\ working[r].members[c].calls = 0 /\ working[r].members[c].cost = "not_incurred"
      /\ billed[r][c] = 0 /\ ~working[r].forced
      /\ \E q \in Runs \ {r} :
           /\ working[r].members[c].result = <<q, c>>
           /\ committed[q].source = working[r].source
           /\ committed[q].results[c].status = "succeeded"

\* A success that is durable stays, with the source it was made for.
SuccessesKept(r) ==
  \A c \in Recipes :
    committed[r].results[c].status = "succeeded" =>
      committed'[r].results[c].status = "succeeded" /\ committed'[r].source = committed[r].source

\* What the world sees of the run stays, or becomes what the run has done, which only
\* adds to what the world saw.
PublishesOK(r) ==
  \/ committed'[r] = committed[r]
  \/ /\ committed'[r] = working'[r] /\ run'[r].pc \in InPlan \cup {"report", "done"}
     /\ Ledger!Extends(committed[r], committed'[r])

StepOK(r) == TypeOK' /\ RunOK(r)' /\ ReusedOK(r)' /\ SuccessesKept(r) /\ PublishesOK(r)

LEMMA ReuseIsSoundPerRun == ReuseIsSound <=> \A r \in Runs : ReusedOK(r)
BY DEF ReuseIsSound, ReusedOK

\* A step that reuses nothing new keeps what was reused sound.
LEMMA ReusedKept ==
  ASSUME NEW r \in Runs, ReusedOK(r),
         \A q \in Runs \ {r} : committed'[q] = committed[q],
         working'[r].source = working[r].source, working'[r].forced = working[r].forced,
         \A c \in Recipes :
           working'[r].members[c].state = "reused" =>
             working'[r].members[c] = working[r].members[c] /\ billed'[r][c] = billed[r][c]
  PROVE  ReusedOK(r)'
BY DEF ReusedOK

LEMMA AbsentIsQuiet ==
  ASSUME NEW c \in Recipes
  PROVE  /\ Absent.members[c] = NoMember /\ Absent.members[c].state = "none"
         /\ Absent.results[c] = NoRow /\ Absent.results[c].status = "none"
         /\ Absent.source = NoSource /\ Absent.status = "absent"
BY DEF Absent, NoMember, NoRow

\* The ledger's vocabulary is the model's.
LEMMA LedgerVocabulary ==
  /\ Ledger!Rows = Rows /\ Ledger!Absent = Absent
  /\ \A m : Ledger!Settled(m) <=> Settled(m)
<1>1. Ledger!MemberRows = MemberRows /\ Ledger!ResultRows = ResultRows
  BY DEF Ledger!MemberRows, MemberRows, Ledger!ResultIds, ResultIds, Ledger!ResultRows, ResultRows
<1>2. Ledger!NoMember = NoMember /\ Ledger!NoRow = NoRow
  BY DEF Ledger!NoMember, NoMember, Ledger!NoRow, NoRow
<1> QED BY <1>1, <1>2 DEF Ledger!Rows, Rows, Ledger!Absent, Absent, Ledger!Settled, Settled

\* Anything extends rows that hold nothing.
LEMMA AbsentExtends == ASSUME NEW rows PROVE Ledger!Extends(Absent, rows)
<1>1. Absent.status = "absent"
  BY DEF Absent
<1>2. \A c \in Recipes : ~Ledger!Settled(Absent.members[c]) /\ Absent.results[c].status = "none"
  BY AbsentIsQuiet DEF Ledger!Settled
<1> QED BY <1>1, <1>2 DEF Ledger!Extends

-----------------------------------------------------------------------------
(* The actions, one by one *)

LEMMA BeginStep ==
  ASSUME NEW r \in Runs, IInv, Begin(r)
  PROVE  StepOK(r)
<1>1. TypeOK /\ RunOK(r) /\ ReusedOK(r) /\ run[r].pc = "idle"
  BY ReuseIsSoundPerRun DEF IInv, Begin
<1>2. PICK q \in Requests : \E m \in Modes[q] :
        /\ run' = [run EXCEPT ![r] = [@ EXCEPT !.pc = "plan", !.request = q, !.autocommit = m]]
        /\ open' = [open EXCEPT ![r] = ~m]
        /\ known' = [known EXCEPT ![r] = [c \in Recipes |-> Durable(q.source, c)]]
  BY DEF Begin
<1>3. PICK m \in Modes[q] :
        /\ run' = [run EXCEPT ![r] = [@ EXCEPT !.pc = "plan", !.request = q, !.autocommit = m]]
        /\ open' = [open EXCEPT ![r] = ~m]
        /\ known' = [known EXCEPT ![r] = [c \in Recipes |-> Durable(q.source, c)]]
  BY <1>2
<1>4. m \in BOOLEAN
  BY ConstantsAssumption
<1>5. UNCHANGED <<committed, working, billed, clock>>
  BY DEF Begin
<1> DEFINE new == [run[r] EXCEPT !.pc = "plan", !.request = q, !.autocommit = m]
<1>6. new \in Control /\ run' = [run EXCEPT ![r] = new]
  <2>1. run[r] \in Control /\ m \in BOOLEAN
    BY <1>1, <1>4 DEF TypeOK
  <2>2. new \in Control
    BY <2>1 DEF Control, Active
  <2> QED BY <1>3, <2>2
<1>7. run' \in [Runs -> Control] /\ run'[r] = new
  BY <1>1, <1>6, ControlEffect
<1>8. /\ run'[r].pc = "plan" /\ run'[r].request = q /\ run'[r].autocommit = m
      /\ run'[r].attempts = run[r].attempts /\ open'[r] = ~m /\ m \in BOOLEAN
  <2>1. run[r] \in Control /\ open'[r] = ~m /\ m \in BOOLEAN
    BY <1>1, <1>3, <1>4 DEF TypeOK
  <2> QED BY <1>7, <2>1 DEF Control
<1>9. TypeOK'
  <2>1. \A c \in Recipes : Durable(q.source, c) \in SUBSET Nat
    BY <1>1 DEF Durable, TypeOK, Rows, ResultRows
  <2>2. known' \in [Runs -> [Recipes -> SUBSET Nat]]
    BY <1>1, <1>3, <2>1 DEF TypeOK
  <2>3. open' \in [Runs -> BOOLEAN]
    BY <1>1, <1>3, <1>8 DEF TypeOK
  <2> QED BY <1>1, <1>5, <1>7, <2>2, <2>3 DEF TypeOK
<1>10. RunOK(r)'
  <2>1. ControlOK(r)'
    BY <1>1, <1>8 DEF RunOK, ControlOK, Executing
  <2>2. VisibilityOK(r)'
    BY <1>1, <1>5, <1>8 DEF RunOK, VisibilityOK, Active, PlanOK
  <2>3. WorkingOK(r)' /\ PlanOK(r)' /\ GeneratedOK(r)'
    BY <1>1, <1>5, <1>8 DEF RunOK, WorkingOK, PlanOK, GeneratedOK, InPlan, Executing
  <2> QED BY <2>1, <2>2, <2>3 DEF RunOK
<1> QED BY <1>1, <1>5, <1>9, <1>10, ReusedKept DEF StepOK, SuccessesKept, PublishesOK

LEMMA CreateStep ==
  ASSUME NEW r \in Runs, IInv, create_invocation(r)
  PROVE  StepOK(r)
<1> DEFINE q == run[r].request
           new == [run[r] EXCEPT !.pc = "member", !.pos = 1]
<1>1. TypeOK /\ RunOK(r) /\ run[r].pc = "plan" /\ q \in Requests
  BY DEF IInv, create_invocation, RunOK, ControlOK, Active
<1>2. /\ Block(r, FrozenRows(q)) /\ run' = [run EXCEPT ![r] = new]
      /\ UNCHANGED <<billed, known, clock>>
  BY DEF create_invocation
<1>3. /\ committed' \in [Runs -> Rows] /\ working' \in [Runs -> Rows] /\ open' = open
      /\ working'[r] = FrozenRows(q)
      /\ committed'[r] = IF open[r] THEN committed[r] ELSE FrozenRows(q)
      /\ \A x \in Runs \ {r} : committed'[x] = committed[x]
  <2>1. FrozenRows(q) \in Rows
    BY <1>1, FrozenRowsType
  <2> QED BY <1>1, <1>2, <2>1, BlockEffect
<1>4. new \in Control
  BY ZenonT(60), <1>1 DEF TypeOK, Control, Active
<1>5. run' \in [Runs -> Control] /\ run'[r] = new
  BY <1>1, <1>2, <1>4, ControlEffect
<1>6. /\ run'[r].pc = "member" /\ run'[r].pos = 1 /\ run'[r].request = q
      /\ run'[r].autocommit = run[r].autocommit /\ run'[r].attempts = <<>>
  BY <1>1, <1>5 DEF TypeOK, Control, RunOK, ControlOK, Executing
<1>7. working[r] = Absent /\ committed[r] = Absent
  BY <1>1 DEF RunOK, PlanOK, VisibilityOK
<1>8. /\ working'[r].status = "running" /\ working'[r].source = q.source
      /\ working'[r].forced = q.regenerate
      /\ \A c \in Recipes : /\ working'[r].results[c] = NoRow
                            /\ working'[r].members[c] = IF c \in Planned(q) THEN PendingMember
                                                                           ELSE NoMember
  BY <1>3 DEF FrozenRows, Absent
<1>9. TypeOK'
  BY <1>1, <1>2, <1>3, <1>5 DEF TypeOK
<1>10. ControlOK(r)' /\ VisibilityOK(r)'
  <2>1. 1 \in 1..(Len(q.plan) + 1)
    BY <1>1, RequestTypes
  <2>2. ControlOK(r)'
    BY <1>1, <1>6, <2>1 DEF ControlOK, Executing, Plan
  <2>3. VisibilityOK(r)'
    BY <1>1, <1>3, <1>6, <1>7 DEF RunOK, VisibilityOK, Active
  <2> QED BY <2>2, <2>3
<1>11. \A c \in Recipes : billed'[r][c] = 0
  BY <1>1, <1>2 DEF RunOK, PlanOK
<1>12. WorkingOK(r)'
  <2>1. SentNow(r)' = 0
    BY <1>6 DEF SentNow
  <2>2. \A i \in 1..Len(q.plan) : q.plan[i] \in Recipes /\ q.plan[i] \in Planned(q) /\ ~(i < 1)
    BY <1>1, RequestTypes DEF Planned
  <2>3. Plan(r)' = q.plan
    BY <1>6 DEF Plan
  <2>4. \A i \in 1..Len(q.plan) : Untouched(r, i)'
    BY <1>8, <1>11, <2>1, <2>2, <2>3 DEF Untouched
  <2> QED BY <1>6, <1>8, <2>2, <2>3, <2>4 DEF WorkingOK
<1>13. PlanOK(r)' /\ GeneratedOK(r)'
  BY <1>6, <1>8, <1>11 DEF PlanOK, GeneratedOK, PendingMember, NoMember
<1>14. ReusedOK(r)'
  BY <1>8 DEF ReusedOK, PendingMember, NoMember
<1>15. SuccessesKept(r)
  BY <1>7, AbsentIsQuiet DEF SuccessesKept
<1>16. PublishesOK(r)
  BY <1>3, <1>6, <1>7, AbsentExtends DEF PublishesOK, InPlan
<1> QED BY <1>9, <1>10, <1>12, <1>13, <1>14, <1>15, <1>16 DEF StepOK, RunOK

\* The member a run is at is planned, pending and untouched.
LEMMA CurrentMember ==
  ASSUME NEW r \in Runs, TypeOK, RunOK(r), run[r].pc \in InPlan,
         run[r].pos \in 1..Len(Plan(r))
  PROVE  /\ run[r].request \in Requests /\ run[r].pos \in Nat
         /\ Recipe(r) = Plan(r)[run[r].pos] /\ Recipe(r) \in Recipes
         /\ Recipe(r) \in Planned(run[r].request)
         /\ working[r].members[Recipe(r)] = PendingMember
         /\ working[r].results[Recipe(r)] = NoRow
         /\ billed[r][Recipe(r)] = SentNow(r)
         /\ \A i \in 1..Len(Plan(r)) :
              /\ Plan(r)[i] \in Recipes
              /\ Plan(r)[i] = Recipe(r) => i = run[r].pos
<1>1. run[r].request \in Requests
  BY DEF RunOK, ControlOK, InPlan, Executing, Active
<1>2. /\ Len(Plan(r)) \in Nat
      /\ \A i \in 1..Len(Plan(r)) : Plan(r)[i] \in Recipes
      /\ \A i, j \in 1..Len(Plan(r)) : Plan(r)[i] = Plan(r)[j] => i = j
  BY <1>1, RequestTypes DEF Plan
<1>3. Recipe(r) = Plan(r)[run[r].pos]
  BY DEF Recipe, Plan
<1>4. Untouched(r, run[r].pos)
  BY <1>2 DEF RunOK, WorkingOK
<1> QED BY <1>1, <1>2, <1>3, <1>4 DEF Untouched, Planned, Plan

\* A step that changes only the local state of a run, within one member.
LEMMA LocalStep ==
  ASSUME NEW r \in Runs, IInv, NEW new \in Control, run' = [run EXCEPT ![r] = new],
         run[r].pc \in InPlan, new.pc \in Executing \cup {"reuse"},
         run[r].pos \in 1..Len(Plan(r)), new.pos = run[r].pos,
         new.request = run[r].request, new.autocommit = run[r].autocommit,
         new.pc \notin Executing => new.attempts = <<>>,
         new.pc = "reuse" => new.cached \in ResultIds /\ ~new.request.regenerate,
         UNCHANGED <<committed, working, open, known, clock>>,
         billed' \in [Runs -> [Recipes -> Nat]],
         billed'[r][Recipe(r)] = Len(new.attempts) + (IF new.pc = "calling" THEN 1 ELSE 0),
         \A c \in Recipes : c # Recipe(r) => billed'[r][c] = billed[r][c]
  PROVE  StepOK(r)
<1>1. TypeOK /\ RunOK(r) /\ ReusedOK(r)
  BY ReuseIsSoundPerRun DEF IInv
<1>2. run' \in [Runs -> Control] /\ run'[r] = new
  BY <1>1, ControlEffect
<1>3. /\ run[r].request \in Requests /\ Recipe(r) = Plan(r)[run[r].pos]
      /\ Recipe(r) \in Planned(run[r].request)
      /\ working[r].members[Recipe(r)] = PendingMember
  BY <1>1, CurrentMember
<1>4. Plan(r)' = Plan(r) /\ SentNow(r)' = billed'[r][Recipe(r)]
  BY <1>2 DEF Plan, SentNow
<1>5. TypeOK'
  BY <1>1, <1>2 DEF TypeOK
<1>6. ControlOK(r)'
  BY <1>2, <1>3, <1>4 DEF ControlOK, Executing, Active
<1>7. VisibilityOK(r)'
  BY <1>1, <1>2 DEF RunOK, VisibilityOK, InPlan, Executing, Active
<1>8. WorkingOK(r)'
  <2>1. ASSUME NEW i \in 1..Len(Plan(r)), ~(i < run[r].pos)
        PROVE  Untouched(r, i)'
    <3>1. Untouched(r, i)
      BY <1>1, <2>1 DEF RunOK, WorkingOK
    <3>2. CASE i = run[r].pos
      BY <1>2, <1>3, <1>4, <3>1, <3>2 DEF Untouched
    <3>3. CASE i # run[r].pos
      <4>1. Plan(r)[i] \in Recipes /\ Plan(r)[i] # Recipe(r)
        BY <1>1, <3>3, CurrentMember
      <4>2. billed'[r][Plan(r)[i]] = billed[r][Plan(r)[i]]
        BY <4>1
      <4> QED BY <1>2, <1>4, <3>1, <3>3, <4>2 DEF Untouched
    <3> QED BY <3>2, <3>3
  <2> QED BY <1>1, <1>2, <1>4, <2>1 DEF RunOK, WorkingOK
<1>9. PlanOK(r)'
  BY <1>1, <1>2, <1>3 DEF RunOK, PlanOK, InPlan, Executing
<1>10. \A c \in Recipes :
         working[r].members[c].state \in {"generated", "reused"} => billed'[r][c] = billed[r][c]
  BY <1>3 DEF PendingMember, NoMember
<1>11. GeneratedOK(r)'
  BY <1>1, <1>10 DEF RunOK, GeneratedOK
<1>12. ReusedOK(r)'
  BY <1>1, <1>10, ReusedKept
<1>13. SuccessesKept(r) /\ PublishesOK(r)
  BY DEF SuccessesKept, PublishesOK
<1> QED BY <1>5, <1>6, <1>7, <1>8, <1>9, <1>11, <1>12, <1>13 DEF StepOK, RunOK

\* The rows in which the member a run is at has been settled, and nothing else moved.
SettledRows(r, rows) ==
  /\ rows.status = working[r].status /\ rows.source = working[r].source
  /\ rows.forced = working[r].forced
  /\ \A c \in Recipes \ {Recipe(r)} :
       rows.members[c] = working[r].members[c] /\ rows.results[c] = working[r].results[c]
  /\ Settled(rows.members[Recipe(r)])

\* ... by a result of the run's own.
GeneratedRows(r, rows) ==
  rows.members[Recipe(r)].state = "generated" =>
    /\ rows.members[Recipe(r)].result = <<r, Recipe(r)>>
    /\ rows.results[Recipe(r)].status # "none"
    /\ rows.members[Recipe(r)].calls = billed[r][Recipe(r)]
    /\ rows.results[Recipe(r)].calls = billed[r][Recipe(r)]
    /\ rows.members[Recipe(r)].cost = "not_incurred" <=> billed[r][Recipe(r)] = 0

\* ... by another run's durable success.
ReusedRows(r, rows) ==
  rows.members[Recipe(r)].state = "reused" =>
    /\ rows.members[Recipe(r)].calls = 0 /\ rows.members[Recipe(r)].cost = "not_incurred"
    /\ billed[r][Recipe(r)] = 0 /\ ~rows.forced
    /\ \E q \in Runs \ {r} :
         /\ rows.members[Recipe(r)].result = <<q, Recipe(r)>>
         /\ committed[q].source = rows.source
         /\ committed[q].results[Recipe(r)].status = "succeeded"

\* The local state of a run that goes on to the next member.
NextMember(r, new) ==
  /\ new \in Control /\ run' = [run EXCEPT ![r] = new]
  /\ new.pc = "member" /\ new.pos = run[r].pos + 1 /\ new.attempts = <<>>
  /\ new.request = run[r].request /\ new.autocommit = run[r].autocommit

\* A step that settles the member a run is at, and goes on to the next.
LEMMA SettleStep ==
  ASSUME NEW r \in Runs, IInv, run[r].pc \in InPlan, run[r].pos \in 1..Len(Plan(r)),
         NEW new, NextMember(r, new),
         NEW rows \in Rows, Block(r, rows), SettledRows(r, rows),
         GeneratedRows(r, rows), ReusedRows(r, rows),
         UNCHANGED <<billed, known>>, clock' \in Nat \ {0}
  PROVE  StepOK(r)
<1>1. TypeOK /\ RunOK(r) /\ ReusedOK(r)
  BY ReuseIsSoundPerRun DEF IInv
<1>2. run' \in [Runs -> Control] /\ run'[r] = new
  BY <1>1, ControlEffect DEF NextMember
<1>3. /\ run'[r].pc = "member" /\ run'[r].pos = run[r].pos + 1 /\ run'[r].attempts = <<>>
      /\ run'[r].request = run[r].request /\ run'[r].autocommit = run[r].autocommit
  BY <1>2 DEF NextMember
<1>4. /\ run[r].request \in Requests /\ Recipe(r) = Plan(r)[run[r].pos]
      /\ Recipe(r) \in Planned(run[r].request) /\ Recipe(r) \in Recipes
      /\ working[r].members[Recipe(r)] = PendingMember
      /\ working[r].results[Recipe(r)] = NoRow
      /\ run[r].pos \in Nat
  BY <1>1, CurrentMember
<1>5. ASSUME NEW i \in 1..Len(Plan(r)), i # run[r].pos
      PROVE  Plan(r)[i] \in Recipes \ {Recipe(r)}
  BY <1>1, <1>5, CurrentMember
<1>6. Plan(r)' = Plan(r) /\ SentNow(r)' = 0
  BY <1>3 DEF Plan, SentNow
<1>7. Len(Plan(r)) \in Nat
  BY <1>4, RequestTypes DEF Plan
<1>8. /\ committed' \in [Runs -> Rows] /\ working' \in [Runs -> Rows] /\ open' = open
      /\ working'[r] = rows
      /\ committed'[r] = IF open[r] THEN committed[r] ELSE rows
      /\ \A x \in Runs \ {r} : committed'[x] = committed[x]
  BY <1>1, BlockEffect
<1>9. TypeOK'
  BY <1>1, <1>2, <1>8 DEF TypeOK
<1>10. ControlOK(r)'
  <2>1. run[r].pos + 1 \in 1..(Len(Plan(r)) + 1)
    BY <1>7
  <2> QED BY <1>3, <1>4, <1>6, <2>1 DEF ControlOK, Executing
<1>11. VisibilityOK(r)'
  BY <1>1, <1>3, <1>8 DEF RunOK, VisibilityOK, InPlan, Executing, Active
<1>12. WorkingOK(r)'
  <2>1. ASSUME NEW i \in 1..Len(Plan(r)), i < run[r].pos + 1
        PROVE  Settled(rows.members[Plan(r)[i]])
    <3>1. CASE i = run[r].pos
      BY <1>4, <3>1 DEF SettledRows
    <3>2. CASE i # run[r].pos
      <4>1. i < run[r].pos
        BY <1>4, <1>7, <2>1, <3>2
      <4>2. Settled(working[r].members[Plan(r)[i]])
        BY <1>1, <4>1 DEF RunOK, WorkingOK
      <4> QED BY <1>5, <3>2, <4>2 DEF SettledRows
    <3> QED BY <3>1, <3>2
  <2>2. ASSUME NEW i \in 1..Len(Plan(r)), ~(i < run[r].pos + 1)
        PROVE  Untouched(r, i)'
    <3>1. i # run[r].pos /\ ~(i < run[r].pos) /\ i # 0
      BY <1>4, <1>7, <2>2
    <3>2. Untouched(r, i)
      BY <1>1, <3>1 DEF RunOK, WorkingOK
    <3>3. /\ rows.members[Plan(r)[i]] = working[r].members[Plan(r)[i]]
          /\ rows.results[Plan(r)[i]] = working[r].results[Plan(r)[i]]
      BY <1>5, <3>1 DEF SettledRows
    <3>4. billed'[r][Plan(r)[i]] = 0
      BY <3>1, <3>2 DEF Untouched
    <3> QED BY <1>6, <1>8, <3>2, <3>3, <3>4 DEF Untouched
  <2>3. /\ rows.status = "running" /\ rows.source = run[r].request.source
        /\ rows.forced = run[r].request.regenerate
    BY <1>1 DEF RunOK, WorkingOK, SettledRows
  <2> QED BY <1>3, <1>6, <1>8, <2>1, <2>2, <2>3 DEF WorkingOK
<1>13. PlanOK(r)'
  <2>1. \A c \in Recipes \ Planned(run[r].request) :
          rows.members[c] = NoMember /\ billed'[r][c] = 0
    BY <1>1, <1>4 DEF SettledRows, RunOK, PlanOK
  <2> QED BY <1>3, <1>8, <2>1 DEF PlanOK
<1>14. GeneratedOK(r)'
  <2> SUFFICES ASSUME NEW c \in Recipes, rows.members[c].state = "generated"
               PROVE  /\ rows.members[c].result = <<r, c>>
                      /\ rows.results[c].status # "none"
                      /\ rows.members[c].calls = billed[r][c]
                      /\ rows.results[c].calls = billed[r][c]
                      /\ rows.members[c].cost = "not_incurred" <=> billed[r][c] = 0
    BY <1>8 DEF GeneratedOK
  <2>1. CASE c = Recipe(r)
    BY <2>1 DEF GeneratedRows
  <2>2. CASE c # Recipe(r)
    BY <1>1, <2>2 DEF SettledRows, RunOK, GeneratedOK
  <2> QED BY <2>1, <2>2
<1>15. ReusedOK(r)'
  <2> SUFFICES ASSUME NEW c \in Recipes, rows.members[c].state = "reused"
               PROVE  /\ rows.members[c].calls = 0 /\ rows.members[c].cost = "not_incurred"
                      /\ billed[r][c] = 0 /\ ~rows.forced
                      /\ \E q \in Runs \ {r} :
                           /\ rows.members[c].result = <<q, c>>
                           /\ committed'[q].source = rows.source
                           /\ committed'[q].results[c].status = "succeeded"
    BY <1>8 DEF ReusedOK
  <2>1. CASE c = Recipe(r)
    BY <1>8, <2>1 DEF ReusedRows
  <2>2. CASE c # Recipe(r)
    BY <1>1, <1>8, <2>2 DEF ReusedOK, SettledRows
  <2> QED BY <2>1, <2>2
<1>16. SuccessesKept(r)
  <2> SUFFICES ASSUME NEW c \in Recipes, committed[r].results[c].status = "succeeded"
               PROVE  /\ committed'[r].results[c].status = "succeeded"
                      /\ committed'[r].source = committed[r].source
    BY DEF SuccessesKept
  <2>1. ~open[r] /\ committed[r] = working[r]
    BY <1>1, AbsentIsQuiet DEF RunOK, VisibilityOK
  <2>2. c # Recipe(r)
    BY <1>4, <2>1 DEF NoRow
  <2> QED BY <1>8, <2>1, <2>2 DEF SettledRows
<1>17. PublishesOK(r)
  <2>1. working[r].status = "running"
    BY <1>1 DEF RunOK, WorkingOK
  <2>2. \A c \in Recipes : working[r].members[c].state = "none" <=> rows.members[c].state = "none"
    BY <1>4 DEF SettledRows, Settled, PendingMember, NoMember
  <2>3. ASSUME NEW c \in Recipes
        PROVE  /\ Settled(working[r].members[c]) => rows.members[c] = working[r].members[c]
               /\ working[r].results[c].status # "none" => rows.results[c] = working[r].results[c]
    BY <1>4 DEF SettledRows, Settled, PendingMember, NoMember, NoRow
  <2>4. Ledger!Extends(working[r], rows)
    BY <2>1, <2>2, <2>3 DEF SettledRows, Settled, Ledger!Extends, Ledger!Settled
  <2> QED BY <1>1, <1>3, <1>8, <2>4 DEF PublishesOK, InPlan, RunOK, VisibilityOK
<1> QED BY <1>9, <1>10, <1>11, <1>12, <1>13, <1>14, <1>15, <1>16, <1>17 DEF StepOK, RunOK

LEMMA LookupStep ==
  ASSUME NEW r \in Runs, IInv, Lookup(r)
  PROVE  StepOK(r)
<1>1. TypeOK /\ RunOK(r) /\ run[r].pc = "member" /\ run[r].pos <= Len(Plan(r))
  BY DEF IInv, Lookup, MemberDue, Plan
<1>2. PICK hit \in find_comparison_result(r) :
        run' = [run EXCEPT ![r] = [@ EXCEPT
                  !.cached = hit, !.pc = IF hit = NoResult THEN "execute" ELSE "reuse"]]
  BY DEF Lookup
<1> DEFINE new == [run[r] EXCEPT !.cached = hit,
                                 !.pc = IF hit = NoResult THEN "execute" ELSE "reuse"]
<1>3. run[r] \in Control /\ run[r].attempts = <<>> /\ run[r].pc \in InPlan
      /\ run[r].request \in Requests
  BY <1>1 DEF TypeOK, RunOK, ControlOK, InPlan, Executing, Active
<1>4. run[r].pos \in 1..Len(Plan(r))
  BY <1>1, <1>3, RequestTypes DEF RunOK, ControlOK, Control, Plan
<1>5. Recipe(r) \in Recipes /\ billed[r][Recipe(r)] = 0
  <2>1. SentNow(r) = 0
    BY <1>1, <1>3 DEF SentNow
  <2> QED BY <1>1, <1>3, <1>4, <2>1, CurrentMember
<1>6. hit = NoResult \/ (hit \in ResultIds /\ ~run[r].request.regenerate)
  BY <1>5 DEF find_comparison_result, NewestOf, CachedSuccesses, ResultIds
<1>7. new \in Control
  <2>1. hit \in ResultIds \cup {NoResult}
    BY <1>6
  <2>2. (IF hit = NoResult THEN "execute" ELSE "reuse") \in Active
    BY DEF Active
  <2> QED BY <1>3, <2>1, <2>2 DEF Control
<1>8. /\ new.pc = IF hit = NoResult THEN "execute" ELSE "reuse"
      /\ new.cached = hit /\ new.pos = run[r].pos /\ new.request = run[r].request
      /\ new.autocommit = run[r].autocommit /\ new.attempts = <<>>
  BY <1>3 DEF Control
<1>9. open' = open
  <2>1. open[r] = ~run[r].autocommit
    BY <1>1, <1>3 DEF RunOK, VisibilityOK, Active, Control, TypeOK
  <2>2. open' = open \/ open' = [open EXCEPT ![r] = ~run[r].autocommit]
    BY DEF Lookup, PlainStatement
  <2> QED BY <1>1, <2>1, <2>2 DEF TypeOK
<1>10. UNCHANGED <<committed, working, billed, known, clock>>
  BY DEF Lookup
<1>11. billed' \in [Runs -> [Recipes -> Nat]]
  BY <1>1, <1>10 DEF TypeOK
<1>12. billed'[r][Recipe(r)] = Len(new.attempts) + (IF new.pc = "calling" THEN 1 ELSE 0)
  BY <1>5, <1>8, <1>10
<1>13. new.pc \in Executing \cup {"reuse"}
  BY <1>8 DEF Executing
<1> HIDE DEF new
<1>14. run' = [run EXCEPT ![r] = new]
  BY <1>2 DEF new
<1> QED
  <2>1. new.pc = "reuse" => new.cached \in ResultIds /\ ~new.request.regenerate
    BY <1>6, <1>8
  <2> QED BY <1>3, <1>4, <1>7, <1>8, <1>9, <1>10, <1>11, <1>12, <1>13, <1>14, <2>1, LocalStep

\* The facts every step of the execution of a recipe starts from.
LEMMA ExecutingFacts ==
  ASSUME NEW r \in Runs, IInv, run[r].pc \in Executing
  PROVE  /\ TypeOK /\ RunOK(r) /\ run[r] \in Control /\ run[r].pc \in InPlan
         /\ run[r].pos \in 1..Len(Plan(r)) /\ Recipe(r) \in Recipes
         /\ run[r].attempts \in Seq(Attempts) /\ billed[r] \in [Recipes -> Nat]
         /\ billed[r][Recipe(r)] = SentNow(r)
<1>1. /\ TypeOK /\ RunOK(r) /\ run[r] \in Control /\ run[r].pc \in InPlan
      /\ run[r].pos \in 1..Len(Plan(r)) /\ billed[r] \in [Recipes -> Nat]
  BY DEF IInv, TypeOK, RunOK, ControlOK, InPlan
<1> QED BY <1>1, CurrentMember DEF Control

\* A member that is decided without, or after, its calls goes on to be saved.
LEMMA DecideStep ==
  ASSUME NEW r \in Runs, IInv, run[r].pc = "execute", NEW o \in Outcomes, Decide(r, o),
         UNCHANGED <<db, billed, known, clock>>
  PROVE  StepOK(r)
<1> DEFINE new == [run[r] EXCEPT !.pc = "save", !.outcome = o]
<1>1. /\ TypeOK /\ RunOK(r) /\ run[r] \in Control /\ run[r].pc \in InPlan
      /\ run[r].pos \in 1..Len(Plan(r)) /\ billed[r][Recipe(r)] = SentNow(r)
  BY ExecutingFacts DEF Executing
<1>2. new \in Control
  BY <1>1 DEF Control, Active
<1>3. /\ new.pc = "save" /\ new.pos = run[r].pos /\ new.request = run[r].request
      /\ new.autocommit = run[r].autocommit /\ new.attempts = run[r].attempts
  BY <1>1 DEF Control
<1>4. billed'[r][Recipe(r)] = Len(new.attempts) + (IF new.pc = "calling" THEN 1 ELSE 0)
  BY <1>1, <1>3 DEF SentNow
<1>5. billed' \in [Runs -> [Recipes -> Nat]] /\ new.pc \in Executing
  BY <1>1, <1>3 DEF TypeOK, Executing
<1>6. run' = [run EXCEPT ![r] = new]
  BY DEF Decide
<1>7. UNCHANGED <<committed, working, open, billed, known, clock>>
  BY DEF db
<1> HIDE DEF new
<1> QED BY <1>1, <1>2, <1>3, <1>4, <1>5, <1>6, <1>7, LocalStep

LEMMA PreflightStep ==
  ASSUME NEW r \in Runs, IInv, Preflight(r)
  PROVE  StepOK(r)
<1>1. PICK code \in {"credentials", "compatibility"} :
        Decide(r, Outcome("preflight_failed", code))
  BY DEF Preflight
<1>2. Outcome("preflight_failed", code) \in Outcomes
  BY DEF Outcome, Outcomes, Statuses, Codes
<1> QED BY <1>1, <1>2, DecideStep DEF Preflight

LEMMA OversizedStep ==
  ASSUME NEW r \in Runs, IInv, Oversized(r)
  PROVE  StepOK(r)
<1>1. run[r].attempts \in Seq(Attempts)
  BY ExecutingFacts DEF Oversized, Executing
<1>2. classify_structured_failure(run[r].attempts, TRUE) \in Outcomes
  BY <1>1, FailureIsOutcome DEF Failure
<1> QED BY <1>2, DecideStep DEF Oversized

LEMMA SendStep ==
  ASSUME NEW r \in Runs, IInv, Send(r)
  PROVE  StepOK(r)
<1> DEFINE new == [run[r] EXCEPT !.pc = "calling"]
<1>0. run[r].pc = "execute"
  BY DEF Send
<1>1. /\ TypeOK /\ RunOK(r) /\ run[r] \in Control /\ run[r].pc \in InPlan
      /\ run[r].pos \in 1..Len(Plan(r)) /\ Recipe(r) \in Recipes
      /\ run[r].attempts \in Seq(Attempts) /\ billed[r] \in [Recipes -> Nat]
      /\ billed[r][Recipe(r)] = SentNow(r)
  BY <1>0, ExecutingFacts DEF Executing
<1>2. new \in Control
  BY <1>1 DEF Control, Active
<1>3. /\ new.pc = "calling" /\ new.pos = run[r].pos /\ new.request = run[r].request
      /\ new.autocommit = run[r].autocommit /\ new.attempts = run[r].attempts
  BY <1>1 DEF Control
<1>4. billed' = [billed EXCEPT ![r][Recipe(r)] = @ + 1]
  BY DEF Send
<1>5. billed' \in [Runs -> [Recipes -> Nat]] /\ new.pc \in Executing
  BY <1>1, <1>3, <1>4 DEF TypeOK, Executing
<1>6. billed'[r][Recipe(r)] = Len(new.attempts) + (IF new.pc = "calling" THEN 1 ELSE 0)
  <2>1. billed'[r][Recipe(r)] = SentNow(r) + 1
    BY <1>1, <1>4 DEF TypeOK
  <2>2. SentNow(r) = Len(run[r].attempts)
    BY <1>0, <1>1 DEF SentNow
  <2> QED BY <1>3, <2>1, <2>2
<1>7. \A c \in Recipes : c # Recipe(r) => billed'[r][c] = billed[r][c]
  BY <1>1, <1>4 DEF TypeOK
<1>8. run' = [run EXCEPT ![r] = new] /\ UNCHANGED <<committed, working, open, known, clock>>
  BY DEF Send, Goto, db
<1> HIDE DEF new
<1> QED BY <1>1, <1>2, <1>3, <1>5, <1>6, <1>7, <1>8, LocalStep

\* Recording an answer makes the sequence of attempts one longer.
LEMMA OneMoreAttempt ==
  ASSUME NEW s \in Seq(Attempts), NEW a \in Attempts
  PROVE  /\ Append(s, a) \in Seq(Attempts) /\ Append(s, a) # <<>>
         /\ Len(Append(s, a)) = Len(s) + 1
<1>1. Append(s, a) \in Seq(Attempts) /\ Len(Append(s, a)) = Len(s) + 1
  OBVIOUS
<1>2. Len(s) \in Nat /\ Len(<<>>) = 0
  OBVIOUS
<1>3. Append(s, a) # <<>>
  <2> SUFFICES ASSUME Append(s, a) = <<>> PROVE FALSE
    OBVIOUS
  <2>1. Len(s) + 1 = 0
    BY <1>1, <1>2
  <2> QED BY <2>1, <1>2
<1> QED BY <1>1, <1>3

LEMMA AnswerStep ==
  ASSUME NEW r \in Runs, IInv, Answer(r)
  PROVE  StepOK(r)
<1>0. run[r].pc = "calling"
  BY DEF Answer
<1>1. /\ TypeOK /\ RunOK(r) /\ run[r] \in Control /\ run[r].pc \in InPlan
      /\ run[r].pos \in 1..Len(Plan(r)) /\ Recipe(r) \in Recipes
      /\ run[r].attempts \in Seq(Attempts) /\ billed[r] \in [Recipes -> Nat]
      /\ billed[r][Recipe(r)] = SentNow(r)
  BY <1>0, ExecutingFacts DEF Executing
<1>2. PICK a \in Replies :
        run' = [run EXCEPT ![r] = AfterAnswer(run[r], Append(run[r].attempts, a))]
  BY DEF Answer
<1> DEFINE attempts == Append(run[r].attempts, a)
           new == AfterAnswer(run[r], attempts)
<1>3. attempts \in Seq(Attempts) /\ attempts # <<>> /\ Len(attempts) = Len(run[r].attempts) + 1
  <2>1. run[r].attempts \in Seq(Attempts)
    BY <1>1
  <2>2. a \in Attempts
    BY ConstantsAssumption
  <2> QED BY ONLY <2>1, <2>2, OneMoreAttempt
<1>4. run' = [run EXCEPT ![r] = new]
  BY <1>2
<1> HIDE DEF attempts
<1>5. /\ new \in Control /\ new.pc \in {"execute", "save"} /\ new.attempts = attempts
      /\ new.pos = run[r].pos /\ new.request = run[r].request
      /\ new.autocommit = run[r].autocommit
  <2>1. CASE MayAsk("recipe", attempts, RepairLimit)
    BY <1>1, <1>3, <2>1 DEF AfterAnswer, Control, Active
  <2>2. CASE ~MayAsk("recipe", attempts, RepairLimit)
    <3> DEFINE outcome == IF OK(LastOf(attempts)) THEN Outcome("succeeded", "none")
                          ELSE classify_structured_failure(attempts, FALSE)
    <3>1. classify_structured_failure(attempts, FALSE) \in Outcomes
      BY <1>3, FailureIsOutcome DEF Failure
    <3>2. Outcome("succeeded", "none") \in Outcomes
      BY DEF Outcome, Outcomes, Statuses, Codes
    <3>3. outcome \in Outcomes
      BY <3>1, <3>2
    <3>4. new = [run[r] EXCEPT !.pc = "save", !.attempts = attempts, !.outcome = outcome]
      BY <2>2 DEF AfterAnswer
    <3> HIDE DEF outcome, new
    <3> QED BY <1>1, <1>3, <3>3, <3>4 DEF Control, Active
  <2> QED BY <2>1, <2>2
<1> HIDE DEF new
<1>6. new.pc \in Executing /\ new.pc # "calling" /\ new.pc # "reuse"
  BY <1>5 DEF Executing
<1>7. UNCHANGED <<committed, working, open, billed, known, clock>>
  BY DEF Answer, db
<1>8. billed'[r][Recipe(r)] = Len(new.attempts) + (IF new.pc = "calling" THEN 1 ELSE 0)
  <2>1. SentNow(r) = Len(run[r].attempts) + 1
    BY <1>0 DEF SentNow
  <2> QED BY <1>1, <1>3, <1>5, <1>6, <1>7, <2>1
<1>9. billed' \in [Runs -> [Recipes -> Nat]]
  BY <1>1, <1>7 DEF TypeOK
<1> QED BY <1>1, <1>4, <1>5, <1>6, <1>7, <1>8, <1>9, LocalStep

LEMMA ReuseStep ==
  ASSUME NEW r \in Runs, IInv, reuse_result(r)
  PROVE  StepOK(r)
<1> DEFINE q == run[r].cached[1]
           c == run[r].cached[2]
           m == [NoMember EXCEPT !.state = "reused", !.result = run[r].cached]
           rows == [working[r] EXCEPT !.members[Recipe(r)] = m]
           new == [run[r] EXCEPT !.pc = "member", !.pos = run[r].pos + 1, !.cached = NoResult]
<1>1. /\ TypeOK /\ RunOK(r) /\ run[r].pc = "reuse" /\ run[r] \in Control
      /\ working[r] \in Rows /\ run[r].pc \in InPlan /\ run[r].pos \in 1..Len(Plan(r))
      /\ run[r].attempts = <<>> /\ run[r].pos \in Nat
  BY DEF IInv, TypeOK, reuse_result, RunOK, ControlOK, InPlan, Executing, Control
<1>2. run[r].cached \in ResultIds /\ ~run[r].request.regenerate
  BY <1>1 DEF RunOK, ControlOK
<1>3. q \in Runs /\ c \in Recipes /\ run[r].cached = <<q, c>>
  BY <1>2 DEF ResultIds
<1>4. /\ Visible(r, q).results[c].status = "succeeded"
      /\ Visible(r, q).source = working[r].source /\ c = Recipe(r)
      /\ Block(r, rows) /\ run' = [run EXCEPT ![r] = new]
      /\ UNCHANGED <<billed, known, clock>>
  <2>1. /\ Visible(r, q).results[c].status = "succeeded"
        /\ Visible(r, q).source = working[r].source /\ c = Recipe(r)
        /\ UNCHANGED <<billed, known, clock>>
    BY DEF reuse_result
  <2>2. Block(r, rows)
    BY DEF reuse_result
  <2>3. run' = [run EXCEPT ![r] = new]
    BY DEF reuse_result
  <2> QED BY <2>1, <2>2, <2>3
<1>5. working[r].results[Recipe(r)] = NoRow /\ billed[r][Recipe(r)] = 0
  <2>1. SentNow(r) = 0
    BY <1>1 DEF SentNow
  <2> QED BY <1>1, <2>1, CurrentMember
<1>6. q # r
  BY <1>4, <1>5 DEF Visible, NoRow
<1>7. m \in MemberRows
  BY <1>2 DEF NoMember, MemberRows
<1>8. m.state = "reused" /\ m.calls = 0 /\ m.cost = "not_incurred" /\ m.result = run[r].cached
  BY DEF NoMember
<1>9. working[r].forced = FALSE
  BY <1>1, <1>2 DEF RunOK, WorkingOK, Control, Rows, TypeOK
<1> HIDE DEF m
<1>10. rows \in Rows
  BY <1>1, <1>7 DEF Rows
<1>11. NextMember(r, new)
  <2>1. run[r].pos + 1 \in Nat
    BY <1>1
  <2>2. new \in Control
    BY <1>1, <2>1 DEF Control, Active
  <2> QED BY <1>1, <1>4, <2>2 DEF NextMember, Control
<1>12. rows.members[Recipe(r)] = m /\ rows.forced = working[r].forced
       /\ rows.source = working[r].source /\ rows.status = working[r].status
       /\ rows.results = working[r].results
       /\ \A d \in Recipes \ {Recipe(r)} : rows.members[d] = working[r].members[d]
  BY <1>1, <1>3, <1>4 DEF Rows
<1> HIDE DEF rows, new
<1>13. SettledRows(r, rows)
  BY <1>8, <1>12 DEF SettledRows, Settled
<1>14. GeneratedRows(r, rows)
  BY <1>8, <1>12 DEF GeneratedRows
<1>15. ReusedRows(r, rows)
  <2>1. /\ m.result = <<q, Recipe(r)>> /\ committed[q].source = rows.source
        /\ committed[q].results[Recipe(r)].status = "succeeded"
    BY <1>3, <1>4, <1>6, <1>8, <1>12 DEF Visible
  <2> QED BY <1>3, <1>5, <1>6, <1>8, <1>9, <1>12, <2>1 DEF ReusedRows
<1>16. clock' \in Nat \ {0}
  BY <1>1, <1>4 DEF TypeOK
<1> QED BY <1>1, <1>4, <1>10, <1>11, <1>13, <1>14, <1>15, <1>16, SettleStep

\* No calls, no cost; some calls, some cost.
LEMMA CostMeansCalls ==
  ASSUME NEW c, NEW calls \in Seq(Attempts)
  PROVE  /\ MemberCost(c, calls) \in {"not_incurred", "complete", "unavailable"}
         /\ MemberCost(c, calls) = "not_incurred" <=> Len(calls) = 0
BY DEF MemberCost

LEMMA SaveStep ==
  ASSUME NEW r \in Runs, IInv, save_result(r)
  PROVE  StepOK(r)
<1> DEFINE c == Recipe(r)
           calls == run[r].attempts
           res == [status |-> run[r].outcome.status, calls |-> Len(calls), created |-> clock]
           m == [state |-> "generated", result |-> <<r, c>>, calls |-> Len(calls),
                 cost |-> MemberCost(c, calls)]
           rows == [working[r] EXCEPT !.results[c] = res, !.members[c] = m]
           new == [run[r] EXCEPT !.pc = "member", !.pos = run[r].pos + 1, !.attempts = <<>>,
                                 !.outcome = NoOutcome]
<1>0. run[r].pc = "save"
  BY DEF save_result
<1>1. /\ TypeOK /\ RunOK(r) /\ run[r] \in Control /\ run[r].pc \in InPlan
      /\ run[r].pos \in 1..Len(Plan(r)) /\ c \in Recipes
      /\ calls \in Seq(Attempts) /\ billed[r][c] = SentNow(r)
  BY <1>0, ExecutingFacts DEF Executing
<1>2. /\ working[r] \in Rows /\ run[r].pos \in Nat /\ clock \in Nat \ {0}
      /\ run[r].outcome \in Outcomes /\ billed[r][c] = Len(calls)
  BY <1>0, <1>1 DEF TypeOK, Control, SentNow
<1>3. /\ Block(r, rows) /\ run' = [run EXCEPT ![r] = new]
      /\ clock' = clock + 1 /\ UNCHANGED <<billed, known>>
  <2>1. Block(r, rows)
    BY DEF save_result, save_recipe_calls
  <2>2. run' = [run EXCEPT ![r] = new]
    BY DEF save_result, save_recipe_calls
  <2>3. clock' = clock + 1 /\ UNCHANGED <<billed, known>>
    BY DEF save_result
  <2> QED BY <2>1, <2>2, <2>3
<1>4. res \in ResultRows /\ res.status # "none"
  BY <1>1, <1>2 DEF ResultRows, Outcomes, Statuses
<1>5. m \in MemberRows
  <2>1. MemberCost(c, calls) \in {"not_incurred", "complete", "unavailable"}
    BY <1>1, CostMeansCalls
  <2> QED BY <1>1, <2>1 DEF MemberRows, ResultIds
<1>6. /\ m.state = "generated" /\ m.result = <<r, c>> /\ m.calls = billed[r][c]
      /\ res.calls = billed[r][c] /\ (m.cost = "not_incurred" <=> billed[r][c] = 0)
  BY <1>1, <1>2, CostMeansCalls
<1>7. NoOutcome \in Outcomes
  BY DEF NoOutcome, Outcome, Outcomes, Statuses, Codes
<1> HIDE DEF m, res
<1>8. rows \in Rows
  BY <1>1, <1>2, <1>4, <1>5 DEF Rows
<1>9. NextMember(r, new)
  <2>1. <<>> \in Seq(Attempts)
    OBVIOUS
  <2>2. run[r].pos + 1 \in Nat
    BY <1>2
  <2>3. new \in Control
    BY <1>1, <1>7, <2>1, <2>2 DEF Control, Active
  <2> QED BY <1>1, <1>3, <2>3 DEF NextMember, Control
<1>10. /\ rows.members[c] = m /\ rows.results[c] = res /\ rows.forced = working[r].forced
       /\ rows.source = working[r].source /\ rows.status = working[r].status
       /\ \A d \in Recipes \ {c} : /\ rows.members[d] = working[r].members[d]
                                 /\ rows.results[d] = working[r].results[d]
  BY <1>1, <1>2 DEF Rows
<1> HIDE DEF rows, new
<1>11. SettledRows(r, rows)
  BY <1>6, <1>10 DEF SettledRows, Settled
<1>12. GeneratedRows(r, rows)
  BY <1>4, <1>6, <1>10 DEF GeneratedRows
<1>13. ReusedRows(r, rows)
  BY <1>6, <1>10 DEF ReusedRows
<1>14. clock' \in Nat \ {0}
  BY <1>2, <1>3
<1> QED BY <1>1, <1>3, <1>8, <1>9, <1>11, <1>12, <1>13, <1>14, SettleStep

LEMMA CompleteStep ==
  ASSUME NEW r \in Runs, IInv, complete_invocation(r)
  PROVE  StepOK(r)
<1> DEFINE new == [run[r] EXCEPT !.pc = "report"]
           rows == [working[r] EXCEPT !.status = "completed"]
<1>1. /\ TypeOK /\ RunOK(r) /\ ReusedOK(r) /\ run[r].pc = "member"
      /\ run[r].pos > Len(Plan(r)) /\ run[r] \in Control /\ working[r] \in Rows
  BY ReuseIsSoundPerRun DEF IInv, complete_invocation, AllMembersDone, Plan, TypeOK
<1>2. run[r].request \in Requests /\ run[r].attempts = <<>> /\ run[r].pos \in Nat
  BY <1>1 DEF RunOK, ControlOK, Active, Executing, Control
<1>3. \A c \in Planned(run[r].request) : Settled(working[r].members[c])
  <2> SUFFICES ASSUME NEW i \in 1..Len(Plan(r)) PROVE Settled(working[r].members[Plan(r)[i]])
    BY DEF Planned, Plan
  <2>1. i < run[r].pos
    BY <1>1, <1>2, RequestTypes DEF Plan
  <2> QED BY <1>1, <2>1 DEF RunOK, WorkingOK, InPlan
<1>4. \A c \in Recipes \ Planned(run[r].request) :
        working[r].members[c] = NoMember /\ billed[r][c] = 0
  BY <1>1 DEF RunOK, PlanOK, InPlan
<1>5. \A c \in Recipes : working[r].members[c].state # "pending"
  BY <1>3, <1>4 DEF Settled, NoMember
<1>6. /\ Block(r, rows) /\ run' = [run EXCEPT ![r] = new]
      /\ UNCHANGED <<billed, known, clock>>
  BY <1>5 DEF complete_invocation, Goto
<1>7. new \in Control
  BY <1>1 DEF Control, Active
<1>8. run' \in [Runs -> Control] /\ run'[r] = new
  BY <1>1, <1>6, <1>7, ControlEffect
<1>9. /\ run'[r].pc = "report" /\ run'[r].request = run[r].request
      /\ run'[r].autocommit = run[r].autocommit /\ run'[r].attempts = <<>>
  BY <1>1, <1>2, <1>8 DEF Control
<1>10. /\ rows \in Rows /\ rows.status = "completed" /\ rows.members = working[r].members
       /\ rows.results = working[r].results /\ rows.source = working[r].source
       /\ rows.forced = working[r].forced
  BY <1>1 DEF Rows
<1> HIDE DEF rows
<1>11. /\ committed' \in [Runs -> Rows] /\ working' \in [Runs -> Rows] /\ open' = open
       /\ working'[r] = rows
       /\ committed'[r] = IF open[r] THEN committed[r] ELSE rows
       /\ \A x \in Runs \ {r} : committed'[x] = committed[x]
  BY <1>1, <1>6, <1>10, BlockEffect
<1>12. TypeOK'
  BY <1>1, <1>6, <1>8, <1>11 DEF TypeOK
<1>13. ControlOK(r)' /\ WorkingOK(r)'
  BY <1>2, <1>9 DEF ControlOK, WorkingOK, InPlan, Executing
<1>14. VisibilityOK(r)'
  BY <1>1, <1>9, <1>11 DEF RunOK, VisibilityOK, Active
<1>15. PlanOK(r)'
  BY <1>3, <1>4, <1>6, <1>9, <1>10, <1>11 DEF PlanOK
<1>16. GeneratedOK(r)'
  BY <1>1, <1>6, <1>10, <1>11 DEF RunOK, GeneratedOK
<1>17. ReusedOK(r)'
  BY <1>1, <1>6, <1>10, <1>11, ReusedKept
<1>18. SuccessesKept(r)
  BY <1>1, <1>10, <1>11 DEF RunOK, VisibilityOK, SuccessesKept
<1>19. PublishesOK(r)
  <2>1. working[r].status = "running"
    BY <1>1 DEF RunOK, WorkingOK, InPlan
  <2>2. Ledger!Extends(working[r], rows)
    BY <1>10, <2>1 DEF Ledger!Extends
  <2> QED BY <1>1, <1>9, <1>11, <2>2 DEF PublishesOK, RunOK, VisibilityOK
<1> QED BY <1>12, <1>13, <1>14, <1>15, <1>16, <1>17, <1>18, <1>19 DEF StepOK, RunOK

\* The local state a process leaves behind.
LEMMA ExitEffect ==
  ASSUME TypeOK, NEW r \in Runs, NEW pc \in {"done", "aborted"}, Exit(r, pc)
  PROVE  /\ run' \in [Runs -> Control] /\ run'[r].pc = pc
         /\ run'[r].request = run[r].request /\ run'[r].autocommit = run[r].autocommit
         /\ run'[r].attempts = <<>>
<1> DEFINE new == [run[r] EXCEPT !.pc = pc, !.pos = 0, !.cached = NoResult,
                                 !.attempts = <<>>, !.outcome = NoOutcome]
<1>1. run[r] \in Control /\ <<>> \in Seq(Attempts)
  BY DEF TypeOK
<1>2. NoOutcome \in Outcomes
  BY DEF NoOutcome, Outcome, Outcomes, Statuses, Codes
<1>3. new \in Control
  BY <1>1, <1>2 DEF Control
<1>4. run' = [run EXCEPT ![r] = new]
  BY DEF Exit
<1>5. run' \in [Runs -> Control] /\ run'[r] = new
  BY <1>3, <1>4, ControlEffect
<1> QED BY <1>1, <1>5 DEF Control

LEMMA CloseStep ==
  ASSUME NEW r \in Runs, IInv, Close(r)
  PROVE  StepOK(r)
<1>1. TypeOK /\ RunOK(r) /\ ReusedOK(r) /\ run[r].pc = "report"
  BY ReuseIsSoundPerRun DEF IInv, Close
<1>2. /\ run' \in [Runs -> Control] /\ run'[r].pc = "done"
      /\ run'[r].request = run[r].request /\ run'[r].autocommit = run[r].autocommit
      /\ run'[r].attempts = <<>>
  BY <1>1, ExitEffect DEF Close
<1>3. /\ committed' = [committed EXCEPT ![r] = working[r]] /\ open' = [open EXCEPT ![r] = FALSE]
      /\ UNCHANGED <<working, billed, known, clock>>
  BY DEF Close
<1>4. TypeOK'
  BY <1>1, <1>2, <1>3 DEF TypeOK
<1>5. committed'[r] = working[r] /\ ~open'[r] /\ \A x \in Runs \ {r} : committed'[x] = committed[x]
  BY <1>1, <1>3 DEF TypeOK
<1>6. ControlOK(r)' /\ WorkingOK(r)' /\ VisibilityOK(r)'
  BY <1>2, <1>3, <1>5 DEF ControlOK, WorkingOK, VisibilityOK, InPlan, Executing, Active
<1>7. PlanOK(r)'
  BY <1>1, <1>2, <1>3 DEF RunOK, PlanOK
<1>8. GeneratedOK(r)'
  BY <1>1, <1>3 DEF RunOK, GeneratedOK
<1>9. ReusedOK(r)'
  BY <1>1, <1>3, <1>5, ReusedKept
<1>10. SuccessesKept(r)
  BY <1>1, <1>5, AbsentIsQuiet DEF RunOK, VisibilityOK, SuccessesKept
<1>11. PublishesOK(r)
  <2>1. CASE open[r]
    BY <1>1, <1>2, <1>3, <1>5, <2>1, AbsentExtends DEF RunOK, VisibilityOK, PublishesOK
  <2>2. CASE ~open[r]
    BY <1>1, <1>5, <2>2 DEF RunOK, VisibilityOK, PublishesOK
  <2> QED BY <2>1, <2>2
<1> QED BY <1>4, <1>6, <1>7, <1>8, <1>9, <1>10, <1>11 DEF StepOK, RunOK

LEMMA UnwindStep ==
  ASSUME NEW r \in Runs, IInv, Unwind(r)
  PROVE  StepOK(r)
<1>1. TypeOK /\ RunOK(r) /\ ReusedOK(r) /\ run[r].pc \in Active
  BY ReuseIsSoundPerRun DEF IInv, Unwind
<1>2. /\ run' \in [Runs -> Control] /\ run'[r].pc = "aborted"
      /\ run'[r].request = run[r].request /\ run'[r].autocommit = run[r].autocommit
      /\ run'[r].attempts = <<>>
  BY <1>1, ExitEffect DEF Unwind
<1>3. /\ working' = [working EXCEPT ![r] = committed[r]] /\ open' = [open EXCEPT ![r] = FALSE]
      /\ UNCHANGED <<committed, billed, known, clock>>
  BY DEF Unwind
<1>4. TypeOK'
  BY <1>1, <1>2, <1>3 DEF TypeOK
<1>5. working'[r] = committed[r] /\ ~open'[r]
  BY <1>1, <1>3 DEF TypeOK
<1>6. /\ ~run[r].autocommit => working'[r] = Absent
      /\ working'[r] = Absent \/ working'[r] = working[r]
  BY <1>1, <1>5 DEF RunOK, VisibilityOK
<1>7. ControlOK(r)' /\ WorkingOK(r)' /\ PlanOK(r)'
  BY <1>2 DEF ControlOK, WorkingOK, PlanOK, InPlan, Executing, Active
<1>8. VisibilityOK(r)'
  BY <1>2, <1>3, <1>5, <1>6 DEF VisibilityOK, Active
<1>9. GeneratedOK(r)'
  BY <1>1, <1>3, <1>6, AbsentIsQuiet DEF RunOK, GeneratedOK
<1>10. ReusedOK(r)'
  <2>1. CASE working'[r] = working[r]
    BY <1>1, <1>3, <2>1, ReusedKept
  <2>2. CASE working'[r] = Absent
    BY <2>2, AbsentIsQuiet DEF ReusedOK
  <2> QED BY <1>6, <2>1, <2>2
<1>11. SuccessesKept(r) /\ PublishesOK(r)
  BY <1>3 DEF SuccessesKept, PublishesOK
<1> QED BY <1>4, <1>7, <1>8, <1>9, <1>10, <1>11 DEF StepOK, RunOK

-----------------------------------------------------------------------------
(* The invariant *)

LEMMA InitInv == Init => IInv
<1> SUFFICES ASSUME Init PROVE IInv
  OBVIOUS
<1>1. TypeOK
  <2>1. NoOutcome \in Outcomes
    BY DEF NoOutcome, Outcome, Outcomes, Statuses, Codes
  <2> QED BY <2>1, RowTypes DEF Init, TypeOK, Control
<1>2. ASSUME NEW r \in Runs
      PROVE  /\ run[r].pc = "idle" /\ run[r].autocommit = FALSE /\ run[r].attempts = <<>>
             /\ committed[r] = Absent /\ working[r] = Absent /\ ~open[r]
             /\ \A c \in Recipes : billed[r][c] = 0
  BY DEF Init
<1>3. ASSUME NEW r \in Runs PROVE RunOK(r)
  <2>1. ControlOK(r) /\ VisibilityOK(r) /\ WorkingOK(r) /\ PlanOK(r)
    BY <1>2 DEF ControlOK, VisibilityOK, WorkingOK, PlanOK, InPlan, Executing, Active
  <2>2. GeneratedOK(r)
    BY <1>2, AbsentIsQuiet DEF GeneratedOK
  <2> QED BY <2>1, <2>2 DEF RunOK
<1>4. ASSUME NEW r \in Runs PROVE ReusedOK(r)
  BY <1>2, AbsentIsQuiet DEF ReusedOK
<1> QED BY <1>1, <1>3, <1>4, ReuseIsSoundPerRun DEF IInv

\* Every action of a run establishes what it must.
LEMMA ActsStep ==
  ASSUME NEW r \in Runs, IInv, Acts(r)
  PROVE  StepOK(r)
BY BeginStep, CreateStep, LookupStep, ReuseStep, PreflightStep, OversizedStep, SendStep,
   AnswerStep, SaveStep, CompleteStep, CloseStep, UnwindStep DEF Acts, Step

LEMMA NextInv == IInv /\ [Next]_vars => IInv'
<1> SUFFICES ASSUME IInv, [Next]_vars PROVE IInv'
  OBVIOUS
<1>1. ASSUME NEW r \in Runs, Acts(r) PROVE IInv'
  <2>1. StepOK(r) /\ TypeOK
    BY <1>1, ActsStep DEF IInv
  <2>2. ASSUME NEW x \in Runs \ {r}
        PROVE  Unmoved(x) /\ RunOK(x) /\ ReusedOK(x)
    BY <1>1, <2>1, OthersUnmoved, ReuseIsSoundPerRun DEF IInv
  <2>3. \A x \in Runs : RunOK(x)'
    BY <2>1, <2>2, UnmovedOK DEF StepOK
  <2>4. ASSUME NEW x \in Runs \ {r} PROVE ReusedOK(x)'
    <3>1. working'[x] = working[x] /\ billed'[x] = billed[x] /\ ReusedOK(x)
      BY <2>2 DEF Unmoved
    <3>2. ASSUME NEW q \in Runs, NEW c \in Recipes, committed[q].results[c].status = "succeeded"
          PROVE  /\ committed'[q].results[c].status = "succeeded"
                 /\ committed'[q].source = committed[q].source
      BY <2>1, <2>2, <3>2 DEF StepOK, SuccessesKept, Unmoved
    <3> QED BY <3>1, <3>2 DEF ReusedOK
  <2>5. \A x \in Runs : ReusedOK(x)'
    BY <2>1, <2>4 DEF StepOK
  <2>6. ReuseIsSound'
    BY <2>5 DEF ReuseIsSound, ReusedOK
  <2> QED BY <2>1, <2>3, <2>6 DEF IInv, StepOK
<1>2. CASE UNCHANGED vars
  <2>1. TypeOK' /\ ReuseIsSound'
    BY <1>2 DEF IInv, vars, TypeOK, ReuseIsSound
  <2>2. ASSUME NEW r \in Runs PROVE RunOK(r)'
    BY <1>2, UnmovedOK DEF IInv, Unmoved, vars
  <2> QED BY <2>1, <2>2 DEF IInv
<1> QED BY <1>1, <1>2 DEF Next, Acts

\* The inductive invariant holds of every reachable state.
THEOREM Invariance == Spec => []IInv
BY InitInv, NextInv, PTL DEF Spec

-----------------------------------------------------------------------------
(* What follows from the invariant *)

\* Rows, connections and the local state of every run keep their types, whatever the
\* providers answer.
THEOREM TypeCorrect == Spec => []TypeOK
<1>1. IInv => TypeOK
  BY DEF IInv
<1> QED BY <1>1, Invariance, PTL

\* Reuse is sound for any number of concurrent runs: a reused member is free, was not
\* forced, and links another run's durable success for the same source and recipe.
THEOREM ReuseSound == Spec => []ReuseIsSound
<1>1. IInv => ReuseIsSound
  BY DEF IInv
<1> QED BY <1>1, Invariance, PTL

\* Every request that was sent for a generated member is on its account, and no other.
THEOREM Accounting == Spec => []AccountingMatchesCalls
<1>1. IInv => AccountingMatchesCalls
  <2> SUFFICES ASSUME IInv, NEW r \in Runs, NEW c \in Recipes, NEW rows \in {committed[r], working[r]},
                      rows.members[c].state = "generated"
               PROVE  /\ rows.members[c].calls = billed[r][c]
                      /\ rows.results[c].calls = billed[r][c]
                      /\ rows.members[c].cost = "not_incurred" <=> billed[r][c] = 0
    BY DEF AccountingMatchesCalls
  <2>1. rows = working[r]
    BY AbsentIsQuiet DEF IInv, RunOK, VisibilityOK
  <2> QED BY <2>1 DEF IInv, RunOK, GeneratedOK
<1> QED BY <1>1, Invariance, PTL

\* A run that returned has settled and accounted for its whole plan, durably.
THEOREM SettledWhenDone == Spec => []DoneMeansSettled
<1>1. IInv => DoneMeansSettled
  <2> SUFFICES ASSUME IInv, NEW r \in Runs, run[r].pc = "done"
               PROVE  /\ committed[r] = working[r] /\ committed[r].status = "completed"
                      /\ \A c \in Recipes :
                           /\ Settled(committed[r].members[c]) <=> c \in Planned(run[r].request)
                           /\ billed[r][c] = committed[r].members[c].calls
    BY DEF DoneMeansSettled
  <2>1. committed[r] = working[r] /\ RunOK(r) /\ ReusedOK(r)
    BY ReuseIsSoundPerRun DEF IInv, RunOK, VisibilityOK, Active
  <2>2. ASSUME NEW c \in Recipes, c \in Planned(run[r].request)
        PROVE  Settled(working[r].members[c]) /\ billed[r][c] = working[r].members[c].calls
    <3>1. Settled(working[r].members[c])
      BY <2>1, <2>2 DEF RunOK, PlanOK
    <3> QED BY <2>1, <3>1 DEF Settled, RunOK, GeneratedOK, ReusedOK
  <2>3. ASSUME NEW c \in Recipes, c \notin Planned(run[r].request)
        PROVE  ~Settled(working[r].members[c]) /\ billed[r][c] = working[r].members[c].calls
    <3>1. working[r].members[c] = NoMember /\ billed[r][c] = 0
      BY <2>1, <2>3 DEF RunOK, PlanOK
    <3> QED BY <3>1 DEF Settled, NoMember
  <2>4. working[r].status = "completed"
    BY <2>1 DEF RunOK, PlanOK
  <2> QED BY <2>1, <2>2, <2>3, <2>4
<1> QED BY <1>1, Invariance, PTL

\* On the CLI's connection nothing of a run is visible before the connection closes.
THEOREM HiddenUntilClosed == Spec => []ImplicitTransactionHidesTheRun
<1>1. IInv => ImplicitTransactionHidesTheRun
  <2> SUFFICES ASSUME IInv, NEW r \in Runs, ~run[r].autocommit, run[r].pc # "done"
               PROVE  committed[r] = Absent
    BY DEF ImplicitTransactionHidesTheRun
  <2>1. RunOK(r) /\ run[r].pc \in Active \cup {"idle", "aborted"}
    BY DEF IInv, TypeOK, Control
  <2> QED BY <2>1 DEF RunOK, VisibilityOK, PlanOK
<1> QED BY <1>1, Invariance, PTL

\* On an autocommit connection the whole plan is on record before a request leaves.
THEOREM FrozenBeforeCalls == Spec => []PendingMembersDurableBeforeCalls
<1>1. IInv => PendingMembersDurableBeforeCalls
  <2> SUFFICES ASSUME IInv, NEW r \in Runs, run[r].autocommit, run[r].pc = "calling"
               PROVE  /\ committed[r].status = "running"
                      /\ \A i \in 1..Len(Plan(r)) :
                           committed[r].members[Plan(r)[i]].state = "pending" <=> i >= run[r].pos
    BY DEF PendingMembersDurableBeforeCalls, Plan
  <2>1. RunOK(r) /\ TypeOK /\ committed[r] = working[r] /\ run[r].pc \in InPlan
    BY DEF IInv, RunOK, VisibilityOK, InPlan, Executing
  <2>2. run[r].pos \in Nat /\ Len(Plan(r)) \in Nat
    BY <2>1, CurrentMember, RequestTypes DEF RunOK, ControlOK, Executing, Plan
  <2>3. ASSUME NEW i \in 1..Len(Plan(r))
        PROVE  working[r].members[Plan(r)[i]].state = "pending" <=> i >= run[r].pos
    <3>1. CASE i < run[r].pos
      BY <2>1, <2>2, <3>1 DEF RunOK, WorkingOK, Settled
    <3>2. CASE ~(i < run[r].pos)
      BY <2>1, <2>2, <3>2 DEF RunOK, WorkingOK, Untouched, PendingMember, NoMember
    <3> QED BY <3>1, <3>2
  <2> QED BY <2>1, <2>3 DEF RunOK, WorkingOK
<1> QED BY <1>1, Invariance, PTL

-----------------------------------------------------------------------------
(* What follows from the steps *)

\* On an autocommit connection no later failure undoes a finished member.
THEOREM AutocommitDurability == Spec => AutocommitKeepsFinishedMembers
<1>1. IInv /\ [Next]_vars =>
        [\A r \in Runs, c \in Recipes :
           run[r].autocommit /\ Settled(working[r].members[c]) =>
             committed'[r].members[c] = working[r].members[c]]_vars
  <2> SUFFICES ASSUME IInv, NEW x \in Runs, Acts(x), NEW r \in Runs, NEW c \in Recipes,
                      run[r].autocommit, Settled(working[r].members[c])
               PROVE  committed'[r].members[c] = working[r].members[c]
    BY DEF Next, Acts
  <2>1. committed[r] = working[r]
    BY DEF IInv, RunOK, VisibilityOK
  <2>2. CASE r = x
    BY <2>1, <2>2, ActsStep DEF StepOK, PublishesOK, Settled, Ledger!Extends, Ledger!Settled
  <2>3. CASE r # x
    BY <2>1, <2>3, OthersUnmoved DEF IInv, Unmoved
  <2> QED BY <2>2, <2>3
<1> QED BY <1>1, Invariance, PTL DEF Spec, AutocommitKeepsFinishedMembers

\* What a step of a run publishes is an entry of the ledger.
LEMMA StepPublishes ==
  ASSUME NEW r \in Runs, IInv, Acts(r), committed' # committed
  PROVE  committed'[r] # committed[r] /\ Ledger!Publish(r)
<1> DEFINE new == committed'[r]
<1>1. StepOK(r) /\ TypeOK
  BY ActsStep DEF IInv
<1>2. \A x \in Runs \ {r} : committed'[x] = committed[x]
  BY <1>1, OthersUnmoved DEF Unmoved
<1>3. committed' = [committed EXCEPT ![r] = new] /\ new \in Rows
  BY <1>1, <1>2 DEF TypeOK, StepOK
<1>4. /\ new = working'[r] /\ run'[r].pc \in InPlan \cup {"report", "done"}
      /\ Ledger!Extends(committed[r], new)
  BY <1>1, <1>3 DEF StepOK, PublishesOK, TypeOK
<1>5. Ledger!Backed(r, new)
  <2> SUFFICES ASSUME NEW c \in Recipes
               PROVE  /\ new.members[c].state = "generated" =>
                           /\ new.members[c].result = <<r, c>>
                           /\ new.members[c].calls = new.results[c].calls
                           /\ new.results[c].status # "none"
                      /\ new.members[c].state = "reused" =>
                           /\ new.members[c].calls = 0 /\ ~new.forced
                           /\ \E q \in Runs \ {r} :
                                /\ new.members[c].result = <<q, c>>
                                /\ committed[q].source = new.source
                                /\ committed[q].results[c].status = "succeeded"
    BY DEF Ledger!Backed
  <2>1. new.members[c].state = "generated" =>
          /\ new.members[c].result = <<r, c>> /\ new.members[c].calls = new.results[c].calls
          /\ new.results[c].status # "none"
    BY <1>1, <1>4 DEF StepOK, RunOK, GeneratedOK
  <2>2. new.members[c].state = "reused" =>
          /\ new.members[c].calls = 0 /\ ~new.forced
          /\ \E q \in Runs \ {r} :
               /\ new.members[c].result = <<q, c>>
               /\ committed[q].source = new.source
               /\ committed[q].results[c].status = "succeeded"
    BY <1>1, <1>2, <1>4 DEF StepOK, ReusedOK
  <2> QED BY <2>1, <2>2
<1>6. new.status = "completed" => \A c \in Recipes : new.members[c].state # "pending"
  <2>1. CASE run'[r].pc \in InPlan
    BY <1>1, <1>4, <2>1 DEF StepOK, RunOK, WorkingOK
  <2>2. CASE run'[r].pc \in {"report", "done"}
    BY <1>1, <1>4, <2>2 DEF StepOK, RunOK, PlanOK, Settled, NoMember
  <2> QED BY <1>4, <2>1, <2>2
<1>7. new # committed[r]
  BY <1>1, <1>2, <1>3 DEF TypeOK
<1> HIDE DEF new
<1> QED BY <1>3, <1>4, <1>5, <1>6, <1>7, LedgerVocabulary DEF Ledger!Publish, new

\* What the database shows of all runs is the append-only ledger: the committed rows
\* implement ComparisonLedger.
THEOREM LedgerRefinement == Spec => LedgerSpec
<1>1. Init => Ledger!Init
  BY LedgerVocabulary DEF Init, Ledger!Init
<1>2. IInv /\ [Next]_vars => [Ledger!Next]_committed
  BY StepPublishes DEF Next, Acts, Ledger!Next, vars
<1> QED BY <1>1, <1>2, Invariance, PTL DEF Spec, LedgerSpec, Ledger!Spec

-----------------------------------------------------------------------------
(* What a run knows stays true *)

\* Durable successes are only added to.
Keeps ==
  \A q \in Runs, c \in Recipes :
    committed[q].results[c].status = "succeeded" =>
      /\ committed'[q].results[c] = committed[q].results[c]
      /\ committed'[q].source = committed[q].source

LEMMA SuccessesStay == ASSUME IInv, NEW r \in Runs, Acts(r) PROVE Keeps
<1>1. StepOK(r) /\ TypeOK
  BY ActsStep DEF IInv
<1>2. ASSUME NEW q \in Runs, NEW c \in Recipes, committed[q].results[c].status = "succeeded"
      PROVE  /\ committed'[q].results[c] = committed[q].results[c]
             /\ committed'[q].source = committed[q].source
  <2>1. CASE q = r
    BY <1>1, <1>2, <2>1 DEF StepOK, SuccessesKept, PublishesOK, Ledger!Extends
  <2>2. CASE q # r
    BY <1>1, <2>2, OthersUnmoved DEF Unmoved
  <2> QED BY <2>1, <2>2
<1> QED BY <1>2 DEF Keeps

LEMMA KnownStays ==
  ASSUME NEW r \in Runs, KnownOK(r), Keeps, known'[r] = known[r],
         run'[r].request = run[r].request
  PROVE  KnownOK(r)'
  BY DEF KnownOK, Keeps

LEMMA ServesStays ==
  ASSUME NEW r \in Runs, NEW c \in Recipes, NEW source, NEW stamps, NEW id, Keeps,
         Serves(committed, r, c, source, stamps, id)
  PROVE  Serves(committed', r, c, source, stamps, id)
  BY DEF Serves, Keeps

\* A step that sends nothing for, and links nothing new to, what the run knows of.
LEMMA LinksStay ==
  ASSUME NEW r \in Runs, LinksOK(r), Keeps, known'[r] = known[r],
         run'[r].request = run[r].request,
         \A c \in Recipes :
           known[r][c] # {} /\ ~run[r].request.regenerate => billed'[r][c] = billed[r][c],
         \A c \in Recipes :
           working'[r].members[c].state = "reused" =>
             working'[r].members[c] = working[r].members[c]
  PROVE  LinksOK(r)'
<1> SUFFICES ASSUME ~run[r].request.regenerate, NEW c \in Recipes
             PROVE  /\ known[r][c] # {} => billed'[r][c] = 0
                    /\ working'[r].members[c].state = "reused" =>
                         Serves(committed', r, c, run[r].request.source, known[r][c],
                                working'[r].members[c].result)
  BY DEF LinksOK
<1>1. known[r][c] # {} => billed'[r][c] = 0
  BY DEF LinksOK
<1>2. ASSUME working'[r].members[c].state = "reused"
      PROVE  Serves(committed', r, c, run[r].request.source, known[r][c],
                    working'[r].members[c].result)
  <2>1. Serves(committed, r, c, run[r].request.source, known[r][c],
               working'[r].members[c].result)
    BY <1>2 DEF LinksOK
  <2> QED BY <2>1, ServesStays
<1> QED BY <1>1, <1>2

LEMMA UnmovedMemory ==
  ASSUME NEW x \in Runs, Unmoved(x), known'[x] = known[x], Keeps, IInv, MemoryOK(x)
  PROVE  MemoryOK(x)'
<1> USE DEF Unmoved
<1>1. KnownOK(x)'
  BY KnownStays DEF MemoryOK
<1>2. LinksOK(x)'
  BY LinksStay DEF MemoryOK
<1>3. HitOK(x)'
  <2>1. Recipe(x)' = Recipe(x)
    BY DEF Recipe
  <2>2. ASSUME run[x].pc = "reuse"
        PROVE  Serves(committed', x, Recipe(x), run[x].request.source, known[x][Recipe(x)],
                      run[x].cached)
    <3>1. Recipe(x) \in Recipes
      BY <2>2, CurrentMember DEF IInv, RunOK, ControlOK, InPlan
    <3> QED BY <2>2, <3>1, ServesStays DEF MemoryOK, HitOK
  <2> QED BY <2>1, <2>2 DEF MemoryOK, HitOK
<1> QED BY <1>1, <1>2, <1>3 DEF MemoryOK

\* A step after which the run neither executes a recipe nor links a hit.
LEMMA BetweenMembers ==
  ASSUME NEW r \in Runs, MemoryOK(r), Keeps, known'[r] = known[r],
         run'[r].request = run[r].request, run'[r].pc \notin Executing \cup {"reuse"},
         \A c \in Recipes :
           known[r][c] # {} /\ ~run[r].request.regenerate => billed'[r][c] = billed[r][c],
         \A c \in Recipes :
           working'[r].members[c].state = "reused" =>
             working'[r].members[c] = working[r].members[c]
  PROVE  MemoryOK(r)'
<1>1. KnownOK(r)' /\ LinksOK(r)'
  BY KnownStays, LinksStay DEF MemoryOK
<1>2. HitOK(r)'
  BY DEF HitOK, Executing
<1> QED BY <1>1, <1>2 DEF MemoryOK

\* A step within the execution of a recipe.
LEMMA WithinMember ==
  ASSUME NEW r \in Runs, MemoryOK(r), Keeps, known'[r] = known[r], working'[r] = working[r],
         run[r].pc \in Executing, run'[r].pc \in Executing,
         run'[r].request = run[r].request, run'[r].pos = run[r].pos,
         \A c \in Recipes :
           known[r][c] # {} /\ ~run[r].request.regenerate => billed'[r][c] = billed[r][c],
         run'[r].pc = "save" /\ run'[r].outcome.status = "succeeded" =>
           run'[r].attempts # <<>>
  PROVE  MemoryOK(r)'
<1>1. KnownOK(r)' /\ LinksOK(r)'
  BY KnownStays, LinksStay DEF MemoryOK
<1>2. Recipe(r)' = Recipe(r)
  BY DEF Recipe
<1>3. HitOK(r)'
  BY <1>2 DEF MemoryOK, HitOK, Executing
<1> QED BY <1>1, <1>3 DEF MemoryOK

LEMMA BeginMemory == ASSUME NEW r \in Runs, IInv, Begin(r) PROVE MemoryOK(r)'
<1>1. /\ run[r].pc = "idle" /\ TypeOK /\ RunOK(r)
      /\ UNCHANGED <<committed, working, billed, clock>>
  BY DEF IInv, Begin
<1>2. PICK q \in Requests : \E m \in Modes[q] :
        /\ run' = [run EXCEPT ![r] = [@ EXCEPT !.pc = "plan", !.request = q, !.autocommit = m]]
        /\ known' = [known EXCEPT ![r] = [c \in Recipes |-> Durable(q.source, c)]]
  BY DEF Begin
<1>3. run'[r].pc = "plan" /\ run'[r].request = q
      /\ \A c \in Recipes : known'[r][c] = Durable(q.source, c)
  BY <1>1, <1>2 DEF TypeOK, Control
<1>4. committed[r] = Absent /\ working[r] = Absent /\ \A c \in Recipes : billed[r][c] = 0
  BY <1>1 DEF RunOK, PlanOK, VisibilityOK
<1>5. KnownOK(r)'
  <2> SUFFICES ASSUME NEW c \in Recipes, NEW t \in Durable(q.source, c)
               PROVE  \E p \in Runs \ {r} :
                        /\ committed[p].source = q.source
                        /\ committed[p].results[c].status = "succeeded"
                        /\ committed[p].results[c].created = t
    BY <1>1, <1>3 DEF KnownOK
  <2>1. PICK p \in Runs : /\ committed[p].source = q.source
                          /\ committed[p].results[c].status = "succeeded"
                          /\ committed[p].results[c].created = t
    BY DEF Durable
  <2> QED BY <1>4, <2>1, AbsentIsQuiet
<1>6. LinksOK(r)'
  BY <1>1, <1>4, AbsentIsQuiet DEF LinksOK
<1>7. HitOK(r)'
  BY <1>3 DEF HitOK, Executing
<1> QED BY <1>5, <1>6, <1>7 DEF MemoryOK

LEMMA LookupMemory == ASSUME NEW r \in Runs, IInv, MemoryOK(r), Keeps, Lookup(r) PROVE MemoryOK(r)'
<1> DEFINE c == Recipe(r)
           S == CachedSuccesses(r, Recipe(r))
           source == run[r].request.source
<1>1. /\ TypeOK /\ RunOK(r) /\ run[r] \in Control /\ run[r].pc = "member"
      /\ UNCHANGED <<committed, working, billed, known, clock>>
      /\ run[r].pc \in InPlan /\ run[r].pos <= Len(Plan(r)) /\ run[r].request \in Requests
  BY DEF IInv, TypeOK, Lookup, MemberDue, InPlan, Plan, RunOK, ControlOK, Active
<1>2. run[r].pos \in 1..Len(Plan(r))
  BY <1>1, RequestTypes DEF RunOK, ControlOK, Control, Plan
<1>3. c \in Recipes /\ working[r].results[c] = NoRow
  BY <1>1, <1>2, CurrentMember
<1>4. PICK hit \in find_comparison_result(r) :
        run' = [run EXCEPT ![r] = [@ EXCEPT
                  !.cached = hit, !.pc = IF hit = NoResult THEN "execute" ELSE "reuse"]]
  BY DEF Lookup
<1>5. /\ run'[r].pc = (IF hit = NoResult THEN "execute" ELSE "reuse")
      /\ run'[r].cached = hit /\ run'[r].request = run[r].request /\ run'[r].pos = run[r].pos
  BY <1>1, <1>4 DEF TypeOK, Control
<1>6. Recipe(r)' = c
  BY <1>5 DEF Recipe
<1>7. KnownOK(r)' /\ LinksOK(r)'
  BY <1>1, <1>5, KnownStays, LinksStay DEF MemoryOK
<1>8. ASSUME NEW t \in known[r][c]
      PROVE  \E q \in S : Visible(r, q) = committed[q] /\ committed[q].results[c].created = t
  BY <1>3 DEF MemoryOK, KnownOK, CachedSuccesses, Visible
<1>9. \A q \in S : q # r /\ Visible(r, q) = committed[q]
  BY <1>3 DEF CachedSuccesses, Visible, NoRow
<1>10. CASE run[r].request.regenerate \/ S = {}
  <2>1. hit = NoResult
    BY <1>10 DEF find_comparison_result
  <2>2. ~run[r].request.regenerate => known[r][c] = {}
    BY <1>8, <1>10
  <2>3. HitOK(r)'
    BY <1>1, <1>5, <1>6, <2>1, <2>2 DEF HitOK
  <2> QED BY <1>7, <2>3 DEF MemoryOK
<1>11. CASE ~run[r].request.regenerate /\ S # {}
  <2>1. hit \in NewestOf(r, c, S) \X {c}
    BY <1>11 DEF find_comparison_result
  <2>2. /\ hit[1] \in S /\ hit[2] = c /\ hit \in Runs \X Recipes
        /\ \A p \in S : Visible(r, p).results[c].created <= Visible(r, hit[1]).results[c].created
    BY <1>3, <2>1 DEF NewestOf, CachedSuccesses
  <2>3. hit # NoResult
    BY <2>2, ConstantsAssumption DEF ResultIds
  <2>4. ASSUME NEW t \in known[r][c] PROVE committed[hit[1]].results[c].created >= t
    <3>1. PICK q \in S : Visible(r, q) = committed[q] /\ committed[q].results[c].created = t
      BY <1>8
    <3>2. q \in Runs /\ hit[1] \in Runs
      BY <2>2 DEF CachedSuccesses
    <3>3. \A x \in Runs : committed[x].results[c].created \in Nat
      <4> SUFFICES ASSUME NEW x \in Runs PROVE committed[x].results[c].created \in Nat
        OBVIOUS
      <4>1. committed[x] \in Rows
        BY <1>1 DEF TypeOK
      <4>2. committed[x].results[c] \in ResultRows
        BY <1>3, <4>1 DEF Rows
      <4> QED BY <4>2 DEF ResultRows
    <3> QED BY <1>9, <2>2, <3>1, <3>2, <3>3
  <2>5. Serves(committed, r, c, source, known[r][c], hit)
    BY <1>9, <2>2, <2>4 DEF Serves, CachedSuccesses
  <2>6. HitOK(r)'
    BY <1>1, <1>5, <1>6, <2>3, <2>5 DEF HitOK, Executing
  <2> QED BY <1>7, <2>6 DEF MemoryOK
<1> QED BY <1>10, <1>11

LEMMA ReuseMemory ==
  ASSUME NEW r \in Runs, IInv, MemoryOK(r), Keeps, reuse_result(r) PROVE MemoryOK(r)'
<1> DEFINE c == Recipe(r)
           m == [NoMember EXCEPT !.state = "reused", !.result = run[r].cached]
           rows == [working[r] EXCEPT !.members[c] = m]
<1>1. /\ TypeOK /\ RunOK(r) /\ run[r] \in Control /\ run[r].pc = "reuse" /\ working[r] \in Rows
      /\ run[r].pc \in InPlan /\ run[r].pos \in 1..Len(Plan(r)) /\ UNCHANGED <<billed, known>>
  BY DEF IInv, TypeOK, reuse_result, RunOK, ControlOK, InPlan
<1>2. c \in Recipes
  BY <1>1, CurrentMember
<1>3. /\ working' = [working EXCEPT ![r] = rows]
      /\ run'[r].pc = "member" /\ run'[r].request = run[r].request
  BY <1>1 DEF reuse_result, Block, Control, TypeOK
<1>4. /\ working'[r].members[c] = m /\ m.result = run[r].cached
      /\ \A d \in Recipes \ {c} : working'[r].members[d] = working[r].members[d]
  BY <1>1, <1>2, <1>3 DEF Rows, TypeOK, NoMember
<1> HIDE DEF m, rows
<1>5. Serves(committed', r, c, run[r].request.source, known[r][c], run[r].cached)
  BY <1>1, <1>2, ServesStays DEF MemoryOK, HitOK
<1>6. LinksOK(r)'
  <2> SUFFICES ASSUME ~run[r].request.regenerate, NEW d \in Recipes
               PROVE  /\ known[r][d] # {} => billed[r][d] = 0
                      /\ working'[r].members[d].state = "reused" =>
                           Serves(committed', r, d, run[r].request.source, known[r][d],
                                  working'[r].members[d].result)
    BY <1>1, <1>3 DEF LinksOK
  <2>1. CASE d = c
    BY <1>4, <1>5, <2>1 DEF MemoryOK, LinksOK
  <2>2. CASE d # c
    <3>1. working'[r].members[d] = working[r].members[d]
      BY <1>4, <2>2
    <3> QED BY <3>1, ServesStays DEF MemoryOK, LinksOK
  <2> QED BY <2>1, <2>2
<1>7. KnownOK(r)'
  BY <1>1, <1>3, KnownStays DEF MemoryOK
<1>8. HitOK(r)'
  BY <1>3 DEF HitOK, Executing
<1> QED BY <1>6, <1>7, <1>8 DEF MemoryOK

LEMMA ExecutingMemory ==
  ASSUME NEW r \in Runs, IInv, MemoryOK(r), Keeps,
         Preflight(r) \/ Oversized(r) \/ Send(r) \/ Answer(r)
  PROVE  MemoryOK(r)'
<1>1. run[r].pc \in {"execute", "calling"} /\ UNCHANGED <<db, known>>
  BY DEF Preflight, Oversized, Send, Answer
<1>2. /\ TypeOK /\ run[r] \in Control /\ run[r].pc \in Executing /\ Recipe(r) \in Recipes
      /\ run[r].attempts \in Seq(Attempts) /\ working' = working
  BY <1>1, ExecutingFacts DEF Executing, db
<1>3. ASSUME NEW o \in Outcomes, Decide(r, o), UNCHANGED billed,
             o.status = "succeeded" => run[r].attempts # <<>>
      PROVE  MemoryOK(r)'
  <2>1. /\ run'[r].pc = "save" /\ run'[r].request = run[r].request /\ run'[r].pos = run[r].pos
        /\ run'[r].outcome = o /\ run'[r].attempts = run[r].attempts
    BY <1>2, <1>3 DEF Decide, TypeOK, Control
  <2> QED BY <1>1, <1>2, <1>3, <2>1, WithinMember DEF Executing
<1>4. CASE Preflight(r)
  <2>1. PICK code \in {"credentials", "compatibility"} :
          Decide(r, Outcome("preflight_failed", code)) /\ UNCHANGED billed
    BY <1>4 DEF Preflight
  <2>2. /\ Outcome("preflight_failed", code) \in Outcomes
        /\ Outcome("preflight_failed", code).status # "succeeded"
    BY DEF Outcome, Outcomes, Statuses, Codes
  <2> QED BY <1>3, <2>1, <2>2
<1>5. CASE Oversized(r)
  <2> DEFINE o == classify_structured_failure(run[r].attempts, TRUE)
  <2>1. o \in Outcomes /\ o.status # "succeeded"
    BY <1>2, FailureIsOutcome, FailureIsNoSuccess DEF Failure
  <2>2. Decide(r, o) /\ UNCHANGED billed
    BY <1>5 DEF Oversized
  <2> HIDE DEF o
  <2> QED BY <1>3, <2>1, <2>2
<1>6. CASE Send(r)
  <2>1. run[r].pc = "execute" /\ billed' = [billed EXCEPT ![r][Recipe(r)] = @ + 1]
    BY <1>6 DEF Send
  <2>2. /\ run'[r].pc = "calling" /\ run'[r].request = run[r].request
        /\ run'[r].pos = run[r].pos
    BY <1>2, <1>6 DEF Send, Goto, TypeOK, Control
  <2>3. ~run[r].request.regenerate => known[r][Recipe(r)] = {}
    BY <1>2 DEF MemoryOK, HitOK
  <2>4. \A c \in Recipes : c # Recipe(r) => billed'[r][c] = billed[r][c]
    BY <1>2, <2>1 DEF TypeOK
  <2> QED BY <1>1, <1>2, <2>2, <2>3, <2>4, WithinMember DEF Executing
<1>7. CASE Answer(r)
  <2>1. PICK a \in Replies :
          run' = [run EXCEPT ![r] = AfterAnswer(run[r], Append(run[r].attempts, a))]
    BY <1>7 DEF Answer
  <2> DEFINE attempts == Append(run[r].attempts, a)
  <2>2. attempts # <<>>
    <3>1. a \in Attempts
      BY ConstantsAssumption
    <3> QED BY <1>2, <3>1, OneMoreAttempt
  <2>3. run'[r] = AfterAnswer(run[r], attempts)
    BY <2>1 DEF IInv, TypeOK
  <2> HIDE DEF attempts
  <2>4. /\ run'[r].pc \in {"execute", "save"} /\ run'[r].request = run[r].request
        /\ run'[r].pos = run[r].pos /\ run'[r].attempts = attempts
    BY <1>2, <2>3 DEF AfterAnswer, Control
  <2>5. UNCHANGED billed
    BY <1>7 DEF Answer
  <2> QED BY <1>1, <1>2, <2>2, <2>4, <2>5, WithinMember DEF Executing
<1> QED BY <1>4, <1>5, <1>6, <1>7

LEMMA OtherMemory ==
  ASSUME NEW r \in Runs, IInv, MemoryOK(r), Keeps,
         \/ create_invocation(r) \/ save_result(r) \/ complete_invocation(r)
         \/ Close(r) \/ Unwind(r)
  PROVE  MemoryOK(r)'
<1>1. /\ TypeOK /\ RunOK(r) /\ run[r] \in Control /\ working[r] \in Rows
      /\ UNCHANGED <<billed, known>>
  BY DEF IInv, TypeOK, create_invocation, save_result, complete_invocation, Close, Unwind
<1>2. CASE create_invocation(r)
  <2>1. /\ run'[r].pc = "member" /\ run'[r].request = run[r].request
        /\ working'[r] = FrozenRows(run[r].request)
    BY <1>1, <1>2 DEF create_invocation, Block, TypeOK, Control
  <2>2. \A c \in Recipes : working'[r].members[c].state # "reused"
    BY <2>1 DEF FrozenRows, Absent, PendingMember, NoMember
  <2> QED BY <1>1, <2>1, <2>2, BetweenMembers DEF Executing
<1>3. CASE save_result(r)
  <2> DEFINE c == Recipe(r)
             m == [state |-> "generated", result |-> <<r, c>>,
                   calls |-> Len(save_recipe_calls(run[r].attempts)),
                   cost |-> MemberCost(c, save_recipe_calls(run[r].attempts))]
             row == [status |-> run[r].outcome.status,
                     calls |-> Len(save_recipe_calls(run[r].attempts)), created |-> clock]
             rows == [working[r] EXCEPT !.results[c] = row, !.members[c] = m]
  <2>1. run[r].pc = "save" /\ c \in Recipes
    BY <1>3, ExecutingFacts DEF save_result, Executing
  <2>2. /\ run'[r].pc = "member" /\ run'[r].request = run[r].request
        /\ Block(r, rows)
    BY <1>1, <1>3 DEF save_result, TypeOK, Control
  <2>3. m.state = "generated"
    OBVIOUS
  <2> HIDE DEF m, row
  <2>4. rows.members = [working[r].members EXCEPT ![c] = m]
    BY <1>1 DEF Rows
  <2>5. working'[r] = rows
    BY <1>1, <2>2 DEF Block, TypeOK
  <2> HIDE DEF rows
  <2>6. /\ working'[r].members[c].state # "reused"
        /\ \A d \in Recipes \ {c} : working'[r].members[d] = working[r].members[d]
    BY <1>1, <2>1, <2>3, <2>4, <2>5 DEF Rows
  <2> QED BY <1>1, <2>2, <2>6, BetweenMembers DEF Executing
<1>4. CASE complete_invocation(r)
  <2>1. /\ run'[r].pc = "report" /\ run'[r].request = run[r].request
        /\ working'[r].members = working[r].members
    BY <1>1, <1>4 DEF complete_invocation, Block, Goto, TypeOK, Control, Rows
  <2> QED BY <1>1, <2>1, BetweenMembers DEF Executing
<1>5. CASE Close(r)
  <2>1. /\ run'[r].pc = "done" /\ run'[r].request = run[r].request
        /\ working'[r] = working[r]
    BY <1>1, <1>5 DEF Close, Exit, TypeOK, Control
  <2> QED BY <1>1, <2>1, BetweenMembers DEF Executing
<1>6. CASE Unwind(r)
  <2>1. /\ run'[r].pc = "aborted" /\ run'[r].request = run[r].request
        /\ working'[r] = committed[r]
    BY <1>1, <1>6 DEF Unwind, Exit, TypeOK, Control
  <2>2. working'[r] = Absent \/ working'[r] = working[r]
    BY <1>1, <2>1 DEF RunOK, VisibilityOK
  <2>3. \A c \in Recipes : working'[r].members[c].state = "reused" =>
                             working'[r].members[c] = working[r].members[c]
    BY <2>2, AbsentIsQuiet
  <2> QED BY <1>1, <2>1, <2>3, BetweenMembers DEF Executing
<1> QED BY <1>2, <1>3, <1>4, <1>5, <1>6

LEMMA MemoryStep == ASSUME IInv, Memory, NEW r \in Runs, Acts(r) PROVE Memory'
<1>1. Keeps /\ MemoryOK(r)
  BY SuccessesStay DEF Memory
<1>2. MemoryOK(r)'
  BY <1>1, BeginMemory, LookupMemory, ReuseMemory, ExecutingMemory, OtherMemory DEF Acts, Step
<1>3. ASSUME NEW x \in Runs \ {r} PROVE MemoryOK(x)'
  <2>1. Unmoved(x)
    BY OthersUnmoved DEF IInv
  <2>2. known'[x] = known[x]
    BY DEF Acts, Step, Begin, create_invocation, Lookup, reuse_result, Preflight, Oversized, Send,
           Answer, save_result, complete_invocation, Close, Unwind, IInv, TypeOK
  <2> QED BY <1>1, <2>1, <2>2, UnmovedMemory DEF Memory
<1> QED BY <1>2, <1>3 DEF Memory

\* What a run has read of other runs stays true, whatever they commit.
THEOREM MemoryInvariance == Spec => []Memory
<1>1. Init => Memory
  <2> SUFFICES ASSUME Init, NEW r \in Runs PROVE MemoryOK(r)
    BY DEF Memory
  <2>1. /\ run[r].pc = "idle" /\ working[r] = Absent
        /\ \A c \in Recipes : known[r][c] = {} /\ billed[r][c] = 0
    BY DEF Init
  <2> QED BY <2>1, AbsentIsQuiet DEF MemoryOK, KnownOK, HitOK, LinksOK, Executing
<1>2. IInv /\ Memory /\ [Next]_vars => Memory'
  <2>1. ASSUME Memory, UNCHANGED vars PROVE Memory'
    BY SMTT(30), <2>1 DEF Memory, MemoryOK, KnownOK, HitOK, LinksOK, Recipe, vars
  <2> QED BY <2>1, MemoryStep DEF Next, Acts
<1> QED BY <1>1, <1>2, Invariance, PTL DEF Spec

\* find_comparison_result: a success that was durable when a run began is not paid for
\* again, and what the run links is its own source's and at least as new.
THEOREM DurableSuccessReused == Spec => []CommittedSuccessIsReused
<1>1. Memory => CommittedSuccessIsReused
  <2> SUFFICES ASSUME Memory, NEW r \in Runs, NEW c \in Recipes,
                      known[r][c] # {}, ~run[r].request.regenerate
               PROVE  /\ billed[r][c] = 0
                      /\ working[r].members[c].state = "reused" =>
                           LET id == working[r].members[c].result IN
                           /\ committed[id[1]].source = run[r].request.source
                           /\ \A t \in known[r][c] :
                                committed[id[1]].results[id[2]].created >= t
    BY DEF CommittedSuccessIsReused
  <2>1. LinksOK(r)
    BY DEF Memory, MemoryOK
  <2>2. ASSUME working[r].members[c].state = "reused"
        PROVE  Serves(committed, r, c, run[r].request.source, known[r][c],
                      working[r].members[c].result)
    BY <2>1, <2>2 DEF LinksOK
  <2> QED BY <2>1, <2>2 DEF LinksOK, Serves
<1> QED BY <1>1, MemoryInvariance, PTL

\* reuse_result, save_result and complete_invocation never raise of themselves, whatever
\* other runs commit between a run's lookup and its writes.
THEOREM ChecksHold == Spec => []OwnChecksHold
<1>1. IInv /\ Memory => OwnChecksHold
  <2> SUFFICES ASSUME IInv, Memory, NEW r \in Runs
               PROVE  /\ run[r].pc = "reuse" =>
                           /\ working[r].members[Recipe(r)].state = "pending"
                           /\ Visible(r, run[r].cached[1]).results[run[r].cached[2]].status = "succeeded"
                           /\ Visible(r, run[r].cached[1]).source = working[r].source
                           /\ run[r].cached[2] = Recipe(r)
                      /\ run[r].pc = "save" =>
                           /\ working[r].members[Recipe(r)].state = "pending"
                           /\ run[r].outcome.status = "succeeded" => run[r].attempts # <<>>
                      /\ AllMembersDone(r) => working[r].status = "running"
    BY DEF OwnChecksHold
  <2>1. TypeOK /\ RunOK(r) /\ MemoryOK(r)
    BY DEF IInv, Memory
  <2>2. ASSUME run[r].pc \in {"reuse", "save"}
        PROVE  working[r].members[Recipe(r)].state = "pending"
    BY <2>1, <2>2, CurrentMember
       DEF RunOK, ControlOK, InPlan, Executing, PendingMember, NoMember
  <2>3. ASSUME run[r].pc = "reuse"
        PROVE  /\ Visible(r, run[r].cached[1]).results[run[r].cached[2]].status = "succeeded"
               /\ Visible(r, run[r].cached[1]).source = working[r].source
               /\ run[r].cached[2] = Recipe(r)
    <3>1. working[r].source = run[r].request.source
      BY <2>1, <2>3 DEF RunOK, WorkingOK, InPlan
    <3> QED BY <2>1, <2>3, <3>1 DEF MemoryOK, HitOK, Serves, Visible
  <2>4. AllMembersDone(r) => working[r].status = "running"
    BY <2>1 DEF AllMembersDone, RunOK, WorkingOK, InPlan
  <2> QED BY <2>1, <2>2, <2>3, <2>4 DEF MemoryOK, HitOK
<1> QED BY <1>1, Invariance, MemoryInvariance, PTL
=============================================================================
