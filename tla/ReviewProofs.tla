------------------------------- MODULE ReviewProofs ------------------------------
(***************************************************************************)
(* Proofs about Review, for any number of processes, sessions and          *)
(* assessments and any bounds: IInv is inductive, and what follows from    *)
(* it.  The invariant is made of operators on rows and commands, so that a *)
(* step is a statement about one row and one command (Moved).              *)
(***************************************************************************)
EXTENDS ReviewInv, SequenceTheorems, FiniteSetTheorems, TLAPS

-----------------------------------------------------------------------------
(* Rows and commands *)

LEMMA One ==
  ASSUME NEW S, NEW v \in S
  PROVE  /\ Append(<<>>, v) = <<v>> /\ <<v>> \in Seq(S) /\ Len(<<v>>) = 1 /\ <<v>>[1] = v
         /\ <<v>> # <<>>
  OBVIOUS

LEMMA Beginning ==
  ASSUME NEW S, NEW a \in Seq(S), NEW b \in Seq(S)
  PROVE  /\ a \o b \in Seq(S) /\ Len(a) <= Len(a \o b)
         /\ \A i \in 1..Len(a) : (a \o b)[i] = a[i]
<1>1. /\ Len(a) \in Nat /\ Len(b) \in Nat /\ a \o b \in Seq(S) /\ Len(a \o b) = Len(a) + Len(b)
      /\ \A i \in 1..(Len(a) + Len(b)) : (a \o b)[i] = IF i <= Len(a) THEN a[i] ELSE b[i - Len(a)]
  BY LenProperties, ConcatProperties
<1>2. \A i \in 1..Len(a) : i \in 1..(Len(a) + Len(b)) /\ i <= Len(a)
  BY <1>1
<1>3. Len(a) <= Len(a \o b)
  BY <1>1
<1> QED BY <1>1, <1>2, <1>3

LEMMA Blank ==
  /\ Absent \in SessionRows /\ Nothing \in SessionRows /\ ~Exists(Absent) /\ ~Exists(Nothing)
  /\ Nothing.declared = "nothing" /\ ~Nothing.command /\ Nothing.exposures = <<>>
  /\ Nothing.revisions = <<>> /\ Nothing.observed = {} /\ ~Nothing.completed
  /\ RowOK(Absent)
<1>1. /\ Absent \in SessionRows /\ Absent.declared = "absent" /\ Absent.exposures = <<>>
      /\ Absent.revisions = <<>> /\ Absent.observed = {} /\ Absent.command = FALSE
      /\ Absent.completed = FALSE
  BY DEF Absent, SessionRows
<1>2. /\ Nothing \in SessionRows /\ Nothing.declared = "nothing"
      /\ ~Nothing.command /\ Nothing.exposures = <<>>
      /\ Nothing.revisions = <<>> /\ Nothing.observed = {} /\ ~Nothing.completed
  BY <1>1 DEF Nothing, SessionRows, Declarations
<1>3. RowOK(Absent)
  BY <1>1, ReviewConstants DEF RowOK, LabelsFit, BlindIfByCommand, RevealsFollow, ResultsMatch, Ordinals
<1> QED BY <1>1, <1>2, <1>3 DEF Exists, Declarations

LEMMA IdleFacts ==
  /\ Idle \in Processes /\ Idle.pc = "idle" /\ Idle.session = NoSession /\ Idle.wrote = Nothing
  /\ Idle.seen = {} /\ Idle.revise = FALSE /\ Idle.complete = FALSE
<1>1. Nothing \in SessionRows
  BY Blank
<1> QED BY <1>1, ReviewConstants DEF Idle, Processes

LEMMA ApartIsSymmetric == ASSUME NEW r, NEW q, Apart(r, q) PROVE Apart(q, r)
  BY DEF Apart

LEMMA MergedRow ==
  ASSUME NEW row \in SessionRows, NEW w \in SessionRows
  PROVE  /\ Merged(row, w) \in SessionRows
         /\ Merged(row, w).declared = IF Exists(w) THEN w.declared ELSE row.declared
         /\ Merged(row, w).command = (row.command \/ w.command)
         /\ Merged(row, w).exposures = row.exposures \o w.exposures
         /\ Merged(row, w).revisions = row.revisions \o w.revisions
         /\ Merged(row, w).observed = row.observed \cup w.observed
         /\ Merged(row, w).completed = (row.completed \/ w.completed)
  BY DEF Merged, SessionRows, Exists

\* What a command has read or written still fits when others have moved the session
\* on: the locks see to it that they did not touch what it builds on.
LEMMA StillFits ==
  ASSUME NEW row \in SessionRows, NEW later \in SessionRows, NEW r \in Processes,
         Fits(row, r), ~Opens(r), Exists(later), later.declared = row.declared,
         Len(row.exposures) <= Len(later.exposures),
         \A e \in Ordinals(row.exposures) : later.exposures[e] = row.exposures[e],
         Revises(r) \/ Observes(r) =>
           later.exposures = row.exposures /\ later.revisions = row.revisions,
         Observes(r) => \A x \in later.observed : x.exposure # r.exposure
  PROVE  Fits(later, r)
<1>1. Ordinals(row.exposures) \subseteq Ordinals(later.exposures)
  BY DEF Ordinals, SessionRows
<1>2. SessionFits(later, r)
  BY <1>1 DEF Fits, SessionFits
<1>3. RevisionFits(later, r)
  BY DEF Fits, RevisionFits
<1>4. ObservationFits(later, r)
  BY DEF Fits, ObservationFits
<1>5. StepFits(later, r)
  BY <1>1 DEF Fits, StepFits
<1> QED BY <1>2, <1>3, <1>4, <1>5 DEF Fits

-----------------------------------------------------------------------------
(* Steps of one command *)

\* A step that moves session s on to `row' and the command of p to c.
Moves(p, s, row, c) ==
  /\ sessions' = [sessions EXCEPT ![s] = row] /\ proc' = [proc EXCEPT ![p] = c]
  /\ prepared' \in BOOLEAN /\ announced' \subseteq Sessions
  /\ shown' = shown \/ (shown' \subseteq Sessions \X Assessments /\ ShownIsRecorded')
  /\ RowOK(row)
  /\ Len(sessions[s].exposures) <= Len(row.exposures)
  /\ \A e \in Ordinals(sessions[s].exposures) : row.exposures[e] = sessions[s].exposures[e]
  /\ c.pc = "idle" => c = Idle
  /\ c.pc # "idle" => c.session = s /\ Fits(row, c)
  /\ \A q \in Procs \ {p} : Running(q) /\ proc[q].session = s =>
       /\ Fits(row, proc[q])
       /\ c.pc # "idle" => Apart(c, proc[q])

LEMMA Moved ==
  ASSUME NEW p \in Procs, NEW s \in Sessions, NEW row \in SessionRows, NEW c \in Processes,
         IInv, Moves(p, s, row, c)
  PROVE  IInv'
<1> USE DEF Moves
<1>1. /\ TypeOK' /\ sessions'[s] = row /\ proc'[p] = c
      /\ \A t \in Sessions \ {s} : sessions'[t] = sessions[t]
      /\ \A q \in Procs \ {p} : proc'[q] = proc[q]
  BY DEF IInv, TypeOK
<1>2. \A t \in Sessions : RowOK(sessions'[t])
  BY <1>1 DEF IInv
<1>3. \A q \in Procs : ~Running(q)' => proc'[q] = Idle
  BY <1>1 DEF IInv, Running
<1>4. ASSUME NEW q \in Procs, Running(q)'
      PROVE  proc'[q].session \in Sessions /\ Fits(sessions'[proc'[q].session], proc'[q])
  <2>1. CASE q = p
    BY <1>1, <1>4, <2>1 DEF Running
  <2>2. CASE q # p
    <3>1. /\ proc'[q] = proc[q] /\ Running(q) /\ proc[q].session \in Sessions
          /\ Fits(sessions[proc[q].session], proc[q])
      BY <1>1, <1>4, <2>2 DEF IInv, Running
    <3> QED BY <1>1, <2>2, <3>1
  <2> QED BY <2>1, <2>2
<1>5. ASSUME NEW x \in Procs, NEW q \in Procs, x # q, Running(x)', Running(q)',
             proc'[x].session = proc'[q].session
      PROVE  Apart(proc'[x], proc'[q])
  <2>1. CASE x = p
    BY <1>1, <1>5, <2>1 DEF Running
  <2>2. CASE q = p
    BY <1>1, <1>5, <2>2, ApartIsSymmetric DEF Running
  <2>3. CASE x # p /\ q # p
    BY <1>1, <1>5, <2>3 DEF IInv, Running
  <2> QED BY <2>1, <2>2, <2>3
<1>6. ShownIsRecorded'
  <2> SUFFICES ASSUME shown' = shown, NEW x \in shown
               PROVE  \E e \in Ordinals(sessions'[x[1]].exposures) :
                        sessions'[x[1]].exposures[e].assessment = x[2]
    BY DEF ShownIsRecorded
  <2>1. x[1] \in Sessions
    BY DEF IInv, TypeOK
  <2>2. PICK e \in Ordinals(sessions[x[1]].exposures) :
          sessions[x[1]].exposures[e].assessment = x[2]
    BY DEF IInv, ShownIsRecorded
  <2>3. CASE x[1] # s
    BY <1>1, <2>1, <2>2, <2>3
  <2>4. CASE x[1] = s
    <3>1. e \in Ordinals(row.exposures)
      BY <2>2, <2>4 DEF Ordinals, SessionRows, IInv, TypeOK
    <3> QED BY <1>1, <2>2, <2>4, <3>1
  <2> QED BY <2>3, <2>4
<1> QED BY <1>1, <1>2, <1>3, <1>4, <1>5, <1>6 DEF IInv

\* A step of a command that others do not see.
Quiets(p, c) ==
  /\ sessions' = sessions /\ proc' = [proc EXCEPT ![p] = c]
  /\ prepared' \in BOOLEAN /\ announced' \subseteq Sessions /\ shown' = shown
  /\ c.session \in Sessions /\ c.pc # "idle" /\ Fits(sessions[c.session], c)
  /\ \A q \in Procs \ {p} : Running(q) /\ proc[q].session = c.session => Apart(c, proc[q])

LEMMA Quiet ==
  ASSUME NEW p \in Procs, NEW c \in Processes, IInv, Quiets(p, c)
  PROVE  IInv'
<1>1. PICK s \in Sessions : s = c.session
  BY DEF Quiets
<1>2. PICK row \in SessionRows : row = sessions[s]
  BY DEF IInv, TypeOK
<1>3. sessions' = [sessions EXCEPT ![s] = row] /\ proc' = [proc EXCEPT ![p] = c]
  BY <1>2 DEF Quiets, IInv, TypeOK
<1>4. /\ RowOK(row) /\ Len(sessions[s].exposures) <= Len(row.exposures)
      /\ \A e \in Ordinals(sessions[s].exposures) : row.exposures[e] = sessions[s].exposures[e]
  BY <1>2 DEF IInv, SessionRows
<1>5. \A q \in Procs \ {p} : Running(q) /\ proc[q].session = s => Fits(row, proc[q])
  BY <1>2 DEF IInv
<1>6. Moves(p, s, row, c)
  BY <1>1, <1>2, <1>3, <1>4, <1>5 DEF Moves, Quiets
<1> QED BY <1>6, Moved

\* The end of a command that has not changed anything.
LEMMA Ended ==
  ASSUME NEW p \in Procs, IInv, sessions' = sessions, proc' = [proc EXCEPT ![p] = Idle],
         prepared' \in BOOLEAN, announced' \subseteq Sessions,
         shown' = shown \/ (shown' \subseteq Sessions \X Assessments /\ ShownIsRecorded'),
         Running(p)
  PROVE  IInv'
<1>1. PICK s \in Sessions : s = proc[p].session
  BY DEF IInv
<1>2. PICK row \in SessionRows : row = sessions[s]
  BY DEF IInv, TypeOK
<1>3. Idle \in Processes /\ Idle.pc = "idle"
  BY IdleFacts
<1>4. sessions' = [sessions EXCEPT ![s] = row]
  BY <1>2 DEF IInv, TypeOK
<1>5. /\ RowOK(row) /\ Len(sessions[s].exposures) <= Len(row.exposures)
      /\ \A e \in Ordinals(sessions[s].exposures) : row.exposures[e] = sessions[s].exposures[e]
  BY <1>2 DEF IInv, SessionRows
<1>6. \A q \in Procs \ {p} : Running(q) /\ proc[q].session = s => Fits(row, proc[q])
  BY <1>2 DEF IInv
<1>7. Moves(p, s, row, Idle)
  BY <1>3, <1>4, <1>5, <1>6 DEF Moves
<1> QED BY <1>3, <1>7, Moved

-----------------------------------------------------------------------------
(* Commands that have written nothing, and commands that go on *)

\* A command that has written nothing is apart from every other on a visible session.
LEMMA ReaderIsApart ==
  ASSUME NEW row \in SessionRows, NEW c \in Processes, NEW q \in Processes,
         c.wrote = Nothing, Exists(row), Fits(row, q)
  PROVE  Apart(c, q)
<1>1. ~Opens(c) /\ ~Revises(c) /\ ~Observes(c)
  BY Blank DEF Opens, Revises, Observes
<1>2. ~Opens(q)
  BY Blank DEF Fits, SessionFits
<1> QED BY <1>1, <1>2 DEF Apart

LEMMA AsApart ==
  ASSUME NEW r \in Processes, NEW c \in Processes, NEW q \in Processes,
         Apart(r, q), c.wrote = r.wrote, c.exposure = r.exposure
  PROVE  Apart(c, q)
  BY DEF Apart, Opens, Revises, Observes

LEMMA Visible ==
  ASSUME IInv, NEW s \in Sessions
  PROVE  /\ sessions[s] \in SessionRows /\ RowOK(sessions[s])
         /\ sessions[s].exposures # <<>> \/ sessions[s].revisions # <<>> => Exists(sessions[s])
<1>1. sessions[s] \in SessionRows /\ RowOK(sessions[s])
  BY DEF IInv, TypeOK
<1>2. Absent.exposures = <<>> /\ Absent.revisions = <<>>
  BY DEF Absent
<1> QED BY <1>1, <1>2 DEF RowOK

\* The first step of a command on a visible session.
LEMMA Starts ==
  ASSUME NEW p \in Procs, NEW s \in Sessions, NEW c \in Processes, IInv,
         Exists(sessions[s]), c.session = s, c.pc # "idle", c.wrote = Nothing,
         c.seen \subseteq Ordinals(sessions[s].exposures), StepFits(sessions[s], c),
         sessions' = sessions, proc' = [proc EXCEPT ![p] = c],
         UNCHANGED <<prepared, shown, announced>>
  PROVE  IInv'
<1>1. ~Opens(c) /\ ~Revises(c) /\ ~Observes(c)
  BY Blank DEF Opens, Revises, Observes
<1>2. Fits(sessions[s], c)
  BY <1>1, Blank DEF Fits, SessionFits, RevisionFits, ObservationFits
<1>3. \A q \in Procs \ {p} : Running(q) /\ proc[q].session = s => Apart(c, proc[q])
  BY ReaderIsApart, Visible DEF IInv, TypeOK
<1>4. Quiets(p, c)
  BY <1>2, <1>3 DEF Quiets, IInv, TypeOK
<1> QED BY <1>4, Quiet

\* A step that changes neither the rows a command has written nor their exposure.
LEMMA GoesOn ==
  ASSUME NEW p \in Procs, NEW c \in Processes, IInv, Running(p), c.pc # "idle",
         c.session = proc[p].session, c.wrote = proc[p].wrote,
         c.exposure = proc[p].exposure, Fits(sessions[c.session], c),
         sessions' = sessions, proc' = [proc EXCEPT ![p] = c], prepared' \in BOOLEAN,
         UNCHANGED <<shown, announced>>
  PROVE  IInv'
<1>1. \A q \in Procs \ {p} : Running(q) /\ proc[q].session = c.session => Apart(c, proc[q])
  BY AsApart DEF IInv, TypeOK
<1>2. Quiets(p, c)
  BY <1>1 DEF Quiets, IInv, TypeOK
<1> QED BY <1>2, Quiet

-----------------------------------------------------------------------------
(* One lemma per action *)

LEMMA CreateKeeps ==
  ASSUME NEW s \in Sessions, IInv, create_review_session(s) PROVE IInv'
<1>1. PICK d \in Declarations : sessions' = [sessions EXCEPT ![s] = [Absent EXCEPT !.declared = d]]
  BY DEF create_review_session
<1> DEFINE row == [Absent EXCEPT !.declared = d]
<1>2. /\ row \in SessionRows /\ row.exposures = <<>> /\ row.revisions = <<>>
      /\ row.observed = {} /\ row.command = FALSE /\ Exists(row)
  BY Blank DEF Absent, SessionRows, Exists
<1> HIDE DEF row
<1>3. RowOK(row)
  BY <1>2, ReviewConstants
     DEF RowOK, LabelsFit, BlindIfByCommand, RevealsFollow, ResultsMatch, Ordinals
<1>4. /\ TypeOK' /\ sessions'[s] = row /\ proc' = proc /\ shown' = shown
      /\ \A t \in Sessions \ {s} : sessions'[t] = sessions[t]
      /\ \A q \in Procs : proc[q].session # s
  BY <1>1, <1>2 DEF create_review_session, IInv, TypeOK, row
<1>5. \A t \in Sessions : RowOK(sessions'[t])
  BY <1>3, <1>4 DEF IInv
<1>6. ShownIsRecorded'
  <2> SUFFICES ASSUME NEW x \in shown
               PROVE  \E e \in Ordinals(sessions'[x[1]].exposures) :
                        sessions'[x[1]].exposures[e].assessment = x[2]
    BY <1>4 DEF ShownIsRecorded
  <2>1. x[1] \in Sessions
    BY DEF IInv, TypeOK
  <2>2. PICK e \in Ordinals(sessions[x[1]].exposures) :
          sessions[x[1]].exposures[e].assessment = x[2]
    BY DEF IInv, ShownIsRecorded
  <2>3. sessions[s].exposures = <<>>
    BY DEF create_review_session, Absent
  <2>4. x[1] # s
    BY <2>2, <2>3 DEF Ordinals
  <2> QED BY <1>4, <2>1, <2>2, <2>4
<1> QED BY <1>4, <1>5, <1>6 DEF IInv, Running

LEMMA ReviewKeeps ==
  ASSUME NEW p \in Procs, NEW s \in Sessions, IInv, Review(p, s) PROVE IInv'
<1>1. PICK d \in Declarations,
           prior \in {<<>>} \cup
             {<<[assessment |-> a, kind |-> "declared_prior_external"]>> : a \in Assessments} :
        proc' = [proc EXCEPT ![p] =
          [Idle EXCEPT !.pc = "capture", !.session = s, !.seen = Ordinals(prior),
             !.wrote = [Absent EXCEPT !.declared = d, !.command = TRUE, !.exposures = prior]]]
  BY DEF Review
<1>2. /\ prior \in Seq(Exposures) /\ Len(prior) <= MaxExposures
      /\ \A e \in Ordinals(prior) : prior[e].kind = "declared_prior_external"
  <2>1. CASE prior = <<>>
    BY <2>1, ReviewConstants DEF Ordinals
  <2>2. CASE prior # <<>>
    <3>1. PICK a \in Assessments :
            prior = <<[assessment |-> a, kind |-> "declared_prior_external"]>>
      BY <2>2
    <3> QED BY <3>1, ReviewConstants DEF Ordinals, Exposures, ExposureKinds
  <2> QED BY <2>1, <2>2
<1>3. Ordinals(prior) \in SUBSET (1..MaxExposures)
  BY <1>2, ReviewConstants DEF Ordinals
<1> DEFINE w == [Absent EXCEPT !.declared = d, !.command = TRUE, !.exposures = prior]
           c == [Idle EXCEPT !.pc = "capture", !.session = s, !.seen = Ordinals(prior),
                             !.wrote = w]
<1>4. /\ w \in SessionRows /\ Exists(w) /\ w.command = TRUE /\ w.exposures = prior
      /\ w.revisions = <<>> /\ w.observed = {}
  <2>1. /\ Absent \in SessionRows /\ Absent.revisions = <<>> /\ Absent.observed = {}
    BY Blank DEF Absent
  <2> QED BY <1>2, <2>1 DEF SessionRows, Exists
<1> HIDE DEF w
<1>5. /\ c \in Processes /\ c.pc = "capture" /\ c.session = s /\ c.wrote = w
      /\ c.seen = Ordinals(prior)
  BY <1>3, <1>4, IdleFacts DEF Processes
<1>6. proc' = [proc EXCEPT ![p] = c]
  BY <1>1 DEF w
<1> HIDE DEF c
<1>7. sessions[s] = Absent /\ \A q \in Procs : proc[q].session # s
  BY DEF Review
<1>8. Opens(c) /\ ~Revises(c) /\ ~Observes(c)
  BY <1>4, <1>5 DEF Opens, Revises, Observes
<1>9. Fits(sessions[s], c)
  BY <1>2, <1>4, <1>5, <1>7, <1>8 DEF Fits, SessionFits, RevisionFits, ObservationFits, StepFits
<1>10. Quiets(p, c)
  BY <1>5, <1>6, <1>7, <1>9 DEF Quiets, Review, IInv, TypeOK
<1> QED BY <1>5, <1>10, Quiet

LEMMA ResumeKeeps ==
  ASSUME NEW p \in Procs, NEW s \in Sessions, IInv, Resume(p, s) PROVE IInv'
<1> DEFINE c == [Idle EXCEPT !.pc = "capture", !.session = s,
                             !.seen = Ordinals(sessions[s].exposures)]
<1>1. /\ sessions[s] \in SessionRows /\ Len(sessions[s].exposures) <= MaxExposures
      /\ Ordinals(sessions[s].exposures) \in SUBSET (1..MaxExposures)
  BY Visible, ReviewConstants DEF RowOK, Ordinals, SessionRows
<1>2. /\ c \in Processes /\ c.pc = "capture" /\ c.session = s /\ c.wrote = Nothing
      /\ c.seen = Ordinals(sessions[s].exposures) /\ proc' = [proc EXCEPT ![p] = c]
  BY <1>1, IdleFacts DEF Processes, Resume
<1> HIDE DEF c
<1>3. StepFits(sessions[s], c)
  BY <1>2, Blank DEF StepFits, Revises, Observes
<1>4. /\ Exists(sessions[s]) /\ sessions' = sessions /\ c.pc # "idle"
      /\ UNCHANGED <<prepared, shown, announced>>
      /\ c.seen \subseteq Ordinals(sessions[s].exposures)
  BY <1>2 DEF Resume
<1> QED BY <1>2, <1>3, <1>4, Starts

LEMMA ObserveKeeps ==
  ASSUME NEW p \in Procs, NEW s \in Sessions, IInv, Observe(p, s) PROVE IInv'
<1>1. PICK e \in Ordinals(sessions[s].exposures), revise \in BOOLEAN, complete \in BOOLEAN :
        proc' = [proc EXCEPT ![p] =
          [Idle EXCEPT !.pc = IF revise THEN "exposures" ELSE "observe", !.session = s,
                       !.exposure = e, !.revise = revise, !.complete = complete]]
  BY DEF Observe
<1> DEFINE c == [Idle EXCEPT !.pc = IF revise THEN "exposures" ELSE "observe", !.session = s,
                       !.exposure = e, !.revise = revise, !.complete = complete]
<1>2. /\ sessions[s] \in SessionRows /\ Len(sessions[s].exposures) <= MaxExposures
      /\ e \in 0..MaxExposures /\ Exists(sessions[s])
  BY Visible, ReviewConstants DEF RowOK, Ordinals, SessionRows
<1>3. /\ c \in Processes /\ c.pc = (IF revise THEN "exposures" ELSE "observe")
      /\ c.session = s /\ c.wrote = Nothing /\ c.exposure = e /\ c.revise = revise
      /\ c.seen = {} /\ proc' = [proc EXCEPT ![p] = c]
  BY <1>1, <1>2, IdleFacts DEF Processes
<1> HIDE DEF c
<1>4. StepFits(sessions[s], c)
  BY <1>3, Blank DEF StepFits, Revises, Observes
<1> QED BY <1>2, <1>3, <1>4, Starts DEF Observe

\* A step of a command that only changes where it is, and perhaps its preparation row.
LEMMA PreparationKeeps ==
  ASSUME NEW p \in Procs, IInv, get_preparation(p) \/ save_preparation(p) PROVE IInv'
<1>1. PICK pc \in {"prepare", "judge"}, f \in BOOLEAN :
        proc' = [proc EXCEPT ![p] = [proc[p] EXCEPT !.pc = pc, !.prepares = f]]
  <2>1. CASE get_preparation(p)
    <3>1. proc[p] = [proc[p] EXCEPT !.prepares = proc[p].prepares] /\ proc[p].prepares \in BOOLEAN
      BY DEF IInv, TypeOK, Processes
    <3> DEFINE pc == IF prepared THEN "judge" ELSE "prepare"
    <3>2. proc' = [proc EXCEPT ![p] = [proc[p] EXCEPT !.pc = pc, !.prepares = proc[p].prepares]]
      BY ZenonT(60), <2>1, <3>1 DEF get_preparation, Goto, IInv, TypeOK, Processes
    <3>3. pc \in {"prepare", "judge"}
      OBVIOUS
    <3> QED BY <3>1, <3>2, <3>3
  <2>2. CASE save_preparation(p)
    <3>1. proc' = [proc EXCEPT ![p] = [proc[p] EXCEPT !.pc = "judge", !.prepares = TRUE]]
      BY <2>2 DEF save_preparation, IInv, TypeOK, Processes
    <3> QED BY <3>1
  <2> QED BY <2>1, <2>2
<1> DEFINE r == proc[p]
           c == [proc[p] EXCEPT !.pc = pc, !.prepares = f]
<1>2. /\ proc[p] \in Processes /\ proc[p].pc \in {"capture", "prepare"} /\ sessions' = sessions
      /\ UNCHANGED <<prepared, shown, announced>>
  BY DEF get_preparation, save_preparation, IInv, TypeOK
<1>3. /\ c \in Processes /\ c.pc = pc /\ c.session = r.session /\ c.wrote = r.wrote
      /\ c.exposure = r.exposure /\ c.seen = r.seen /\ c.revise = r.revise
      /\ proc' = [proc EXCEPT ![p] = c]
  BY <1>1, <1>2 DEF Processes
<1> HIDE DEF c
<1>4. Running(p) /\ Fits(sessions[r.session], r)
  BY <1>2 DEF Running, IInv
<1>5. ~Revises(c) /\ ~Observes(c) /\ (Opens(c) <=> Opens(r))
  BY <1>2, <1>3, <1>4 DEF Fits, StepFits, Opens, Revises, Observes
<1>6. Fits(sessions[r.session], c)
  BY ZenonT(60), <1>2, <1>3, <1>4, <1>5 DEF Fits, SessionFits, RevisionFits, ObservationFits, StepFits
<1>7. c.pc # "idle" /\ prepared' \in BOOLEAN
  BY <1>2, <1>3 DEF IInv, TypeOK
<1> QED BY <1>2, <1>3, <1>4, <1>6, <1>7, GoesOn

LEMMA LoadKeeps ==
  ASSUME NEW p \in Procs, IInv, load_session_exposures(p) PROVE IInv'
<1>1. proc[p] \in Processes /\ proc[p].pc = "exposures" /\ Running(p)
  BY DEF load_session_exposures, IInv, TypeOK, Running
<1>2. PICK s \in Sessions : s = proc[p].session
  BY <1>1 DEF IInv
<1>3. /\ sessions[s] \in SessionRows /\ Fits(sessions[s], proc[p])
      /\ Ordinals(sessions[s].exposures) \in SUBSET (1..MaxExposures)
  BY <1>1, <1>2, Visible, ReviewConstants DEF IInv, RowOK, Ordinals, SessionRows
<1> DEFINE c == [proc[p] EXCEPT !.pc = "append", !.seen = Ordinals(sessions[s].exposures)]
<1>4. /\ c \in Processes /\ c.pc = "append" /\ c.session = s /\ c.wrote = proc[p].wrote
      /\ c.exposure = proc[p].exposure /\ c.seen = Ordinals(sessions[s].exposures)
      /\ c.revise = proc[p].revise /\ proc' = [proc EXCEPT ![p] = c]
  BY <1>1, <1>2, <1>3 DEF Processes, load_session_exposures, IInv, TypeOK
<1> HIDE DEF c
<1>5. /\ ~Revises(c) /\ ~Observes(c) /\ ~Opens(c) /\ ~Opens(proc[p])
      /\ ~Revises(proc[p]) /\ ~Observes(proc[p])
  BY <1>1, <1>3, <1>4 DEF Fits, SessionFits, StepFits, Opens, Revises, Observes
<1>6. Fits(sessions[s], c)
  BY <1>1, <1>3, <1>4, <1>5 DEF Fits, SessionFits, RevisionFits, ObservationFits, StepFits
<1>7. /\ c.pc # "idle" /\ prepared' \in BOOLEAN /\ sessions' = sessions
      /\ UNCHANGED <<shown, announced>>
  BY <1>4 DEF load_session_exposures, IInv, TypeOK
<1> QED BY <1>1, <1>2, <1>4, <1>6, <1>7, GoesOn

LEMMA CompleteObservedKeeps ==
  ASSUME NEW p \in Procs, IInv, CompleteObserved(p) PROVE IInv'
<1>1. proc[p] \in Processes /\ proc[p].pc = "complete" /\ Running(p)
  BY DEF CompleteObserved, IInv, TypeOK, Running
<1>2. PICK s \in Sessions : s = proc[p].session
  BY <1>1 DEF IInv
<1> DEFINE w == [proc[p].wrote EXCEPT !.completed = TRUE]
           c == [proc[p] EXCEPT !.pc = "close", !.wrote = w]
<1>3. /\ w \in SessionRows /\ w.declared = proc[p].wrote.declared
      /\ w.command = proc[p].wrote.command /\ w.exposures = proc[p].wrote.exposures
      /\ w.revisions = proc[p].wrote.revisions /\ w.observed = proc[p].wrote.observed
  BY <1>1 DEF Processes, SessionRows
<1>4. proc' = [proc EXCEPT ![p] = c]
  BY <1>1 DEF CompleteObserved, IInv, TypeOK, Processes
<1> HIDE DEF w
<1>5. /\ c \in Processes /\ c.pc = "close" /\ c.session = s /\ c.wrote = w
      /\ c.exposure = proc[p].exposure /\ c.seen = proc[p].seen /\ c.revise = proc[p].revise
  BY <1>1, <1>2, <1>3 DEF Processes
<1> HIDE DEF c
<1>6. /\ Revises(c) <=> Revises(proc[p])
      /\ Observes(c) <=> Observes(proc[p])
      /\ Opens(c) <=> Opens(proc[p])
  BY <1>3, <1>5 DEF Revises, Observes, Opens, Exists
<1>7. Fits(sessions[s], proc[p])
  BY <1>1, <1>2 DEF IInv
<1>8. Fits(sessions[s], c)
  <2>1. ~Opens(proc[p]) /\ Observes(proc[p])
    BY <1>1, <1>7 DEF Fits, SessionFits, StepFits
  <2>2. SessionFits(sessions[s], c)
    BY <1>3, <1>5, <1>6, <1>7, <2>1 DEF Fits, SessionFits
  <2>3. RevisionFits(sessions[s], c)
    BY <1>1, <1>3, <1>5, <1>6, <1>7, <2>1 DEF Fits, RevisionFits
  <2>4. ObservationFits(sessions[s], c)
    BY <1>3, <1>5, <1>6, <1>7 DEF Fits, ObservationFits
  <2>5. StepFits(sessions[s], c)
    BY <1>1, <1>5, <1>6, <1>7, <2>1 DEF Fits, StepFits, RevisionFits
  <2> QED BY <2>2, <2>3, <2>4, <2>5 DEF Fits
<1>9. \A q \in Procs \ {p} : Running(q) /\ proc[q].session = s => Apart(c, proc[q])
  BY <1>1, <1>2, <1>5, <1>6 DEF IInv, Apart
<1>10. Quiets(p, c)
  BY <1>2, <1>4, <1>5, <1>8, <1>9 DEF Quiets, CompleteObserved, IInv, TypeOK
<1> QED BY <1>5, <1>10, Quiet

\* What a command with an uncommitted history on a session sees.
LEMMA MineIs ==
  ASSUME NEW p \in Procs, NEW s \in Sessions, IInv, Running(p), s = proc[p].session,
         ~Revises(proc[p])
  PROVE  /\ Mine(p) \in SessionRows
         /\ Mine(p).declared =
              IF Opens(proc[p]) THEN proc[p].wrote.declared ELSE sessions[s].declared
         /\ Mine(p).exposures = sessions[s].exposures \o proc[p].wrote.exposures
         /\ Mine(p).revisions = sessions[s].revisions
         /\ Len(Mine(p).exposures) \in 0..MaxExposures
<1>1. proc[p].wrote \in SessionRows /\ sessions[s] \in SessionRows
  BY DEF IInv, TypeOK, Processes
<1>2. /\ Mine(p) \in SessionRows
      /\ Mine(p).declared =
              IF Opens(proc[p]) THEN proc[p].wrote.declared ELSE sessions[s].declared
      /\ Mine(p).exposures = sessions[s].exposures \o proc[p].wrote.exposures
      /\ Mine(p).revisions = sessions[s].revisions \o proc[p].wrote.revisions
  BY <1>1, MergedRow DEF Mine, Opens
<1>3. Mine(p).revisions = sessions[s].revisions
  <2>1. sessions[s].revisions \in Seq(Revisions) /\ proc[p].wrote.revisions = <<>>
    BY <1>1 DEF Revises, SessionRows
  <2> QED BY <1>2, <2>1, ConcatEmptySeq
<1>4. Len(sessions[s].exposures) + Len(proc[p].wrote.exposures) <= MaxExposures
  <2>1. SessionFits(sessions[s], proc[p]) /\ RowOK(sessions[s])
    BY DEF IInv, Fits
  <2>2. CASE Opens(proc[p])
    <3>1. sessions[s].exposures = <<>> /\ Len(proc[p].wrote.exposures) <= MaxExposures
      BY <2>1, <2>2 DEF SessionFits, Absent
    <3> QED BY <1>1, <3>1 DEF SessionRows
  <2>3. CASE ~Opens(proc[p])
    <3>1. proc[p].wrote.exposures = <<>> /\ Len(sessions[s].exposures) <= MaxExposures
      BY <2>1, <2>3 DEF SessionFits, RowOK
    <3> QED BY <1>1, <3>1 DEF SessionRows
  <2> QED BY <2>2, <2>3
<1>5. Len(Mine(p).exposures) \in 0..MaxExposures
  <2>1. sessions[s].exposures \in Seq(Exposures) /\ proc[p].wrote.exposures \in Seq(Exposures)
    BY <1>1 DEF SessionRows
  <2>2. Len(sessions[s].exposures) \in Nat /\ Len(proc[p].wrote.exposures) \in Nat
    BY <2>1, LenProperties
  <2>3. Len(Mine(p).exposures) =
           Len(sessions[s].exposures) + Len(proc[p].wrote.exposures)
    <3> DEFINE a == sessions[s].exposures
               b == proc[p].wrote.exposures
    <3>1. Mine(p).exposures = a \o b /\ a \in Seq(Exposures) /\ b \in Seq(Exposures)
      BY <1>2, <2>1
    <3> HIDE DEF a, b
    <3>2. Len(a \o b) = Len(a) + Len(b)
      BY <3>1, ConcatProperties
    <3> QED BY <3>1, <3>2 DEF a, b
  <2>4. ASSUME NEW a \in Nat, NEW b \in Nat, NEW m \in Nat, a + b <= m PROVE a + b \in 0..m
    BY <2>4
  <2>5. MaxExposures \in Nat
    BY ReviewConstants
  <2> QED BY <1>4, <2>2, <2>3, <2>4, <2>5
<1> QED BY <1>2, <1>3, <1>5

\* Either of the two ways a revision is appended.
LEMMA AppendKeeps ==
  ASSUME NEW p \in Procs, NEW kind \in {"initial_blind", "post_assessment"},
         NEW blind \in BlindStatuses, NEW next \in {"close", "observe"}, IInv,
         append_review_revision(p, kind, blind, next),
         \/ proc[p].pc = "judge" /\ kind = "initial_blind" /\ next = "close"
         \/ proc[p].pc = "append" /\ kind = "post_assessment" /\ next = "observe"
  PROVE  IInv'
<1>1. proc[p] \in Processes /\ Running(p) /\ proc[p].pc \in {"judge", "append"}
  BY DEF IInv, TypeOK, Running
<1>2. PICK s \in Sessions : s = proc[p].session
  BY <1>1 DEF IInv
<1>3. /\ Fits(sessions[s], proc[p]) /\ sessions[s] \in SessionRows /\ RowOK(sessions[s])
      /\ ~Revises(proc[p]) /\ ~Observes(proc[p])
  BY <1>1, <1>2 DEF IInv, TypeOK, Fits, StepFits
<1> DEFINE row == sessions[s]
           r == proc[p]
           v == [kind |-> kind, blind |-> blind, seen |-> r.seen,
                 before |-> Len(Mine(p).exposures)]
           w == [r.wrote EXCEPT !.revisions = <<v>>]
           c == [r EXCEPT !.pc = next, !.wrote = w]
<1>4. v \in Revisions
  BY <1>1, <1>2, <1>3, MineIs DEF Revisions, Processes
<1>5. /\ v.kind = kind /\ v.blind = blind /\ v.seen = r.seen
      /\ v.before = Len(row.exposures \o r.wrote.exposures)
  BY <1>1, <1>2, <1>3, MineIs
<1>6. /\ kind = "initial_blind" <=> row.revisions = <<>>
      /\ check_blind_status(blind, IF Opens(r) THEN r.wrote.declared ELSE row.declared,
                            r.seen # {})
      /\ r.seen \subseteq 1..v.before
      /\ Len(row.revisions) < MaxRevisions
      /\ proc' = [proc EXCEPT ![p].pc = next, ![p].wrote.revisions = Append(r.wrote.revisions, v)]
      /\ ForUpdate(p, s) /\ UNCHANGED <<sessions, prepared, shown, announced>>
  BY <1>1, <1>2, <1>3, MineIs DEF append_review_revision, Ordinals
<1>7. Append(r.wrote.revisions, v) = <<v>>
  BY <1>3, <1>4, One DEF Revises
<1> HIDE DEF v
<1>8. proc' = [proc EXCEPT ![p] = c]
  BY <1>1, <1>6, <1>7 DEF IInv, TypeOK, Processes
<1>9. /\ w \in SessionRows /\ w.declared = r.wrote.declared /\ w.command = r.wrote.command
      /\ w.exposures = r.wrote.exposures /\ w.revisions = <<v>>
      /\ w.observed = r.wrote.observed
  <2>1. r.wrote \in SessionRows /\ <<v>> \in Seq(Revisions)
    BY <1>1, <1>4, One DEF Processes
  <2> QED BY <2>1 DEF SessionRows
<1> HIDE DEF w
<1>10. /\ c \in Processes /\ c.pc = next /\ c.session = s /\ c.wrote = w
       /\ c.exposure = r.exposure /\ c.seen = r.seen /\ c.revise = r.revise
  BY <1>1, <1>2, <1>9 DEF Processes
<1> HIDE DEF c, r
<1>11. Revises(c) /\ ~Observes(c) /\ (Opens(c) <=> Opens(r))
  <2>1. <<v>> # <<>>
    BY <1>4, One
  <2> QED BY <1>3, <1>9, <1>10, <2>1 DEF Revises, Observes, Opens, Exists, r
<1>12. Fits(row, r) /\ ~Revises(r) /\ ~Observes(r) /\ r.pc \in {"judge", "append"}
  BY <1>1, <1>3 DEF r
<1>13. \/ r.pc = "judge" /\ kind = "initial_blind" /\ next = "close"
       \/ r.pc = "append" /\ kind = "post_assessment" /\ next = "observe"
  BY DEF r
<1> HIDE DEF row
<1>14. Fits(row, c)
  <2>1. SessionFits(row, c)
    BY <1>9, <1>10, <1>11, <1>12, <1>13 DEF Fits, SessionFits
  <2>2. r.pc = "append" => r.revise /\ r.exposure \in r.seen /\ r.exposure \in Ordinals(row.exposures)
    BY <1>12 DEF Fits, StepFits
  <2>3. LabelFits(IF Opens(c) THEN w.declared ELSE row.declared, v)
    BY <1>5, <1>6, <1>9, <1>11 DEF LabelFits, check_blind_status, BlindStatuses
  <2>4. RevisionFits(row, c)
    BY <1>4, <1>5, <1>6, <1>9, <1>10, <1>11, <1>13, <2>2, <2>3 DEF RevisionFits
  <2>5. StepFits(row, c)
    BY <1>5, <1>6, <1>10, <1>11, <1>13, <2>2 DEF StepFits
  <2> QED BY <1>11, <2>1, <2>4, <2>5 DEF Fits, ObservationFits
<1>15. \A q \in Procs \ {p} : Running(q) /\ proc[q].session = s => Apart(c, proc[q])
  <2> SUFFICES ASSUME NEW q \in Procs \ {p}, Running(q), proc[q].session = s
               PROVE  Apart(c, proc[q])
    OBVIOUS
  <2>1. Apart(r, proc[q])
    BY <1>1, <1>2 DEF IInv, r
  <2>2. ~Revises(proc[q]) /\ ~Observes(proc[q])
    BY <1>6 DEF ForUpdate, Others, Revising, Observing, Revises, Observes
  <2> QED BY <1>11, <2>1, <2>2 DEF Apart
<1>16. Quiets(p, c)
  <2>1. c.session = s /\ c.pc # "idle"
    BY <1>10
  <2> QED BY <1>6, <1>8, <1>14, <1>15, <2>1 DEF Quiets, IInv, TypeOK, row
<1> QED BY <1>10, <1>16, Quiet

LEMMA AppendInitialKeeps ==
  ASSUME NEW p \in Procs, IInv, AppendInitial(p) PROVE IInv'
<1>1. initial_blind_status(Mine(p).declared, proc[p].seen # {}) \in BlindStatuses
  BY DEF initial_blind_status, BlindStatuses
<1> QED BY <1>1, AppendKeeps DEF AppendInitial

LEMMA AppendRevisedKeeps ==
  ASSUME NEW p \in Procs, IInv, AppendRevised(p) PROVE IInv'
<1>1. "known_exposed" \in BlindStatuses
  BY DEF BlindStatuses
<1> QED BY <1>1, AppendKeeps DEF AppendRevised

LEMMA ObservationKeeps ==
  ASSUME NEW p \in Procs, IInv, record_post_assessment_observation(p) PROVE IInv'
<1>1. proc[p] \in Processes /\ Running(p) /\ proc[p].pc = "observe"
  BY DEF record_post_assessment_observation, IInv, TypeOK, Running
<1>2. PICK s \in Sessions : s = proc[p].session
  BY <1>1 DEF IInv
<1>3. /\ Fits(sessions[s], proc[p]) /\ sessions[s] \in SessionRows /\ RowOK(sessions[s])
      /\ ~Opens(proc[p]) /\ proc[p].exposure \in Ordinals(sessions[s].exposures)
      /\ proc[p].revise <=> Revises(proc[p])
      /\ Revises(proc[p]) => sessions[s].revisions # <<>>
  BY <1>1, <1>2 DEF IInv, TypeOK, Fits, StepFits, SessionFits, RevisionFits
<1> DEFINE row == sessions[s]
           r == proc[p]
           n == IF r.revise THEN Len(row.revisions) + 1 ELSE 0
           o == [exposure |-> r.exposure, revision |-> n]
           w == [r.wrote EXCEPT !.observed = {o}]
           c == [r EXCEPT !.pc = IF r.complete THEN "complete" ELSE "close", !.wrote = w]
<1>4. Len(row.revisions) \in Nat /\ (r.revise => Len(row.revisions) < MaxRevisions)
  BY <1>3, LenProperties DEF RevisionFits, Fits, SessionRows
<1>5. r.revise => Len(Mine(p).revisions) = n
  <2> SUFFICES ASSUME r.revise PROVE Len(Mine(p).revisions) = n
    OBVIOUS
  <2>1. PICK v \in Revisions : r.wrote.revisions = <<v>>
    BY <1>3 DEF RevisionFits, Fits
  <2>2. Mine(p).revisions = row.revisions \o <<v>>
    <3>1. Mine(p) = Merged(row, r.wrote) /\ r.wrote \in SessionRows
      BY <1>1, <1>2 DEF Mine, Processes
    <3>2. Merged(row, r.wrote).revisions = row.revisions \o r.wrote.revisions
      BY <1>3, <3>1, MergedRow
    <3> QED BY <2>1, <3>1, <3>2
  <2>3. /\ row.revisions \in Seq(Revisions) /\ <<v>> \in Seq(Revisions) /\ Len(<<v>>) = 1
    BY <1>3, <2>1, One DEF SessionRows
  <2>4. Len(Mine(p).revisions) = Len(row.revisions) + 1
    BY <2>2, <2>3, ConcatProperties
  <2> QED BY <2>4
<1>6. o \in Observations
  <2>1. r.exposure \in 1..MaxExposures
    BY <1>3, LenProperties, ReviewConstants DEF Ordinals, RowOK, SessionRows
  <2>2. n \in 0..MaxRevisions
    BY <1>4, ReviewConstants
  <2> QED BY <2>1, <2>2 DEF Observations
<1>7. o.exposure = r.exposure /\ o.revision = n
  OBVIOUS
<1>8. /\ ForKeyShare(p, s)
      /\ \A x \in row.observed \cup UNION {proc[q].wrote.observed : q \in Others(p, s)} :
           x.exposure # o.exposure
      /\ UNCHANGED <<sessions, prepared, shown, announced>>
  BY <1>2 DEF record_post_assessment_observation
<1>9. proc' = [proc EXCEPT
         ![p].pc = IF r.complete THEN "complete" ELSE "close",
         ![p].wrote.observed = {o}]
  BY <1>5 DEF record_post_assessment_observation
<1> HIDE DEF o
<1>10. proc' = [proc EXCEPT ![p] = c]
  BY <1>1, <1>9 DEF IInv, TypeOK, Processes
<1>11. /\ w \in SessionRows /\ w.declared = r.wrote.declared /\ w.command = r.wrote.command
       /\ w.exposures = r.wrote.exposures /\ w.revisions = r.wrote.revisions
       /\ w.observed = {o}
  BY <1>1, <1>6 DEF Processes, SessionRows
<1> HIDE DEF w
<1>12. /\ c \in Processes /\ c.pc \in {"complete", "close"} /\ c.session = s /\ c.wrote = w
       /\ c.exposure = r.exposure /\ c.seen = r.seen /\ c.revise = r.revise
  BY <1>1, <1>2, <1>11 DEF Processes
<1> HIDE DEF c
<1>13. Observes(c) /\ (Revises(c) <=> Revises(r)) /\ (Opens(c) <=> Opens(r))
  BY <1>11, <1>12 DEF Revises, Observes, Opens, Exists
<1>14. Fits(row, c)
  <2>1. SessionFits(row, c)
    BY <1>3, <1>11, <1>12, <1>13 DEF Fits, SessionFits
  <2>2. RevisionFits(row, c)
    BY <1>1, <1>3, <1>11, <1>12, <1>13 DEF Fits, RevisionFits
  <2>3. ObservationFits(row, c)
    BY <1>3, <1>6, <1>7, <1>8, <1>11, <1>12, <1>13 DEF ObservationFits
  <2>4. StepFits(row, c)
    BY <1>3, <1>12, <1>13 DEF StepFits
  <2> QED BY <2>1, <2>2, <2>3, <2>4 DEF Fits
<1>15. \A q \in Procs \ {p} : Running(q) /\ proc[q].session = s => Apart(c, proc[q])
  <2> SUFFICES ASSUME NEW q \in Procs \ {p}, Running(q), proc[q].session = s
               PROVE  Apart(c, proc[q])
    OBVIOUS
  <2>1. Apart(r, proc[q]) /\ q \in Others(p, s) /\ Fits(row, proc[q])
    BY <1>1, <1>2 DEF IInv, Others
  <2>2. ~Revises(proc[q])
    BY <1>8, <2>1 DEF ForKeyShare, Revising, Revises
  <2>3. Observes(proc[q]) => proc[q].exposure # c.exposure
    <3> SUFFICES ASSUME Observes(proc[q]) PROVE proc[q].exposure # c.exposure
      OBVIOUS
    <3>1. PICK x \in Observations : proc[q].wrote.observed = {x} /\ x.exposure = proc[q].exposure
      BY <2>1 DEF Fits, ObservationFits
    <3> QED BY <1>7, <1>8, <1>12, <2>1, <3>1
  <2> QED BY <1>13, <2>1, <2>2, <2>3 DEF Apart
<1>16. Quiets(p, c)
  <2>1. c.session = s /\ c.pc # "idle"
    BY <1>12
  <2> QED BY <1>8, <1>10, <1>14, <1>15, <2>1 DEF Quiets, IInv, TypeOK
<1> QED BY <1>12, <1>16, Quiet

LEMMA RecordKeeps ==
  ASSUME NEW p \in Procs, NEW s \in Sessions, IInv, record_exposure(p, s) PROVE IInv'
<1>1. PICK a \in Assessments, kind \in ExposureKinds \ {"declared_prior_external"} :
        /\ RevealAllowed(s, kind)
        /\ sessions' = [sessions EXCEPT ![s].exposures =
             Append(sessions[s].exposures, [assessment |-> a, kind |-> kind])]
        /\ proc' = [proc EXCEPT ![p] =
             [Idle EXCEPT !.pc = "display", !.session = s, !.assessment = a]]
  BY DEF record_exposure
<1>2. /\ sessions[s] \in SessionRows /\ RowOK(sessions[s]) /\ Exists(sessions[s])
      /\ ForUpdate(p, s) /\ Len(sessions[s].exposures) < MaxExposures
  BY <1>1, Visible DEF record_exposure, RevealAllowed
<1> DEFINE old == sessions[s]
           x == [assessment |-> a, kind |-> kind]
           more == Append(sessions[s].exposures, x)
           row == [sessions[s] EXCEPT !.exposures = more]
           c == [Idle EXCEPT !.pc = "display", !.session = s, !.assessment = a]
<1>3. /\ x \in Exposures /\ x.assessment = a /\ x.kind = kind
      /\ old.exposures \in Seq(Exposures) /\ Len(old.exposures) \in Nat
  BY <1>2, LenProperties DEF Exposures, SessionRows
<1> HIDE DEF x
<1>4. /\ more \in Seq(Exposures) /\ Len(more) = Len(old.exposures) + 1
      /\ \A e \in Ordinals(old.exposures) : more[e] = old.exposures[e]
      /\ more[Len(old.exposures) + 1] = x
  BY <1>3 DEF Ordinals
<1> HIDE DEF more
<1>5. /\ row \in SessionRows /\ row.declared = old.declared /\ row.command = old.command
      /\ row.exposures = more /\ row.revisions = old.revisions /\ row.observed = old.observed
      /\ sessions' = [sessions EXCEPT ![s] = row]
  BY <1>1, <1>2, <1>4 DEF SessionRows, IInv, TypeOK, more, x
<1> HIDE DEF row
<1>6. /\ c \in Processes /\ c.pc = "display" /\ c.session = s /\ c.wrote = Nothing
      /\ c.assessment = a /\ c.seen = {} /\ proc' = [proc EXCEPT ![p] = c]
  BY <1>1, IdleFacts DEF Processes
<1> HIDE DEF c
<1>7. Exists(row)
  BY <1>2, <1>5 DEF Exists
<1>8. RowOK(row)
  <2>1. LabelsFit(row)
    <3> SUFFICES ASSUME NEW i \in 1..Len(row.revisions)
                 PROVE  /\ (i = 1) <=> (row.revisions[i].kind = "initial_blind")
                        /\ LabelFits(row.declared, row.revisions[i])
                        /\ row.revisions[i].before <= Len(row.exposures)
      BY DEF LabelsFit
    <3>1. /\ (i = 1) <=> (row.revisions[i].kind = "initial_blind")
          /\ LabelFits(row.declared, row.revisions[i])
          /\ row.revisions[i].before <= Len(old.exposures)
      BY <1>2, <1>5 DEF RowOK, LabelsFit
    <3>2. row.revisions[i].before \in Nat
      <4>1. row.revisions[i] \in Revisions
        BY <1>5, ElementOfSeq DEF SessionRows
      <4> QED BY <4>1, ReviewConstants DEF Revisions
    <3> QED BY <1>3, <1>4, <1>5, <3>1, <3>2
  <2>2. BlindIfByCommand(row)
    BY <1>2, <1>5 DEF RowOK, BlindIfByCommand
  <2>3. RevealsFollow(row)
    <3> SUFFICES ASSUME NEW e \in Ordinals(row.exposures), row.exposures[e].kind = "guided_reveal"
                 PROVE  row.revisions # <<>> /\ row.revisions[1].before < e
      BY DEF RevealsFollow
    <3>1. CASE e \in Ordinals(old.exposures)
      BY <1>2, <1>4, <1>5, <3>1 DEF RowOK, RevealsFollow
    <3>2. CASE e = Len(old.exposures) + 1
      <4>1. row.revisions # <<>>
        BY <1>1, <1>3, <1>4, <1>5, <3>2 DEF RevealAllowed
      <4>2. 1 \in 1..Len(row.revisions) /\ row.revisions[1] \in Revisions
        BY <1>5, <4>1, EmptySeq, LenProperties, ElementOfSeq DEF SessionRows
      <4>3. row.revisions[1].before <= Len(old.exposures) /\ row.revisions[1].before \in Nat
        BY <1>2, <1>5, <4>2, ReviewConstants DEF RowOK, LabelsFit, Revisions
      <4> QED BY <1>3, <3>2, <4>1, <4>3
    <3> QED BY <1>3, <1>4, <1>5, <3>1, <3>2 DEF Ordinals
  <2>4. ResultsMatch(row)
    BY <1>2, <1>5 DEF RowOK, ResultsMatch
  <2>5. Len(row.exposures) <= MaxExposures /\ Len(row.revisions) <= MaxRevisions
    BY <1>2, <1>3, <1>4, <1>5, ReviewConstants DEF RowOK
  <2> QED BY <1>7, <2>1, <2>2, <2>3, <2>4, <2>5 DEF RowOK
<1>9. Fits(row, c)
  <2>1. ~Opens(c) /\ ~Revises(c) /\ ~Observes(c)
    BY <1>6, Blank DEF Opens, Revises, Observes
  <2>2. Len(old.exposures) + 1 \in Ordinals(row.exposures)
    BY <1>3, <1>4, <1>5 DEF Ordinals
  <2>3. StepFits(row, c)
    BY <1>3, <1>4, <1>5, <1>6, <2>1, <2>2 DEF StepFits
  <2>4. SessionFits(row, c)
    BY <1>6, <1>7, <2>1, Blank DEF SessionFits
  <2> QED BY <2>1, <2>3, <2>4 DEF Fits, RevisionFits, ObservationFits
<1>10. ASSUME NEW q \in Procs \ {p}, Running(q), proc[q].session = s
       PROVE  Fits(row, proc[q]) /\ Apart(c, proc[q])
  <2>1. proc[q] \in Processes /\ Fits(old, proc[q])
    BY <1>10 DEF IInv, TypeOK
  <2>2. ~Opens(proc[q])
    BY <1>2, <2>1, Blank DEF Fits, SessionFits
  <2>3. ~Revises(proc[q]) /\ ~Observes(proc[q])
    BY <1>2, <1>10 DEF ForUpdate, Others, Revising, Observing, Revises, Observes
  <2>4. Len(old.exposures) <= Len(row.exposures)
    BY <1>3, <1>4, <1>5
  <2>5. Fits(row, proc[q])
    BY <1>2, <1>4, <1>5, <1>7, <2>1, <2>2, <2>3, <2>4, StillFits
  <2>6. Apart(c, proc[q])
    BY <1>5, <1>6, <1>7, <2>1, <2>5, ReaderIsApart
  <2> QED BY <2>5, <2>6
<1>11. Moves(p, s, row, c)
  <2>1. Len(old.exposures) <= Len(row.exposures)
    BY <1>3, <1>4, <1>5
  <2>2. /\ prepared' \in BOOLEAN /\ announced' \subseteq Sessions /\ shown' = shown
    BY DEF record_exposure, IInv, TypeOK
  <2>3. \A e \in Ordinals(old.exposures) : row.exposures[e] = old.exposures[e]
    BY <1>4, <1>5
  <2> QED BY <1>5, <1>6, <1>8, <1>9, <1>10, <2>1, <2>2, <2>3 DEF Moves
<1> QED BY <1>5, <1>6, <1>11, Moved

LEMMA DisplayKeeps ==
  ASSUME NEW p \in Procs, IInv, Display(p) PROVE IInv'
<1>1. proc[p] \in Processes /\ Running(p) /\ proc[p].pc = "display"
  BY DEF Display, IInv, TypeOK, Running
<1>2. PICK s \in Sessions : s = proc[p].session
  BY <1>1 DEF IInv
<1>3. PICK e \in Ordinals(sessions[s].exposures) :
        sessions[s].exposures[e].assessment = proc[p].assessment
  BY <1>1, <1>2 DEF IInv, Fits, StepFits
<1>4. proc[p].assessment \in Assessments
  <2>1. sessions[s].exposures \in Seq(Exposures)
    BY DEF IInv, TypeOK, SessionRows
  <2>2. sessions[s].exposures[e] \in Exposures
    BY <2>1, ElementOfSeq DEF Ordinals
  <2> QED BY <1>3, <2>2 DEF Exposures
<1> DEFINE x == <<s, proc[p].assessment>>
<1>5. shown' = shown \cup {x} /\ x \in Sessions \X Assessments /\ sessions' = sessions
  BY <1>2, <1>4 DEF Display
<1>6. shown' \subseteq Sessions \X Assessments
  BY <1>5 DEF IInv, TypeOK
<1>7. ShownIsRecorded'
  <2> SUFFICES ASSUME NEW y \in shown'
               PROVE  \E i \in Ordinals(sessions[y[1]].exposures) :
                        sessions[y[1]].exposures[i].assessment = y[2]
    BY <1>5 DEF ShownIsRecorded
  <2>1. CASE y \in shown
    BY <2>1 DEF IInv, ShownIsRecorded
  <2>2. CASE y = x
    BY <1>3, <2>2
  <2> QED BY <1>5, <2>1, <2>2
<1>8. /\ sessions' = sessions /\ proc' = [proc EXCEPT ![p] = Idle]
      /\ prepared' \in BOOLEAN /\ announced' \subseteq Sessions
  BY DEF Display, IInv, TypeOK
<1> QED BY <1>1, <1>6, <1>7, <1>8, Ended

LEMMA ShowKeeps ==
  ASSUME NEW s \in Sessions, IInv, Show(s) PROVE IInv'
<1>1. sessions[s].exposures \in Seq(Exposures)
  BY DEF IInv, TypeOK, SessionRows
<1>2. exposed_assessment_ids(s) \subseteq Assessments
  <2>1. \A i \in Ordinals(sessions[s].exposures) : sessions[s].exposures[i] \in Exposures
    BY <1>1, ElementOfSeq DEF Ordinals
  <2> QED BY <2>1 DEF exposed_assessment_ids, Exposures
<1>3. /\ shown' = shown \cup {<<s, a>> : a \in exposed_assessment_ids(s)}
      /\ UNCHANGED <<sessions, prepared, proc, announced>>
  BY DEF Show
<1>4. TypeOK'
  BY <1>2, <1>3 DEF IInv, TypeOK
<1>5. ShownIsRecorded'
  <2> SUFFICES ASSUME NEW y \in shown'
               PROVE  \E i \in Ordinals(sessions[y[1]].exposures) :
                        sessions[y[1]].exposures[i].assessment = y[2]
    BY <1>3 DEF ShownIsRecorded
  <2>1. CASE y \in shown
    BY <2>1 DEF IInv, ShownIsRecorded
  <2>2. CASE y \notin shown
    BY <1>3, <2>2 DEF exposed_assessment_ids
  <2> QED BY <2>1, <2>2
<1> QED BY <1>3, <1>4, <1>5 DEF IInv, Running

LEMMA CompleteKeeps ==
  ASSUME NEW p \in Procs, NEW s \in Sessions, IInv, Complete(p, s) PROVE IInv'
<1> DEFINE old == sessions[s]
           row == [sessions[s] EXCEPT !.completed = TRUE]
<1>1. /\ old \in SessionRows /\ RowOK(old) /\ Exists(old) /\ proc[p] = Idle
      /\ UNCHANGED <<prepared, proc, shown, announced>>
  BY Visible DEF Complete
<1>2. /\ row \in SessionRows /\ row.declared = old.declared /\ row.command = old.command
      /\ row.exposures = old.exposures /\ row.revisions = old.revisions
      /\ row.observed = old.observed /\ sessions' = [sessions EXCEPT ![s] = row]
  BY <1>1 DEF SessionRows, Complete, IInv, TypeOK
<1> HIDE DEF row
<1>3. Exists(row)
  BY <1>1, <1>2 DEF Exists
<1>4. RowOK(row)
  BY <1>1, <1>2, <1>3
     DEF RowOK, LabelsFit, BlindIfByCommand, RevealsFollow, ResultsMatch
<1>5. Len(old.exposures) <= Len(row.exposures)
  BY <1>1, <1>2, LenProperties DEF SessionRows
<1>6. ASSUME NEW q \in Procs \ {p}, Running(q), proc[q].session = s PROVE Fits(row, proc[q])
  <2>1. proc[q] \in Processes /\ Fits(old, proc[q])
    BY <1>6 DEF IInv, TypeOK
  <2>2. ~Opens(proc[q])
    BY <1>1, <2>1, Blank DEF Fits, SessionFits
  <2>3. Observes(proc[q]) => \A x \in row.observed : x.exposure # proc[q].exposure
    BY <1>2, <2>1 DEF Fits, ObservationFits
  <2> QED BY <1>1, <1>2, <1>3, <1>5, <2>1, <2>2, <2>3, StillFits
<1>7. Moves(p, s, row, Idle)
  <2>1. /\ prepared' \in BOOLEAN /\ announced' \subseteq Sessions /\ shown' = shown
        /\ proc' = [proc EXCEPT ![p] = Idle] /\ Idle.pc = "idle"
    BY <1>1, IdleFacts DEF IInv, TypeOK
  <2>2. \A e \in Ordinals(old.exposures) : row.exposures[e] = old.exposures[e]
    BY <1>2
  <2> QED BY <1>2, <1>4, <1>5, <1>6, <2>1, <2>2 DEF Moves
<1> QED BY <1>2, <1>7, IdleFacts, Moved

LEMMA UnwindKeeps ==
  ASSUME NEW p \in Procs, IInv, Unwind(p) PROVE IInv'
<1>1. Running(p)
  BY DEF Unwind, IInv
<1> QED BY <1>1, Ended DEF Unwind, IInv, TypeOK

-----------------------------------------------------------------------------
(* The commit *)

\* What the commit of a command makes of the session is well-formed.
LEMMA CommitIsRight ==
  ASSUME NEW row \in SessionRows, NEW r \in Processes, RowOK(row), Fits(row, r),
         r.pc = "close"
  PROVE  RowOK(Merged(row, r.wrote)) /\ Exists(Merged(row, r.wrote))
<1> DEFINE w == r.wrote
           new == Merged(row, w)
<1>1. /\ w \in SessionRows /\ new \in SessionRows
      /\ new.declared = IF Opens(r) THEN w.declared ELSE row.declared
      /\ new.command = (row.command \/ w.command)
      /\ new.exposures = row.exposures \o w.exposures
      /\ new.revisions = row.revisions \o w.revisions
      /\ new.observed = row.observed \cup w.observed
  BY MergedRow DEF Processes, Opens
<1>2. /\ row.exposures \in Seq(Exposures) /\ row.revisions \in Seq(Revisions)
      /\ w.exposures \in Seq(Exposures) /\ w.revisions \in Seq(Revisions)
      /\ Len(row.revisions) \in Nat /\ Len(row.exposures) \in Nat
      /\ Len(w.revisions) \in Nat
  BY <1>1, LenProperties DEF SessionRows
<1> HIDE DEF new
<1>3. Exists(new)
  BY <1>1 DEF Fits, SessionFits, Opens, Exists
<1>4. ASSUME Opens(r) PROVE RowOK(new)
  <2>1. /\ row.exposures = <<>> /\ row.revisions = <<>> /\ row.observed = {} /\ ~row.command
    BY <1>4 DEF Fits, SessionFits, Absent
  <2>2. /\ ~Observes(r) /\ w.observed = {} /\ w.command
        /\ Len(w.exposures) <= MaxExposures /\ r.seen = Ordinals(w.exposures)
        /\ \A e \in Ordinals(w.exposures) : w.exposures[e].kind = "declared_prior_external"
    BY <1>4 DEF Fits, SessionFits, Observes
  <2>3. Revises(r)
    BY <2>2 DEF Fits, StepFits
  <2>4. PICK v \in Revisions :
          /\ w.revisions = <<v>> /\ Len(row.revisions) < MaxRevisions
          /\ v.seen = r.seen /\ v.before = Len(row.exposures \o w.exposures)
          /\ LabelFits(w.declared, v)
          /\ v.kind = "initial_blind"
    BY <1>4, <2>1, <2>3 DEF Fits, RevisionFits
  <2>5. /\ new.exposures = w.exposures /\ new.revisions = <<v>> /\ new.observed = {}
        /\ new.declared = w.declared /\ v.before = Len(w.exposures)
    BY <1>1, <1>2, <1>4, <2>1, <2>2, <2>4, ConcatEmptySeq
  <2>6. Len(<<v>>) = 1 /\ <<v>>[1] = v /\ <<v>> # <<>> /\ Len(row.revisions) \in Nat
    BY <1>2, One
  <2>7. LabelsFit(new)
    BY <1>2, <2>4, <2>5, <2>6, LenProperties DEF LabelsFit
  <2>8. BlindIfByCommand(new)
    <3>1. v.seen = 1..v.before
      BY <2>2, <2>4, <2>5 DEF Ordinals
    <3>2. v.blind = "confirmed_unexposed" => v.seen = {}
      BY <2>4 DEF LabelFits
    <3>3. v.before \in Nat
      BY ReviewConstants DEF Revisions
    <3>4. v.seen = {} => v.before = 0
      BY <3>1, <3>3
    <3> QED BY <2>5, <2>6, <3>1, <3>2, <3>4 DEF BlindIfByCommand
  <2>9. RevealsFollow(new)
    BY <2>2, <2>5 DEF RevealsFollow
  <2>10. ResultsMatch(new)
    BY <2>5, <2>6 DEF ResultsMatch
  <2>11. Len(new.exposures) <= MaxExposures /\ Len(new.revisions) <= MaxRevisions
    BY <2>2, <2>4, <2>5, <2>6, ReviewConstants
  <2> QED BY <1>3, <2>7, <2>8, <2>9, <2>10, <2>11 DEF RowOK
<1>5. ASSUME ~Opens(r) PROVE RowOK(new)
  <2>1. /\ Exists(row) /\ ~w.command /\ w.exposures = <<>> /\ new.exposures = row.exposures
        /\ new.declared = row.declared /\ new.command = row.command
    BY <1>1, <1>2, <1>5, ConcatEmptySeq DEF Fits, SessionFits, SessionRows
  <2> DEFINE n == Len(row.revisions)
  <2>2. /\ ~Revises(r) => new.revisions = row.revisions
        /\ Revises(r) => \E v \in Revisions :
             /\ w.revisions = <<v>> /\ n < MaxRevisions
             /\ v.seen = r.seen /\ v.before = Len(row.exposures)
             /\ LabelFits(row.declared, v)
             /\ v.kind = "initial_blind" <=> row.revisions = <<>>
             /\ row.revisions = <<>> => ~Observes(r)
             /\ row.revisions # <<>> => r.exposure \in r.seen /\ Observes(r)
             /\ Len(new.revisions) = n + 1 /\ new.revisions[n + 1] = v
    <3>1. ~Revises(r) => new.revisions = row.revisions
      BY <1>1, <1>2, ConcatEmptySeq DEF Revises
    <3>2. ASSUME Revises(r)
          PROVE  \E v \in Revisions :
             /\ w.revisions = <<v>> /\ n < MaxRevisions
             /\ v.seen = r.seen /\ v.before = Len(row.exposures)
             /\ LabelFits(row.declared, v)
             /\ v.kind = "initial_blind" <=> row.revisions = <<>>
             /\ row.revisions = <<>> => ~Observes(r)
             /\ row.revisions # <<>> => r.exposure \in r.seen /\ Observes(r)
             /\ Len(new.revisions) = n + 1 /\ new.revisions[n + 1] = v
      <4>1. PICK v \in Revisions :
             /\ w.revisions = <<v>> /\ n < MaxRevisions
             /\ v.seen = r.seen /\ v.before = Len(row.exposures \o w.exposures)
             /\ LabelFits(row.declared, v)
             /\ v.kind = "initial_blind" <=> row.revisions = <<>>
             /\ row.revisions = <<>> => ~Observes(r)
             /\ row.revisions # <<>> => r.exposure \in r.seen /\ Observes(r)
        BY <1>5, <3>2 DEF Fits, RevisionFits
      <4>2. row.exposures \o w.exposures = row.exposures
        BY <1>2, <2>1, ConcatEmptySeq
      <4>3. Len(<<v>>) = 1 /\ <<v>>[1] = v /\ <<v>> \in Seq(Revisions)
        BY One
      <4>4. Len(new.revisions) = n + 1
        BY <1>1, <1>2, <4>1, <4>3, ConcatProperties
      <4>5. new.revisions[n + 1] = v
        <5>1. n + 1 \in 1..(n + 1) /\ ~(n + 1 <= n) /\ (n + 1) - n = 1
          BY <1>2
        <5> QED BY <1>1, <1>2, <4>1, <4>3, <5>1, ConcatProperties
      <4> QED BY <4>1, <4>2, <4>4, <4>5
    <3> QED BY <3>1, <3>2
  <2>3. \A i \in 1..n : new.revisions[i] = row.revisions[i]
    <3>1. \A i \in 1..Len(row.revisions) :
            (row.revisions \o w.revisions)[i] = row.revisions[i]
      BY <1>2, Beginning
    <3>2. new.revisions = row.revisions \o w.revisions
      BY <1>1
    <3> QED BY <3>1, <3>2
  <2>4. Len(new.revisions) = IF Revises(r) THEN n + 1 ELSE n
    BY <2>2
  <2>5. LabelsFit(new)
    <3> SUFFICES ASSUME NEW i \in 1..Len(new.revisions)
                 PROVE  /\ (i = 1) <=> (new.revisions[i].kind = "initial_blind")
                        /\ LabelFits(new.declared, new.revisions[i])
                        /\ new.revisions[i].before <= Len(new.exposures)
      BY DEF LabelsFit
    <3>1. CASE i \in 1..n
      BY <2>1, <2>3, <3>1 DEF RowOK, LabelsFit
    <3>2. CASE Revises(r) /\ i = n + 1
      <4>1. PICK v \in Revisions :
             /\ v.before = Len(row.exposures) /\ LabelFits(row.declared, v)
             /\ v.kind = "initial_blind" <=> row.revisions = <<>>
             /\ new.revisions[n + 1] = v
        BY <2>2, <3>2
      <4>2. i = 1 <=> row.revisions = <<>>
        <5>1. row.revisions = <<>> => n = 0
          BY EmptySeq
        <5>2. row.revisions # <<>> => n # 0
          BY <1>2, EmptySeq
        <5> QED BY <1>2, <3>2, <5>1, <5>2
      <4> QED BY <1>2, <2>1, <3>2, <4>1, <4>2
    <3> QED BY <1>2, <2>4, <3>1, <3>2
  <2>6. BlindIfByCommand(new) /\ RevealsFollow(new)
    <3>1. row.revisions # <<>> => new.revisions # <<>> /\ new.revisions[1] = row.revisions[1]
      <4> SUFFICES ASSUME row.revisions # <<>>
                   PROVE  new.revisions # <<>> /\ new.revisions[1] = row.revisions[1]
        OBVIOUS
      <4>1. 1 \in 1..n
        BY <1>2, EmptySeq
      <4>2. new.revisions # <<>>
        BY <1>1, <1>2, ConcatEqualIffEmpty
      <4> QED BY <2>3, <4>1, <4>2
    <3>2. BlindIfByCommand(row) /\ RevealsFollow(row)
      BY DEF RowOK
    <3>3. BlindIfByCommand(new)
      BY <2>1, <3>1, <3>2 DEF BlindIfByCommand
    <3>4. RevealsFollow(new)
      BY <2>1, <3>1, <3>2 DEF RevealsFollow
    <3> QED BY <3>3, <3>4
  <2>7. ResultsMatch(new)
    <3>1. ResultsMatch(row)
      BY DEF RowOK
    <3>2. ASSUME ~Observes(r) PROVE ResultsMatch(new)
      <4>1. new.observed = row.observed
        BY <1>1, <3>2 DEF Observes
      <4>2. ~Revises(r) \/ row.revisions = <<>>
        BY <2>2, <3>2
      <4>3. \A i \in 2..Len(new.revisions) : i \in 2..n
        <5>1. row.revisions = <<>> => n = 0
          BY EmptySeq
        <5> QED BY <1>2, <2>4, <4>2, <5>1
      <4>4. \A i \in 2..n : i \in 1..n /\ i \in 2..Len(new.revisions)
        BY <1>2, <2>4
      <4> QED BY <2>3, <3>1, <4>1, <4>3, <4>4 DEF ResultsMatch
    <3>3. ASSUME Observes(r) PROVE ResultsMatch(new)
      <4>1. PICK o \in Observations :
              /\ w.observed = {o} /\ o.exposure = r.exposure
              /\ \A x \in row.observed : x.exposure # o.exposure
              /\ o.revision = IF Revises(r) THEN n + 1 ELSE 0
        BY <3>3 DEF Fits, ObservationFits
      <4>2. new.observed = row.observed \cup {o}
        BY <1>1, <4>1
      <4>3. Revises(r) => n >= 1 /\ n + 1 # 0
        BY <1>2, <2>2, <3>3, EmptySeq
      <4>4. \A i \in 2..Len(new.revisions) : \E x \in new.observed : x.revision = i
        <5> SUFFICES ASSUME NEW i \in 2..Len(new.revisions)
                     PROVE  \E x \in new.observed : x.revision = i
          OBVIOUS
        <5>1. CASE i \in 2..n
          BY <3>1, <4>2, <5>1 DEF ResultsMatch
        <5>2. CASE Revises(r) /\ i = n + 1
          BY <4>1, <4>2, <5>2
        <5> QED BY <1>2, <2>4, <5>1, <5>2
      <4>5. \A x \in row.observed : x.revision # 0 => x.revision # o.revision
        BY <1>2, <3>1, <4>1 DEF ResultsMatch
      <4>6. \A x, y \in new.observed :
              x.exposure = y.exposure \/ (x.revision = y.revision /\ x.revision # 0) => x = y
        BY <3>1, <4>1, <4>2, <4>5 DEF ResultsMatch
      <4>7. ASSUME NEW x \in new.observed, x.revision # 0
            PROVE  x.revision \in 2..Len(new.revisions) /\ x.exposure \in new.revisions[x.revision].seen
        <5>1. CASE x \in row.observed
          <6>1. x.revision \in 2..n /\ x.exposure \in row.revisions[x.revision].seen
            BY <3>1, <4>7, <5>1 DEF ResultsMatch
          <6> QED BY <1>2, <2>3, <2>4, <6>1
        <5>2. CASE x = o
          <6>1. Revises(r) /\ x.revision = n + 1 /\ x.exposure = r.exposure
            BY <4>1, <4>7, <5>2
          <6>2. row.revisions # <<>>
            BY <1>2, <4>3, <6>1, EmptySeq
          <6>3. r.exposure \in new.revisions[n + 1].seen
            BY <2>2, <6>1, <6>2
          <6> QED BY <1>2, <2>4, <4>3, <6>1, <6>3
        <5> QED BY <4>2, <5>1, <5>2
      <4> QED BY <4>4, <4>6, <4>7 DEF ResultsMatch
    <3> QED BY <3>2, <3>3
  <2>8. Len(new.exposures) <= MaxExposures /\ Len(new.revisions) <= MaxRevisions
    <3>1. Revises(r) => n < MaxRevisions
      BY <2>2
    <3> QED BY <1>2, <2>1, <2>4, <3>1, ReviewConstants DEF RowOK
  <2> QED BY <1>3, <2>5, <2>6, <2>7, <2>8 DEF RowOK
<1> QED BY <1>3, <1>4, <1>5 DEF new

LEMMA CloseKeeps ==
  ASSUME NEW p \in Procs, IInv, Close(p) PROVE IInv'
<1>1. proc[p] \in Processes /\ Running(p) /\ proc[p].pc = "close" /\ proc[p].prepares \in BOOLEAN
  BY DEF Close, IInv, TypeOK, Running, Processes
<1>2. PICK s \in Sessions : s = proc[p].session
  BY <1>1 DEF IInv
<1> DEFINE old == sessions[s]
           r == proc[p]
           row == Merged(sessions[s], proc[p].wrote)
<1>3. old \in SessionRows /\ RowOK(old) /\ Fits(old, r) /\ r.wrote \in SessionRows
  BY <1>1, <1>2 DEF IInv, TypeOK, Processes
<1>4. RowOK(row) /\ Exists(row)
  BY <1>1, <1>3, CommitIsRight
<1>5. /\ row \in SessionRows
      /\ row.declared = IF Opens(r) THEN r.wrote.declared ELSE old.declared
      /\ row.exposures = old.exposures \o r.wrote.exposures
      /\ row.revisions = old.revisions \o r.wrote.revisions
      /\ row.observed = old.observed \cup r.wrote.observed
  BY <1>3, MergedRow DEF Opens
<1>6. sessions' = [sessions EXCEPT ![s] = row]
  BY <1>2 DEF Close, Mine
<1> HIDE DEF row
<1>7. /\ Len(old.exposures) <= Len(row.exposures)
      /\ \A e \in Ordinals(old.exposures) : row.exposures[e] = old.exposures[e]
  <2>1. old.exposures \in Seq(Exposures) /\ r.wrote.exposures \in Seq(Exposures)
    BY <1>3 DEF SessionRows
  <2>2. /\ Len(old.exposures) <= Len(old.exposures \o r.wrote.exposures)
        /\ \A i \in 1..Len(old.exposures) :
             (old.exposures \o r.wrote.exposures)[i] = old.exposures[i]
    BY <2>1, Beginning
  <2> QED BY <1>5, <2>2 DEF Ordinals
<1>8. ASSUME NEW q \in Procs \ {p}, Running(q), proc[q].session = s PROVE Fits(row, proc[q])
  <2>1. proc[q] \in Processes /\ Fits(old, proc[q]) /\ Apart(r, proc[q])
    BY <1>1, <1>2, <1>8 DEF IInv, TypeOK
  <2>2. ~Opens(r) /\ ~Opens(proc[q])
    BY <2>1 DEF Apart
  <2>3. row.declared = old.declared /\ row.exposures = old.exposures
    BY <1>3, <1>5, <2>2, ConcatEmptySeq DEF Fits, SessionFits, SessionRows
  <2>4. Revises(proc[q]) \/ Observes(proc[q]) => row.revisions = old.revisions
    <3>1. Revises(proc[q]) \/ Observes(proc[q]) => ~Revises(r)
      BY <2>1 DEF Apart
    <3> QED BY <1>3, <1>5, <3>1, ConcatEmptySeq DEF Revises, SessionRows
  <2>5. Observes(proc[q]) => \A x \in row.observed : x.exposure # proc[q].exposure
    <3> SUFFICES ASSUME Observes(proc[q]), NEW x \in row.observed
                 PROVE  x.exposure # proc[q].exposure
      OBVIOUS
    <3>1. CASE x \in old.observed
      BY <2>1, <3>1 DEF Fits, ObservationFits
    <3>2. CASE x \in r.wrote.observed
      <4>1. Observes(r)
        BY <3>2 DEF Observes
      <4>2. x.exposure = r.exposure
        BY <1>3, <3>2, <4>1 DEF Fits, ObservationFits
      <4> QED BY <2>1, <4>1, <4>2 DEF Apart
    <3> QED BY <1>5, <3>1, <3>2
  <2> QED BY <1>3, <1>4, <1>5, <1>7, <2>1, <2>2, <2>3, <2>4, <2>5, StillFits
<1>9. Moves(p, s, row, Idle)
  <2>1. /\ prepared' \in BOOLEAN /\ announced' \subseteq Sessions /\ shown' = shown
        /\ proc' = [proc EXCEPT ![p] = Idle] /\ Idle.pc = "idle"
    BY <1>1, IdleFacts DEF Close, IInv, TypeOK
  <2> QED BY <1>4, <1>6, <1>7, <1>8, <2>1 DEF Moves
<1> QED BY <1>5, <1>9, IdleFacts, Moved

-----------------------------------------------------------------------------
(* The invariant *)

LEMMA InitIsRight == Init => IInv
<1> SUFFICES ASSUME Init PROVE IInv
  OBVIOUS
<1>1. /\ sessions = [s \in Sessions |-> Absent] /\ proc = [p \in Procs |-> Idle]
      /\ prepared = FALSE /\ shown = {} /\ announced = {}
  BY DEF Init
<1>2. TypeOK
  BY <1>1, Blank, IdleFacts DEF TypeOK
<1> QED BY <1>1, <1>2, Blank, IdleFacts DEF IInv, Running, ShownIsRecorded

LEMMA NextKeeps == IInv /\ [Next]_vars => IInv'
<1> SUFFICES ASSUME IInv, [Next]_vars PROVE IInv'
  OBVIOUS
<1>1. ASSUME NEW s \in Sessions, create_review_session(s) \/ Show(s) PROVE IInv'
  BY <1>1, CreateKeeps, ShowKeeps
<1>2. ASSUME NEW p \in Procs, NEW s \in Sessions, Start(p, s) PROVE IInv'
  BY <1>2, ReviewKeeps, ResumeKeeps, RecordKeeps, ObserveKeeps, CompleteKeeps DEF Start
<1>3. ASSUME NEW p \in Procs, Continue(p) PROVE IInv'
  BY <1>3, PreparationKeeps, AppendInitialKeeps, DisplayKeeps, LoadKeeps, AppendRevisedKeeps,
     ObservationKeeps, CompleteObservedKeeps, CloseKeeps DEF Continue
<1>4. ASSUME NEW p \in Procs, Unwind(p) PROVE IInv'
  BY <1>4, UnwindKeeps
<1>5. CASE UNCHANGED vars
  BY <1>5 DEF vars, IInv, TypeOK, Running, ShownIsRecorded
<1> QED BY <1>1, <1>2, <1>3, <1>4, <1>5 DEF Next

\* Every reachable state satisfies IInv: each step of a `comparisons review' or
\* `reviews' process, and its rollback, preserves it.
THEOREM Invariance == Spec => []IInv
  BY InitIsRight, NextKeeps, PTL DEF Spec

\* The rows and the commands keep their types; no bound is exceeded.
THEOREM TypeCorrect == Spec => []TypeOK
<1>1. IInv => TypeOK
  BY DEF IInv
<1> QED BY <1>1, Invariance, PTL

\* check_blind_status and the lock of append_review_revision keep every stored label
\* one the row supports.
THEOREM Labels == Spec => []LabelsAreSupported
<1>1. IInv => LabelsAreSupported
  BY DEF IInv, RowOK, LabelsFit, LabelFits, LabelsAreSupported
<1> QED BY <1>1, Invariance, PTL

\* A session that `comparisons review' opened is visible only with its initial judgment,
\* and that judgment recorded every exposure there was.
THEOREM CommandIsBlind == Spec => []ReviewCommandIsBlind
<1>1. IInv => ReviewCommandIsBlind
  BY DEF IInv, RowOK, BlindIfByCommand, ReviewCommandIsBlind, Judged
<1> QED BY <1>1, Invariance, PTL

\* record_exposure stores a guided reveal only behind the durable initial judgment.
THEOREM RevealsComeAfter == Spec => []GuidedRevealFollowsJudgment
<1>1. IInv => GuidedRevealFollowsJudgment
  BY DEF IInv, RowOK, RevealsFollow, GuidedRevealFollowsJudgment, Judged
<1> QED BY <1>1, Invariance, PTL

\* A verdict is displayed only after its exposure is durable.
THEOREM NothingShownUnrecorded == Spec => []ShownIsRecorded
<1>1. IInv => ShownIsRecorded
  BY DEF IInv
<1> QED BY <1>1, Invariance, PTL

\* `reviews observe' commits a revision and the observation it results from together,
\* and no exposure is observed twice, whatever runs at the same time.
THEOREM RevisionsHaveReasons == Spec => []RevisionsComeFromObservations
<1>1. ASSUME IInv, NEW s \in Sessions PROVE ResultsMatch(sessions[s])
  BY <1>1 DEF IInv, RowOK
<1>2. ASSUME IInv, NEW s \in Sessions, NEW i \in 2..Len(sessions[s].revisions)
      PROVE  Cardinality({o \in sessions[s].observed : o.revision = i}) = 1
  <2>1. PICK o \in sessions[s].observed : o.revision = i
    BY <1>1, <1>2 DEF ResultsMatch
  <2>2. \A x \in sessions[s].observed : x.revision = i => x = o
    BY <1>1, <1>2, <2>1 DEF ResultsMatch
  <2>3. {x \in sessions[s].observed : x.revision = i} = {o}
    BY <2>1, <2>2
  <2> QED BY <2>3, FS_Singleton
<1>3. IInv => RevisionsComeFromObservations
  BY <1>1, <1>2 DEF RevisionsComeFromObservations, ResultsMatch
<1> QED BY <1>3, Invariance, PTL

-----------------------------------------------------------------------------
(* History *)

\* What HistoryOnlyGrows says of one session.
Grows(row, later) ==
  Exists(row) =>
    /\ later.declared = row.declared
    /\ IsPrefix(row.exposures, later.exposures)
    /\ IsPrefix(row.revisions, later.revisions)
    /\ row.observed \subseteq later.observed
    /\ row.completed => later.completed

LEMMA PrefixOfConcat ==
  ASSUME NEW S, NEW a \in Seq(S), NEW b \in Seq(S) PROVE IsPrefix(a, a \o b)
<1>1. Len(a) \in Nat /\ a \o b \in Seq(S) /\ Len(a) <= Len(a \o b)
  BY LenProperties, Beginning
<1>3. \A i \in 1..Len(a) : (a \o b)[i] = a[i] /\ (a \o b)[i] \in S
  BY <1>1, ElementOfSeq, Beginning
<1>4. SubSeq(a, 1, Len(a)) = a
  BY <1>1, SubSeqFull
<1>5. /\ SubSeq(a \o b, 1, Len(a)) \in Seq(S) /\ Len(SubSeq(a \o b, 1, Len(a))) = Len(a)
      /\ \A i \in 1..Len(a) : SubSeq(a \o b, 1, Len(a))[i] = (a \o b)[i]
  BY <1>1, <1>3
<1>6. SubSeq(a \o b, 1, Len(a)) = a
  BY <1>3, <1>5, SeqEqual
<1> QED BY <1>1, <1>4, <1>6 DEF IsPrefix

LEMMA PrefixOfItself == ASSUME NEW S, NEW a \in Seq(S) PROVE IsPrefix(a, a)
  BY LenProperties DEF IsPrefix

LEMMA PrefixOfAppend ==
  ASSUME NEW S, NEW a \in Seq(S), NEW x \in S PROVE IsPrefix(a, Append(a, x))
<1>1. Append(a, x) = a \o <<x>> /\ <<x>> \in Seq(S)
  OBVIOUS
<1> QED BY <1>1, PrefixOfConcat

LEMMA RowGrowsFromItself == ASSUME NEW row \in SessionRows PROVE Grows(row, row)
  BY PrefixOfItself DEF Grows, SessionRows

LEMMA CommitGrows ==
  ASSUME NEW row \in SessionRows, NEW r \in Processes, Fits(row, r)
  PROVE  Grows(row, Merged(row, r.wrote))
<1> SUFFICES ASSUME Exists(row) PROVE Grows(row, Merged(row, r.wrote))
  BY DEF Grows
<1>1. ~Opens(r)
  BY Blank DEF Fits, SessionFits
<1>2. /\ r.wrote \in SessionRows /\ row.exposures \in Seq(Exposures)
      /\ row.revisions \in Seq(Revisions) /\ r.wrote.exposures \in Seq(Exposures)
      /\ r.wrote.revisions \in Seq(Revisions)
  BY DEF Processes, SessionRows
<1>3. /\ Merged(row, r.wrote).declared = row.declared
      /\ Merged(row, r.wrote).exposures = row.exposures \o r.wrote.exposures
      /\ Merged(row, r.wrote).revisions = row.revisions \o r.wrote.revisions
      /\ Merged(row, r.wrote).observed = row.observed \cup r.wrote.observed
      /\ Merged(row, r.wrote).completed = (row.completed \/ r.wrote.completed)
  BY <1>1, <1>2, MergedRow DEF Opens
<1>4. /\ IsPrefix(row.exposures, row.exposures \o r.wrote.exposures)
      /\ IsPrefix(row.revisions, row.revisions \o r.wrote.revisions)
  BY <1>2, PrefixOfConcat
<1> QED BY <1>3, <1>4 DEF Grows

LEMMA StepGrows ==
  ASSUME IInv, [Next]_vars, NEW t \in Sessions
  PROVE  Grows(sessions[t], sessions'[t])
<1>1. sessions[t] \in SessionRows /\ sessions \in [Sessions -> SessionRows]
  BY DEF IInv, TypeOK
<1>2. CASE sessions' = sessions
  BY <1>1, <1>2, RowGrowsFromItself
<1>3. ASSUME NEW s \in Sessions, create_review_session(s) PROVE Grows(sessions[t], sessions'[t])
  <2>1. PICK row : sessions' = [sessions EXCEPT ![s] = row]
    BY <1>3 DEF create_review_session
  <2>2. ~Exists(sessions[s])
    BY <1>3, Blank DEF create_review_session
  <2>3. s # t => sessions'[t] = sessions[t]
    BY <1>1, <2>1
  <2> QED BY <1>1, <2>2, <2>3, RowGrowsFromItself DEF Grows
<1>4. ASSUME NEW p \in Procs, NEW s \in Sessions, record_exposure(p, s)
      PROVE  Grows(sessions[t], sessions'[t])
  <2>1. PICK x \in Exposures :
          sessions' = [sessions EXCEPT ![s].exposures = Append(sessions[s].exposures, x)]
    BY <1>4 DEF record_exposure, Exposures
  <2>2. CASE s # t
    BY <1>1, <2>1, <2>2, RowGrowsFromItself
  <2>3. CASE s = t
    <3>1. /\ sessions'[t].exposures = Append(sessions[t].exposures, x)
          /\ sessions'[t].revisions = sessions[t].revisions
          /\ sessions'[t].observed = sessions[t].observed
          /\ sessions'[t].completed = sessions[t].completed
          /\ sessions'[t].declared = sessions[t].declared
      BY <1>1, <2>1, <2>3 DEF SessionRows
    <3>2. sessions[t].exposures \in Seq(Exposures) /\ sessions[t].revisions \in Seq(Revisions)
      BY <1>1 DEF SessionRows
    <3>3. /\ IsPrefix(sessions[t].exposures, Append(sessions[t].exposures, x))
          /\ IsPrefix(sessions[t].revisions, sessions[t].revisions)
      BY <3>2, PrefixOfAppend, PrefixOfItself
    <3> QED BY <3>1, <3>3 DEF Grows
  <2> QED BY <2>2, <2>3
<1>5. ASSUME NEW p \in Procs, NEW s \in Sessions, Complete(p, s)
      PROVE  Grows(sessions[t], sessions'[t])
  <2>1. sessions' = [sessions EXCEPT ![s].completed = TRUE]
    BY <1>5 DEF Complete
  <2>2. /\ sessions'[t].exposures = sessions[t].exposures
        /\ sessions'[t].revisions = sessions[t].revisions
        /\ sessions'[t].observed = sessions[t].observed
        /\ sessions[t].completed => sessions'[t].completed
        /\ sessions'[t].declared = sessions[t].declared
    BY <1>1, <2>1 DEF SessionRows
  <2>3. Grows(sessions[t], sessions[t])
    BY <1>1, RowGrowsFromItself
  <2> QED BY <2>2, <2>3 DEF Grows
<1>6. ASSUME NEW p \in Procs, Close(p) PROVE Grows(sessions[t], sessions'[t])
  <2>1. Running(p) /\ proc[p] \in Processes
    BY <1>6 DEF Close, IInv, TypeOK, Running
  <2>2. PICK s \in Sessions : s = proc[p].session
    BY <2>1 DEF IInv
  <2>3. sessions' = [sessions EXCEPT ![s] = Merged(sessions[s], proc[p].wrote)]
    BY <1>6, <2>2 DEF Close, Mine
  <2>4. CASE s # t
    BY <1>1, <2>3, <2>4, RowGrowsFromItself
  <2>5. CASE s = t
    <3>1. Fits(sessions[t], proc[p]) /\ sessions'[t] = Merged(sessions[t], proc[p].wrote)
      BY <1>1, <2>1, <2>2, <2>3, <2>5 DEF IInv
    <3>2. Grows(sessions[t], Merged(sessions[t], proc[p].wrote))
      BY <1>1, <2>1, <3>1, CommitGrows
    <3> QED BY <3>1, <3>2
  <2> QED BY <2>4, <2>5
<1>7. ASSUME NEW s \in Sessions, Show(s) PROVE sessions' = sessions
  BY <1>7 DEF Show
<1>8. ASSUME NEW p \in Procs, NEW s \in Sessions, Review(p, s) \/ Resume(p, s) \/ Observe(p, s)
      PROVE  sessions' = sessions
  BY <1>8 DEF Review, Resume, Observe
<1>9. ASSUME NEW p \in Procs,
             \/ get_preparation(p) \/ save_preparation(p) \/ AppendInitial(p) \/ Display(p)
             \/ load_session_exposures(p) \/ AppendRevised(p)
             \/ record_post_assessment_observation(p) \/ CompleteObserved(p) \/ Unwind(p)
      PROVE  sessions' = sessions
  BY <1>9 DEF get_preparation, save_preparation, AppendInitial, Display, load_session_exposures,
     AppendRevised, append_review_revision, record_post_assessment_observation,
     CompleteObserved, Unwind
<1>10. CASE UNCHANGED vars
  BY <1>2, <1>10 DEF vars
<1> QED BY <1>2, <1>3, <1>4, <1>5, <1>6, <1>7, <1>8, <1>9, <1>10 DEF Next, Start, Continue

\* No step rewrites what a session durably records.
THEOREM HistoryGrows == Spec => HistoryOnlyGrows
<1> DEFINE Step ==
      \A s \in Sessions :
        Exists(sessions[s]) =>
          /\ sessions'[s].declared = sessions[s].declared
          /\ IsPrefix(sessions[s].exposures, sessions'[s].exposures)
          /\ IsPrefix(sessions[s].revisions, sessions'[s].revisions)
          /\ sessions[s].observed \subseteq sessions'[s].observed
          /\ sessions[s].completed => sessions'[s].completed
<1>1. IInv /\ [Next]_vars => Step
  BY StepGrows DEF Grows
<1>2. Spec => [][Step]_vars
  BY <1>1, Invariance, PTL DEF Spec
<1> QED BY <1>2 DEF HistoryOnlyGrows
=============================================================================
