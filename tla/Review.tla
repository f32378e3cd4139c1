--------------------------------- MODULE Review --------------------------------
(***************************************************************************)
(* Human review of one stored result: `comparisons review' and `reviews    *)
(* resume', `reveal', `observe', `complete' and `show', run by concurrent  *)
(* processes.                                                              *)
(*                                                                         *)
(* The first statement of review, resume and observe is a read, so each of *)
(* them is one implicit transaction that commits when its connection       *)
(* closes; the first statement of reveal and complete opens the block that *)
(* commits.  A process's uncommitted writes are `wrote' in its record.     *)
(* They also are its row locks: FOR UPDATE on the session is held from     *)
(* append_review_revision to the commit, a referencing insert holds the    *)
(* session row FOR KEY SHARE, the completing UPDATE FOR NO KEY UPDATE.     *)
(*                                                                         *)
(* All sessions review the same result for the same reviewer and case, so  *)
(* they share one preparation row.                                         *)
(***************************************************************************)
EXTENDS Integers, FiniteSets, SequencesExt

CONSTANTS
  Procs, Sessions,
  Assessments,   \* the stored assessments of the reviewed result
  Unguided,      \* the kinds of exposure besides guided_reveal that are considered
  MaxExposures, MaxRevisions, \* bounds on one session's history
  NoSession, NoAssessment

ASSUME ReviewConstants ==
  /\ Unguided \subseteq {"accidental", "general_inspection"}
  /\ MaxExposures \in Nat \ {0} /\ MaxRevisions \in Nat
  /\ NoSession \notin Sessions /\ NoAssessment \notin Assessments

VARIABLES
  sessions, \* the durable rows of each session
  prepared, \* the preparation row of the case is durable
  proc,     \* the command each process runs
  shown,    \* history: <<session, assessment>> whose verdict was displayed
  announced \* history: sessions whose identifier was printed

vars == <<sessions, prepared, proc, shown, announced>>

Declarations == {"none_declared", "known", "unknown"}
BlindStatuses == {"confirmed_unexposed", "known_exposed", "unknown"}
ExposureKinds == {"guided_reveal", "declared_prior_external"} \cup Unguided

Exposures == [assessment : Assessments, kind : ExposureKinds]
\* `seen' are the ordinals in review_revision_exposures; `before' is history, the
\* number of exposures the session had when the revision was appended.
Revisions ==
  [kind : {"initial_blind", "post_assessment"}, blind : BlindStatuses,
   seen : SUBSET (1..MaxExposures), before : 0..MaxExposures]
\* resulting_revision_id is the revision's ordinal, 0 when there is none.
Observations == [exposure : 1..MaxExposures, revision : 0..MaxRevisions]

Absent == [declared |-> "absent", command |-> FALSE, exposures |-> <<>>,
           revisions |-> <<>>, observed |-> {}, completed |-> FALSE]
Nothing == [Absent EXCEPT !.declared = "nothing"]

SessionRows ==
  [declared : Declarations \cup {"absent", "nothing"},
   command : BOOLEAN,                  \* history: `comparisons review' opened it
   exposures : Seq(Exposures), revisions : Seq(Revisions),
   observed : SUBSET Observations, completed : BOOLEAN]

Idle == [pc |-> "idle", session |-> NoSession, assessment |-> NoAssessment,
         exposure |-> 0, seen |-> {}, revise |-> FALSE, complete |-> FALSE,
         wrote |-> Nothing, prepares |-> FALSE]

Processes ==
  [pc : {"idle", "capture", "prepare", "judge", "display", "exposures", "append",
         "observe", "complete", "close"},
   session : Sessions \cup {NoSession},
   assessment : Assessments \cup {NoAssessment},
   exposure : 0..MaxExposures,
   seen : SUBSET (1..MaxExposures),    \* exposures as the process last read them
   revise : BOOLEAN, complete : BOOLEAN,
   wrote : SessionRows,                \* uncommitted rows of the session
   prepares : BOOLEAN]                 \* uncommitted preparation row

Init ==
  /\ sessions = [s \in Sessions |-> Absent]
  /\ prepared = FALSE
  /\ proc = [p \in Procs |-> Idle]
  /\ shown = {} /\ announced = {}

-----------------------------------------------------------------------------
(* Rows and locks *)

Exists(row) == row.declared \in Declarations

\* (faulty variant) A revision takes the place of the earlier ones.
MergedReplacing(row, wrote) ==
  [declared |-> IF Exists(wrote) THEN wrote.declared ELSE row.declared,
   command |-> row.command \/ wrote.command,
   exposures |-> row.exposures \o wrote.exposures,
   revisions |-> IF wrote.revisions = <<>> THEN row.revisions ELSE wrote.revisions,
   observed |-> row.observed \cup wrote.observed,
   completed |-> row.completed \/ wrote.completed]

\* The session as the writer sees it, and as everybody does after its commit.
Merged(row, wrote) ==
  [declared |-> IF Exists(wrote) THEN wrote.declared ELSE row.declared,
   command |-> row.command \/ wrote.command,
   exposures |-> row.exposures \o wrote.exposures,
   revisions |-> row.revisions \o wrote.revisions,
   observed |-> row.observed \cup wrote.observed,
   completed |-> row.completed \/ wrote.completed]

Mine(p) == Merged(sessions[proc[p].session], proc[p].wrote)

Others(p, s) == {q \in Procs \ {p} : proc[q].session = s}
Revising(q) == proc[q].wrote.revisions # <<>>
Observing(q) == proc[q].wrote.observed # {}
Completing(q) == proc[q].wrote.completed

ForUpdate(p, s) ==
  \A q \in Others(p, s) : ~Revising(q) /\ ~Observing(q) /\ ~Completing(q)
ForKeyShare(p, s) == \A q \in Others(p, s) : ~Revising(q)
ForNoKeyUpdate(p, s) == \A q \in Others(p, s) : ~Revising(q) /\ ~Completing(q)

Ordinals(exposures) == 1..Len(exposures)

-----------------------------------------------------------------------------
(* Opening a session and capturing its initial judgment *)

\* A session stored by a caller of the store, on a connection of its own.
create_review_session(s) ==
  /\ sessions[s] = Absent /\ \A p \in Procs : proc[p].session # s
  /\ \E d \in Declarations :
       sessions' = [sessions EXCEPT ![s] = [Absent EXCEPT !.declared = d]]
  /\ UNCHANGED <<prepared, proc, shown, announced>>

\* (faulty variant) The session is committed before the judgment is captured.
ReviewCommittingTheSession(p, s) ==
  /\ proc[p] = Idle
  /\ sessions[s] = Absent /\ \A q \in Procs : proc[q].session # s
  /\ \E d \in Declarations :
       /\ sessions' = [sessions EXCEPT ![s] = [Absent EXCEPT !.declared = d, !.command = TRUE]]
       /\ proc' = [proc EXCEPT ![p] = [Idle EXCEPT !.pc = "capture", !.session = s]]
  /\ announced' = announced \cup {s}
  /\ UNCHANGED <<prepared, shown>>

\* `comparisons review' up to the first prompt: the session, an exposure that
\* the reviewer declares, the identifier is printed, the record is read back.
Review(p, s) ==
  /\ proc[p] = Idle
  /\ sessions[s] = Absent /\ \A q \in Procs : proc[q].session # s
  /\ \E d \in Declarations :
     \E prior \in {<<>>} \cup
          {<<[assessment |-> a, kind |-> "declared_prior_external"]>> : a \in Assessments} :
       /\ prior # <<>> => d = "known"
       /\ proc' = [proc EXCEPT ![p] =
            [Idle EXCEPT !.pc = "capture", !.session = s, !.seen = Ordinals(prior),
               !.wrote = [Absent EXCEPT !.declared = d, !.command = TRUE,
                                        !.exposures = prior]]]
  /\ announced' = announced \cup {s}
  /\ UNCHANGED <<sessions, prepared, shown>>

\* `reviews resume' up to the first prompt: the record is read.
Resume(p, s) ==
  /\ proc[p] = Idle
  /\ Exists(sessions[s]) /\ sessions[s].revisions = <<>>
  /\ proc' = [proc EXCEPT ![p] =
       [Idle EXCEPT !.pc = "capture", !.session = s,
                    !.seen = Ordinals(sessions[s].exposures)]]
  /\ UNCHANGED <<sessions, prepared, shown, announced>>

Goto(p, pc) == proc' = [proc EXCEPT ![p].pc = pc]

get_preparation(p) ==
  /\ proc[p].pc = "capture"
  /\ Goto(p, IF prepared THEN "judge" ELSE "prepare")
  /\ UNCHANGED <<sessions, prepared, shown, announced>>

\* The insert waits for another uncommitted row with the same key, and raises
\* (Unwind) when that row has become durable.
save_preparation(p) ==
  /\ proc[p].pc = "prepare"
  /\ ~prepared /\ \A q \in Procs : ~proc[q].prepares
  /\ proc' = [proc EXCEPT ![p].pc = "judge", ![p].prepares = TRUE]
  /\ UNCHANGED <<sessions, prepared, shown, announced>>

initial_blind_status(declared, has_exposures) ==
  IF declared = "none_declared" /\ ~has_exposures THEN "confirmed_unexposed"
  ELSE IF declared = "unknown" THEN "unknown" ELSE "known_exposed"

check_blind_status(status, declared, has_exposures) ==
  LET unexposed == declared = "none_declared" /\ ~has_exposures IN
  /\ status = "confirmed_unexposed" => unexposed
  /\ status = "known_exposed" => ~unexposed
  /\ status = "unknown" => declared = "unknown"

\* (faulty variant) The label is taken from the declaration alone.
UncheckedRevision(p, kind, blind, next) ==
  LET row == Mine(p) IN
  /\ ForUpdate(p, proc[p].session)
  /\ (row.revisions = <<>>) <=> (kind = "initial_blind")
  /\ Len(row.revisions) < MaxRevisions
  /\ proc' = [proc EXCEPT ![p].pc = next, ![p].wrote.revisions = Append(@,
       [kind |-> kind, seen |-> proc[p].seen, before |-> Len(row.exposures),
        blind |-> IF row.declared = "none_declared" THEN "confirmed_unexposed" ELSE blind])]
  /\ UNCHANGED <<sessions, prepared, shown, announced>>

\* The exposures are those the caller passes: what it read earlier.
append_review_revision(p, kind, blind, next) ==
  LET row == Mine(p) IN
  /\ ForUpdate(p, proc[p].session)
  /\ (row.revisions = <<>>) <=> (kind = "initial_blind")
  /\ check_blind_status(blind, row.declared, proc[p].seen # {})
  /\ proc[p].seen \subseteq Ordinals(row.exposures)
  /\ Len(row.revisions) < MaxRevisions
  /\ proc' = [proc EXCEPT ![p].pc = next, ![p].wrote.revisions =
       Append(proc[p].wrote.revisions,
         [kind |-> kind, blind |-> blind, seen |-> proc[p].seen,
          before |-> Len(row.exposures)])]
  /\ UNCHANGED <<sessions, prepared, shown, announced>>

\* The prompts are answered; the label follows the record read at the start.
AppendInitial(p) ==
  /\ proc[p].pc = "judge"
  /\ append_review_revision(p, "initial_blind",
       initial_blind_status(Mine(p).declared, proc[p].seen # {}), "close")

-----------------------------------------------------------------------------
(* Revealing *)

\* (faulty variant) A guided reveal does not look for the initial revision.
AnyRevealAllowed(s, kind) == Exists(sessions[s])

\* record_exposure's checks on the durable session.
RevealAllowed(s, kind) ==
  /\ Exists(sessions[s])
  /\ kind = "guided_reveal" => sessions[s].revisions # <<>>

\* (faulty variant) A completed session is not extended, but the verdict is shown.
RevealUnrecordedWhenCompleted(p, s) ==
  /\ proc[p] = Idle
  /\ ForUpdate(p, s)
  /\ Len(sessions[s].exposures) < MaxExposures
  /\ \E a \in Assessments, kind \in ExposureKinds \ {"declared_prior_external"} :
       /\ RevealAllowed(s, kind)
       /\ sessions' = [sessions EXCEPT ![s].exposures =
            IF sessions[s].completed THEN @
            ELSE Append(@, [assessment |-> a, kind |-> kind])]
       /\ proc' = [proc EXCEPT ![p] =
            [Idle EXCEPT !.pc = "display", !.session = s, !.assessment = a]]
  /\ UNCHANGED <<prepared, shown, announced>>

\* `reviews reveal' up to the commit of the exposure.
record_exposure(p, s) ==
  /\ proc[p] = Idle
  /\ ForUpdate(p, s)
  /\ Len(sessions[s].exposures) < MaxExposures
  /\ \E a \in Assessments, kind \in ExposureKinds \ {"declared_prior_external"} :
       /\ RevealAllowed(s, kind)
       /\ sessions' = [sessions EXCEPT ![s].exposures =
            Append(sessions[s].exposures, [assessment |-> a, kind |-> kind])]
       /\ proc' = [proc EXCEPT ![p] =
            [Idle EXCEPT !.pc = "display", !.session = s, !.assessment = a]]
  /\ UNCHANGED <<prepared, shown, announced>>

Display(p) ==
  /\ proc[p].pc = "display"
  /\ shown' = shown \cup {<<proc[p].session, proc[p].assessment>>}
  /\ proc' = [proc EXCEPT ![p] = Idle]
  /\ UNCHANGED <<sessions, prepared, announced>>

exposed_assessment_ids(s) ==
  {sessions[s].exposures[i].assessment : i \in Ordinals(sessions[s].exposures)}

\* `reviews show' and `export'.
Show(s) ==
  /\ Exists(sessions[s])
  /\ shown' = shown \cup {<<s, a>> : a \in exposed_assessment_ids(s)}
  /\ UNCHANGED <<sessions, prepared, proc, announced>>

-----------------------------------------------------------------------------
(* Observing the effect of an assessment *)

\* `reviews observe' up to its prompts.
Observe(p, s) ==
  /\ proc[p] = Idle
  /\ \E e \in Ordinals(sessions[s].exposures), revise, complete \in BOOLEAN :
       proc' = [proc EXCEPT ![p] =
         [Idle EXCEPT !.pc = IF revise THEN "exposures" ELSE "observe", !.session = s,
                      !.exposure = e, !.revise = revise, !.complete = complete]]
  /\ UNCHANGED <<sessions, prepared, shown, announced>>

load_session_exposures(p) ==
  /\ proc[p].pc = "exposures"
  /\ proc' = [proc EXCEPT ![p].pc = "append",
                          ![p].seen = Ordinals(sessions[proc[p].session].exposures)]
  /\ UNCHANGED <<sessions, prepared, shown, announced>>

\* (faulty variant) The revision's block commits by itself.
AppendRevisedCommitting(p) ==
  /\ proc[p].pc = "append"
  /\ ForUpdate(p, proc[p].session)
  /\ Mine(p).revisions # <<>> /\ Len(Mine(p).revisions) < MaxRevisions
  /\ sessions' = [sessions EXCEPT ![proc[p].session].revisions = Append(@,
       [kind |-> "post_assessment", blind |-> "known_exposed", seen |-> proc[p].seen,
        before |-> Len(Mine(p).exposures)])]
  /\ Goto(p, "observe")
  /\ UNCHANGED <<prepared, shown, announced>>

AppendRevised(p) ==
  /\ proc[p].pc = "append"
  /\ append_review_revision(p, "post_assessment", "known_exposed", "observe")

\* The insert waits for an uncommitted observation of the same exposure, and
\* raises when there is a durable one.
record_post_assessment_observation(p) ==
  LET s == proc[p].session
      e == proc[p].exposure
  IN
  /\ proc[p].pc = "observe"
  /\ ForKeyShare(p, s)
  /\ \A o \in sessions[s].observed \cup UNION {proc[q].wrote.observed : q \in Others(p, s)} :
       o.exposure # e
  /\ proc' = [proc EXCEPT
       ![p].pc = IF proc[p].complete THEN "complete" ELSE "close",
       ![p].wrote.observed =
         {[exposure |-> e, revision |-> IF proc[p].revise THEN Len(Mine(p).revisions) ELSE 0]}]
  /\ UNCHANGED <<sessions, prepared, shown, announced>>

\* complete_review_session as the last statement of `reviews observe'.
CompleteObserved(p) ==
  /\ proc[p].pc = "complete"
  /\ ForNoKeyUpdate(p, proc[p].session)
  /\ ~sessions[proc[p].session].completed
  /\ proc' = [proc EXCEPT ![p].pc = "close", ![p].wrote.completed = TRUE]
  /\ UNCHANGED <<sessions, prepared, shown, announced>>

\* `reviews complete': the same block, on an idle connection.
Complete(p, s) ==
  /\ proc[p] = Idle
  /\ Exists(sessions[s]) /\ ~sessions[s].completed
  /\ ForNoKeyUpdate(p, s)
  /\ sessions' = [sessions EXCEPT ![s].completed = TRUE]
  /\ UNCHANGED <<prepared, proc, shown, announced>>

-----------------------------------------------------------------------------

\* The connection closes and the implicit transaction is committed.
Close(p) ==
  /\ proc[p].pc = "close"
  /\ sessions' = [sessions EXCEPT ![proc[p].session] = Mine(p)]
  /\ prepared' = (prepared \/ proc[p].prepares)
  /\ proc' = [proc EXCEPT ![p] = Idle]
  /\ UNCHANGED <<shown, announced>>

\* An exception, an interrupt or the death of the process: rollback.
Unwind(p) ==
  /\ proc[p] # Idle
  /\ proc' = [proc EXCEPT ![p] = Idle]
  /\ UNCHANGED <<sessions, prepared, shown, announced>>

Start(p, s) ==
  \/ Review(p, s) \/ Resume(p, s)
  \/ record_exposure(p, s) \/ Observe(p, s) \/ Complete(p, s)

Continue(p) ==
  \/ get_preparation(p) \/ save_preparation(p) \/ AppendInitial(p)
  \/ Display(p)
  \/ load_session_exposures(p) \/ AppendRevised(p)
  \/ record_post_assessment_observation(p) \/ CompleteObserved(p)
  \/ Close(p)

Next ==
  \/ \E s \in Sessions : create_review_session(s) \/ Show(s)
  \/ \E p \in Procs, s \in Sessions : Start(p, s)
  \/ \E p \in Procs : Continue(p) \/ Unwind(p)

\* A reviewer may leave any prompt unanswered: no fairness.
Spec == Init /\ [][Next]_vars
-----------------------------------------------------------------------------
(* Properties *)

TypeOK ==
  /\ sessions \in [Sessions -> SessionRows]
  /\ prepared \in BOOLEAN
  /\ proc \in [Procs -> Processes]
  /\ shown \subseteq Sessions \X Assessments
  /\ announced \subseteq Sessions

Judged(s) == sessions[s].revisions # <<>>

\* Every label is one the row itself supports: unexposed only without declared or
\* recorded exposure, the recorded exposures existed by then, and the one initial
\* revision is the first.
LabelsAreSupported ==
  \A s \in Sessions : \A i \in 1..Len(sessions[s].revisions) :
    LET v == sessions[s].revisions[i] IN
    /\ (i = 1) <=> (v.kind = "initial_blind")
    /\ v.seen \subseteq 1..v.before
    /\ v.blind = "confirmed_unexposed" =>
         sessions[s].declared = "none_declared" /\ v.seen = {}
    /\ v.blind = "known_exposed" => sessions[s].declared # "none_declared" \/ v.seen # {}
    /\ v.blind = "unknown" => sessions[s].declared = "unknown"

\* A session that `comparisons review' opened is never visible without its initial
\* judgment, and if that judgment is confirmed_unexposed, no exposure preceded it.
ReviewCommandIsBlind ==
  \A s \in Sessions :
    sessions[s].command =>
      /\ Judged(s)
      /\ sessions[s].revisions[1].seen = 1..sessions[s].revisions[1].before
      /\ sessions[s].revisions[1].blind = "confirmed_unexposed" =>
           sessions[s].revisions[1].before = 0

\* Every guided reveal comes after the durable initial judgment.
GuidedRevealFollowsJudgment ==
  \A s \in Sessions : \A e \in Ordinals(sessions[s].exposures) :
    sessions[s].exposures[e].kind = "guided_reveal" =>
      Judged(s) /\ sessions[s].revisions[1].before < e

\* A verdict is on a screen only if the session durably records the exposure,
\* whatever happens to the process that displays it.
ShownIsRecorded ==
  \A x \in shown :
    \E e \in Ordinals(sessions[x[1]].exposures) :
      sessions[x[1]].exposures[e].assessment = x[2]

\* A durable post-assessment revision results from exactly one durable observation
\* of an exposure it records as seen, and an exposure is observed at most once.
RevisionsComeFromObservations ==
  \A s \in Sessions :
    /\ \A i \in 2..Len(sessions[s].revisions) :
         Cardinality({o \in sessions[s].observed : o.revision = i}) = 1
    /\ \A o \in sessions[s].observed :
         /\ o.revision # 0 => o.exposure \in sessions[s].revisions[o.revision].seen
         /\ \A o2 \in sessions[s].observed : o2.exposure = o.exposure => o2 = o

\* Committed history is never rewritten: exposures and revisions are only
\* appended, observations added, a declaration kept, completion final.
HistoryOnlyGrows ==
  [][\A s \in Sessions :
       Exists(sessions[s]) =>
         /\ sessions'[s].declared = sessions[s].declared
         /\ IsPrefix(sessions[s].exposures, sessions'[s].exposures)
         /\ IsPrefix(sessions[s].revisions, sessions'[s].revisions)
         /\ sessions[s].observed \subseteq sessions'[s].observed
         /\ sessions[s].completed => sessions'[s].completed]_vars

\* docs/evaluation/m3-protocol-v1.md: the initial revision is confirmed_unexposed
\* only when no exposure event preceded it.
ConfirmedMeansUnexposed ==
  \A s \in Sessions :
    Judged(s) /\ sessions[s].revisions[1].blind = "confirmed_unexposed" =>
      sessions[s].revisions[1].before = 0

\* docs/M3-RECIPES.md: a session whose capture was interrupted can be resumed under
\* the identifier that was printed.
InterruptedReviewCanBeResumed ==
  \A s \in announced :
    Exists(sessions[s]) \/ \E p \in Procs : proc[p].session = s
=============================================================================
