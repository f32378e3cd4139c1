-------------------------------- MODULE ReviewInv -------------------------------
(***************************************************************************)
(* The inductive invariant behind the safety properties of Review.  A      *)
(* durable session is well-formed (RowOK), what a command has read or      *)
(* written fits the session as it is now (Fits), and the row locks keep    *)
(* two commands on one session apart (Apart).                              *)
(***************************************************************************)
EXTENDS Review

-----------------------------------------------------------------------------
(* A session, durable or as its writer sees it *)

LabelFits(declared, v) ==
  /\ v.seen \subseteq 1..v.before
  /\ v.blind = "confirmed_unexposed" => declared = "none_declared" /\ v.seen = {}
  /\ v.blind = "known_exposed" => declared # "none_declared" \/ v.seen # {}
  /\ v.blind = "unknown" => declared = "unknown"

LabelsFit(row) ==
  \A i \in 1..Len(row.revisions) :
    /\ (i = 1) <=> (row.revisions[i].kind = "initial_blind")
    /\ LabelFits(row.declared, row.revisions[i])
    /\ row.revisions[i].before <= Len(row.exposures)

BlindIfByCommand(row) ==
  row.command =>
    /\ row.revisions # <<>>
    /\ row.revisions[1].seen = 1..row.revisions[1].before
    /\ row.revisions[1].blind = "confirmed_unexposed" => row.revisions[1].before = 0

RevealsFollow(row) ==
  \A e \in Ordinals(row.exposures) :
    row.exposures[e].kind = "guided_reveal" =>
      row.revisions # <<>> /\ row.revisions[1].before < e

\* Each later revision has one observation, and an exposure has one at most.
ResultsMatch(row) ==
  /\ \A i \in 2..Len(row.revisions) : \E o \in row.observed : o.revision = i
  /\ \A o, x \in row.observed :
       o.exposure = x.exposure \/ (o.revision = x.revision /\ o.revision # 0) => o = x
  /\ \A o \in row.observed :
       o.revision # 0 =>
         /\ o.revision \in 2..Len(row.revisions)
         /\ o.exposure \in row.revisions[o.revision].seen

RowOK(row) ==
  /\ Exists(row) \/ row = Absent
  /\ Len(row.exposures) <= MaxExposures /\ Len(row.revisions) <= MaxRevisions
  /\ LabelsFit(row) /\ BlindIfByCommand(row) /\ RevealsFollow(row) /\ ResultsMatch(row)

-----------------------------------------------------------------------------
(* A command r on a session whose durable row is `row' *)

Opens(r) == Exists(r.wrote)
Revises(r) == r.wrote.revisions # <<>>
Observes(r) == r.wrote.observed # {}

\* Only `comparisons review' has a session that nobody else can see.
SessionFits(row, r) ==
  IF Opens(r)
  THEN /\ row = Absent /\ r.wrote.command /\ ~Observes(r)
       /\ r.pc \in {"capture", "prepare", "judge", "close"}
       /\ r.seen = Ordinals(r.wrote.exposures) /\ Len(r.wrote.exposures) <= MaxExposures
       /\ \A e \in Ordinals(r.wrote.exposures) :
            r.wrote.exposures[e].kind = "declared_prior_external"
  ELSE /\ Exists(row) /\ r.wrote.declared = "nothing" /\ ~r.wrote.command
       /\ r.wrote.exposures = <<>>
       /\ r.seen \subseteq Ordinals(row.exposures)

\* An uncommitted revision is one, is the session's first if it is an initial one,
\* and its label is right for the session with it.
RevisionFits(row, r) ==
  Revises(r) =>
    \E v \in Revisions :
      /\ r.wrote.revisions = <<v>> /\ Len(row.revisions) < MaxRevisions
      /\ v.seen = r.seen /\ v.before = Len(row.exposures \o r.wrote.exposures)
      /\ LabelFits(IF Opens(r) THEN r.wrote.declared ELSE row.declared, v)
      /\ v.kind = "initial_blind" <=> row.revisions = <<>>
      /\ row.revisions = <<>> => r.pc = "close" /\ ~Observes(r)
      /\ row.revisions # <<>> => r.exposure \in r.seen /\ (r.pc = "close" => Observes(r))

\* An uncommitted observation is one, of an exposure nobody has observed.
ObservationFits(row, r) ==
  Observes(r) =>
    \E o \in Observations :
      /\ r.wrote.observed = {o} /\ o.exposure = r.exposure
      /\ \A x \in row.observed : x.exposure # o.exposure
      /\ o.revision = IF Revises(r) THEN Len(row.revisions) + 1 ELSE 0

StepFits(row, r) ==
  /\ Revises(r) => r.pc \in {"observe", "complete", "close"}
  /\ Observes(r) <=> (r.pc = "complete" \/ (r.pc = "close" /\ (Revises(r) => row.revisions # <<>>)))
  /\ r.pc = "display" =>
       \E e \in Ordinals(row.exposures) : row.exposures[e].assessment = r.assessment
  /\ r.pc \in {"exposures", "append", "observe"} => r.exposure \in Ordinals(row.exposures)
  /\ r.pc = "append" => r.revise /\ r.exposure \in r.seen
  /\ r.pc = "exposures" => r.revise
  /\ r.pc = "observe" => (r.revise <=> Revises(r))

Fits(row, r) ==
  SessionFits(row, r) /\ RevisionFits(row, r) /\ ObservationFits(row, r) /\ StepFits(row, r)

\* Two commands on one session.
Apart(r, q) ==
  /\ ~Opens(r) /\ ~Opens(q)
  /\ Revises(r) => ~Revises(q) /\ ~Observes(q)
  /\ Revises(q) => ~Observes(r)
  /\ Observes(r) /\ Observes(q) => r.exposure # q.exposure

-----------------------------------------------------------------------------

Running(p) == proc[p].pc # "idle"

IInv ==
  /\ TypeOK
  /\ \A s \in Sessions : RowOK(sessions[s])
  /\ \A p \in Procs : ~Running(p) => proc[p] = Idle
  /\ \A p \in Procs : Running(p) =>
       proc[p].session \in Sessions /\ Fits(sessions[proc[p].session], proc[p])
  /\ \A p, q \in Procs :
       p # q /\ Running(p) /\ Running(q) /\ proc[p].session = proc[q].session =>
         Apart(proc[p], proc[q])
  /\ ShownIsRecorded
=============================================================================
