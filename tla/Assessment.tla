------------------------------- MODULE Assessment -------------------------------
(***************************************************************************)
(* Structured requests and their one caller with a protocol of its own:    *)
(* run_assessment asks an independent model to judge one saved result.  It *)
(* decides whether the assessor may be asked at all, lets the request of   *)
(* StructuredExecution run, and hands what came of it to save_assessment,  *)
(* which checks everything again before it stores the row and its calls.   *)
(***************************************************************************)
EXTENDS StructuredExecution, SequencesExt

CONSTANTS
  Circumstances,    \* what run_assessment finds (records, see CircumstanceType)
  AssessorRequests, \* the requests of frozen assessor recipes
  Identities,       \* underlying model identities, as written in recipes
  Casefold,         \* their case-insensitive form
  NoIdentity

\* A recipe's configuration is validated before it is frozen.
ASSUME AssessmentAssumption ==
  /\ AssessorRequests \subseteq {q \in Requests : q.kind = "recipe" /\ Admissible(q)}
  /\ Casefold \in [Identities -> Identities] /\ NoIdentity \notin Identities

\* Model names a provider reports back: one that the frozen identity accepts, or not.
Names == {"expected", "other"}

\* What is stored of an answer: PostgreSQL refuses text and jsonb that hold a NUL
\* character, which every schema accepts.
Texts == {"storable", "refused"}

CircumstanceType ==
  [target : {"succeeded", "failed"},
   invocation : {"none", "holds", "other"}, \* requested for: does it hold the target?
   member : {"none", "holds", "other"},     \* with "holds", a member of that invocation
   stage : {"verify", "pr_summary"},        \* of the assessor recipe
   source : BOOLEAN,                        \* the frozen source can be loaded
   producer : Identities \cup {NoIdentity},
   assessor : Identities \cup {NoIdentity},
   produced : Names,                        \* reported by the calls of the target
   key : BOOLEAN, adapter : BOOLEAN]        \* a credential, an executable configuration

ASSUME CircumstancesAssumption == Circumstances \subseteq CircumstanceType

Generation == [target |-> "none"]

VARIABLES
  circumstance, \* of this assessment, or Generation: the request is no assessment
  phase,
  returned,     \* of each answer of the assessor: the model it names, and its text
  stored        \* the row of comparison_assessments with its calls

assessment == <<circumstance, phase, returned, stored>>
all == <<vars, assessment>>

NoAssessment == [status |-> "none"]

-----------------------------------------------------------------------------
(* Before the request *)

\* validate_assessment_request_context: an invocation or a member that is named
\* holds the exact target.
Attributed(c) ==
  /\ c.invocation \in {"none", "holds"}
  /\ c.member # "none" => c.member = "holds" /\ c.invocation = "holds"

\* (faulty variant) Identities are compared as they are written.
same_text(first, second) == first = second

same_underlying_model(first, second) == Casefold[first] = Casefold[second]

\* (faulty variant) Only the last answer is looked at.
last_contradicts(names) == names # <<>> /\ Last(names) = "other"

contradicting_returned_models(names) == "other" \in ToSet(names)

Contradicted == contradicting_returned_models([i \in DOMAIN returned |-> returned[i].model])

\* Why the assessor is not asked, in the order of the checks.
Reason(c) ==
  IF ~c.source THEN "source_unavailable"
  ELSE IF NoIdentity \in {c.producer, c.assessor} THEN "independence_unknown"
  ELSE IF same_underlying_model(c.producer, c.assessor) THEN "same_underlying_model"
  ELSE IF contradicting_returned_models(<<c.produced>>) THEN "identity_contradiction"
  ELSE IF ~c.key THEN "credentials"
  ELSE IF ~c.adapter THEN "compatibility"
  ELSE "allowed"

-----------------------------------------------------------------------------
(* What run_assessment hands over, and what save_assessment accepts *)

Terminal(status, code, verdict, zero) ==
  [status |-> status, code |-> code, verdict |-> verdict, zero |-> zero]

Failed(status, code) == Terminal(status, code, "none", FALSE)

\* (faulty variant) Both contradictions give the reason for having made no call.
ContradictionWithoutCalls(zero) == Terminal("inconclusive", "none", "inconclusive", TRUE)

\* The framework's own verdict; zero tells that no call was made on purpose.
IdentityContradiction(zero) == Terminal("inconclusive", "none", "inconclusive", zero)

Completed(verdict) ==
  Terminal(IF verdict = "inconclusive" THEN "inconclusive" ELSE "succeeded", "none", verdict,
           FALSE)

Verdicts == {"agree", "disagree", "inconclusive"}

ErrorCodes ==
  {"oversized_input", "budget_exceeded", "compatibility", "credentials", "truncation",
   "transport", "invalid_output", "refused", "independence_unknown", "same_underlying_model",
   "source_unavailable", "internal_error"}

\* The checks of save_assessment and the constraints of its table.
Savable(c, t, calls) ==
  /\ t.status \in {"succeeded", "inconclusive"} =>
       /\ t.verdict \in Verdicts /\ t.code = "none"
       /\ t.status = "inconclusive" <=> t.verdict = "inconclusive"
       /\ calls # <<>> \/ t.zero
  /\ t.status \notin {"succeeded", "inconclusive"} =>
       /\ t.status \in {"preflight_failed", "invalid_output", "refused", "failed"}
       /\ t.verdict = "none" /\ t.code # "none"
  /\ calls # <<>> => ~t.zero
  /\ c.target = "succeeded" /\ Attributed(c) /\ c.stage = "verify"

\* The row that is stored: an unknown error code becomes internal_error.
Row(t, calls) ==
  [status |-> t.status, verdict |-> t.verdict, calls |-> calls,
   code |-> IF t.code \in ErrorCodes \cup {"none"} THEN t.code ELSE "internal_error"]

IsStorable == \A i \in DOMAIN returned : returned[i].text = "storable"

\* A terminal or a text that is refused raises, and the transaction takes the calls
\* with it.
Persist(t, calls) ==
  IF Savable(circumstance, t, calls) /\ IsStorable
  THEN phase' = "stored" /\ stored' = Row(t, calls)
  ELSE phase' = "error" /\ UNCHANGED stored

-----------------------------------------------------------------------------
(* run_assessment *)

InitAssessment ==
  /\ Init
  /\ \/ phase = "generation" /\ circumstance = Generation
     \/ phase = "preflight" /\ circumstance \in Circumstances /\ request \in AssessorRequests
  /\ returned = <<>> /\ stored = NoAssessment

\* A target that did not succeed, a wrong attribution or stage: an error, no row.
Refuse ==
  /\ phase = "preflight"
  /\ circumstance.target = "failed" \/ ~Attributed(circumstance) \/ circumstance.stage # "verify"
  /\ phase' = "error"
  /\ UNCHANGED <<vars, circumstance, returned, stored>>

Preflight ==
  LET reason == Reason(circumstance) IN
  /\ phase = "preflight"
  /\ circumstance.target = "succeeded" /\ Attributed(circumstance)
  /\ circumstance.stage = "verify"
  /\ \/ reason = "allowed" /\ phase' = "asking" /\ UNCHANGED stored
     \/ reason = "identity_contradiction" /\ Persist(IdentityContradiction(TRUE), <<>>)
     \/ /\ reason \notin {"allowed", "identity_contradiction"}
        /\ Persist(Failed("preflight_failed", reason), <<>>)
  /\ UNCHANGED <<vars, circumstance, returned>>

\* execute_structured_request.  An adapter that got no answer reports the name it
\* was asked to use, and has no text to store.
Request ==
  /\ phase \in {"generation", "asking"}
  /\ \/ RejectArguments \/ Oversized \/ GiveUp
     \/ Ask \/ Raise
  /\ IF attempts' = attempts \/ phase = "generation" THEN UNCHANGED returned
     ELSE \E name \in Names, text \in Texts :
            /\ Last(attempts').stop = "transport_error" => name = "expected" /\ text = "storable"
            /\ returned' = Append(returned, [model |-> name, text |-> text])
  /\ UNCHANGED <<circumstance, phase, stored>>

\* Nobody on the way catches what the adapter raised.
Escape ==
  /\ phase = "asking" /\ result = Raised
  /\ phase' = "error"
  /\ UNCHANGED <<vars, circumstance, returned, stored>>

\* A contradiction outweighs the answer, usable or not.
Conclude ==
  /\ phase = "asking" /\ result \in Outcomes
  /\ \/ /\ Contradicted
        /\ Persist(IdentityContradiction(FALSE), attempts)
     \/ /\ ~Contradicted /\ result.status = "succeeded"
        /\ \E verdict \in Verdicts : Persist(Completed(verdict), attempts)
     \/ /\ ~Contradicted /\ result.status # "succeeded"
        /\ Persist(Failed(result.status, result.code), attempts)
  /\ UNCHANGED <<vars, circumstance, returned>>

NextAssessment == Refuse \/ Preflight \/ Request \/ Escape \/ Conclude

\* Straight-line code around SDK clients that have timeouts.
AssessmentSpec ==
  InitAssessment /\ [][NextAssessment]_all /\ WF_all(NextAssessment)
-----------------------------------------------------------------------------
(* Properties *)

\* A stored row owns every call that was made.  Calls are lost with their assessment
\* only when the adapter or the database raises: an exception that no adapter
\* translates, or an answer with text that cannot be stored.  The framework's own
\* checks never lose any: whatever the assessor answered, run_assessment builds a
\* terminal that save_assessment and the table accept.
AssessmentCallsAreKept ==
  /\ phase = "stored" => stored.calls = attempts /\ Len(stored.calls) = Len(sent)
  /\ phase = "error" => attempts = <<>> \/ result = Raised \/ ~IsStorable

\* A stored agreement or disagreement is the last answer of a model that is known to
\* be another one than the producer's: neither model ever reported another name,
\* and what was asked is a successful result's exact source, for its holder.
VerdictsAreIndependent ==
  stored.status = "succeeded" =>
    /\ NoIdentity \notin {circumstance.producer, circumstance.assessor}
    /\ Casefold[circumstance.producer] # Casefold[circumstance.assessor]
    /\ circumstance.produced = "expected"
    /\ \A i \in DOMAIN returned : returned[i].model = "expected"
    /\ attempts # <<>> /\ OK(Last(attempts))
    /\ circumstance.source /\ circumstance.target = "succeeded"
    /\ circumstance.member = "holds" => circumstance.invocation = "holds"
    /\ "other" \notin {circumstance.member, circumstance.invocation}

\* Every request reaches an outcome, and every assessment a row or an error.
EventuallyDecided ==
  <>(phase \in {"stored", "error"} \/ (phase = "generation" /\ result # Open))
=============================================================================
