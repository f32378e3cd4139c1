---------------------------- MODULE AssessmentProofs ----------------------------
(***************************************************************************)
(* Proofs about StructuredExecution and Assessment, for every set of       *)
(* requests, every size of the repair instructions and all circumstances   *)
(* and identities.                                                         *)
(*                                                                         *)
(* First the loop by itself (Spec).  Its inductive invariant is TypeOK     *)
(* together with the control facts of the loop: a second call follows only *)
(* a repairable answer, and a success ends the loop.                       *)
(*                                                                         *)
(* Then the assessment (AssessmentSpec).  It does nothing to its request   *)
(* that the request would not do by itself, so that what was shown of the  *)
(* loop holds here too; the rest follows from what each phase knows.       *)
(***************************************************************************)
EXTENDS Assessment, StructuredCallsProofs, TLAPS

-----------------------------------------------------------------------------
(* The loop of one request *)

\* While the loop is undecided every answer so far was unusable, and the first of
\* two was malformed and replaced within the repair limit.
LoopOK ==
  /\ result = Open => \A i \in 1..Len(attempts) : ~Usable(request.kind, attempts[i])
  /\ Len(attempts) <= 2
  /\ Len(attempts) = 2 =>
       /\ Repairable(attempts[1]) /\ ~Usable(request.kind, attempts[1])
       /\ request.repair_limit = 1
  /\ attempts # <<>> => Admissible(request)

\* A decided request is not open, and no exception is an outcome.
LEMMA OutcomeIsNotOpen == ASSUME NEW o \in Outcomes PROVE o # Open /\ o # Raised
<1>1. o.status \in Statuses
  BY DEF Outcomes
<1>2. o.status # "open" /\ o.status # "raised"
  BY <1>1 DEF Statuses
<1> QED BY <1>2 DEF Open, Raised

LEMMA OpenIsNoException == Open # Raised /\ Rejected # Raised
  BY DEF Open, Rejected, Raised

-----------------------------------------------------------------------------
(* Type correctness *)

\* Requests, prompt sizes, the two histories and the outcome keep their types: in
\* particular one size is recorded for each answer, and one for a call that raised.
THEOREM TypeCorrect == Spec => []TypeOK
<1>1. Init => TypeOK
  BY RequestsAssumption, OpenIsNoException DEF Init, TypeOK, RequestType
<1>2. TypeOK /\ [Next]_vars => TypeOK'
  <2> SUFFICES ASSUME TypeOK, [Next]_vars PROVE TypeOK'
    OBVIOUS
  <2> USE DEF TypeOK
  <2>0. result = Open => Len(sent) = Len(attempts)
    BY OpenIsNoException
  <2>1. CASE RejectArguments
    BY <2>0, <2>1, OpenIsNoException DEF RejectArguments
  <2>2. CASE Oversized
    <3>1. Failure(request.kind, attempts, TRUE) \in Outcomes
      BY FailureIsOutcome
    <3>2. result' \in Outcomes /\ result' # Raised
      BY <2>2, <3>1, OutcomeIsNotOpen DEF Oversized
    <3>3. UNCHANGED <<request, user_size, attempts, sent>> /\ Len(sent) = Len(attempts)
      BY <2>0, <2>2 DEF Oversized, Asking
    <3> QED BY <3>2, <3>3
  <2>3. CASE Ask
    <3>1. PICK a \in Answers, extra \in 1..MaxRepairTokens :
            /\ attempts' = Append(attempts, a)
            /\ user_size' = IF Usable(request.kind, a) THEN user_size ELSE request.size + extra
            /\ result' = IF Usable(request.kind, a) THEN Outcome("succeeded", "none") ELSE Open
      BY <2>3 DEF Ask
    <3>2. a \in Attempts
      BY AnswersAreAttempts
    <3>3. user_size' \in Nat
      BY <3>1, RequestsAssumption DEF RequestType
    <3>4. Outcome("succeeded", "none") \in Outcomes
      BY DEF Outcome, Outcomes, Statuses, Codes
    <3>5. result' \in Outcomes \cup {Open} /\ result' # Raised
      BY <3>1, <3>4, OutcomeIsNotOpen, OpenIsNoException
    <3>6. sent' \in Seq(Nat) /\ attempts' \in Seq(Attempts) /\ Len(sent') = Len(attempts')
      BY <2>0, <2>3, <3>1, <3>2 DEF Ask, Asking
    <3> QED BY <2>3, <3>3, <3>5, <3>6 DEF Ask
  <2>4. CASE Raise
    BY <2>0, <2>4 DEF Raise, Asking
  <2>5. CASE GiveUp
    <3>1. attempts # <<>>
      BY <2>5 DEF GiveUp, MayAsk
    <3>2. Failure(request.kind, attempts, FALSE) \in Outcomes
      BY <3>1, FailureIsOutcome
    <3>3. result' \in Outcomes /\ result' # Raised
      BY <2>5, <3>2, OutcomeIsNotOpen DEF GiveUp
    <3>4. UNCHANGED <<request, user_size, attempts, sent>> /\ Len(sent) = Len(attempts)
      BY <2>0, <2>5 DEF GiveUp
    <3> QED BY <3>3, <3>4
  <2>6. CASE UNCHANGED vars
    BY <2>6 DEF vars
  <2> QED BY <2>1, <2>2, <2>3, <2>4, <2>5, <2>6 DEF Next
<1> QED BY <1>1, <1>2, PTL DEF Spec

-----------------------------------------------------------------------------
(* Every request that is sent fits *)

\* No request that left the process, the repair included, exceeds the input budget
\* or eats into the reserved output room, whatever the budgets are.
THEOREM CallsFit == Spec => []EveryCallFits
<1>1. Init => EveryCallFits
  BY DEF Init, EveryCallFits
<1>2. TypeOK /\ EveryCallFits /\ [Next]_vars => EveryCallFits'
  <2> SUFFICES ASSUME TypeOK, EveryCallFits, [Next]_vars PROVE EveryCallFits'
    OBVIOUS
  <2>1. CASE Ask \/ Raise
    <3>1. /\ request' = request /\ user_size <= effective_budget
          /\ sent' = Append(sent, user_size)
      BY <2>1 DEF Ask, Raise
    <3>2. request \in RequestType /\ user_size \in Nat /\ sent \in Seq(Nat)
      BY RequestsAssumption DEF TypeOK
    <3>3. /\ user_size <= request.input_budget
          /\ request.kind # "account" => user_size + request.max_tokens <= request.context_window
      BY <3>1, <3>2 DEF effective_budget, RequestType
    <3>4. ASSUME NEW i \in 1..Len(sent')
          PROVE  \/ i \in 1..Len(sent) /\ sent'[i] = sent[i]
                 \/ sent'[i] = user_size
      BY <3>1, <3>2
    <3> QED BY <3>1, <3>3, <3>4 DEF EveryCallFits
  <2>2. CASE sent' = sent /\ request' = request
    BY <2>2 DEF EveryCallFits
  <2> QED BY <2>1, <2>2 DEF Next, RejectArguments, Oversized, GiveUp, vars
<1> QED BY <1>1, <1>2, TypeCorrect, PTL DEF Spec

-----------------------------------------------------------------------------
(* Repairs and outcomes *)

\* The control facts of the loop.
THEOREM LoopFacts == Spec => []LoopOK
<1>1. Init => LoopOK
  BY DEF Init, LoopOK
<1>2. TypeOK /\ LoopOK /\ [Next]_vars => LoopOK'
  <2> SUFFICES ASSUME TypeOK, LoopOK, [Next]_vars PROVE LoopOK'
    OBVIOUS
  <2>1. CASE Ask
    <3>1. PICK a \in Answers :
            /\ attempts' = Append(attempts, a)
            /\ result' = IF Usable(request.kind, a) THEN Outcome("succeeded", "none") ELSE Open
      BY <2>1 DEF Ask
    <3>2. /\ result = Open /\ request' = request /\ Admissible(request)
          /\ MayAsk(request.kind, attempts, request.repair_limit)
      BY <2>1 DEF Ask, Asking
    <3>3. request \in Requests /\ attempts \in Seq(Attempts) /\ a \in Attempts
      BY AnswersAreAttempts DEF TypeOK
    <3>4. attempts = <<>> \/ (Len(attempts) = 1 /\ request.repair_limit = 1)
      <4>1. CASE request.kind = "account"
        <5>1. request.repair_limit = 1
          BY <3>3, <4>1, RequestsAssumption
        <5> QED BY <3>2, <3>3, <5>1 DEF MayAsk
      <4>2. CASE request.kind # "account"
        <5>1. request.repair_limit \in {0, 1}
          BY <3>2, <4>2 DEF Admissible
        <5>2. CASE request.repair_limit = 0
          BY <3>2, <3>3, <5>2 DEF MayAsk
        <5>3. CASE request.repair_limit = 1
          BY <3>2, <3>3, <5>3 DEF MayAsk
        <5> QED BY <5>1, <5>2, <5>3
      <4> QED BY <4>1, <4>2
    <3>5. result' = Open =>
            \A i \in 1..Len(attempts') : ~Usable(request.kind, attempts'[i])
      <4> SUFFICES ASSUME result' = Open, NEW i \in 1..Len(attempts')
                   PROVE  ~Usable(request.kind, attempts'[i])
        OBVIOUS
      <4>1. ~Usable(request.kind, a)
        BY <3>1 DEF Outcome, Open
      <4>2. (i \in 1..Len(attempts) /\ attempts'[i] = attempts[i]) \/ attempts'[i] = a
        BY <3>1, <3>3
      <4> QED BY <3>2, <4>1, <4>2 DEF LoopOK
    <3>6. Len(attempts') <= 2
      BY <3>1, <3>3, <3>4
    <3>7. Len(attempts') = 2 =>
            /\ Repairable(attempts'[1]) /\ ~Usable(request.kind, attempts'[1])
            /\ request.repair_limit = 1
      <4> SUFFICES ASSUME Len(attempts') = 2
                   PROVE  /\ Repairable(attempts'[1]) /\ ~Usable(request.kind, attempts'[1])
                          /\ request.repair_limit = 1
        OBVIOUS
      <4>1. Len(attempts) = 1 /\ attempts'[1] = attempts[1]
        BY <3>1, <3>3, <3>4
      <4>2. LastOf(attempts) = attempts[1] /\ attempts # <<>>
        BY <4>1 DEF LastOf
      <4> QED BY <3>2, <3>4, <4>1, <4>2 DEF MayAsk
    <3> QED BY <3>2, <3>5, <3>6, <3>7 DEF LoopOK
  <2>2. CASE UNCHANGED vars
    BY <2>2 DEF vars, LoopOK
  <2>3. CASE RejectArguments \/ Oversized \/ Raise \/ GiveUp
    <3>1. attempts' = attempts /\ request' = request /\ result' # Open
      <4>1. CASE RejectArguments
        BY <4>1 DEF RejectArguments, Rejected, Open
      <4>2. CASE Oversized
        <5>1. Failure(request.kind, attempts, TRUE) \in Outcomes
          BY FailureIsOutcome DEF TypeOK
        <5> QED BY <4>2, <5>1, OutcomeIsNotOpen DEF Oversized
      <4>3. CASE GiveUp
        <5>1. attempts # <<>>
          BY <4>3 DEF GiveUp, MayAsk
        <5>2. Failure(request.kind, attempts, FALSE) \in Outcomes
          BY <5>1, FailureIsOutcome DEF TypeOK
        <5> QED BY <4>3, <5>2, OutcomeIsNotOpen DEF GiveUp
      <4>4. CASE Raise
        BY <4>4, OpenIsNoException DEF Raise
      <4> QED BY <2>3, <4>1, <4>2, <4>3, <4>4
    <3> QED BY <3>1 DEF LoopOK
  <2> QED BY <2>1, <2>2, <2>3 DEF Next
<1> QED BY <1>1, <1>2, TypeCorrect, PTL DEF Spec

\* A second call is made at most once, and only to replace a malformed answer.
THEOREM RepairsAreBounded == Spec => []OnlyMalformedOutputIsRepaired
<1>1. TypeOK /\ LoopOK => OnlyMalformedOutputIsRepaired
  BY DEF LoopOK, OnlyMalformedOutputIsRepaired, Repairable, Usable
<1> QED BY <1>1, TypeCorrect, LoopFacts, PTL

\* What is known of a decided request: it succeeded with its last answer, or it
\* failed when its last answer was unusable, for lack of room or of allowance.
Decided ==
  result \in Outcomes =>
    IF result.status = "succeeded"
    THEN /\ attempts # <<>> /\ Usable(request.kind, LastOf(attempts))
         /\ result = Outcome("succeeded", "none")
    ELSE /\ attempts # <<>> => ~Usable(request.kind, LastOf(attempts))
         /\ \E oversized \in BOOLEAN :
              /\ result = Failure(request.kind, attempts, oversized)
              /\ oversized <=> MayAsk(request.kind, attempts, request.repair_limit)

\* The outcome is decided by the last answer and by the room that was left.
THEOREM DecidedByTheCalls == Spec => []Decided
<1>1. Init => Decided
  BY OutcomeIsNotOpen DEF Init, Decided
<1>2. TypeOK /\ LoopOK /\ Decided /\ [Next]_vars => Decided'
  <2> SUFFICES ASSUME TypeOK, LoopOK, Decided, [Next]_vars PROVE Decided'
    OBVIOUS
  <2>1. CASE RejectArguments
    <3>1. Rejected \notin Outcomes
      BY DEF Rejected, Outcomes, Statuses
    <3> QED BY <2>1, <3>1 DEF RejectArguments, Decided
  <2>2. CASE Ask
    <3>1. PICK a \in Answers :
            /\ attempts' = Append(attempts, a)
            /\ result' = IF Usable(request.kind, a) THEN Outcome("succeeded", "none") ELSE Open
      BY <2>2 DEF Ask
    <3>2. attempts \in Seq(Attempts) /\ a \in Attempts /\ request' = request
      BY <2>2, AnswersAreAttempts DEF TypeOK, Ask
    <3>3. attempts' # <<>> /\ LastOf(attempts') = a
      BY <3>1, <3>2 DEF LastOf
    <3>4. CASE Usable(request.kind, a)
      BY <3>1, <3>2, <3>3, <3>4 DEF Decided, Outcome
    <3>5. CASE ~Usable(request.kind, a)
      BY <3>1, <3>5, OutcomeIsNotOpen DEF Decided
    <3> QED BY <3>4, <3>5
  <2>3. CASE Oversized
    <3>1. /\ result' = Failure(request.kind, attempts, TRUE)
          /\ attempts' = attempts /\ request' = request
          /\ MayAsk(request.kind, attempts, request.repair_limit)
      BY <2>3 DEF Oversized, Asking
    <3>2. result'.status # "succeeded"
      BY <3>1, FailureIsNoSuccess DEF TypeOK
    <3>3. attempts # <<>> => ~Usable(request.kind, LastOf(attempts))
      BY <3>1 DEF MayAsk
    <3> QED BY <3>1, <3>2, <3>3 DEF Decided
  <2>4. CASE GiveUp
    <3>1. /\ result' = Failure(request.kind, attempts, FALSE)
          /\ attempts' = attempts /\ request' = request /\ result = Open
          /\ ~MayAsk(request.kind, attempts, request.repair_limit)
      BY <2>4 DEF GiveUp
    <3>2. attempts # <<>>
      BY <3>1 DEF MayAsk
    <3>3. result'.status # "succeeded"
      BY <3>1, <3>2, FailureIsNoSuccess DEF TypeOK
    <3>4. ~Usable(request.kind, LastOf(attempts))
      BY <3>1, <3>2 DEF LoopOK, LastOf, TypeOK
    <3> QED BY <3>1, <3>3, <3>4 DEF Decided
  <2>5. CASE Raise
    <3>1. Raised \notin Outcomes
      BY OutcomeIsNotOpen
    <3> QED BY <2>5, <3>1 DEF Raise, Decided
  <2>6. CASE UNCHANGED vars
    BY <2>6 DEF vars, Decided
  <2> QED BY <2>1, <2>2, <2>3, <2>4, <2>5, <2>6 DEF Next
<1> QED BY <1>1, <1>2, TypeCorrect, LoopFacts, PTL DEF Spec

\* The persisted outcome tells what happened, for every request and every history.
THEOREM OutcomeIsTruthful == Spec => []OutcomeTellsTheStory
<1>1. TypeOK /\ LoopOK /\ Decided => OutcomeTellsTheStory
  <2> SUFFICES ASSUME TypeOK, LoopOK, Decided, result \in Outcomes
               PROVE  OutcomeTellsTheStory
    BY DEF OutcomeTellsTheStory
  <2>1. attempts \in Seq(Attempts)
    BY DEF TypeOK
  <2>2. result.status = "succeeded" <=> attempts # <<>> /\ Usable(request.kind, LastOf(attempts))
    BY DEF Decided
  <2> DEFINE last == LastOf(attempts).stop
             Told == /\ result.status = "preflight_failed" <=> attempts = <<>>
                     /\ attempts # <<>> =>
                          /\ result.status = "refused" <=> last = "refusal"
                          /\ result.code = "transport" <=> last = "transport_error"
                          /\ result.code = "budget_exceeded" <=>
                               /\ result.status # "succeeded"
                               /\ Len(attempts) <= request.repair_limit
                               /\ last \in {"end_turn", "invalid_output"}
  <2>3. ASSUME request.kind = "recipe" PROVE Told
    <3>1. CASE result.status = "succeeded"
      <4>1. attempts # <<>> /\ last = "end_turn" /\ result = Outcome("succeeded", "none")
        BY <3>1 DEF Decided, Usable, OK
      <4> QED BY <3>1, <4>1 DEF Outcome
    <3>2. CASE result.status # "succeeded"
      <4>1. PICK oversized \in BOOLEAN :
              /\ result = classify_structured_failure(attempts, oversized)
              /\ oversized <=> MayAsk("recipe", attempts, request.repair_limit)
        BY <2>3, <3>2 DEF Decided, Failure
      <4>2. CASE attempts = <<>>
        BY <4>1, <4>2 DEF MayAsk, classify_structured_failure, Outcome
      <4>3. CASE attempts # <<>> /\ oversized
        <5>1. /\ result = Outcome("invalid_output", "budget_exceeded")
              /\ Len(attempts) \in 1..request.repair_limit
              /\ last \in {"end_turn", "invalid_output"}
          BY <4>1, <4>3 DEF classify_structured_failure, MayAsk, Repairable
        <5>2. Len(attempts) <= request.repair_limit
          BY <2>1, <5>1, RequestsAssumption DEF TypeOK, RequestType
        <5> QED BY <3>2, <4>3, <5>1, <5>2 DEF Outcome
      <4>4. CASE attempts # <<>> /\ ~oversized
        <5>1. last \in StopReasons /\ result = FailureOf[last]
          BY <2>1, <4>1, <4>4, LastIsAttempt DEF classify_structured_failure
        <5>2. ~(Len(attempts) <= request.repair_limit /\ last \in {"end_turn", "invalid_output"})
          <6>1. ~Usable("recipe", LastOf(attempts))
            BY <2>2, <2>3, <3>2, <4>4
          <6>2. Len(attempts) >= 1 /\ Len(attempts) \in Nat /\ request.repair_limit \in Int
            BY <2>1, <4>4, RequestsAssumption DEF TypeOK, RequestType
          <6> QED BY <4>1, <4>4, <6>1, <6>2 DEF MayAsk, Repairable
        <5>3. /\ result.status # "preflight_failed" /\ result.code # "budget_exceeded"
              /\ result.status = "refused" <=> last = "refusal"
              /\ result.code = "transport" <=> last = "transport_error"
          BY <5>1 DEF StopReasons, FailureOf, Outcome
        <5> QED BY <4>4, <5>2, <5>3
      <4> QED BY <4>2, <4>3, <4>4
    <3> QED BY <3>1, <3>2
  <2> QED BY <2>2, <2>3 DEF OutcomeTellsTheStory
<1> QED BY <1>1, TypeCorrect, LoopFacts, DecidedByTheCalls, PTL

-----------------------------------------------------------------------------
(* Assessments *)

\* The request inside an assessment is a request like any other.
THEOREM RequestsAreUndisturbed == AssessmentSpec => Spec
<1>1. InitAssessment => Init
  BY DEF InitAssessment
<1>2. [NextAssessment]_all => [Next]_vars
  BY DEF NextAssessment, Refuse, Preflight, Request, Escape, Conclude, Next, all
<1> QED BY <1>1, <1>2, PTL DEF AssessmentSpec, Spec

\* Requests of assessments keep their types, as all requests do.
THEOREM AssessmentTypeCorrect == AssessmentSpec => []TypeOK
  BY RequestsAreUndisturbed, TypeCorrect, PTL

\* Every request to an assessor fits its budget, the repair included.
THEOREM AssessmentCallsFit == AssessmentSpec => []EveryCallFits
  BY RequestsAreUndisturbed, CallsFit, PTL

\* The outcome that an assessment is concluded from tells what happened.
THEOREM AssessmentOutcomes == AssessmentSpec => []OutcomeTellsTheStory
  BY RequestsAreUndisturbed, OutcomeIsTruthful, PTL

-----------------------------------------------------------------------------
(* What each phase knows *)

\* The assessor may be asked.
Permitted(c) ==
  /\ c.target = "succeeded" /\ Attributed(c) /\ c.stage = "verify"
  /\ Reason(c) = "allowed"

Acceptable ==
  OK(Last(attempts)) /\ \A i \in DOMAIN returned : returned[i].model = "expected"

PhaseOK ==
  /\ phase \in {"generation", "preflight", "asking", "stored", "error"}
  /\ phase # "generation" => circumstance \in Circumstances /\ request \in AssessorRequests
  /\ phase = "preflight" => attempts = <<>> /\ result = Open
  /\ phase # "generation" => returned \in Seq([model : Names, text : Texts])
  /\ attempts = <<>> => returned = <<>>
  /\ phase = "asking" => Permitted(circumstance)
  /\ phase # "stored" => stored = NoAssessment
  /\ phase = "stored" => stored.calls = attempts /\ result # Raised
  /\ phase = "error" => attempts = <<>> \/ result = Raised \/ ~IsStorable
  /\ stored.status = "succeeded" =>
       Permitted(circumstance) /\ attempts # <<>> /\ Acceptable

\* A failed recipe request has a status and a code that an assessment may have.
LEMMA FailuresAreStorable ==
  ASSUME TypeOK, Decided, result \in Outcomes, result.status # "succeeded",
         request.kind = "recipe"
  PROVE  /\ result.status \in {"preflight_failed", "invalid_output", "refused", "failed"}
         /\ result.code # "none"
<1>1. PICK oversized \in BOOLEAN :
        /\ result = classify_structured_failure(attempts, oversized)
        /\ oversized <=> MayAsk("recipe", attempts, request.repair_limit)
  BY DEF Decided, Failure
<1>2. CASE oversized
  BY <1>1, <1>2 DEF classify_structured_failure, Outcome
<1>3. CASE ~oversized
  <2>1. attempts # <<>> /\ attempts \in Seq(Attempts)
    BY <1>1, <1>3 DEF MayAsk, TypeOK
  <2>2. LastOf(attempts).stop \in StopReasons /\ result = FailureOf[LastOf(attempts).stop]
    BY <1>1, <1>3, <2>1, LastIsAttempt DEF classify_structured_failure
  <2> QED BY <2>2 DEF StopReasons, FailureOf, Outcome
<1> QED BY <1>2, <1>3

\* Concluding never fails: what run_assessment builds from what came back is accepted.
LEMMA TerminalsAreSavable ==
  ASSUME TypeOK, Decided, PhaseOK, phase = "asking", result \in Outcomes
  PROVE  /\ Contradicted =>
              Savable(circumstance, IdentityContradiction(FALSE), attempts)
         /\ result.status = "succeeded" =>
              \A verdict \in Verdicts : Savable(circumstance, Completed(verdict), attempts)
         /\ result.status # "succeeded" =>
              Savable(circumstance, Failed(result.status, result.code), attempts)
<1>1. /\ circumstance.target = "succeeded" /\ Attributed(circumstance)
      /\ circumstance.stage = "verify"
  BY DEF PhaseOK, Permitted
<1>2. request.kind = "recipe"
  BY AssessmentAssumption DEF PhaseOK
<1>3. ASSUME Contradicted
      PROVE  Savable(circumstance, IdentityContradiction(FALSE), attempts)
  <2>1. returned # <<>>
    BY <1>3 DEF Contradicted, contradicting_returned_models, ToSet
  <2>2. attempts # <<>>
    BY <2>1 DEF PhaseOK
  <2> QED BY <1>1, <2>2 DEF Savable, IdentityContradiction, Terminal, Verdicts
<1>4. ASSUME result.status = "succeeded", NEW verdict \in Verdicts
      PROVE  Savable(circumstance, Completed(verdict), attempts)
  <2>1. attempts # <<>>
    BY <1>4 DEF Decided
  <2> QED BY <1>1, <1>4, <2>1 DEF Savable, Completed, Terminal, Verdicts
<1>5. ASSUME result.status # "succeeded"
      PROVE  Savable(circumstance, Failed(result.status, result.code), attempts)
  <2>1. /\ result.status \in {"preflight_failed", "invalid_output", "refused", "failed"}
        /\ result.code # "none"
    BY <1>2, <1>5, FailuresAreStorable
  <2> QED BY <1>1, <2>1 DEF Savable, Failed, Terminal
<1> QED BY <1>3, <1>4, <1>5

-----------------------------------------------------------------------------
(* The steps *)

LEMMA RefuseStep == ASSUME PhaseOK, Refuse PROVE PhaseOK'
<1>1. /\ UNCHANGED <<request, attempts, result, circumstance, returned, stored>>
      /\ phase = "preflight" /\ phase' = "error"
  BY DEF Refuse, vars
<1>2. attempts' = <<>> /\ stored'.status # "succeeded"
  BY <1>1 DEF PhaseOK, NoAssessment
<1> QED BY <1>1, <1>2 DEF PhaseOK

LEMMA PreflightStep == ASSUME PhaseOK, Preflight PROVE PhaseOK'
<1>1. /\ UNCHANGED <<request, attempts, result, circumstance, returned>>
      /\ phase = "preflight" /\ attempts = <<>> /\ stored = NoAssessment
      /\ result # Raised
  BY OpenIsNoException DEF Preflight, PhaseOK, vars
<1>2. \/ /\ phase' = "asking" /\ stored' = stored /\ Permitted(circumstance)
      \/ /\ phase' = "stored" /\ stored'.calls = <<>> /\ stored'.status # "succeeded"
      \/ phase' = "error" /\ stored' = stored
  BY DEF Preflight, Permitted, Persist, Row, IdentityContradiction, Failed, Terminal
<1>3. stored'.status # "succeeded"
  BY <1>1, <1>2 DEF NoAssessment
<1> QED BY <1>1, <1>2, <1>3 DEF PhaseOK

LEMMA RequestStep == ASSUME TypeOK, PhaseOK, Request PROVE PhaseOK'
<1>1. /\ UNCHANGED <<request, circumstance, phase, stored>>
      /\ phase \in {"generation", "asking"}
      /\ stored = NoAssessment
  BY DEF Request, RejectArguments, Oversized, GiveUp, Ask, Raise, PhaseOK
<1>2. CASE attempts' = attempts
  BY <1>1, <1>2 DEF Request, PhaseOK, NoAssessment
<1>3. CASE attempts' # attempts
  <2>1. attempts' # <<>>
    <3>1. PICK a \in Answers : attempts' = Append(attempts, a)
      BY <1>3 DEF Request, RejectArguments, Oversized, GiveUp, Ask, Raise
    <3> QED BY <3>1, AnswersAreAttempts DEF TypeOK
  <2>2. phase = "asking" => \E name \in Names, text \in Texts :
          returned' = Append(returned, [model |-> name, text |-> text])
    BY <1>3 DEF Request
  <2>3. phase # "generation" => returned' \in Seq([model : Names, text : Texts])
    <3> DEFINE Described == [model : Names, text : Texts]
    <3>1. \A name \in Names, text \in Texts : [model |-> name, text |-> text] \in Described
      OBVIOUS
    <3>2. phase # "generation" => returned \in Seq(Described)
      BY DEF PhaseOK
    <3> HIDE DEF Described
    <3>3. ASSUME phase # "generation" PROVE returned' \in Seq(Described)
      <4>1. PICK answer \in Described : returned' = Append(returned, answer)
        BY <1>1, <2>2, <3>1, <3>3
      <4> QED BY <3>2, <3>3, <4>1
    <3> QED BY <1>1, <3>3 DEF Described
  <2> QED BY <1>1, <2>1, <2>3 DEF PhaseOK, NoAssessment
<1> QED BY <1>2, <1>3

LEMMA EscapeStep == ASSUME PhaseOK, Escape PROVE PhaseOK'
<1>1. /\ UNCHANGED <<request, attempts, result, circumstance, returned, stored>>
      /\ phase = "asking" /\ phase' = "error" /\ result = Raised
  BY DEF Escape, vars
<1>2. stored'.status # "succeeded"
  BY <1>1 DEF PhaseOK, NoAssessment
<1> QED BY <1>1, <1>2 DEF PhaseOK

LEMMA ConcludeStep == ASSUME TypeOK, Decided, PhaseOK, Conclude PROVE PhaseOK'
<1>1. /\ UNCHANGED <<request, attempts, result, circumstance, returned>>
      /\ phase = "asking" /\ result \in Outcomes /\ Permitted(circumstance)
      /\ stored = NoAssessment /\ result # Raised
  BY OutcomeIsNotOpen DEF Conclude, PhaseOK, vars
<1>2. \/ phase' = "stored" /\ stored'.calls = attempts
      \/ phase' = "error" /\ ~IsStorable /\ stored' = NoAssessment
  <2>1. PICK t : Savable(circumstance, t, attempts) /\ Persist(t, attempts)
    BY <1>1, TerminalsAreSavable DEF Conclude
  <2> QED BY <1>1, <2>1 DEF Persist, Row
<1>3. ASSUME stored'.status = "succeeded" PROVE attempts # <<>> /\ Acceptable
  <2>1. ~Contradicted /\ result.status = "succeeded"
    BY <1>3, <1>1
       DEF Conclude, Persist, Row, IdentityContradiction, Failed, Terminal, NoAssessment
  <2>2. attempts # <<>> /\ OK(Last(attempts))
    BY <1>1, <2>1 DEF Decided, Usable, Last, LastOf
  <2>3. \A i \in DOMAIN returned : returned[i].model = "expected"
    <3> DEFINE names == [i \in DOMAIN returned |-> returned[i].model]
    <3>1. \A i \in DOMAIN returned : returned[i] \in [model : Names, text : Texts]
      <4> DEFINE Described == [model : Names, text : Texts]
      <4>1. returned \in Seq(Described)
        BY <1>1 DEF PhaseOK
      <4> HIDE DEF Described
      <4>2. \A i \in DOMAIN returned : returned[i] \in Described
        BY <4>1
      <4> QED BY <4>2 DEF Described
    <3>2. \A i \in DOMAIN returned : names[i] # "other"
      BY <2>1 DEF Contradicted, contradicting_returned_models, ToSet
    <3>3. \A i \in DOMAIN returned : returned[i].model \in Names /\ names[i] = returned[i].model
      BY <3>1
    <3> HIDE DEF names
    <3> QED BY <3>2, <3>3 DEF Names
  <2> QED BY <2>2, <2>3 DEF Acceptable
<1>4. stored'.status = "succeeded" => (attempts # <<>> /\ Acceptable)'
  BY <1>1, <1>3 DEF Acceptable
<1>5. stored'.status = "succeeded" => phase' = "stored"
  BY <1>2 DEF NoAssessment
<1>6. IsStorable' <=> IsStorable
  BY <1>1 DEF IsStorable
<1> QED BY <1>1, <1>2, <1>4, <1>5, <1>6 DEF PhaseOK

THEOREM PhaseFacts == AssessmentSpec => []PhaseOK
<1>1. InitAssessment => PhaseOK
  BY DEF InitAssessment, Init, PhaseOK, NoAssessment
<1>2. TypeOK /\ Decided /\ PhaseOK /\ [NextAssessment]_all => PhaseOK'
  <2> SUFFICES ASSUME TypeOK, Decided, PhaseOK, [NextAssessment]_all PROVE PhaseOK'
    OBVIOUS
  <2>1. CASE UNCHANGED all
    BY <2>1 DEF all, vars, assessment, PhaseOK, Acceptable, IsStorable
  <2> QED BY <2>1, RefuseStep, PreflightStep, RequestStep, EscapeStep, ConcludeStep
          DEF NextAssessment
<1> QED
  BY <1>1, <1>2, RequestsAreUndisturbed, TypeCorrect, DecidedByTheCalls, PTL DEF AssessmentSpec

-----------------------------------------------------------------------------

\* The stored row owns every call that was made, and calls are lost with it only to an
\* exception of the adapter or a text that the database refuses: whatever the assessor
\* answered, what run_assessment hands over is accepted.
THEOREM CallsAreKept == AssessmentSpec => []AssessmentCallsAreKept
<1>1. TypeOK /\ PhaseOK => AssessmentCallsAreKept
  BY DEF TypeOK, PhaseOK, AssessmentCallsAreKept
<1> QED BY <1>1, AssessmentTypeCorrect, PhaseFacts, PTL

\* An agreement or a disagreement is only ever stored for an assessor that is known to
\* be another model than the producer, and that nothing contradicted.
THEOREM Independence == AssessmentSpec => []VerdictsAreIndependent
<1>1. PhaseOK => VerdictsAreIndependent
  <2> SUFFICES ASSUME PhaseOK, stored.status = "succeeded" PROVE VerdictsAreIndependent
    BY DEF VerdictsAreIndependent
  <2>1. /\ Permitted(circumstance) /\ attempts # <<>> /\ Acceptable
        /\ circumstance \in CircumstanceType
    <3>1. phase = "stored"
      BY DEF PhaseOK, NoAssessment
    <3> QED BY <3>1, CircumstancesAssumption DEF PhaseOK
  <2>2. /\ circumstance.source
        /\ NoIdentity \notin {circumstance.producer, circumstance.assessor}
        /\ Casefold[circumstance.producer] # Casefold[circumstance.assessor]
    BY <2>1 DEF Permitted, Reason, same_underlying_model
  <2>3. ~contradicting_returned_models(<<circumstance.produced>>)
    BY <2>1 DEF Permitted, Reason
  <2>4. circumstance.produced = "expected"
    BY <2>1, <2>3 DEF contradicting_returned_models, ToSet, CircumstanceType, Names
  <2> QED BY <2>1, <2>2, <2>4
          DEF VerdictsAreIndependent, Permitted, Attributed, Acceptable
<1> QED BY <1>1, PhaseFacts, PTL
=============================================================================
