------------------------- MODULE StructuredCallsProofs -------------------------
(***************************************************************************)
(* Lemmas about the vocabulary of structured calls, cited by the proofs of *)
(* the modules that use it.                                                *)
(***************************************************************************)
EXTENDS StructuredCalls, TLAPS

\* The answers a provider adapter returns are attempts.
LEMMA AnswersAreAttempts == Answers \subseteq Attempts
<1> SUFFICES ASSUME NEW f \in Finishes, NEW v \in BOOLEAN, NEW b \in BOOLEAN
             PROVE  Adapt(f, v, b) \in Attempts
  BY DEF Answers
<1>1. StopOf[f] \in StopReasons
  BY DEF Finishes, StopOf, StopReasons
<1>2. (IF f = "stop" /\ ~v THEN "invalid_output" ELSE StopOf[f]) \in StopReasons
  BY <1>1 DEF StopReasons
<1> QED BY <1>2 DEF Adapt, Attempts

\* The last answer of a non-empty history is an attempt, with a stop reason.
LEMMA LastIsAttempt ==
  ASSUME NEW s \in Seq(Attempts), s # <<>>
  PROVE  LastOf(s) \in Attempts /\ LastOf(s).stop \in StopReasons
<1>1. LastOf(s) \in Attempts
  BY DEF LastOf
<1> QED BY <1>1 DEF Attempts

\* Every classification of a non-empty history, or of an oversized request, is a
\* persistable outcome.
LEMMA FailureIsOutcome ==
  ASSUME NEW kind, NEW s \in Seq(Attempts), NEW o \in BOOLEAN, o \/ s # <<>>
  PROVE  Failure(kind, s, o) \in Outcomes
<1>1. CASE o
  BY <1>1 DEF Failure, classify_structured_failure, withheld, Outcome, Outcomes, Statuses, Codes
<1>2. CASE ~o
  <2>1. LastOf(s).stop \in StopReasons
    BY <1>2, LastIsAttempt
  <2>2. FailureOf[LastOf(s).stop] \in Outcomes
    BY <2>1 DEF FailureOf, StopReasons, Outcome, Outcomes, Statuses, Codes
  <2>3. withheld(kind, s, o) \in Outcomes
    BY <1>2, <2>1 DEF withheld, Outcome, Outcomes, Statuses, Codes
  <2> QED BY <1>2, <2>2, <2>3 DEF Failure, classify_structured_failure
<1> QED BY <1>1, <1>2

\* No classification is a success.
LEMMA FailureIsNoSuccess ==
  ASSUME NEW kind, NEW s \in Seq(Attempts), NEW o \in BOOLEAN, o \/ s # <<>>
  PROVE  Failure(kind, s, o).status # "succeeded"
<1>1. withheld(kind, s, o).status # "succeeded"
  BY DEF withheld, Outcome
<1>2. CASE o
  BY <1>1, <1>2 DEF Failure, classify_structured_failure, Outcome
<1>3. CASE ~o
  <2>1. LastOf(s).stop \in StopReasons
    BY <1>3, LastIsAttempt
  <2>2. FailureOf[LastOf(s).stop].status # "succeeded"
    BY <2>1 DEF FailureOf, StopReasons, Outcome
  <2> QED BY <1>1, <1>3, <2>2 DEF Failure, classify_structured_failure
<1> QED BY <1>2, <1>3
=============================================================================
