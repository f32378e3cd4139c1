---------------------------- MODULE StructuredCalls ----------------------------
(***************************************************************************)
(* The vocabulary of one structured model request: what a provider adapter *)
(* returns for one call, when the caller may ask for one replacement, and  *)
(* how the call history of a request becomes a persisted status.  The same *)
(* bounded loop is written three times in the program (recipe requests,    *)
(* aggregate reports, pull-request reports); `kind' tells them apart.      *)
(***************************************************************************)
EXTENDS Integers, Sequences

Kinds == {"recipe", "aggregate", "account"}

\* What the SDKs report, before an adapter normalises it.
Finishes == {"stop", "length", "content_filter", "other", "api_error"}

StopReasons ==
  {"end_turn", "max_tokens", "refusal", "invalid_output", "transport_error", "unknown"}

\* A provider answer as the callers see it. `blank' says the parsed report has
\* no publishable text; only the pull-request report loop looks at it.
Attempts == [stop : StopReasons, parsed : BOOLEAN, blank : BOOLEAN]

StopOf == [stop |-> "end_turn", length |-> "max_tokens", content_filter |-> "refusal",
           other |-> "unknown", api_error |-> "transport_error"]

\* The adapter: a complete answer that does not validate is invalid_output, an
\* incomplete one never carries a parsed value, an SDK failure is an answer too.
Adapt(finish, valid, blank) ==
  LET stop == IF finish = "stop" /\ ~valid THEN "invalid_output" ELSE StopOf[finish]
      parsed == stop = "end_turn"
  IN  [stop |-> stop, parsed |-> parsed, blank |-> parsed /\ blank]

Answers == {Adapt(f, v, b) : f \in Finishes, v \in BOOLEAN, b \in BOOLEAN}

OK(a) == a.parsed /\ a.stop = "end_turn"

\* The answer ends the request with an output the caller keeps.
Usable(kind, a) == OK(a) /\ (kind = "account" => ~a.blank)

\* The answer was complete but malformed: the caller may ask for a replacement.
Repairable(a) == a.stop \in {"end_turn", "invalid_output"}

LastOf(s) == s[Len(s)]

\* The loop goes round again: nothing was asked yet, or the last answer was
\* malformed and the repair allowance is not used up.
MayAsk(kind, attempts, repair_limit) ==
  \/ attempts = <<>>
  \/ /\ Len(attempts) \in 1..repair_limit
     /\ ~Usable(kind, LastOf(attempts))
     /\ Repairable(LastOf(attempts))

Outcome(status, code) == [status |-> status, code |-> code]

Statuses == {"succeeded", "preflight_failed", "invalid_output", "refused", "failed",
             "needs_review"}
Codes == StopReasons \cup
  {"none", "oversized_input", "budget_exceeded", "refused", "truncation", "transport",
   "internal_error", "credentials", "compatibility", "blank"}
Outcomes == [status : Statuses, code : Codes]

FailureOf ==
  [refusal |-> Outcome("refused", "refused"),
   max_tokens |-> Outcome("failed", "truncation"),
   transport_error |-> Outcome("failed", "transport"),
   end_turn |-> Outcome("invalid_output", "invalid_output"),
   invalid_output |-> Outcome("invalid_output", "invalid_output"),
   unknown |-> Outcome("failed", "internal_error")]

\* (faulty variant) An oversized repair looks as if nothing had been sent.
OversizedIsPreflight(attempts, oversized) ==
  IF oversized THEN Outcome("preflight_failed", "oversized_input")
  ELSE FailureOf[LastOf(attempts).stop]

\* The persisted status of a recipe request that produced no usable output.
classify_structured_failure(attempts, oversized) ==
  IF oversized
  THEN IF attempts = <<>> THEN Outcome("preflight_failed", "oversized_input")
                          ELSE Outcome("invalid_output", "budget_exceeded")
  ELSE FailureOf[LastOf(attempts).stop]

\* The production loops keep the first error instead of classifying: a report
\* that needs review, or a failed aggregate.
withheld(kind, attempts, oversized) ==
  Outcome(IF kind = "account" THEN "needs_review" ELSE "failed",
          IF oversized THEN "oversized_input"
          ELSE IF OK(LastOf(attempts)) THEN "blank" ELSE LastOf(attempts).stop)

Failure(kind, attempts, oversized) ==
  IF kind = "recipe" THEN classify_structured_failure(attempts, oversized)
                     ELSE withheld(kind, attempts, oversized)
=============================================================================
