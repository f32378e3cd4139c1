-------------------------- MODULE StructuredExecution --------------------------
(***************************************************************************)
(* One structured model request, from the first size check to the persisted*)
(* outcome: execute_structured_request for frozen recipes, and the two     *)
(* production loops of the same shape, generate_aggregate and              *)
(* generate_account.  Sizes are token estimates; the repair prompt is the  *)
(* original prompt followed by the errors of the last answer, so it is     *)
(* always larger than the original and its size depends on the answer.     *)
(***************************************************************************)
EXTENDS StructuredCalls

CONSTANTS
  Requests,       \* the requests a caller may make (records, see RequestType)
  MaxRepairTokens \* bound on the tokens the repair instructions add

RequestType ==
  [kind : Kinds,
   size : Nat,             \* tokens of system, user, schema and envelope
   max_tokens : Int,       \* reserved output tokens
   max_output_tokens : Nat,
   context_window : Nat,
   input_budget : Int,
   repair_limit : Int]

ASSUME RequestsAssumption ==
  /\ Requests \subseteq RequestType
  /\ \A q \in Requests : q.kind # "recipe" => q.repair_limit = 1
  /\ MaxRepairTokens \in Nat \ {0}

VARIABLES
  request,   \* the arguments of the call
  user_size, \* tokens of the request that is sent next
  attempts,  \* provider answers so far
  sent,      \* tokens of each request that was sent
  result     \* "open", "rejected" (ValueError), "raised" (by the adapter) or an outcome

vars == <<request, user_size, attempts, sent, result>>

Open == [status |-> "open"]
Rejected == [status |-> "rejected"]
Raised == [status |-> "raised"]

\* (faulty variant) The reserved output room is forgotten.
BudgetWithoutReservation == request.input_budget

effective_budget ==
  LET room == request.context_window - request.max_tokens
  IN  IF request.kind = "account" \/ request.input_budget <= room
      THEN request.input_budget ELSE room

Admissible(q) ==
  \/ q.kind = "account"
  \/ /\ q.max_tokens > 0 /\ q.max_tokens <= q.max_output_tokens
     /\ q.repair_limit \in {0, 1}

Init ==
  /\ request \in Requests
  /\ user_size = request.size
  /\ attempts = <<>> /\ sent = <<>>
  /\ result = Open

Asking ==
  /\ result = Open
  /\ Admissible(request)
  /\ MayAsk(request.kind, attempts, request.repair_limit)

\* An impossible reservation or repair limit raises before anything is sent.
RejectArguments ==
  /\ result = Open
  /\ ~Admissible(request)
  /\ result' = Rejected
  /\ UNCHANGED <<request, user_size, attempts, sent>>

\* (faulty variant) The size is recorded before it is compared with the budget.
OversizedRecordedAsSent ==
  /\ Asking
  /\ user_size > effective_budget
  /\ result' = Failure(request.kind, attempts, TRUE)
  /\ sent' = Append(sent, user_size)
  /\ UNCHANGED <<request, user_size, attempts>>

\* The complete request, original or repair, does not fit.
Oversized ==
  /\ Asking
  /\ user_size > effective_budget
  /\ result' = Failure(request.kind, attempts, TRUE)
  /\ UNCHANGED <<request, user_size, attempts, sent>>

\* (faulty variant) Only the first request is measured.
AskUnmeasuredRepair ==
  /\ Asking
  /\ user_size <= effective_budget \/ attempts # <<>>
  /\ \E a \in Answers, extra \in 1..MaxRepairTokens :
       /\ attempts' = Append(attempts, a)
       /\ user_size' = IF Usable(request.kind, a) THEN user_size ELSE request.size + extra
       /\ result' = IF Usable(request.kind, a) THEN Outcome("succeeded", "none") ELSE Open
  /\ sent' = Append(sent, user_size)
  /\ UNCHANGED request

\* One provider call; a malformed answer makes the next request longer.
Ask ==
  /\ Asking
  /\ user_size <= effective_budget
  /\ \E a \in Answers, extra \in 1..MaxRepairTokens :
       /\ attempts' = Append(attempts, a)
       /\ user_size' = IF Usable(request.kind, a) THEN user_size ELSE request.size + extra
       /\ result' = IF Usable(request.kind, a) THEN Outcome("succeeded", "none") ELSE Open
  /\ sent' = Append(sent, user_size)
  /\ UNCHANGED request

\* The adapter raises what none of its except clauses names, as for an answer without
\* choices: the call was made, and the loop and its attempts are gone.
Raise ==
  /\ Asking
  /\ user_size <= effective_budget
  /\ sent' = Append(sent, user_size)
  /\ result' = Raised
  /\ UNCHANGED <<request, user_size, attempts>>

\* (faulty variant) Only a malformed last answer ends the request.
GiveUpOnlyWhenMalformed ==
  /\ result = Open /\ Admissible(request)
  /\ ~MayAsk(request.kind, attempts, request.repair_limit)
  /\ Repairable(LastOf(attempts))
  /\ result' = Failure(request.kind, attempts, FALSE)
  /\ UNCHANGED <<request, user_size, attempts, sent>>

\* The loop is left without an output.
GiveUp ==
  /\ result = Open /\ Admissible(request)
  /\ ~MayAsk(request.kind, attempts, request.repair_limit)
  /\ result' = Failure(request.kind, attempts, FALSE)
  /\ UNCHANGED <<request, user_size, attempts, sent>>

Next == RejectArguments \/ Oversized \/ Ask \/ Raise \/ GiveUp

Spec == Init /\ [][Next]_vars

-----------------------------------------------------------------------------

TypeOK ==
  /\ request \in Requests
  /\ user_size \in Nat
  /\ attempts \in Seq(Attempts)
  /\ sent \in Seq(Nat)
  /\ Len(sent) = Len(attempts) + IF result = Raised THEN 1 ELSE 0
  /\ result \in Outcomes \cup {Open, Rejected, Raised}

\* Every request that left the process, answered or not, the repair included, fits
\* the input budget and leaves the reserved output room in the context window.
EveryCallFits ==
  \A i \in 1..Len(sent) :
    /\ sent[i] <= request.input_budget
    /\ request.kind # "account" => sent[i] + request.max_tokens <= request.context_window

\* A second call is made at most once, only to replace a complete but malformed
\* answer: never after a refusal, a truncation, a transport failure or a result
\* that was already usable.
OnlyMalformedOutputIsRepaired ==
  /\ Len(attempts) <= 2
  /\ Len(attempts) = 2 =>
       /\ attempts[1].stop \in {"end_turn", "invalid_output"}
       /\ ~(OK(attempts[1]) /\ request.kind # "account")
       /\ request.repair_limit = 1

\* What is persisted is what happened: success exactly when the last answer was
\* usable; for a recipe, preflight_failed exactly when nothing was sent, refused
\* and transport exactly when the provider said so last, and budget_exceeded
\* only for a repair that no longer fitted after a malformed answer.
OutcomeTellsTheStory ==
  result \in Outcomes =>
    /\ result.status = "succeeded" <=>
         attempts # <<>> /\ Usable(request.kind, LastOf(attempts))
    /\ request.kind = "recipe" =>
         /\ result.status = "preflight_failed" <=> attempts = <<>>
         /\ attempts # <<>> =>
              LET last == LastOf(attempts).stop IN
              /\ result.status = "refused" <=> last = "refusal"
              /\ result.code = "transport" <=> last = "transport_error"
              /\ result.code = "budget_exceeded" <=>
                   /\ result.status # "succeeded"
                   /\ Len(attempts) <= request.repair_limit
                   /\ last \in {"end_turn", "invalid_output"}
=============================================================================
