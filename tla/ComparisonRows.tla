---------------------------- MODULE ComparisonRows -----------------------------
(***************************************************************************)
(* The rows of the comparison tables that belong to one invocation: the    *)
(* invocation itself, one member per planned recipe, and the results those *)
(* members generated.  Every row of the three tables belongs to exactly    *)
(* one invocation, and only the process running it writes them.            *)
(***************************************************************************)
EXTENDS Integers

CONSTANTS
  Runs,     \* processes; each freezes at most one invocation, named by the process
  Recipes,  \* recipe versions
  Sources,  \* frozen comparison sources
  NoSource, NoResult

\* A result is named by the member it originates from (origin_member_id).
ResultIds == Runs \X Recipes

MemberRows ==
  [state : {"none", "pending", "generated", "reused"},
   result : ResultIds \cup {NoResult},
   calls : Nat,
   cost : {"not_incurred", "complete", "unavailable"}]

ResultRows ==
  [status : {"none", "succeeded", "preflight_failed", "invalid_output", "refused", "failed",
             "needs_review"},
   calls : Nat,
   created : Nat]

Rows ==
  [status : {"absent", "running", "completed", "incomplete"},
   source : Sources \cup {NoSource},
   forced : BOOLEAN,
   members : [Recipes -> MemberRows],
   results : [Recipes -> ResultRows]]

NoMember == [state |-> "none", result |-> NoResult, calls |-> 0, cost |-> "not_incurred"]
PendingMember == [NoMember EXCEPT !.state = "pending"]
NoRow == [status |-> "none", calls |-> 0, created |-> 0]

Absent ==
  [status |-> "absent", source |-> NoSource, forced |-> FALSE,
   members |-> [c \in Recipes |-> NoMember],
   results |-> [c \in Recipes |-> NoRow]]

Settled(m) == m.state \in {"generated", "reused"}
=============================================================================
