--------------------------- MODULE ComparisonLedger ----------------------------
(***************************************************************************)
(* What the comparison store promises to everyone who reads the database.  *)
(* The ledger is the committed rows of each invocation.  Committed history *)
(* only grows: a member is settled once, a result never changes, a         *)
(* finished invocation is closed, and a reused member points at a success  *)
(* that another invocation had already made durable for the same source    *)
(* and recipe.                                                             *)
(***************************************************************************)
EXTENDS ComparisonRows

VARIABLE ledger

Init == ledger = [r \in Runs |-> Absent]

\* The rows of one invocation only move forward.
Extends(old, new) ==
  /\ old.status # "absent" =>
       /\ new.status # "absent" /\ new.source = old.source /\ new.forced = old.forced
       /\ \A c \in Recipes : old.members[c].state = "none" <=> new.members[c].state = "none"
  /\ old.status \in {"completed", "incomplete"} => new = old
  /\ \A c \in Recipes :
       /\ Settled(old.members[c]) => new.members[c] = old.members[c]
       /\ old.results[c].status # "none" => new.results[c] = old.results[c]

\* A settled member is backed by a result: its own, or a success that another
\* invocation has already made durable for the same source and recipe.
Backed(r, new) ==
  \A c \in Recipes :
    LET m == new.members[c] IN
    /\ m.state = "generated" =>
         /\ m.result = <<r, c>> /\ m.calls = new.results[c].calls
         /\ new.results[c].status # "none"
    /\ m.state = "reused" =>
         /\ m.calls = 0 /\ ~new.forced
         /\ \E q \in Runs \ {r} :
              /\ m.result = <<q, c>>
              /\ ledger[q].source = new.source
              /\ ledger[q].results[c].status = "succeeded"

\* One commit: the rows of one invocation move forward, all others stand still.
Publish(r) ==
  \E new \in {ledger'[r]} :
    /\ ledger' = [ledger EXCEPT ![r] = new]
    /\ new \in Rows
    /\ Extends(ledger[r], new)
    /\ Backed(r, new)
    /\ new.status = "completed" => \A c \in Recipes : new.members[c].state # "pending"

Next == \E r \in Runs : ledger'[r] # ledger[r] /\ Publish(r)

Spec == Init /\ [][Next]_ledger
=============================================================================
