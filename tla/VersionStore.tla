------------------------------ MODULE VersionStore ------------------------------
(***************************************************************************)
(* What the pull request store promises to its readers: every pull request *)
(* has a numbered history of contents in which neighbours differ, one      *)
(* latest version, and a list of reports, each of an existing version.     *)
(* Versions and reports are added and never changed or removed.            *)
(***************************************************************************)
EXTENDS Integers, FiniteSets, Sequences

CONSTANTS Prs, Contents

VARIABLES
  versions, \* the <<number, content>> pairs of each pull request
  latest,   \* the numbers of its latest versions
  reports   \* its reports: the version they are of, and what became of them

vars == <<versions, latest, reports>>

Init ==
  /\ versions = [pr \in Prs |-> {}]
  /\ latest = [pr \in Prs |-> {}]
  /\ reports = [pr \in Prs |-> <<>>]

AddVersion(pr) ==
  LET next == Cardinality(versions[pr]) + 1 IN
  /\ latest' = [latest EXCEPT ![pr] = {next}]
  /\ \E c \in Contents :
       /\ <<next - 1, c>> \notin versions[pr]
       /\ versions' = [versions EXCEPT ![pr] = @ \cup {<<next, c>>}]
  /\ UNCHANGED reports

AddReport(pr) ==
  /\ Len(reports'[pr]) = Len(reports[pr]) + 1
  /\ \E v \in versions[pr], status \in {"published", "needs_review"} :
       reports' = [reports EXCEPT ![pr] = Append(@, [version |-> v[1], status |-> status])]
  /\ UNCHANGED <<versions, latest>>

Next == \E pr \in Prs : AddVersion(pr) \/ AddReport(pr)

Spec == Init /\ [][Next]_vars
=============================================================================
