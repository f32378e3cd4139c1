----------------------------- MODULE PullRequestsInv -----------------------------
(***************************************************************************)
(* The inductive invariant behind the safety properties of PullRequests.   *)
(* The stored versions and accounts are well-formed (VersionsOK,           *)
(* AccountsOK, CurrentOK), what a command has read fits the rows as they   *)
(* are now, and what other commands could change under it is locked.       *)
(***************************************************************************)
EXTENDS PullRequests

-----------------------------------------------------------------------------
(* The rows of one pull request *)

\* The row of version i is the i-th; the last is the latest; neighbours differ; and
\* head and records were collected in one state.
VersionsOK(versions) ==
  \A i \in 1..Len(versions) :
    /\ versions[i].version = i
    /\ versions[i].latest <=> i = Len(versions)
    /\ i > 1 => versions[i].content # versions[i - 1].content
    /\ versions[i].content.head = versions[i].content.pages

AccountsOK(versions, reports) ==
  \A a \in 1..Len(reports) :
    /\ reports[a].snapshot \in 1..Len(versions)
    /\ reports[a].from = versions[reports[a].snapshot].content

IsPublished(reports, a) == reports[a].status = "published"

\* Of the published accounts of a version, one is current, and it is the newest.
CurrentOK(reports) ==
  \A a \in 1..Len(reports) :
    /\ reports[a].current =>
         /\ IsPublished(reports, a)
         /\ \A b \in 1..Len(reports) :
              IsPublished(reports, b) /\ reports[b].snapshot = reports[a].snapshot => b <= a
    /\ IsPublished(reports, a) =>
         \E b \in 1..Len(reports) :
           reports[b].current /\ reports[b].snapshot = reports[a].snapshot

-----------------------------------------------------------------------------
(* What a command c has read of its pull request *)

\* While updated_at has not moved, GitHub still says what was collected.
CollectionFits(now, c) ==
  /\ c.pc \in {"pages", "refresh"} =>
       /\ c.stamp <= now.stamp
       /\ now.stamp = c.stamp =>
            /\ c.content.head = now.content
            /\ c.pc = "refresh" => c.content.pages = now.content
  /\ c.pc \in {"identity", "locator", "previous", "people", "commit"} =>
       c.content.head = c.content.pages

LocatorFits(stored, c) ==
  c.pc \in {"previous", "people", "commit"} =>
    \A q \in Repos \ {RepoOf[c.pr]} : stored[q] # c.name

PreviousFits(versions, c) ==
  c.pc \in {"people", "commit"} =>
    /\ c.snapshot = Len(versions)
    /\ c.snapshot # 0 => versions[c.snapshot].content # c.content

ReportFits(versions, reports, c) ==
  /\ c.pc \in {"select", "save", "close", "selected"} =>
       c.snapshot \in 1..Len(versions) /\ versions[c.snapshot].content = c.content
  /\ c.pc = "selected" =>
       /\ c.account \in 1..Len(reports) /\ IsPublished(reports, c.account)
       /\ reports[c.account].from = c.content

Fits(now, stored, versions, reports, c) ==
  /\ CollectionFits(now, c) /\ LocatorFits(stored, c)
  /\ PreviousFits(versions, c) /\ ReportFits(versions, reports, c)

\* The advisory locks that command c of p holds.
Holds(held, p, c) ==
  /\ c.pc \in {"locator", "previous", "people", "commit"} =>
       <<Identity(RepoOf[c.pr]), p>> \in held
  /\ c.pc \in {"previous", "people", "commit"} => <<Locator(c.name), p>> \in held

\* A lock has one holder.
Exclusive(held) == \A l, m \in held : l[1] = m[1] => l[2] = m[2]

-----------------------------------------------------------------------------

RowsOK ==
  /\ \A pr \in Prs :
       /\ VersionsOK(snapshots[pr])
       /\ AccountsOK(snapshots[pr], accounts[pr])
       /\ CurrentOK(accounts[pr])
  /\ LocatorsAreDistinct

CommandOK(p) ==
  LET c == proc[p] IN
  IF c.pc = "idle" THEN c = Idle
  ELSE /\ c.pr \in Prs
       /\ Fits(remote[c.pr], repositories, snapshots[c.pr], accounts[c.pr], c)
       /\ Holds(locks, p, c)

IInv == TypeOK /\ RowsOK /\ Exclusive(locks) /\ \A p \in Procs : CommandOK(p)
=============================================================================
