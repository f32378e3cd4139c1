------------------------------ MODULE PullRequests ------------------------------
(***************************************************************************)
(* Concurrent `ingest', `summarize' and `aggregate' processes on one       *)
(* database while GitHub's pull requests and repository names change.      *)
(***************************************************************************)
EXTENDS Ingestion, Accounts

Continue(p) == Ingest(p) \/ Summarize(p)

Start(p, pr) ==
  \/ GetHead(p, pr)
  \/ \E auto \in BOOLEAN : load_snapshot(p, pr, auto)

Next ==
  \/ \E pr \in Prs : Edit(pr)
  \/ \E r \in Repos : Rename(r)
  \/ \E p \in Procs, pr \in Prs : Start(p, pr)
  \/ \E p \in Procs : Continue(p) \/ Fail(p)

\* Requests to GitHub and to the provider time out and their retries are bounded;
\* PostgreSQL grants a lock in the order of its waiters, hence the strong
\* fairness, and its deadlock detector runs.
Fairness == \A p \in Procs : SF_vars(Continue(p)) /\ WF_vars(DeadlockAborts(p))

Spec == Init /\ [][Next]_vars /\ Fairness
-----------------------------------------------------------------------------
(* Properties *)

TypeOK ==
  /\ remote \in [Prs -> [content : Contents, stamp : Nat]]
  /\ names \in [Repos -> Names]
  /\ repositories \in [Repos -> Names \cup {NoName}]
  /\ snapshots \in [Prs -> Seq(Snapshots)]
  /\ accounts \in [Prs -> Seq(Accounts)]
  /\ \A l \in locks : l[2] \in Procs
  /\ proc \in [Procs -> Processes]

\* The history that readers see: what VersionStore calls versions, latest and reports.
StoredVersions ==
  [pr \in Prs |->
    {<<snapshots[pr][i].version, snapshots[pr][i].content>> : i \in DOMAIN snapshots[pr]}]
NewestVersions == [pr \in Prs |-> {snapshots[pr][i].version : i \in Latest(pr)}]
SavedReports ==
  [pr \in Prs |-> [a \in DOMAIN accounts[pr] |->
    [version |-> snapshots[pr][accounts[pr][a].snapshot].version,
     status |-> accounts[pr][a].status]]]

Store == INSTANCE VersionStore WITH
  Contents <- Collected,
  versions <- StoredVersions, latest <- NewestVersions, reports <- SavedReports

\* However collections and summaries race and fail, readers see the history that
\* VersionStore promises: numbered versions whose neighbours differ, so that renames,
\* repeated and simultaneous collections of one content make no version; one latest
\* version; and stored versions and reports that are never changed.
StoreSpec == Store!Spec

\* docs/ARCHITECTURE.md: what was collected while the pull request moved is rejected.
\* Every stored version is one state of the pull request, head and records alike, as
\* far as every edit moves updated_at.
MovingPullRequestsAreNotStored ==
  \A pr \in Prs : \A i \in 1..Len(snapshots[pr]) :
    snapshots[pr][i].content.head = snapshots[pr][i].content.pages

\* Two repositories never hold the same stored locator, whatever renames were seen
\* in whatever order.
LocatorsAreDistinct ==
  \A r, q \in Repos : repositories[r] = repositories[q] /\ repositories[r] # NoName => r = q

\* The current account of a version is its newest published one: a failed rerun or
\* a slower process leaves it, and a published rerun takes its place.
CurrentIsNewestPublished ==
  \A pr \in Prs : \A a \in 1..Len(accounts[pr]) :
    accounts[pr][a].current <=> a = Max(Published(pr, accounts[pr][a].snapshot) \cup {0})

\* An account belongs to the version whose content the model was given, although
\* newer versions may have been stored since it was read.
AccountsFitTheirSnapshot ==
  \A pr \in Prs : \A a \in 1..Len(accounts[pr]) :
    accounts[pr][a].from = snapshots[pr][accounts[pr][a].snapshot].content

\* An input of a combined report is a published account of the content that was
\* resolved: a failed generation stops the report instead of entering it.
InputsArePublished ==
  \A p \in Procs :
    LET selected == accounts[proc[p].pr][proc[p].account] IN
    proc[p].pc = "selected" =>
      selected.status = "published" /\ selected.from = proc[p].content

\* Every command ends: two saves that lock the same people in opposite orders do
\* not wait for each other forever.
EveryCommandEnds == \A p \in Procs : proc[p] # Idle ~> proc[p] = Idle
=============================================================================
