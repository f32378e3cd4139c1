-------------------------------- MODULE Ingestion -------------------------------
(***************************************************************************)
(* `ingest': PatClient.fetch_pull_request and save_snapshot.  Collecting   *)
(* is a read per step, on GitHub as it is at that step; a failed request   *)
(* or an incomplete page is Fail.  Saving is one committed block on an     *)
(* idle connection, a lock per step.                                       *)
(***************************************************************************)
EXTENDS PullRequestRows

\* The repository's metadata and the pull request itself.
GetHead(p, pr) ==
  /\ proc[p] = Idle
  /\ proc' = [proc EXCEPT ![p] =
       [Idle EXCEPT !.pc = "pages", !.pr = pr, !.name = names[RepoOf[pr]],
          !.stamp = remote[pr].stamp, !.content.head = remote[pr].content]]
  /\ UNCHANGED <<github, rows, locks>>

GetPages(p) ==
  /\ proc[p].pc = "pages"
  /\ proc' = [proc EXCEPT ![p].pc = "refresh",
                          ![p].content.pages = remote[proc[p].pr].content]
  /\ UNCHANGED <<github, rows, locks>>

\* (faulty variant) The collection does not look at the pull request again.
RefreshUnchecked(p) ==
  /\ proc[p].pc = "refresh"
  /\ Goto(p, "identity")
  /\ UNCHANGED <<github, rows, locks>>

\* A pull request that moved during the collection is not saved.
Refresh(p) ==
  /\ proc[p].pc = "refresh"
  /\ proc' = [proc EXCEPT ![p] =
       IF remote[proc[p].pr].stamp = proc[p].stamp
       THEN [proc[p] EXCEPT !.pc = "identity", !.stamp = 0] ELSE Idle]
  /\ UNCHANGED <<github, rows, locks>>

LockIdentity(p) ==
  /\ proc[p].pc = "identity"
  /\ LET object == Identity(RepoOf[proc[p].pr]) IN
     Free(object, p) /\ Locked(object, p)
  /\ Goto(p, "locator")
  /\ UNCHANGED <<github, rows>>

\* (faulty variant) A name that another repository holds is taken over.
NoConflict(r, name) == FALSE

Conflict(r, name) == \E q \in Repos \ {r} : repositories[q] = name

\* reconcile_repository: an error when the locator belongs to another identity.
LockLocator(p) ==
  /\ proc[p].pc = "locator"
  /\ Free(Locator(proc[p].name), p)
  /\ IF Conflict(RepoOf[proc[p].pr], proc[p].name)
     THEN proc' = [proc EXCEPT ![p] = Idle] /\ locks' = Released(p)
     ELSE Goto(p, "previous") /\ Locked(Locator(proc[p].name), p)
  /\ UNCHANGED <<github, rows>>

Finish(p) ==
  /\ proc' = [proc EXCEPT ![p] = Idle]
  /\ locks' = Released(p)
  /\ repositories' = [repositories EXCEPT ![RepoOf[proc[p].pr]] = proc[p].name]

\* The latest version is locked and compared: same content, same version.
SelectPrevious(p) ==
  LET pr == proc[p].pr IN
  /\ proc[p].pc = "previous"
  /\ \A i \in Latest(pr) : Free(Row(pr, i), p)
  /\ \/ /\ \E i \in Latest(pr) : snapshots[pr][i].content = proc[p].content
        /\ Finish(p)
     \/ /\ \A i \in Latest(pr) : snapshots[pr][i].content # proc[p].content
        /\ \E i \in IF Latest(pr) = {} THEN {0} ELSE Latest(pr) :
             proc' = [proc EXCEPT ![p].pc = "people", ![p].snapshot = i]
        /\ locks' = locks \cup {<<Row(pr, i), p>> : i \in Latest(pr)}
        /\ UNCHANGED repositories
  /\ UNCHANGED <<github, snapshots, accounts>>

\* person(): the upsert locks the row until the transaction ends.
UpsertPerson(p) ==
  LET pr == proc[p].pr
      login == Logins[pr][proc[p].people + 1]
  IN
  /\ proc[p].pc = "people"
  /\ Free(Person(login), p) /\ Locked(Person(login), p)
  /\ proc' = [proc EXCEPT ![p].people = @ + 1,
       ![p].pc = IF proc[p].people + 1 = Len(Logins[pr]) THEN "commit" ELSE "people"]
  /\ UNCHANGED <<github, rows>>

NewVersion(p) ==
  LET previous == proc[p].snapshot
      pr == proc[p].pr
  IN [version |-> IF previous = 0 THEN 1 ELSE snapshots[pr][previous].version + 1,
      content |-> proc[p].content, latest |-> TRUE]

\* (faulty variant) The version it replaces stays marked as the latest.
InsertKeepingLatest(p) ==
  /\ proc[p].pc = "commit"
  /\ snapshots' = [snapshots EXCEPT ![proc[p].pr] = Append(@, NewVersion(p))]
  /\ Finish(p)
  /\ UNCHANGED <<github, accounts>>

\* The flag moves to the new row, and the block commits.
InsertVersion(p) ==
  LET stored == snapshots[proc[p].pr] IN
  /\ proc[p].pc = "commit"
  /\ snapshots' = [snapshots EXCEPT ![proc[p].pr] =
       Append([i \in DOMAIN stored |-> [stored[i] EXCEPT !.latest = FALSE]], NewVersion(p))]
  /\ Finish(p)
  /\ UNCHANGED <<github, accounts>>

Ingest(p) ==
  \/ GetPages(p) \/ Refresh(p)
  \/ LockIdentity(p) \/ LockLocator(p) \/ SelectPrevious(p)
  \/ UpsertPerson(p) \/ InsertVersion(p)
=============================================================================
