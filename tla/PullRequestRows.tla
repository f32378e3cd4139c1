----------------------------- MODULE PullRequestRows ----------------------------
(***************************************************************************)
(* What `ingest', `summarize', `show' and `aggregate' share: GitHub, the   *)
(* rows of repositories, pull_requests and pr_summaries, the locks of open *)
(* transactions and one record per process.                                *)
(***************************************************************************)
EXTENDS Integers, FiniteSets, SequencesExt

CONSTANTS
  Procs,
  Repos,        \* GitHub's numeric repository identities
  Prs, RepoOf,  \* pull requests and the repository each belongs to
  Names,        \* owner/name locators
  FirstName,    \* the locator each repository has at first
  Renames,      \* bound: the <<repository, name>> pairs that are considered
  Contents,     \* what a pull request can say; Merged are those of a merged one
  Merged,
  FirstContent,
  MaxEdits,     \* bound on the edits of each pull request
  Logins,       \* person() is called on these logins, in this order, to save
  MaxAccounts,  \* bound on the accounts of each pull request
  NoName, NoPr

ASSUME PullRequestConstants ==
  /\ RepoOf \in [Prs -> Repos] /\ FirstName \in [Repos -> Names]
  /\ \A r, q \in Repos : FirstName[r] = FirstName[q] => r = q
  /\ Renames \subseteq Repos \X Names
  /\ Contents # {} /\ Merged \subseteq Contents
  /\ FirstContent \in [Prs -> Contents]
  /\ MaxEdits \in [Prs -> Nat] /\ MaxAccounts \in [Prs -> Nat]
  /\ DOMAIN Logins = Prs
  /\ NoName \notin Names /\ NoPr \notin Prs

VARIABLES
  remote,       \* GitHub: content and updated_at of each pull request
  names,        \* GitHub: the canonical full_name of each repository
  repositories, \* the stored locator of each repository
  snapshots,    \* pull_requests rows, in the order of their ids
  accounts,     \* pr_summaries rows, in the order of their ids
  locks,        \* <<object, process>> held until the process's transaction ends
  proc

vars == <<remote, names, repositories, snapshots, accounts, locks, proc>>
github == <<remote, names>>
rows == <<repositories, snapshots, accounts>>

\* What one collection saw: the pull request itself and its paginated records.
Collected == [head : Contents, pages : Contents]
Snapshots == [version : Nat \ {0}, content : Collected, latest : BOOLEAN]
Accounts ==
  [snapshot : Nat \ {0},       \* position of the row in snapshots[pr]
   from : Collected,           \* history: what the model was given
   status : {"published", "needs_review"}, current : BOOLEAN]

Nobody == CHOOSE c \in Contents : TRUE
Empty == [head |-> Nobody, pages |-> Nobody]

Idle == [pc |-> "idle", pr |-> NoPr, name |-> NoName, stamp |-> 0, content |-> Empty,
         snapshot |-> 0, people |-> 0, account |-> 0, status |-> "needs_review", auto |-> FALSE]

Processes ==
  [pc : {"idle", "pages", "refresh", "identity", "locator", "previous",
         "people", "commit", "select", "save", "close", "selected"},
   pr : Prs \cup {NoPr},
   name : Names \cup {NoName},   \* full_name as the repository's metadata gave it
   stamp : Nat,                  \* updated_at of the first read
   content : Collected,
   snapshot : Nat,               \* position of the row that was read, 0 for none
   people : Nat,                 \* how many people rows are upserted
   account : Nat,                \* the account selected as an input, 0 for none
   status : {"published", "needs_review"},
   auto : BOOLEAN]               \* an `aggregate' process: autocommit

Init ==
  /\ remote = [pr \in Prs |-> [content |-> FirstContent[pr], stamp |-> 0]]
  /\ names = FirstName
  /\ repositories = [r \in Repos |-> NoName]
  /\ snapshots = [pr \in Prs |-> <<>>] /\ accounts = [pr \in Prs |-> <<>>]
  /\ locks = {}
  /\ proc = [p \in Procs |-> Idle]

\* WHERE is_latest_snapshot
Latest(pr) == {i \in 1..Len(snapshots[pr]) : snapshots[pr][i].latest}

Goto(p, pc) == proc' = [proc EXCEPT ![p].pc = pc]

-----------------------------------------------------------------------------
(* Locks *)

Identity(r) == <<"identity", r>>     \* pg_advisory_xact_lock(github_id)
Locator(n) == <<"locator", n>>       \* pg_advisory_xact_lock(hash of the name)
Person(login) == <<"person", login>> \* the upserted people row
Row(pr, i) == <<"row", pr, i>>       \* SELECT ... FOR UPDATE on pull_requests

\* (faulty variant) Session-level advisory locks: a transaction does not end them.
ReleasedButAdvisory(p) ==
  {l \in locks : l[2] # p \/ l[1][1] \in {"identity", "locator"}}

Free(object, p) == \A l \in locks : l[1] = object => l[2] = p
Locked(object, p) == locks' = locks \cup {<<object, p>>}
Released(p) == {l \in locks : l[2] # p}

\* The object whose lock the process asks for next.
Wanted(p) ==
  LET c == proc[p] IN
  IF c.pc = "identity" THEN {Identity(RepoOf[c.pr])}
  ELSE IF c.pc = "locator" THEN {Locator(c.name)}
  ELSE IF c.pc = "previous" THEN {Row(c.pr, i) : i \in Latest(c.pr)}
  ELSE IF c.pc = "people" THEN {Person(Logins[c.pr][c.people + 1])}
  ELSE IF c.pc = "save" THEN {Row(c.pr, c.snapshot)}
  ELSE {}

WaitsFor(p) == {l[2] : l \in {m \in locks : m[1] \in Wanted(p)}} \ {p}

-----------------------------------------------------------------------------
(* GitHub *)

\* An edit of the pull request or of its records; updated_at moves.
Edit(pr) ==
  /\ remote[pr].stamp < MaxEdits[pr]
  /\ \E c \in Contents \ {remote[pr].content} :
       /\ remote[pr].content \in Merged => c \in Merged
       /\ remote' = [remote EXCEPT ![pr] = [content |-> c, stamp |-> @.stamp + 1]]
  /\ UNCHANGED <<names, rows, locks, proc>>

Fetching(p) == proc[p].pc \in {"pages", "refresh"}

\* A repository is renamed; the old name keeps redirecting to it while a
\* collection that uses it is under way.
Rename(r) ==
  /\ \E n \in Names \ {names[q] : q \in Repos} :
       /\ <<r, n>> \in Renames
       /\ \A p \in Procs : Fetching(p) => proc[p].name # n
       /\ names' = [names EXCEPT ![r] = n]
  /\ UNCHANGED <<remote, rows, locks, proc>>

-----------------------------------------------------------------------------

\* An exception, an interrupt or the death of the process: rollback.
Fail(p) ==
  /\ proc[p] # Idle
  /\ proc' = [proc EXCEPT ![p] = Idle]
  /\ locks' = Released(p)
  /\ UNCHANGED <<github, rows>>

\* PostgreSQL aborts one of the transactions that wait for each other.
DeadlockAborts(p) ==
  /\ \E others \in SUBSET Procs :
       p \in others /\ \A q \in others : WaitsFor(q) \cap others # {}
  /\ Fail(p)
=============================================================================
