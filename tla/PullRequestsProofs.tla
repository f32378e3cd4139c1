--------------------------- MODULE PullRequestsProofs ---------------------------
(***************************************************************************)
(* Proofs about PullRequests, for any processes, repositories, pull        *)
(* requests, names and contents: IInv is inductive, what follows from it,  *)
(* and that the rows implement VersionStore.                               *)
(***************************************************************************)
EXTENDS PullRequestsInv, SequenceTheorems, FiniteSetTheorems, TLAPS

-----------------------------------------------------------------------------
(* Commands and locks *)

LEMMA IdleFacts == Idle \in Processes /\ Idle.pc = "idle"
<1>1. Nobody \in Contents
  BY PullRequestConstants DEF Nobody
<1> QED BY <1>1 DEF Idle, Empty, Processes, Collected

LEMMA Objects ==
  /\ \A r, q : Identity(r) = Identity(q) => r = q
  /\ \A n, m : Locator(n) = Locator(m) => n = m
  BY DEF Identity, Locator

\* The locks of a process that asks for free ones, and of one that ends.
LocksMove(p, held, later) ==
  /\ Exclusive(later) /\ \A l \in later : l[2] \in Procs
  /\ \A l \in held : l[2] # p => l \in later

LEMMA SameLocks == ASSUME IInv, NEW p \in Procs PROVE LocksMove(p, locks, locks)
  BY DEF LocksMove, IInv, TypeOK

LEMMA MoreLocks ==
  ASSUME IInv, NEW p \in Procs, NEW objects, \A o \in objects : Free(o, p)
  PROVE  LocksMove(p, locks, locks \cup {<<o, p>> : o \in objects})
  BY DEF LocksMove, Exclusive, Free, IInv, TypeOK

LEMMA OneMoreLock ==
  ASSUME IInv, NEW p \in Procs, NEW object, Free(object, p)
  PROVE  LocksMove(p, locks, locks \cup {<<object, p>>})
  BY DEF LocksMove, Exclusive, Free, IInv, TypeOK

LEMMA FewerLocks == ASSUME IInv, NEW p \in Procs PROVE LocksMove(p, locks, Released(p))
  BY DEF LocksMove, Exclusive, Released, IInv, TypeOK

LEMMA StillHolds ==
  ASSUME NEW p, NEW q, p # q, NEW held, NEW later, LocksMove(p, held, later),
         NEW c, Holds(held, q, c)
  PROVE  Holds(later, q, c)
  BY DEF LocksMove, Holds

\* What a command has read still fits after rows were added.
LEMMA StillFits ==
  ASSUME NEW now, NEW stored, NEW versions \in Seq(Snapshots), NEW reports \in Seq(Accounts),
         NEW c \in Processes, Fits(now, stored, versions, reports, c),
         NEW stored2, NEW versions2, NEW reports2,
         Len(versions2) \in Nat, Len(reports2) \in Nat,
         Len(versions) <= Len(versions2),
         \A i \in 1..Len(versions) : versions2[i].content = versions[i].content,
         Len(reports) <= Len(reports2),
         \A a \in 1..Len(reports) :
           reports2[a].status = reports[a].status /\ reports2[a].from = reports[a].from,
         c.pc \in {"people", "commit"} => versions2 = versions,
         LocatorFits(stored2, c)
  PROVE  Fits(now, stored2, versions2, reports2, c)
<1>1. Len(versions) \in Nat /\ Len(reports) \in Nat
  BY LenProperties
<1>2. 1..Len(versions) \subseteq 1..Len(versions2) /\ 1..Len(reports) \subseteq 1..Len(reports2)
  BY <1>1
<1>3. ReportFits(versions2, reports2, c)
  BY <1>2 DEF Fits, ReportFits, IsPublished
<1> QED BY <1>3 DEF Fits, PreviousFits

-----------------------------------------------------------------------------
(* Steps of one command *)

\* The command of p becomes c, and other commands fit what it changed.
Moves(p, c) ==
  /\ proc' = [proc EXCEPT ![p] = c] /\ UNCHANGED github /\ LocksMove(p, locks, locks')
  /\ repositories' \in [Repos -> Names \cup {NoName}]
  /\ snapshots' \in [Prs -> Seq(Snapshots)]
  /\ accounts' \in [Prs -> Seq(Accounts)]
  /\ RowsOK'
  /\ c.pc = "idle" => c = Idle
  /\ c.pc # "idle" =>
       /\ c.pr \in Prs
       /\ Fits(remote[c.pr], repositories', snapshots'[c.pr], accounts'[c.pr], c)
       /\ Holds(locks', p, c)
  /\ \A q \in Procs \ {p} : proc[q].pc # "idle" =>
       Fits(remote[proc[q].pr], repositories', snapshots'[proc[q].pr],
            accounts'[proc[q].pr], proc[q])

LEMMA Moved ==
  ASSUME NEW p \in Procs, NEW c \in Processes, IInv, Moves(p, c) PROVE IInv'
<1>1. TypeOK'
  BY DEF Moves, IInv, TypeOK, LocksMove, github
<1>2. RowsOK' /\ Exclusive(locks')
  BY DEF Moves, LocksMove
<1>3. proc'[p] = c /\ \A q \in Procs \ {p} : proc'[q] = proc[q]
  BY DEF Moves, IInv, TypeOK
<1>4. CommandOK(p)'
  BY <1>3 DEF Moves, CommandOK, github
<1>5. ASSUME NEW q \in Procs \ {p} PROVE CommandOK(q)'
  <2>1. CommandOK(q) /\ q # p
    BY DEF IInv
  <2>2. CASE proc[q].pc = "idle"
    BY <1>3, <2>1, <2>2 DEF CommandOK
  <2>3. CASE proc[q].pc # "idle"
    <3>1. Holds(locks', q, proc[q])
      BY <2>1, <2>3, StillHolds DEF CommandOK, Moves
    <3> QED BY <1>3, <2>1, <2>3, <3>1 DEF CommandOK, Moves, github
  <2> QED BY <2>2, <2>3
<1> QED BY <1>1, <1>2, <1>4, <1>5 DEF IInv

\* A step that changes no rows.
Quiets(p, c) ==
  /\ proc' = [proc EXCEPT ![p] = c] /\ UNCHANGED <<github, rows>>
  /\ LocksMove(p, locks, locks')
  /\ c.pc = "idle" => c = Idle
  /\ c.pc # "idle" =>
       /\ c.pr \in Prs
       /\ Fits(remote[c.pr], repositories, snapshots[c.pr], accounts[c.pr], c)
       /\ Holds(locks', p, c)

LEMMA Quiet ==
  ASSUME NEW p \in Procs, NEW c \in Processes, IInv, Quiets(p, c) PROVE IInv'
<1>1. repositories' = repositories /\ snapshots' = snapshots /\ accounts' = accounts
  BY DEF Quiets, rows
<1>2. RowsOK'
  BY <1>1 DEF IInv, RowsOK, LocatorsAreDistinct
<1>3. \A q \in Procs \ {p} : proc[q].pc # "idle" =>
        Fits(remote[proc[q].pr], repositories', snapshots'[proc[q].pr],
             accounts'[proc[q].pr], proc[q])
  BY <1>1 DEF IInv, CommandOK
<1>4. Moves(p, c)
  BY <1>1, <1>2, <1>3 DEF Moves, Quiets, IInv, TypeOK
<1> QED BY <1>4, Moved

\* What holds of a running command.
LEMMA Running ==
  ASSUME NEW p \in Procs, IInv, proc[p].pc # "idle"
  PROVE  /\ proc[p] \in Processes /\ proc[p].pr \in Prs
         /\ Fits(remote[proc[p].pr], repositories, snapshots[proc[p].pr],
                 accounts[proc[p].pr], proc[p])
         /\ Holds(locks, p, proc[p])
         /\ snapshots[proc[p].pr] \in Seq(Snapshots) /\ VersionsOK(snapshots[proc[p].pr])
         /\ accounts[proc[p].pr] \in Seq(Accounts)
         /\ AccountsOK(snapshots[proc[p].pr], accounts[proc[p].pr])
         /\ CurrentOK(accounts[proc[p].pr])
  BY DEF IInv, TypeOK, CommandOK, RowsOK

-----------------------------------------------------------------------------
(* GitHub *)

LEMMA EditKeeps == ASSUME NEW pr \in Prs, IInv, Edit(pr) PROVE IInv'
<1>1. PICK d \in Contents :
        remote' = [remote EXCEPT ![pr] = [content |-> d, stamp |-> remote[pr].stamp + 1]]
  BY DEF Edit, IInv, TypeOK
<1>2. UNCHANGED <<names, repositories, snapshots, accounts, locks, proc>>
  BY DEF Edit, rows
<1>3. remote[pr].stamp \in Nat /\ remote' \in [Prs -> [content : Contents, stamp : Nat]]
  BY <1>1 DEF IInv, TypeOK
<1>4. TypeOK' /\ RowsOK' /\ Exclusive(locks)'
  BY <1>2, <1>3 DEF IInv, TypeOK, RowsOK, LocatorsAreDistinct
<1>5. ASSUME NEW p \in Procs PROVE CommandOK(p)'
  <2>1. CASE proc[p].pc = "idle"
    BY <1>2, <2>1 DEF IInv, CommandOK
  <2>2. CASE proc[p].pc # "idle"
    <3>1. CollectionFits(remote'[proc[p].pr], proc[p])
      <4>1. CASE proc[p].pr = pr
        <5>1. proc[p].stamp \in Nat /\ CollectionFits(remote[pr], proc[p])
          BY <2>2, <4>1, Running DEF Fits, Processes
        <5>2. /\ remote'[pr].stamp = remote[pr].stamp + 1
              /\ proc[p].stamp <= remote[pr].stamp => 
                   /\ proc[p].stamp <= remote[pr].stamp + 1
                   /\ remote[pr].stamp + 1 # proc[p].stamp
          BY <1>1, <1>3, <5>1 DEF IInv, TypeOK
        <5> QED BY <4>1, <5>1, <5>2 DEF CollectionFits
      <4>2. CASE proc[p].pr # pr
        BY <1>1, <2>2, <4>2, Running DEF Fits, IInv, TypeOK
      <4> QED BY <4>1, <4>2
    <3> QED BY <1>2, <2>2, <3>1 DEF IInv, CommandOK, Fits
  <2> QED BY <2>1, <2>2
<1> QED BY <1>4, <1>5 DEF IInv

LEMMA RenameKeeps == ASSUME NEW r \in Repos, IInv, Rename(r) PROVE IInv'
<1>1. names' \in [Repos -> Names]
  BY DEF Rename, IInv, TypeOK
<1>2. UNCHANGED <<remote, repositories, snapshots, accounts, locks, proc>>
  BY DEF Rename, rows
<1> QED BY <1>1, <1>2 DEF IInv, TypeOK, RowsOK, LocatorsAreDistinct, CommandOK

-----------------------------------------------------------------------------
(* Collecting *)

LEMMA GetHeadKeeps == ASSUME NEW p \in Procs, NEW pr \in Prs, IInv, GetHead(p, pr) PROVE IInv'
<1> DEFINE c == [Idle EXCEPT !.pc = "pages", !.pr = pr, !.name = names[RepoOf[pr]],
                   !.stamp = remote[pr].stamp, !.content.head = remote[pr].content]
<1>1. /\ remote[pr].stamp \in Nat /\ remote[pr].content \in Contents
      /\ names[RepoOf[pr]] \in Names /\ Idle.content \in Collected
  BY IdleFacts, PullRequestConstants DEF IInv, TypeOK, Processes
<1>2. /\ c \in Processes /\ c.pc = "pages" /\ c.pr = pr /\ c.stamp = remote[pr].stamp
      /\ c.content.head = remote[pr].content
  BY <1>1, IdleFacts DEF Processes, Collected
<1>3. proc' = [proc EXCEPT ![p] = c] /\ UNCHANGED <<github, rows, locks>>
  BY DEF GetHead
<1> HIDE DEF c
<1>4. CollectionFits(remote[pr], c)
  BY <1>1, <1>2 DEF CollectionFits
<1>5. Quiets(p, c)
  BY <1>2, <1>3, <1>4, SameLocks
     DEF Quiets, Fits, LocatorFits, PreviousFits, ReportFits, Holds
<1> QED BY <1>2, <1>5, Quiet

LEMMA GetPagesKeeps == ASSUME NEW p \in Procs, IInv, GetPages(p) PROVE IInv'
<1> DEFINE r == proc[p]
           now == remote[proc[p].pr]
           c == [proc[p] EXCEPT !.pc = "refresh", !.content.pages = now.content]
<1>1. /\ r.pc = "pages" /\ r \in Processes /\ r.pr \in Prs /\ now.content \in Contents
      /\ CollectionFits(now, r) /\ r.content \in Collected
  BY Running DEF GetPages, Fits, IInv, TypeOK, Processes
<1>2. /\ c \in Processes /\ c.pc = "refresh" /\ c.pr = r.pr /\ c.stamp = r.stamp
      /\ c.content.head = r.content.head /\ c.content.pages = now.content
  BY <1>1 DEF Processes, Collected
<1>3. proc' = [proc EXCEPT ![p] = c] /\ UNCHANGED <<github, rows, locks>>
  BY <1>1 DEF GetPages, IInv, TypeOK, Processes, Collected
<1> HIDE DEF c
<1>4. CollectionFits(now, c)
  BY <1>1, <1>2 DEF CollectionFits
<1>5. Quiets(p, c)
  BY <1>1, <1>2, <1>3, <1>4, SameLocks
     DEF Quiets, Fits, LocatorFits, PreviousFits, ReportFits, Holds
<1> QED BY <1>2, <1>5, Quiet

\* A command ends without having written.
LEMMA Ended ==
  ASSUME NEW p \in Procs, IInv, proc' = [proc EXCEPT ![p] = Idle],
         UNCHANGED <<github, rows>>, locks' = locks \/ locks' = Released(p)
  PROVE  IInv'
<1>1. Quiets(p, Idle)
  BY IdleFacts, SameLocks, FewerLocks DEF Quiets
<1> QED BY <1>1, IdleFacts, Quiet

LEMMA RefreshKeeps == ASSUME NEW p \in Procs, IInv, Refresh(p) PROVE IInv'
<1> DEFINE r == proc[p]
           now == remote[proc[p].pr]
           c == [proc[p] EXCEPT !.pc = "identity", !.stamp = 0]
<1>1. /\ r.pc = "refresh" /\ r \in Processes /\ r.pr \in Prs /\ CollectionFits(now, r)
      /\ UNCHANGED <<github, rows, locks>>
  BY Running DEF Refresh, Fits
<1>2. CASE now.stamp = r.stamp
  <2>1. /\ c \in Processes /\ c.pc = "identity" /\ c.pr = r.pr /\ c.content = r.content
        /\ proc' = [proc EXCEPT ![p] = c]
    BY <1>1, <1>2 DEF Processes, Refresh
  <2> HIDE DEF c
  <2>2. CollectionFits(now, c)
    BY <1>1, <1>2, <2>1 DEF CollectionFits
  <2>3. Quiets(p, c)
    BY <1>1, <2>1, <2>2, SameLocks
       DEF Quiets, Fits, LocatorFits, PreviousFits, ReportFits, Holds
  <2> QED BY <2>1, <2>3, Quiet
<1>3. CASE now.stamp # r.stamp
  BY <1>1, <1>3, Ended DEF Refresh
<1> QED BY <1>2, <1>3

-----------------------------------------------------------------------------
(* Saving *)

LEMMA LockIdentityKeeps == ASSUME NEW p \in Procs, IInv, LockIdentity(p) PROVE IInv'
<1> DEFINE r == proc[p]
           c == [proc[p] EXCEPT !.pc = "locator"]
           object == Identity(RepoOf[proc[p].pr])
<1>1. /\ r.pc = "identity" /\ r \in Processes /\ r.pr \in Prs
      /\ CollectionFits(remote[r.pr], r) /\ Free(object, p)
      /\ locks' = locks \cup {<<object, p>>}
  BY Running DEF LockIdentity, Locked, Fits
<1>2. /\ c \in Processes /\ c.pc = "locator" /\ c.pr = r.pr /\ c.content = r.content
      /\ proc' = [proc EXCEPT ![p] = c] /\ UNCHANGED <<github, rows>>
  BY <1>1 DEF Processes, LockIdentity, Goto
<1> HIDE DEF c
<1>3. CollectionFits(remote[r.pr], c)
  BY <1>1, <1>2 DEF CollectionFits
<1>4. Holds(locks', p, c) /\ LocksMove(p, locks, locks')
  BY <1>1, <1>2, OneMoreLock DEF Holds
<1>5. Quiets(p, c)
  BY <1>1, <1>2, <1>3, <1>4 DEF Quiets, Fits, LocatorFits, PreviousFits, ReportFits
<1> QED BY <1>2, <1>5, Quiet

LEMMA LockLocatorKeeps == ASSUME NEW p \in Procs, IInv, LockLocator(p) PROVE IInv'
<1> DEFINE r == proc[p]
           c == [proc[p] EXCEPT !.pc = "previous"]
           object == Locator(proc[p].name)
<1>1. /\ r.pc = "locator" /\ r \in Processes /\ r.pr \in Prs
      /\ CollectionFits(remote[r.pr], r) /\ Free(object, p) /\ Holds(locks, p, r)
      /\ UNCHANGED <<github, rows>>
  BY Running DEF LockLocator, Fits
<1>2. CASE Conflict(RepoOf[r.pr], r.name)
  BY <1>1, <1>2, Ended DEF LockLocator
<1>3. CASE ~Conflict(RepoOf[r.pr], r.name)
  <2>1. /\ c \in Processes /\ c.pc = "previous" /\ c.pr = r.pr /\ c.content = r.content
        /\ c.name = r.name /\ proc' = [proc EXCEPT ![p] = c]
        /\ locks' = locks \cup {<<object, p>>}
    BY <1>1, <1>3 DEF Processes, LockLocator, Goto, Locked
  <2> HIDE DEF c
  <2>2. CollectionFits(remote[r.pr], c)
    BY <1>1, <2>1 DEF CollectionFits
  <2>3. LocatorFits(repositories, c)
    BY <1>3, <2>1 DEF Conflict, LocatorFits
  <2>4. Holds(locks', p, c) /\ LocksMove(p, locks, locks')
    BY <1>1, <2>1, OneMoreLock DEF Holds
  <2>5. Quiets(p, c)
    BY <1>1, <2>1, <2>2, <2>3, <2>4 DEF Quiets, Fits, PreviousFits, ReportFits
  <2> QED BY <2>1, <2>5, Quiet
<1> QED BY <1>2, <1>3

LEMMA UpsertKeeps == ASSUME NEW p \in Procs, IInv, UpsertPerson(p) PROVE IInv'
<1> DEFINE r == proc[p]
           pc == IF r.people + 1 = Len(Logins[r.pr]) THEN "commit" ELSE "people"
           c == [proc[p] EXCEPT !.people = r.people + 1, !.pc = pc]
           object == Person(Logins[r.pr][r.people + 1])
<1>1. /\ r.pc = "people" /\ r \in Processes /\ r.pr \in Prs
      /\ Fits(remote[r.pr], repositories, snapshots[r.pr], accounts[r.pr], r)
      /\ Free(object, p) /\ Holds(locks, p, r) /\ UNCHANGED <<github, rows>>
      /\ locks' = locks \cup {<<object, p>>}
  BY Running DEF UpsertPerson, Locked
<1>2. proc' = [proc EXCEPT ![p] = c]
  BY <1>1 DEF UpsertPerson, IInv, TypeOK, Processes
<1>9. pc \in {"people", "commit"} /\ r.people + 1 \in Nat
  BY <1>1 DEF Processes
<1> HIDE DEF pc
<1>3. /\ c \in Processes /\ c.pc \in {"people", "commit"} /\ c.pr = r.pr
      /\ c.content = r.content /\ c.name = r.name /\ c.snapshot = r.snapshot
  BY <1>1, <1>9 DEF Processes
<1> HIDE DEF c
<1>4. Fits(remote[r.pr], repositories, snapshots[r.pr], accounts[r.pr], c)
  BY <1>1, <1>3 DEF Fits, CollectionFits, LocatorFits, PreviousFits, ReportFits
<1>5. Holds(locks', p, c) /\ LocksMove(p, locks, locks')
  BY <1>1, <1>3, OneMoreLock DEF Holds
<1>6. Quiets(p, c)
  BY <1>1, <1>2, <1>3, <1>4, <1>5 DEF Quiets
<1> QED BY <1>3, <1>6, Quiet

\* The latest row is the last.
LEMMA LatestIsLast ==
  ASSUME NEW pr \in Prs, snapshots[pr] \in Seq(Snapshots), VersionsOK(snapshots[pr])
  PROVE  /\ Len(snapshots[pr]) = 0 => Latest(pr) = {}
         /\ Len(snapshots[pr]) # 0 => Latest(pr) = {Len(snapshots[pr])}
<1>1. Len(snapshots[pr]) \in Nat
  BY LenProperties
<1> QED BY <1>1 DEF Latest, VersionsOK

\* The end of a save: nobody else can give its name to another repository.
LEMMA Finished ==
  ASSUME NEW p \in Procs, IInv, proc[p].pc \in {"previous", "commit"},
         repositories' = [repositories EXCEPT ![RepoOf[proc[p].pr]] = proc[p].name]
  PROVE  /\ repositories' \in [Repos -> Names \cup {NoName}]
         /\ LocatorsAreDistinct'
         /\ \A q \in Procs \ {p} : proc[q].pc # "idle" => LocatorFits(repositories', proc[q])
<1> DEFINE n == proc[p].name
           r == RepoOf[proc[p].pr]
<1>1. /\ n \in Names \cup {NoName} /\ r \in Repos /\ Holds(locks, p, proc[p])
      /\ \A q \in Repos \ {r} : repositories[q] # n
      /\ repositories \in [Repos -> Names \cup {NoName}]
  BY Running, PullRequestConstants DEF Fits, LocatorFits, Processes, IInv, TypeOK
<1>2. repositories' \in [Repos -> Names \cup {NoName}]
  BY <1>1
<1>3. LocatorsAreDistinct'
  BY <1>1 DEF IInv, RowsOK, LocatorsAreDistinct
<1>4. ASSUME NEW q \in Procs \ {p}, proc[q].pc \in {"previous", "people", "commit"}
      PROVE  LocatorFits(repositories', proc[q])
  <2>1. Holds(locks, q, proc[q]) /\ LocatorFits(repositories, proc[q])
    BY <1>4, Running DEF Fits
  <2>2. proc[q].name # n
    <3>1. <<Locator(proc[q].name), q>> \in locks /\ <<Locator(n), p>> \in locks
      BY <1>1, <1>4, <2>1 DEF Holds
    <3> QED BY <3>1 DEF IInv, Exclusive
  <2> QED BY <1>1, <2>1, <2>2 DEF LocatorFits
<1>5. \A q \in Procs \ {p} : proc[q].pc # "idle" => LocatorFits(repositories', proc[q])
  BY <1>4 DEF LocatorFits
<1> QED BY <1>2, <1>3, <1>5

LEMMA PreviousKeeps == ASSUME NEW p \in Procs, IInv, SelectPrevious(p) PROVE IInv'
<1> DEFINE r == proc[p]
<1>1. /\ r.pc = "previous" /\ r \in Processes /\ r.pr \in Prs /\ Holds(locks, p, r)
      /\ Fits(remote[r.pr], repositories, snapshots[r.pr], accounts[r.pr], r)
      /\ \A i \in Latest(r.pr) : Free(Row(r.pr, i), p)
      /\ UNCHANGED <<github, snapshots, accounts>>
      /\ snapshots[r.pr] \in Seq(Snapshots) /\ VersionsOK(snapshots[r.pr])
  BY Running DEF SelectPrevious
<1>2. CASE Finish(p)
  <2>1. /\ proc' = [proc EXCEPT ![p] = Idle] /\ locks' = Released(p)
        /\ repositories' = [repositories EXCEPT ![RepoOf[r.pr]] = r.name]
    BY <1>2 DEF Finish
  <2>2. /\ repositories' \in [Repos -> Names \cup {NoName}] /\ LocatorsAreDistinct'
        /\ \A q \in Procs \ {p} : proc[q].pc # "idle" => LocatorFits(repositories', proc[q])
    BY <1>1, <2>1, Finished
  <2>3. RowsOK'
    BY <1>1, <2>2 DEF IInv, RowsOK
  <2>4. \A q \in Procs \ {p} : proc[q].pc # "idle" =>
          Fits(remote[proc[q].pr], repositories', snapshots'[proc[q].pr],
               accounts'[proc[q].pr], proc[q])
    BY <1>1, <2>2, Running DEF Fits
  <2>5. Moves(p, Idle)
    BY <1>1, <2>1, <2>2, <2>3, <2>4, IdleFacts, FewerLocks DEF Moves, IInv, TypeOK
  <2> QED BY <2>5, IdleFacts, Moved
<1>3. CASE /\ \A i \in Latest(r.pr) : snapshots[r.pr][i].content # r.content
           /\ \E i \in IF Latest(r.pr) = {} THEN {0} ELSE Latest(r.pr) :
                proc' = [proc EXCEPT ![p].pc = "people", ![p].snapshot = i]
           /\ locks' = locks \cup {<<Row(r.pr, i), p>> : i \in Latest(r.pr)}
           /\ UNCHANGED repositories
  <2>1. PICK i \in IF Latest(r.pr) = {} THEN {0} ELSE Latest(r.pr) :
          proc' = [proc EXCEPT ![p].pc = "people", ![p].snapshot = i]
    BY <1>3
  <2>2. /\ i = Len(snapshots[r.pr]) /\ i \in Nat
        /\ i # 0 => snapshots[r.pr][i].content # r.content
    BY <1>1, <1>3, LatestIsLast, LenProperties
  <2> DEFINE c == [proc[p] EXCEPT !.pc = "people", !.snapshot = i]
  <2>3. /\ c \in Processes /\ c.pc = "people" /\ c.pr = r.pr /\ c.content = r.content
        /\ c.name = r.name /\ c.snapshot = i
    BY <1>1, <2>2 DEF Processes
  <2>4. proc' = [proc EXCEPT ![p] = c]
    BY <1>1, <2>1 DEF IInv, TypeOK, Processes
  <2> HIDE DEF c
  <2>5. Fits(remote[r.pr], repositories, snapshots[r.pr], accounts[r.pr], c)
    BY <1>1, <2>2, <2>3 DEF Fits, CollectionFits, LocatorFits, PreviousFits, ReportFits
  <2> DEFINE objects == {Row(r.pr, j) : j \in Latest(r.pr)}
  <2>6. LocksMove(p, locks, locks') /\ locks \subseteq locks'
    <3>1. \A o \in objects : Free(o, p)
      BY <1>1
    <3>2. {<<Row(r.pr, j), p>> : j \in Latest(r.pr)} = {<<o, p>> : o \in objects}
      OBVIOUS
    <3> HIDE DEF objects
    <3> QED BY <1>3, <3>1, <3>2, MoreLocks
  <2>7. Holds(locks', p, c)
    BY <1>1, <2>3, <2>6 DEF Holds
  <2>8. Quiets(p, c)
    BY <1>1, <1>3, <2>3, <2>4, <2>5, <2>6, <2>7 DEF Quiets, rows
  <2> QED BY <2>3, <2>8, Quiet
<1> QED BY <1>2, <1>3 DEF SelectPrevious

\* The row that save_snapshot adds, and the flag that moves to it.
NextRow(versions, content) ==
  [version |-> Len(versions) + 1, content |-> content, latest |-> TRUE]
WithVersion(versions, content) ==
  Append([i \in DOMAIN versions |-> [versions[i] EXCEPT !.latest = FALSE]],
         NextRow(versions, content))

LEMMA VersionAdded ==
  ASSUME NEW versions \in Seq(Snapshots), VersionsOK(versions), NEW content \in Collected,
         content.head = content.pages,
         Len(versions) # 0 => versions[Len(versions)].content # content,
         NEW later, later = WithVersion(versions, content)
  PROVE  /\ later \in Seq(Snapshots) /\ VersionsOK(later)
         /\ Len(later) = Len(versions) + 1
         /\ later[Len(versions) + 1] = NextRow(versions, content)
         /\ \A i \in 1..Len(versions) :
              later[i].content = versions[i].content /\ later[i].version = versions[i].version
<1> DEFINE n == Len(versions)
           old == [i \in 1..n |-> [versions[i] EXCEPT !.latest = FALSE]]
           row == NextRow(versions, content)
<1>1. /\ n \in Nat /\ DOMAIN versions = 1..n /\ \A i \in 1..n : versions[i] \in Snapshots
  BY LenProperties, ElementOfSeq
<1>2. row.version = n + 1
  BY DEF NextRow
<1>3. row \in Snapshots /\ row.content = content /\ row.latest = TRUE
  BY <1>1 DEF Snapshots, NextRow
<1>4. \A i \in 1..n : [versions[i] EXCEPT !.latest = FALSE] \in Snapshots
  BY <1>1 DEF Snapshots
<1>5. old \in Seq(Snapshots) /\ Len(old) = n
  BY <1>1, <1>4
<1>6. \A i \in 1..n : /\ old[i].content = versions[i].content
                      /\ old[i].version = versions[i].version /\ old[i].latest = FALSE
  BY <1>1 DEF Snapshots
<1>7. later = Append(old, row)
  BY <1>1 DEF WithVersion
<1> HIDE DEF old, row
<1>8. /\ later \in Seq(Snapshots) /\ Len(later) = n + 1 /\ later[n + 1] = row
      /\ \A i \in 1..n : later[i] = old[i]
  <2>1. /\ Append(old, row) \in Seq(Snapshots) /\ Len(Append(old, row)) = Len(old) + 1
        /\ \A i \in 1..Len(old) : Append(old, row)[i] = old[i]
        /\ Append(old, row)[Len(old) + 1] = row
    BY <1>3, <1>5, AppendProperties
  <2> QED BY <1>5, <1>7, <2>1
<1>9. VersionsOK(later)
  <2> SUFFICES ASSUME NEW i \in 1..Len(later)
               PROVE  /\ later[i].version = i
                      /\ later[i].latest <=> i = Len(later)
                      /\ i > 1 => later[i].content # later[i - 1].content
                      /\ later[i].content.head = later[i].content.pages
    BY DEF VersionsOK
  <2>1. CASE i \in 1..n
    <3>1. i > 1 => i - 1 \in 1..n
      BY <1>1, <2>1
    <3>2. i # n + 1
      BY <1>1, <2>1
    <3> QED BY SMTT(30), <1>6, <1>8, <2>1, <3>1, <3>2 DEF VersionsOK
  <2>2. CASE i = n + 1
    <3>1. i > 1 => n # 0 /\ n \in 1..n /\ i - 1 = n
      BY <1>1, <2>2
    <3> QED BY <1>2, <1>3, <1>6, <1>8, <2>2, <3>1
  <2> QED BY <1>1, <1>8, <2>1, <2>2
<1> QED BY <1>2, <1>6, <1>8, <1>9 DEF row

LEMMA InsertedRow ==
  ASSUME NEW p \in Procs, IInv, proc[p].pc = "commit"
  PROVE  NewVersion(p) = NextRow(snapshots[proc[p].pr], proc[p].content)
<1> DEFINE r == proc[p]
           old == snapshots[proc[p].pr]
<1>1. /\ old \in Seq(Snapshots) /\ VersionsOK(old) /\ r.snapshot = Len(old)
  BY Running DEF Fits, PreviousFits
<1>2. Len(old) \in Nat
  BY <1>1, LenProperties
<1>3. Len(old) # 0 => old[Len(old)].version = Len(old)
  BY <1>1, <1>2 DEF VersionsOK
<1>4. (IF r.snapshot = 0 THEN 1 ELSE old[r.snapshot].version + 1) = Len(old) + 1
  BY <1>1, <1>2, <1>3
<1> QED BY <1>4 DEF NewVersion, NextRow

LEMMA InsertKeeps == ASSUME NEW p \in Procs, IInv, InsertVersion(p) PROVE IInv'
<1> DEFINE r == proc[p]
           old == snapshots[proc[p].pr]
           new == WithVersion(old, r.content)
<1>1. /\ r.pc = "commit" /\ r \in Processes /\ r.pr \in Prs /\ Holds(locks, p, r)
      /\ Fits(remote[r.pr], repositories, old, accounts[r.pr], r)
      /\ UNCHANGED <<github, accounts>>
      /\ old \in Seq(Snapshots) /\ VersionsOK(old)
      /\ AccountsOK(old, accounts[r.pr]) /\ accounts[r.pr] \in Seq(Accounts)
  BY Running DEF InsertVersion
<1>2. /\ r.content \in Collected /\ r.content.head = r.content.pages
      /\ r.snapshot = Len(old) /\ (r.snapshot # 0 => old[r.snapshot].content # r.content)
  BY <1>1 DEF Fits, CollectionFits, PreviousFits, Processes
<1>3. NewVersion(p) = NextRow(old, r.content)
  BY <1>1, InsertedRow
<1>4. /\ snapshots' = [snapshots EXCEPT ![r.pr] = new]
      /\ proc' = [proc EXCEPT ![p] = Idle] /\ locks' = Released(p)
      /\ repositories' = [repositories EXCEPT ![RepoOf[r.pr]] = r.name]
  BY <1>3 DEF InsertVersion, Finish, WithVersion
<1> HIDE DEF new
<1>5. /\ new \in Seq(Snapshots) /\ VersionsOK(new) /\ Len(new) = Len(old) + 1
      /\ \A i \in 1..Len(old) : new[i].content = old[i].content
  BY <1>1, <1>2, VersionAdded DEF new
<1>6. Len(old) \in Nat /\ Len(new) \in Nat /\ Len(old) <= Len(new) /\ 1..Len(old) \subseteq 1..Len(new)
  BY <1>1, <1>5, LenProperties
<1>7. snapshots' \in [Prs -> Seq(Snapshots)]
  BY <1>4, <1>5 DEF IInv, TypeOK
<1>8. /\ repositories' \in [Repos -> Names \cup {NoName}] /\ LocatorsAreDistinct'
      /\ \A q \in Procs \ {p} : proc[q].pc # "idle" => LocatorFits(repositories', proc[q])
  BY <1>1, <1>4, Finished
<1>9. RowsOK'
  <2> SUFFICES ASSUME NEW pr \in Prs
               PROVE  /\ VersionsOK(snapshots'[pr])
                      /\ AccountsOK(snapshots'[pr], accounts'[pr])
                      /\ CurrentOK(accounts'[pr])
    BY <1>8 DEF RowsOK
  <2>1. CASE pr = r.pr
    <3>1. AccountsOK(new, accounts[pr])
      BY <1>1, <1>5, <1>6, <2>1 DEF AccountsOK
    <3> QED BY <1>1, <1>4, <1>5, <2>1, <3>1 DEF IInv, TypeOK, RowsOK
  <2>2. CASE pr # r.pr
    BY <1>1, <1>4, <2>2 DEF IInv, TypeOK, RowsOK
  <2> QED BY <2>1, <2>2
<1>10. ASSUME NEW q \in Procs \ {p}, proc[q].pc # "idle"
       PROVE  Fits(remote[proc[q].pr], repositories', snapshots'[proc[q].pr],
                   accounts'[proc[q].pr], proc[q])
  <2>1. /\ proc[q] \in Processes /\ proc[q].pr \in Prs /\ Holds(locks, q, proc[q])
        /\ Fits(remote[proc[q].pr], repositories, snapshots[proc[q].pr],
                accounts[proc[q].pr], proc[q])
        /\ LocatorFits(repositories', proc[q])
    BY <1>8, <1>10, Running
  <2>2. CASE proc[q].pr # r.pr
    BY <1>1, <1>4, <2>1, <2>2 DEF Fits, IInv, TypeOK
  <2>3. CASE proc[q].pr = r.pr
    <3>1. proc[q].pc \notin {"people", "commit"}
      <4> SUFFICES ASSUME proc[q].pc \in {"people", "commit"} PROVE FALSE
        OBVIOUS
      <4>1. <<Identity(RepoOf[r.pr]), q>> \in locks /\ <<Identity(RepoOf[r.pr]), p>> \in locks
        BY <1>1, <2>1, <2>3 DEF Holds
      <4> QED BY <4>1 DEF IInv, Exclusive
    <3>2. Fits(remote[r.pr], repositories', new, accounts[r.pr], proc[q])
      <4>1. Len(accounts[r.pr]) \in Nat /\ Len(accounts[r.pr]) <= Len(accounts[r.pr])
        BY <1>1, LenProperties
      <4> QED BY <1>1, <1>5, <1>6, <2>1, <2>3, <3>1, <4>1, StillFits
    <3> QED BY <1>1, <1>4, <2>3, <3>2 DEF IInv, TypeOK
  <2> QED BY <2>2, <2>3
<1>11. Moves(p, Idle)
  BY <1>1, <1>4, <1>7, <1>8, <1>9, <1>10, IdleFacts, FewerLocks DEF Moves, IInv, TypeOK
<1> QED BY <1>11, IdleFacts, Moved

LEMMA FailKeeps == ASSUME NEW p \in Procs, IInv, Fail(p) PROVE IInv'
  BY Ended DEF Fail

-----------------------------------------------------------------------------
(* Accounts *)

LEMMA LoadKeeps ==
  ASSUME NEW p \in Procs, NEW pr \in Prs, NEW auto \in BOOLEAN, IInv, load_snapshot(p, pr, auto)
  PROVE  IInv'
<1>1. PICK i \in Latest(pr) :
        proc' = [proc EXCEPT ![p] =
          [Idle EXCEPT !.pc = IF auto THEN "select" ELSE "save", !.pr = pr,
             !.auto = auto, !.snapshot = i, !.content = snapshots[pr][i].content]]
  BY DEF load_snapshot
<1> DEFINE pc == IF auto THEN "select" ELSE "save"
           c == [Idle EXCEPT !.pc = pc, !.pr = pr, !.auto = auto, !.snapshot = i,
                             !.content = snapshots[pr][i].content]
<1>2. /\ i \in 1..Len(snapshots[pr]) /\ i \in Nat /\ snapshots[pr][i].content \in Collected
  <2>1. snapshots[pr] \in Seq(Snapshots) /\ i \in 1..Len(snapshots[pr])
    BY DEF IInv, TypeOK, Latest
  <2>2. snapshots[pr][i] \in Snapshots
    BY <2>1, ElementOfSeq
  <2> QED BY <2>1, <2>2, LenProperties DEF Snapshots
<1>3. pc \in {"select", "save"} /\ proc' = [proc EXCEPT ![p] = c]
  BY <1>1
<1> HIDE DEF pc
<1>4. /\ c \in Processes /\ c.pc = pc /\ c.pr = pr /\ c.snapshot = i
      /\ c.content = snapshots[pr][i].content
  BY <1>2, <1>3, IdleFacts DEF Processes
<1> HIDE DEF c
<1>5. Fits(remote[pr], repositories, snapshots[pr], accounts[pr], c)
  BY <1>2, <1>3, <1>4 DEF Fits, CollectionFits, LocatorFits, PreviousFits, ReportFits
<1>6. Quiets(p, c)
  BY <1>3, <1>4, <1>5, SameLocks DEF Quiets, Holds, load_snapshot
<1> QED BY <1>4, <1>6, Quiet

LEMMA ReturnKeeps == ASSUME NEW p \in Procs, IInv, Return(p) PROVE IInv'
  BY Ended DEF Return

LEMMA SaveAccountKeeps == ASSUME NEW p \in Procs, IInv, SaveAccount(p) PROVE IInv'
<1>1. PICK status \in {"published", "needs_review"} :
        proc' = [proc EXCEPT ![p].pc = "close", ![p].status = status]
  BY DEF SaveAccount
<1> DEFINE r == proc[p]
           c == [proc[p] EXCEPT !.pc = "close", !.status = status]
           object == Row(proc[p].pr, proc[p].snapshot)
<1>2. /\ r.pc = "save" /\ r \in Processes /\ r.pr \in Prs /\ Free(object, p)
      /\ Fits(remote[r.pr], repositories, snapshots[r.pr], accounts[r.pr], r)
      /\ UNCHANGED <<github, rows>> /\ locks' = locks \cup {<<object, p>>}
  BY Running DEF SaveAccount, Savable, Locked
<1>3. /\ c \in Processes /\ c.pc = "close" /\ c.pr = r.pr /\ c.snapshot = r.snapshot
      /\ c.content = r.content /\ proc' = [proc EXCEPT ![p] = c]
  BY <1>1, <1>2 DEF Processes, IInv, TypeOK
<1> HIDE DEF c
<1>4. Fits(remote[r.pr], repositories, snapshots[r.pr], accounts[r.pr], c)
  BY <1>2, <1>3 DEF Fits, CollectionFits, LocatorFits, PreviousFits, ReportFits
<1>5. Quiets(p, c)
  BY <1>2, <1>3, <1>4, OneMoreLock DEF Quiets, Holds
<1> QED BY <1>3, <1>5, Quiet

\* The rows after save_account: what was stored keeps its content, and one account of
\* the version, the newest published one, is current.
Added(reports, row) ==
  LET replaced(a) == row.status = "published" /\ reports[a].snapshot = row.snapshot IN
  Append([a \in DOMAIN reports |-> [reports[a] EXCEPT !.current = @ /\ ~replaced(a)]], row)

NewCurrent(row) == row \in Accounts /\ (row.current <=> row.status = "published")

LongerBy(later, reports, row) ==
  /\ later \in Seq(Accounts) /\ CurrentOK(later)
  /\ Len(later) = Len(reports) + 1 /\ later[Len(reports) + 1] = row
  /\ \A a \in 1..Len(reports) :
       /\ later[a].status = reports[a].status /\ later[a].from = reports[a].from
       /\ later[a].snapshot = reports[a].snapshot

LEMMA AccountAdded ==
  ASSUME NEW reports \in Seq(Accounts), CurrentOK(reports), NEW row, NewCurrent(row),
         NEW later, later = Added(reports, row)
  PROVE  LongerBy(later, reports, row)
<1> DEFINE n == Len(reports)
           replaced(a) == row.status = "published" /\ reports[a].snapshot = row.snapshot
           old == [a \in 1..n |->
                     [reports[a] EXCEPT !.current = reports[a].current /\ ~replaced(a)]]
<1>0. row \in Accounts /\ (row.current <=> row.status = "published")
  BY DEF NewCurrent
<1> USE <1>0
<1>1. /\ n \in Nat /\ DOMAIN reports = 1..n /\ \A a \in 1..n : reports[a] \in Accounts
  BY LenProperties, ElementOfSeq
<1>2. \A a \in 1..n :
        [reports[a] EXCEPT !.current = reports[a].current /\ ~replaced(a)] \in Accounts
  BY <1>1 DEF Accounts
<1>3. old \in Seq(Accounts) /\ Len(old) = n
  BY <1>1, <1>2
<1>4. \A a \in 1..n :
        /\ old[a].status = reports[a].status /\ old[a].from = reports[a].from
        /\ old[a].snapshot = reports[a].snapshot
        /\ old[a].current <=> reports[a].current /\ ~replaced(a)
  BY <1>1 DEF Accounts
<1>5. later = Append(old, row)
  BY <1>1 DEF Added
<1> HIDE DEF old
<1>6. /\ later \in Seq(Accounts) /\ Len(later) = n + 1 /\ later[n + 1] = row
      /\ \A a \in 1..n : later[a] = old[a]
  <2>1. /\ Append(old, row) \in Seq(Accounts) /\ Len(Append(old, row)) = Len(old) + 1
        /\ \A a \in 1..Len(old) : Append(old, row)[a] = old[a]
        /\ Append(old, row)[Len(old) + 1] = row
    BY <1>3, AppendProperties
  <2> QED BY <1>3, <1>5, <2>1
<1>7. \A a \in 1..n :
        /\ later[a].status = reports[a].status /\ later[a].from = reports[a].from
        /\ later[a].snapshot = reports[a].snapshot
        /\ later[a].current <=> reports[a].current /\ ~replaced(a)
  BY <1>4, <1>6
<1>8. ASSUME NEW a \in 1..(n + 1), later[a].current
      PROVE  /\ IsPublished(later, a)
             /\ \A b \in 1..(n + 1) :
                  IsPublished(later, b) /\ later[b].snapshot = later[a].snapshot => b <= a
  <2>1. CASE a = n + 1
    <3>1. IsPublished(later, a)
      BY <1>6, <1>8, <2>1 DEF IsPublished
    <3>2. \A b \in 1..(n + 1) : b <= a
      BY <1>1, <2>1
    <3> QED BY <3>1, <3>2
  <2>2. CASE a \in 1..n
    <3>1. /\ IsPublished(reports, a) /\ ~replaced(a)
          /\ \A b \in 1..n :
               IsPublished(reports, b) /\ reports[b].snapshot = reports[a].snapshot => b <= a
      BY <1>7, <1>8, <2>2 DEF CurrentOK
    <3>2. IsPublished(later, a)
      BY <1>7, <2>2, <3>1 DEF IsPublished
    <3>3. ASSUME NEW b \in 1..(n + 1), IsPublished(later, b), later[b].snapshot = later[a].snapshot
          PROVE  b <= a
      <4>1. CASE b \in 1..n
        BY <1>7, <2>2, <3>1, <3>3, <4>1 DEF IsPublished
      <4>2. CASE b = n + 1
        BY <1>6, <1>7, <2>2, <3>1, <3>3, <4>2 DEF IsPublished
      <4> QED BY <1>1, <4>1, <4>2
    <3> QED BY <3>2, <3>3
  <2> QED BY <1>1, <2>1, <2>2
<1>9. ASSUME NEW a \in 1..(n + 1), IsPublished(later, a)
      PROVE  \E b \in 1..(n + 1) : later[b].current /\ later[b].snapshot = later[a].snapshot
  <2>1. n + 1 \in 1..(n + 1) /\ 1..n \subseteq 1..(n + 1)
    BY <1>1
  <2>2. CASE a = n + 1
    BY <1>6, <1>9, <2>1, <2>2 DEF IsPublished
  <2>3. CASE a \in 1..n
    <3>1. PICK b \in 1..n : reports[b].current /\ reports[b].snapshot = reports[a].snapshot
      BY <1>7, <1>9, <2>3 DEF CurrentOK, IsPublished
    <3>2. CASE replaced(b)
      <4>1. later[n + 1].current
        BY <1>6, <3>2
      <4>2. later[n + 1].snapshot = later[a].snapshot
        BY ZenonT(60), <1>6, <1>7, <2>3, <3>1, <3>2
      <4> QED BY <2>1, <4>1, <4>2
    <3>3. CASE ~replaced(b)
      BY <1>7, <2>1, <2>3, <3>1, <3>3
    <3> QED BY <3>2, <3>3
  <2> QED BY <1>1, <2>2, <2>3
<1>10. CurrentOK(later)
  BY <1>6, <1>8, <1>9 DEF CurrentOK
<1> QED BY <1>6, <1>7, <1>10 DEF LongerBy

\* What save_account adds to the rows of its pull request, by whichever process.
Saves(p, status) == accounts' = [accounts EXCEPT ![proc[p].pr] = WithAccount(p, status)]

LEMMA Saved ==
  ASSUME NEW p \in Procs, NEW status \in {"published", "needs_review"}, IInv,
         proc[p].pc \in {"save", "close"}, Saves(p, status),
         UNCHANGED <<github, repositories, snapshots>>
  PROVE  /\ accounts' \in [Prs -> Seq(Accounts)] /\ RowsOK'
         /\ Len(accounts'[proc[p].pr]) = Len(accounts[proc[p].pr]) + 1
         /\ accounts'[proc[p].pr][Len(accounts[proc[p].pr]) + 1] =
              Account(p, proc[p].snapshot, status)
         /\ \A q \in Procs : proc[q].pc # "idle" =>
              Fits(remote[proc[q].pr], repositories', snapshots'[proc[q].pr],
                   accounts'[proc[q].pr], proc[q])
<1> DEFINE r == proc[p]
           old == accounts[r.pr]
           row == Account(p, r.snapshot, status)
           new == Added(old, row)
<1>1. /\ r \in Processes /\ r.pr \in Prs /\ old \in Seq(Accounts) /\ CurrentOK(old)
      /\ snapshots[r.pr] \in Seq(Snapshots) /\ AccountsOK(snapshots[r.pr], old)
      /\ r.snapshot \in 1..Len(snapshots[r.pr])
      /\ snapshots[r.pr][r.snapshot].content = r.content
      /\ accounts \in [Prs -> Seq(Accounts)]
  BY Running DEF Fits, ReportFits, IInv, TypeOK
<1>2. /\ row \in Accounts /\ row.status = status /\ row.snapshot = r.snapshot
      /\ row.from = r.content /\ (row.current <=> row.status = "published")
  <2>1. r.snapshot \in Nat \ {0} /\ r.content \in Collected
    BY <1>1, LenProperties DEF Processes
  <2> QED BY <2>1 DEF Account, Accounts
<1>3. WithAccount(p, status) = new
  BY DEF WithAccount, Added, Account
<1> HIDE DEF row
<1>4. /\ new \in Seq(Accounts) /\ CurrentOK(new)
      /\ Len(new) = Len(old) + 1 /\ new[Len(old) + 1] = row
      /\ \A a \in 1..Len(old) :
           /\ new[a].status = old[a].status /\ new[a].from = old[a].from
           /\ new[a].snapshot = old[a].snapshot
  <2>1. old \in Seq(Accounts) /\ CurrentOK(old)
    BY <1>1
  <2>2. new = Added(old, row)
    OBVIOUS
  <2>3. NewCurrent(row)
    BY <1>2 DEF NewCurrent
  <2> HIDE DEF old, new
  <2>4. LongerBy(new, old, row)
    BY <2>1, <2>2, <2>3, AccountAdded
  <2> QED BY <2>4 DEF LongerBy
<1> HIDE DEF new
<1>5. accounts' = [accounts EXCEPT ![r.pr] = new]
  BY <1>3 DEF Saves
<1>6. accounts' \in [Prs -> Seq(Accounts)] /\ accounts'[r.pr] = new
      /\ \A pr \in Prs \ {r.pr} : accounts'[pr] = accounts[pr]
  BY <1>1, <1>4, <1>5
<1>7. Len(old) \in Nat /\ Len(new) \in Nat /\ Len(old) <= Len(new)
      /\ 1..Len(new) = 1..Len(old) \cup {Len(old) + 1}
  <2>1. Len(old) \in Nat /\ Len(new) = Len(old) + 1
    BY <1>1, <1>4, LenProperties
  <2> HIDE DEF old
  <2> QED BY <2>1
<1>8. AccountsOK(snapshots[r.pr], new)
  <2> SUFFICES ASSUME NEW a \in 1..Len(new)
               PROVE  /\ new[a].snapshot \in 1..Len(snapshots[r.pr])
                      /\ new[a].from = snapshots[r.pr][new[a].snapshot].content
    BY DEF AccountsOK
  <2>1. CASE a \in 1..Len(old)
    BY <1>1, <1>4, <2>1 DEF AccountsOK
  <2>2. CASE a = Len(old) + 1
    BY <1>1, <1>2, <1>4, <2>2
  <2> QED BY <1>7, <2>1, <2>2
<1>9. RowsOK'
  <2> SUFFICES ASSUME NEW pr \in Prs
               PROVE  AccountsOK(snapshots[pr], accounts'[pr]) /\ CurrentOK(accounts'[pr])
    BY DEF IInv, RowsOK, LocatorsAreDistinct
  <2>1. CASE pr = r.pr
    BY <1>4, <1>6, <1>8, <2>1
  <2>2. CASE pr # r.pr
    BY <1>6, <2>2 DEF IInv, RowsOK
  <2> QED BY <2>1, <2>2
<1>10. ASSUME NEW q \in Procs, proc[q].pc # "idle"
       PROVE  Fits(remote[proc[q].pr], repositories', snapshots'[proc[q].pr],
                   accounts'[proc[q].pr], proc[q])
  <2>1. /\ proc[q] \in Processes /\ proc[q].pr \in Prs
        /\ Fits(remote[proc[q].pr], repositories, snapshots[proc[q].pr],
                accounts[proc[q].pr], proc[q])
        /\ LocatorFits(repositories, proc[q])
    BY <1>10, Running DEF Fits
  <2>2. CASE proc[q].pr # r.pr
    BY <1>6, <2>1, <2>2
  <2>3. CASE proc[q].pr = r.pr
    <3>1. Len(snapshots[r.pr]) \in Nat /\ Len(snapshots[r.pr]) <= Len(snapshots[r.pr])
      BY <1>1, LenProperties
    <3>2. /\ Fits(remote[r.pr], repositories, snapshots[r.pr], old, proc[q])
          /\ proc[q] \in Processes /\ LocatorFits(repositories, proc[q])
      BY <2>1, <2>3
    <3>3. snapshots[r.pr] \in Seq(Snapshots) /\ old \in Seq(Accounts)
      BY <1>1
    <3>4. \A a \in 1..Len(old) : new[a].status = old[a].status /\ new[a].from = old[a].from
      BY <1>4
    <3>5. Len(old) <= Len(new) /\ Len(new) \in Nat
      BY <1>7
    <3> HIDE DEF old, r
    <3>6. Fits(remote[r.pr], repositories, snapshots[r.pr], new, proc[q])
      BY <3>1, <3>2, <3>3, <3>4, <3>5, StillFits
    <3> QED BY <1>6, <2>3, <3>6
  <2> QED BY <2>2, <2>3
<1> QED BY <1>4, <1>6, <1>9, <1>10 DEF row

\* resolve_reports takes the current account of the version.
LEMMA PreferredIsCurrent ==
  ASSUME NEW pr \in Prs, NEW i, accounts[pr] \in Seq(Accounts), CurrentOK(accounts[pr]),
         Published(pr, i) # {}
  PROVE  /\ Preferred(pr, Published(pr, i)) \in 1..Len(accounts[pr])
         /\ IsPublished(accounts[pr], Preferred(pr, Published(pr, i)))
         /\ accounts[pr][Preferred(pr, Published(pr, i))].snapshot = i
<1> DEFINE candidates == Published(pr, i)
           current == {a \in candidates : accounts[pr][a].current}
<1>1. \A a : a \in candidates <=>
        a \in 1..Len(accounts[pr]) /\ accounts[pr][a].snapshot = i /\ IsPublished(accounts[pr], a)
  BY DEF Published, OfSnapshot, IsPublished
<1>2. PICK b \in current : TRUE
  <2>1. PICK a \in candidates : TRUE
    OBVIOUS
  <2>2. PICK b \in 1..Len(accounts[pr]) : accounts[pr][b].current /\ accounts[pr][b].snapshot = i
    BY <1>1, <2>1 DEF CurrentOK
  <2>3. IsPublished(accounts[pr], b)
    BY <2>2 DEF CurrentOK
  <2> QED BY <1>1, <2>2, <2>3
<1>3. ASSUME NEW x \in current, NEW y \in current PROVE x = y
  <2>1. x <= y /\ y <= x
    <3>1. /\ x \in 1..Len(accounts[pr]) /\ accounts[pr][x].current
          /\ IsPublished(accounts[pr], x) /\ accounts[pr][x].snapshot = i
      BY <1>1, <1>3
    <3>2. /\ y \in 1..Len(accounts[pr]) /\ accounts[pr][y].current
          /\ IsPublished(accounts[pr], y) /\ accounts[pr][y].snapshot = i
      BY <1>1, <1>3
    <3> HIDE DEF current
    <3> QED BY <3>1, <3>2 DEF CurrentOK
  <2>2. x \in Int /\ y \in Int
    BY <1>1
  <2> QED BY <2>1, <2>2
<1>4. current = {b} /\ b \in Int
  BY <1>1, <1>2, <1>3
<1>5. Preferred(pr, candidates) = Max(current)
  BY <1>4 DEF Preferred
<1>6. Max(current) = b
  BY <1>4 DEF Max
<1> QED BY <1>1, <1>2, <1>5, <1>6

LEMMA SelectKeeps == ASSUME NEW p \in Procs, IInv, SelectReport(p) PROVE IInv'
<1> DEFINE r == proc[p]
           reports == accounts[proc[p].pr]
           published == Published(proc[p].pr, proc[p].snapshot)
<1>1. /\ r.pc = "select" /\ r \in Processes /\ r.pr \in Prs
      /\ Fits(remote[r.pr], repositories, snapshots[r.pr], reports, r)
      /\ r.snapshot \in 1..Len(snapshots[r.pr])
      /\ snapshots[r.pr][r.snapshot].content = r.content
      /\ reports \in Seq(Accounts) /\ CurrentOK(reports) /\ AccountsOK(snapshots[r.pr], reports)
      /\ UNCHANGED <<github, rows, locks>>
  BY Running DEF SelectReport, Fits, ReportFits
<1>2. CASE published = {}
  <2> DEFINE c == [proc[p] EXCEPT !.pc = "save"]
  <2>1. /\ c \in Processes /\ c.pc = "save" /\ c.pr = r.pr /\ c.snapshot = r.snapshot
        /\ c.content = r.content /\ proc' = [proc EXCEPT ![p] = c]
    BY <1>1, <1>2 DEF Processes, SelectReport, Goto
  <2> HIDE DEF c
  <2>2. Fits(remote[r.pr], repositories, snapshots[r.pr], reports, c)
    BY <1>1, <2>1 DEF Fits, CollectionFits, LocatorFits, PreviousFits, ReportFits
  <2>3. Quiets(p, c)
    BY <1>1, <2>1, <2>2, SameLocks DEF Quiets, Holds
  <2> QED BY <2>1, <2>3, Quiet
<1>3. CASE published # {}
  <2>1. PICK a \in 1..Len(reports) :
          a = Preferred(r.pr, published) /\ IsPublished(reports, a) /\ reports[a].snapshot = r.snapshot
    BY <1>1, <1>3, PreferredIsCurrent
  <2> DEFINE c == [proc[p] EXCEPT !.pc = "selected", !.account = a]
  <2>2. a \in Nat /\ reports[a].from = r.content
    <3>1. AccountsOK(snapshots[r.pr], reports)
      BY <1>1
    <3>2. reports[a].from = snapshots[r.pr][r.snapshot].content
      BY <2>1, <3>1 DEF AccountsOK
    <3>3. a \in Nat
      BY <2>1
    <3> QED BY <1>1, <3>2, <3>3
  <2>3. /\ c \in Processes /\ c.pc = "selected" /\ c.pr = r.pr /\ c.snapshot = r.snapshot
        /\ c.content = r.content /\ c.account = a
    BY <1>1, <2>2 DEF Processes
  <2>4. proc' = [proc EXCEPT ![p] = c]
    BY <1>1, <1>3, <2>1 DEF Processes, SelectReport, Selected, IInv, TypeOK
  <2> HIDE DEF c
  <2>5. Fits(remote[r.pr], repositories, snapshots[r.pr], reports, c)
    BY <1>1, <2>1, <2>2, <2>3 DEF Fits, CollectionFits, LocatorFits, PreviousFits, ReportFits
  <2>6. Quiets(p, c)
    BY <1>1, <2>3, <2>4, <2>5, SameLocks DEF Quiets, Holds
  <2> QED BY <2>3, <2>6, Quiet
<1> QED BY <1>2, <1>3

LEMMA CloseKeeps == ASSUME NEW p \in Procs, IInv, CloseSummary(p) PROVE IInv'
<1>1. /\ proc[p].pc = "close" /\ proc[p] \in Processes
      /\ proc' = [proc EXCEPT ![p] = Idle] /\ locks' = Released(p)
      /\ UNCHANGED <<github, repositories, snapshots>>
  BY Running DEF CloseSummary
<1>2. PICK status \in {"published", "needs_review"} : status = proc[p].status
  BY <1>1 DEF Processes
<1>3. Saves(p, status)
  BY <1>2 DEF Saves, CloseSummary
<1>4. /\ accounts' \in [Prs -> Seq(Accounts)] /\ RowsOK'
      /\ \A q \in Procs : proc[q].pc # "idle" =>
           Fits(remote[proc[q].pr], repositories', snapshots'[proc[q].pr],
                accounts'[proc[q].pr], proc[q])
  BY <1>1, <1>3, Saved
<1>5. Moves(p, Idle)
  BY <1>1, <1>4, IdleFacts, FewerLocks DEF Moves, IInv, TypeOK
<1> QED BY <1>5, IdleFacts, Moved

LEMMA SaveAndSelectKeeps == ASSUME NEW p \in Procs, IInv, SaveAndSelect(p) PROVE IInv'
<1> DEFINE r == proc[p]
           old == accounts[proc[p].pr]
<1>1. PICK status \in {"published", "needs_review"} :
        /\ Saves(p, status)
        /\ IF status = "published" THEN Selected(p, Len(old) + 1)
                                   ELSE proc' = [proc EXCEPT ![p] = Idle]
  BY DEF SaveAndSelect, Saves
<1>2. /\ r.pc = "save" /\ r \in Processes /\ r.pr \in Prs
      /\ Fits(remote[r.pr], repositories, snapshots[r.pr], old, r)
      /\ UNCHANGED <<github, repositories, snapshots, locks>>
      /\ old \in Seq(Accounts) /\ Len(old) \in Nat
  BY Running, LenProperties DEF SaveAndSelect, Savable
<1>3. /\ accounts' \in [Prs -> Seq(Accounts)] /\ RowsOK'
      /\ Len(accounts'[r.pr]) = Len(old) + 1
      /\ accounts'[r.pr][Len(old) + 1] = Account(p, r.snapshot, status)
      /\ \A q \in Procs : proc[q].pc # "idle" =>
           Fits(remote[proc[q].pr], repositories', snapshots'[proc[q].pr],
                accounts'[proc[q].pr], proc[q])
  BY <1>1, <1>2, Saved
<1>4. CASE status = "published"
  <2> DEFINE n == Len(old) + 1
             c == [proc[p] EXCEPT !.pc = "selected", !.account = n]
  <2>1. n \in Nat /\ n \in 1..Len(accounts'[r.pr])
    BY <1>2, <1>3
  <2>2. proc' = [proc EXCEPT ![p] = c]
    BY <1>1, <1>2, <1>4 DEF Selected, Processes, IInv, TypeOK
  <2> HIDE DEF n
  <2>3. /\ c \in Processes /\ c.pc = "selected" /\ c.pr = r.pr /\ c.snapshot = r.snapshot
        /\ c.content = r.content /\ c.account = n
    BY <1>2, <2>1 DEF Processes
  <2> HIDE DEF c
  <2>4. /\ IsPublished(accounts'[r.pr], n) /\ accounts'[r.pr][n].from = r.content
    BY <1>3, <1>4 DEF IsPublished, Account, n
  <2>5. Fits(remote[r.pr], repositories', snapshots'[r.pr], accounts'[r.pr], c)
    BY <1>2, <2>1, <2>3, <2>4
       DEF Fits, CollectionFits, LocatorFits, PreviousFits, ReportFits
  <2>6. Moves(p, c)
    BY <1>2, <1>3, <2>2, <2>3, <2>5, SameLocks DEF Moves, Holds, IInv, TypeOK
  <2> QED BY <2>3, <2>6, Moved
<1>5. CASE status # "published"
  <2>1. Moves(p, Idle)
    BY <1>1, <1>2, <1>3, <1>5, IdleFacts, SameLocks DEF Moves, IInv, TypeOK
  <2> QED BY <2>1, IdleFacts, Moved
<1> QED BY <1>4, <1>5

-----------------------------------------------------------------------------
(* The invariant *)

LEMMA InitIsRight == Init => IInv
<1> SUFFICES ASSUME Init PROVE IInv
  OBVIOUS
<1>1. TypeOK
  BY IdleFacts, EmptySeq, PullRequestConstants DEF Init, TypeOK
<1>2. ASSUME NEW pr \in Prs PROVE Len(snapshots[pr]) = 0 /\ Len(accounts[pr]) = 0
  BY EmptySeq DEF Init
<1>3. RowsOK
  BY <1>2, PullRequestConstants
     DEF RowsOK, VersionsOK, AccountsOK, CurrentOK, LocatorsAreDistinct, Init
<1>4. Exclusive(locks)
  BY DEF Init, Exclusive
<1>5. \A p \in Procs : CommandOK(p)
  BY IdleFacts DEF Init, CommandOK
<1> QED BY <1>1, <1>3, <1>4, <1>5 DEF IInv

LEMMA NextKeeps == IInv /\ [Next]_vars => IInv'
<1> SUFFICES ASSUME IInv, [Next]_vars PROVE IInv'
  OBVIOUS
<1>1. CASE \E pr \in Prs : Edit(pr)
  BY <1>1, EditKeeps
<1>2. CASE \E r \in Repos : Rename(r)
  BY <1>2, RenameKeeps
<1>3. ASSUME NEW p \in Procs, NEW pr \in Prs, Start(p, pr) PROVE IInv'
  BY <1>3, GetHeadKeeps, LoadKeeps DEF Start
<1>4. ASSUME NEW p \in Procs, Ingest(p) PROVE IInv'
  BY <1>4, GetPagesKeeps, RefreshKeeps, LockIdentityKeeps, LockLocatorKeeps, PreviousKeeps,
     UpsertKeeps, InsertKeeps DEF Ingest
<1>5. ASSUME NEW p \in Procs, Summarize(p) PROVE IInv'
  BY <1>5, SelectKeeps, ReturnKeeps, SaveAccountKeeps, CloseKeeps, SaveAndSelectKeeps
     DEF Summarize
<1>6. CASE UNCHANGED vars
  <2> USE <1>6
  <2>1. TypeOK' /\ Exclusive(locks')
    BY DEF IInv, TypeOK, vars
  <2>2. RowsOK'
    BY DEF IInv, RowsOK, LocatorsAreDistinct, vars
  <2>3. \A p \in Procs : CommandOK(p)'
    BY DEF IInv, CommandOK, vars
  <2> QED BY <2>1, <2>2, <2>3 DEF IInv
<1> QED BY <1>1, <1>2, <1>3, <1>4, <1>5, <1>6, FailKeeps DEF Next, Continue

\* However ingest, summarize and aggregate processes, edits and renames interleave and
\* fail: the rows are well-formed, and what each command has read fits them.
THEOREM Invariance == Spec => []IInv
<1>1. Init => IInv
  BY InitIsRight
<1>2. IInv /\ [Next]_vars => IInv'
  BY NextKeeps
<1> QED BY <1>1, <1>2, PTL DEF Spec

-----------------------------------------------------------------------------
(* What follows from it *)

\* Rows, locks and what the processes have read have the types of their columns.
THEOREM TypeCorrect == Spec => []TypeOK
<1>1. IInv => TypeOK
  BY DEF IInv
<1> QED BY <1>1, Invariance, PTL

\* fetch_pull_request compares updated_at after the pages: every stored version has
\* its head and its records from one state of the pull request.
THEOREM CollectedInOneState == Spec => []MovingPullRequestsAreNotStored
<1>1. IInv => MovingPullRequestsAreNotStored
  BY DEF IInv, RowsOK, VersionsOK, MovingPullRequestsAreNotStored
<1> QED BY <1>1, Invariance, PTL

\* reconcile_repository under its two advisory locks: no two repositories hold one
\* stored locator, whatever renames the collections saw and in whatever order.
THEOREM LocatorsStayDistinct == Spec => []LocatorsAreDistinct
<1>1. IInv => LocatorsAreDistinct
  BY DEF IInv, RowsOK
<1> QED BY <1>1, Invariance, PTL

LEMMA OneIsNewest ==
  ASSUME NEW pr \in Prs, accounts[pr] \in Seq(Accounts), CurrentOK(accounts[pr]),
         NEW a \in 1..Len(accounts[pr])
  PROVE  accounts[pr][a].current
           <=> a = Max(Published(pr, accounts[pr][a].snapshot) \cup {0})
<1> DEFINE published == Published(pr, accounts[pr][a].snapshot)
<1>1. \A b : b \in published <=> /\ b \in 1..Len(accounts[pr])
                                  /\ accounts[pr][b].snapshot = accounts[pr][a].snapshot
                                  /\ IsPublished(accounts[pr], b)
  BY DEF Published, OfSnapshot, IsPublished
<1> HIDE DEF published
<1>2. ASSUME NEW b \in published, \A d \in published : d <= b
      PROVE  Max(published \cup {0}) = b
  <2>1. b \in Int /\ b >= 0 /\ \A d \in published \cup {0} : b >= d /\ d \in Int
    BY <1>1, <1>2
  <2>2. \A x \in published \cup {0} :
          (\A y \in published \cup {0} : x >= y) => x = b
    BY <2>1
  <2> QED BY <2>1, <2>2 DEF Max
<1>3. CASE published = {}
  <2>1. Max(published \cup {0}) = 0
    BY <1>3 DEF Max
  <2>2. ~accounts[pr][a].current
    BY <1>1, <1>3 DEF CurrentOK
  <2>3. a # 0
    OBVIOUS
  <2> QED BY <2>1, <2>2, <2>3 DEF published
<1>4. CASE published # {}
  <2>1. PICK d \in published : TRUE
    BY <1>4
  <2>2. PICK b \in 1..Len(accounts[pr]) :
          accounts[pr][b].current /\ accounts[pr][b].snapshot = accounts[pr][a].snapshot
    BY <1>1, <2>1 DEF CurrentOK
  <2>3. b \in published /\ \A e \in published : e <= b
    BY <1>1, <2>2 DEF CurrentOK
  <2>4. Max(published \cup {0}) = b
    BY <1>2, <2>3
  <2>5. accounts[pr][a].current => a = b
    <3> SUFFICES ASSUME accounts[pr][a].current PROVE a = b
      OBVIOUS
    <3>1. a \in published /\ b <= a
      BY <1>1, <2>3 DEF CurrentOK
    <3>2. a <= b /\ a \in Int /\ b \in Int
      BY <1>1, <2>3, <3>1
    <3> QED BY <3>1, <3>2
  <2> QED BY <2>2, <2>4, <2>5 DEF published
<1> QED BY <1>3, <1>4

\* The current account of a version is its newest published one, whatever reruns fail
\* and whichever process is slower.
THEOREM NewestIsCurrent == Spec => []CurrentIsNewestPublished
<1>1. IInv => CurrentIsNewestPublished
  BY OneIsNewest DEF IInv, RowsOK, TypeOK, CurrentIsNewestPublished
<1> QED BY <1>1, Invariance, PTL

\* An account is attached to the version whose content the model was given, whatever
\* versions were stored in the meantime.
THEOREM AccountsFit == Spec => []AccountsFitTheirSnapshot
<1>1. IInv => AccountsFitTheirSnapshot
  BY DEF IInv, RowsOK, AccountsOK, AccountsFitTheirSnapshot
<1> QED BY <1>1, Invariance, PTL

\* resolve_reports: what enters a combined report is a published account of the
\* content that was resolved.
THEOREM InputsPublished == Spec => []InputsArePublished
<1>1. ASSUME IInv, NEW p \in Procs, proc[p].pc = "selected"
      PROVE  /\ IsPublished(accounts[proc[p].pr], proc[p].account)
             /\ accounts[proc[p].pr][proc[p].account].from = proc[p].content
  BY <1>1, Running DEF Fits, ReportFits
<1>2. IInv => InputsArePublished
  BY <1>1 DEF InputsArePublished, IsPublished
<1> QED BY <1>2, Invariance, PTL

-----------------------------------------------------------------------------
(* The rows implement VersionStore *)

\* What readers see of the rows of one pull request.
Numbered(versions) == {<<i, versions[i].content>> : i \in 1..Len(versions)}
Newest(versions) == IF Len(versions) = 0 THEN {} ELSE {Len(versions)}
Report(row) == [version |-> row.snapshot, status |-> row.status]
Listed(reports) == [a \in 1..Len(reports) |-> Report(reports[a])]

LEMMA HistoryOf ==
  ASSUME NEW versions \in Seq(Snapshots), VersionsOK(versions)
  PROVE  /\ {<<versions[i].version, versions[i].content>> : i \in DOMAIN versions} = Numbered(versions)
         /\ {versions[i].version : i \in {j \in 1..Len(versions) : versions[j].latest}} = Newest(versions)
         /\ Cardinality(Numbered(versions)) = Len(versions)
<1> DEFINE n == Len(versions)
<1>1. n \in Nat /\ DOMAIN versions = 1..n
  BY LenProperties
<1>2. \A i \in 1..n : versions[i].version = i /\ (versions[i].latest <=> i = n)
  BY DEF VersionsOK
<1> HIDE DEF n
<1>3. {<<versions[i].version, versions[i].content>> : i \in DOMAIN versions} = Numbered(versions)
  <2>1. \A i \in 1..n : <<versions[i].version, versions[i].content>> = <<i, versions[i].content>>
    BY <1>2
  <2>2. \A x : x \in Numbered(versions) <=> \E i \in 1..n : x = <<i, versions[i].content>>
    BY DEF Numbered, n
  <2> HIDE DEF Numbered
  <2> QED BY <1>1, <2>1, <2>2
<1>4. {versions[i].version : i \in {j \in 1..n : versions[j].latest}} = Newest(versions)
  <2>1. CASE n = 0
    <3>1. 1..n = {}
      BY <2>1
    <3> QED BY <2>1, <3>1 DEF Newest, n
  <2>2. CASE n # 0
    <3>1. {j \in 1..n : versions[j].latest} = {n}
      BY <1>1, <1>2, <2>2
    <3>2. versions[n].version = n
      BY <1>1, <1>2, <2>2
    <3> QED BY <2>2, <3>1, <3>2 DEF Newest, n
  <2> QED BY <2>1, <2>2
<1>5. Cardinality(Numbered(versions)) = n
  <2> DEFINE f == [i \in 1..n |-> <<i, versions[i].content>>]
  <2>1. f \in Bijection(1..n, Numbered(versions))
    BY DEF Bijection, Injection, Surjection, IsInjective, Numbered, n
  <2>2. IsFiniteSet(1..n) /\ Cardinality(1..n) = n
    BY <1>1, FS_Interval
  <2> QED BY <2>1, <2>2, FS_Bijection DEF ExistsBijection
<1> QED BY <1>3, <1>4, <1>5 DEF n

\* Every report is of the version it names.
LEMMA ReportsOf ==
  ASSUME NEW versions \in Seq(Snapshots), VersionsOK(versions),
         NEW reports \in Seq(Accounts), AccountsOK(versions, reports)
  PROVE  [a \in DOMAIN reports |->
           [version |-> versions[reports[a].snapshot].version, status |-> reports[a].status]]
           = Listed(reports)
<1>1. DOMAIN reports = 1..Len(reports)
  BY LenProperties
<1>2. \A a \in 1..Len(reports) : versions[reports[a].snapshot].version = reports[a].snapshot
  BY DEF VersionsOK, AccountsOK
<1> QED BY <1>1, <1>2 DEF Listed, Report

\* The mapped state, in this state and in the next.
LEMMA Readers ==
  IInv => /\ StoredVersions = [pr \in Prs |-> Numbered(snapshots[pr])]
          /\ NewestVersions = [pr \in Prs |-> Newest(snapshots[pr])]
          /\ SavedReports = [pr \in Prs |-> Listed(accounts[pr])]
<1> SUFFICES ASSUME IInv PROVE
      /\ StoredVersions = [pr \in Prs |-> Numbered(snapshots[pr])]
      /\ NewestVersions = [pr \in Prs |-> Newest(snapshots[pr])]
      /\ SavedReports = [pr \in Prs |-> Listed(accounts[pr])]
  OBVIOUS
<1>1. ASSUME NEW pr \in Prs
      PROVE  /\ snapshots[pr] \in Seq(Snapshots) /\ VersionsOK(snapshots[pr])
             /\ accounts[pr] \in Seq(Accounts) /\ AccountsOK(snapshots[pr], accounts[pr])
  BY DEF IInv, TypeOK, RowsOK
<1>2. StoredVersions = [pr \in Prs |-> Numbered(snapshots[pr])]
  BY <1>1, HistoryOf DEF StoredVersions
<1>3. NewestVersions = [pr \in Prs |-> Newest(snapshots[pr])]
  BY <1>1, HistoryOf DEF NewestVersions, Latest
<1>4. SavedReports = [pr \in Prs |-> Listed(accounts[pr])]
  BY <1>1, ReportsOf DEF SavedReports
<1> QED BY <1>2, <1>3, <1>4

LEMMA ReadersNext ==
  (IInv => /\ StoredVersions = [pr \in Prs |-> Numbered(snapshots[pr])]
           /\ NewestVersions = [pr \in Prs |-> Newest(snapshots[pr])]
           /\ SavedReports = [pr \in Prs |-> Listed(accounts[pr])])'
  BY Readers, PTL

LEMMA NumberedNext ==
  ASSUME NEW versions \in Seq(Snapshots), NEW later \in Seq(Snapshots), NEW content,
         Len(later) = Len(versions) + 1, later[Len(versions) + 1].content = content,
         \A i \in 1..Len(versions) : later[i].content = versions[i].content
  PROVE  /\ Numbered(later) = Numbered(versions) \cup {<<Len(versions) + 1, content>>}
         /\ Newest(later) = {Len(versions) + 1}
<1> DEFINE n == Len(versions)
<1>1. n \in Nat /\ Len(later) = n + 1 /\ n + 1 # 0
  BY LenProperties
<1>2. \A i : i \in 1..Len(later) <=> i \in 1..n \/ i = n + 1
  BY <1>1
<1> HIDE DEF n
<1>3. \A x : x \in Numbered(later)
              <=> \/ \E i \in 1..n : x = <<i, versions[i].content>>
                  \/ x = <<n + 1, content>>
  <2>1. \A i \in 1..n : <<i, later[i].content>> = <<i, versions[i].content>>
    BY DEF n
  <2>2. <<n + 1, later[n + 1].content>> = <<n + 1, content>>
    BY DEF n
  <2>3. \A x : x \in Numbered(later) <=> \E i \in 1..Len(later) : x = <<i, later[i].content>>
    BY DEF Numbered
  <2> SUFFICES ASSUME NEW x
               PROVE  x \in Numbered(later)
                        <=> \/ \E i \in 1..n : x = <<i, versions[i].content>>
                            \/ x = <<n + 1, content>>
    OBVIOUS
  <2>4. ASSUME x \in Numbered(later)
        PROVE  \/ \E i \in 1..n : x = <<i, versions[i].content>>
               \/ x = <<n + 1, content>>
    <3>1. PICK i \in 1..Len(later) : x = <<i, later[i].content>>
      BY <2>3, <2>4
    <3>2. CASE i \in 1..n
      BY <2>1, <3>1, <3>2
    <3>3. CASE i = n + 1
      BY <2>2, <3>1, <3>3
    <3> QED BY <1>2, <3>2, <3>3
  <2>5. ASSUME NEW i \in 1..n, x = <<i, versions[i].content>> PROVE x \in Numbered(later)
    BY <1>2, <2>1, <2>3, <2>5
  <2>6. ASSUME x = <<n + 1, content>> PROVE x \in Numbered(later)
    BY <1>2, <2>2, <2>3, <2>6
  <2> QED BY <2>4, <2>5, <2>6
<1>4. \A x : x \in Numbered(versions) <=> \E i \in 1..n : x = <<i, versions[i].content>>
  BY DEF Numbered, n
<1>5. Numbered(later) = Numbered(versions) \cup {<<n + 1, content>>}
  BY <1>3, <1>4
<1> QED BY <1>1, <1>5 DEF Newest, n

LEMMA ListedNext ==
  ASSUME NEW reports \in Seq(Accounts), NEW later \in Seq(Accounts), NEW row \in Accounts,
         Len(later) = Len(reports) + 1, later[Len(reports) + 1] = row,
         \A a \in 1..Len(reports) :
           later[a].snapshot = reports[a].snapshot /\ later[a].status = reports[a].status
  PROVE  /\ Listed(later) = Append(Listed(reports), Report(row))
         /\ Len(Listed(later)) = Len(Listed(reports)) + 1
<1> DEFINE n == Len(reports)
           Reports == [version : Nat \ {0}, status : {"published", "needs_review"}]
<1>1. n \in Nat /\ Len(later) = n + 1
  BY LenProperties
<1>2. \A r \in Accounts : Report(r) \in Reports
  BY DEF Report, Accounts
<1>3. (\A a \in 1..n : reports[a] \in Accounts) /\ \A a \in 1..n + 1 : later[a] \in Accounts
  BY <1>1, ElementOfSeq
<1>4. \A a \in 1..n : Report(later[a]) = Report(reports[a])
  BY DEF Report
<1>5. Listed(reports) = [a \in 1..n |-> Report(reports[a])]
  BY DEF Listed
<1>6. Listed(later) = [a \in 1..n + 1 |-> Report(later[a])]
  BY <1>1 DEF Listed
<1> HIDE DEF Reports, n
<1>7. Listed(reports) \in Seq(Reports) /\ Len(Listed(reports)) = n
  BY <1>1, <1>2, <1>3, <1>5
<1>8. Listed(later) \in Seq(Reports) /\ Len(Listed(later)) = n + 1
  BY <1>1, <1>2, <1>3, <1>6
<1>9. /\ Append(Listed(reports), Report(row)) \in Seq(Reports)
      /\ Len(Append(Listed(reports), Report(row))) = n + 1
      /\ \A a \in 1..n : Append(Listed(reports), Report(row))[a] = Listed(reports)[a]
      /\ Append(Listed(reports), Report(row))[n + 1] = Report(row)
  <2>1. Report(row) \in Reports
    BY <1>2
  <2> QED BY <1>7, <2>1, AppendProperties
<1>10. \A a \in 1..n + 1 : Listed(later)[a] = Append(Listed(reports), Report(row))[a]
  <2> SUFFICES ASSUME NEW a \in 1..n + 1
               PROVE  Listed(later)[a] = Append(Listed(reports), Report(row))[a]
    OBVIOUS
  <2>1. Listed(later)[a] = Report(later[a])
    BY <1>6
  <2>2. CASE a \in 1..n
    BY <1>4, <1>5, <1>9, <2>1, <2>2
  <2>3. CASE a = n + 1
    BY <1>9, <2>1, <2>3 DEF n
  <2>4. a \in 1..n \/ a = n + 1
    BY <1>1
  <2> QED BY <2>2, <2>3, <2>4
<1> QED BY <1>7, <1>8, <1>9, <1>10, SeqEqual

LEMMA StoreCounts == \A S : Store!Cardinality(S) = Cardinality(S)
  BY DEF Store!Cardinality, Cardinality

\* save_snapshot's commit is a new version.
LEMMA InsertAddsVersion ==
  ASSUME NEW p \in Procs, IInv, IInv', InsertVersion(p)
  PROVE  Store!AddVersion(proc[p].pr)
<1> DEFINE r == proc[p]
           old == snapshots[proc[p].pr]
           new == WithVersion(old, r.content)
           n == Len(old)
<1>1. /\ r \in Processes /\ r.pr \in Prs /\ UNCHANGED accounts /\ old \in Seq(Snapshots)
      /\ VersionsOK(old) /\ r.content \in Collected /\ r.content.head = r.content.pages
      /\ r.snapshot = n /\ (n # 0 => old[n].content # r.content)
  <2>1. r.pc = "commit" /\ UNCHANGED accounts
    BY DEF InsertVersion
  <2>2. /\ r \in Processes /\ r.pr \in Prs /\ old \in Seq(Snapshots) /\ VersionsOK(old)
        /\ CollectionFits(remote[r.pr], r) /\ PreviousFits(old, r)
    BY <2>1, Running DEF Fits
  <2> HIDE DEF old, r
  <2> QED BY <2>1, <2>2 DEF CollectionFits, PreviousFits, Processes
<1>2. snapshots' = [snapshots EXCEPT ![r.pr] = new]
  BY <1>1, InsertedRow DEF InsertVersion, WithVersion
<1> HIDE DEF new
<1>3. /\ new \in Seq(Snapshots) /\ Len(new) = n + 1 /\ new[n + 1].content = r.content
      /\ \A i \in 1..n : new[i].content = old[i].content
  <2>1. /\ new \in Seq(Snapshots) /\ Len(new) = n + 1 /\ new[n + 1] = NextRow(old, r.content)
        /\ \A i \in 1..n : new[i].content = old[i].content
    BY <1>1, VersionAdded DEF new
  <2> QED BY <2>1 DEF NextRow
<1>4. /\ Numbered(new) = Numbered(old) \cup {<<n + 1, r.content>>} /\ Newest(new) = {n + 1}
  BY <1>1, <1>3, NumberedNext
<1>5. Cardinality(Numbered(old)) = n /\ n \in Nat
  BY <1>1, HistoryOf, LenProperties
<1>6. <<n, r.content>> \notin Numbered(old)
  <2> SUFFICES ASSUME NEW i \in 1..n, <<n, r.content>> = <<i, old[i].content>> PROVE FALSE
    BY DEF Numbered
  <2> QED BY <1>1, <1>5
<1>7. snapshots \in [Prs -> Seq(Snapshots)]
  BY DEF IInv, TypeOK
<1> HIDE DEF n, old, r
<1>8. StoredVersions' = [StoredVersions EXCEPT ![r.pr] = Numbered(old) \cup {<<n + 1, r.content>>}]
  BY <1>1, <1>2, <1>4, <1>7, Readers, ReadersNext
<1>9. NewestVersions' = [NewestVersions EXCEPT ![r.pr] = {n + 1}]
  BY <1>1, <1>2, <1>4, <1>7, Readers, ReadersNext
<1>10. SavedReports' = SavedReports
  BY <1>1, Readers, ReadersNext
<1>11. StoredVersions[r.pr] = Numbered(old) /\ (n + 1) - 1 = n
  BY <1>1, <1>5, Readers DEF old, r
<1>12. Store!Cardinality(StoredVersions[r.pr]) + 1 = n + 1
  BY <1>5, <1>11, StoreCounts
<1> QED BY <1>1, <1>5, <1>6, <1>8, <1>9, <1>10, <1>11, <1>12 DEF Store!AddVersion, r

\* save_account is a new report of a stored version, in the CLI's transaction as in
\* aggregate's autocommit.
LEMMA SaveAddsReport ==
  ASSUME NEW p \in Procs, NEW status \in {"published", "needs_review"}, IInv, IInv',
         proc[p].pc \in {"save", "close"}, Saves(p, status),
         UNCHANGED <<github, repositories, snapshots>>
  PROVE  Store!AddReport(proc[p].pr)
<1> DEFINE r == proc[p]
           old == accounts[proc[p].pr]
           row == Account(p, r.snapshot, status)
           new == Added(old, row)
           pair == <<r.snapshot, snapshots[r.pr][r.snapshot].content>>
<1>1. /\ r \in Processes /\ r.pr \in Prs /\ old \in Seq(Accounts) /\ CurrentOK(old)
      /\ r.snapshot \in 1..Len(snapshots[r.pr]) /\ r.content \in Collected
      /\ snapshots[r.pr] \in Seq(Snapshots) /\ accounts \in [Prs -> Seq(Accounts)]
  BY Running DEF Fits, ReportFits, IInv, TypeOK, Processes
<1>2. /\ row \in Accounts /\ Report(row) = [version |-> r.snapshot, status |-> status]
      /\ (row.current <=> row.status = "published")
  <2>1. r.snapshot \in Nat \ {0}
    BY <1>1, LenProperties
  <2> QED BY <1>1, <2>1 DEF Account, Accounts, Report
<1>3. accounts' = [accounts EXCEPT ![r.pr] = new]
  BY DEF Saves, WithAccount, Added, Account
<1> HIDE DEF row
<1>4. /\ new \in Seq(Accounts) /\ Len(new) = Len(old) + 1 /\ new[Len(old) + 1] = row
      /\ \A a \in 1..Len(old) : new[a].status = old[a].status /\ new[a].snapshot = old[a].snapshot
  <2>1. old \in Seq(Accounts) /\ CurrentOK(old)
    BY <1>1
  <2>2. new = Added(old, row)
    OBVIOUS
  <2>3. NewCurrent(row)
    BY <1>2 DEF NewCurrent
  <2> HIDE DEF old, new
  <2>4. LongerBy(new, old, row)
    BY <2>1, <2>2, <2>3, AccountAdded
  <2> QED BY <2>4 DEF LongerBy
<1> HIDE DEF new
<1>5. /\ Listed(new) = Append(Listed(old), [version |-> r.snapshot, status |-> status])
      /\ Len(Listed(new)) = Len(Listed(old)) + 1
  BY <1>1, <1>2, <1>4, ListedNext
<1>6. pair \in Numbered(snapshots[r.pr]) /\ pair[1] = r.snapshot
  BY <1>1 DEF Numbered
<1> HIDE DEF pair, old, r
<1>7. /\ SavedReports[r.pr] = Listed(old) /\ SavedReports'[r.pr] = Listed(new)
      /\ pair \in StoredVersions[r.pr]
  BY ZenonT(60), <1>1, <1>3, <1>6, Readers, ReadersNext DEF old, r
<1>8. SavedReports' = [SavedReports EXCEPT ![r.pr] = Listed(new)]
  BY <1>1, <1>3, Readers, ReadersNext
<1>9. UNCHANGED <<StoredVersions, NewestVersions>>
  BY Readers, ReadersNext
<1> QED BY <1>5, <1>6, <1>7, <1>8, <1>9 DEF Store!AddReport, r

\* No other step changes what readers see.
LEMMA WhatMovesRows ==
  ASSUME IInv, [Next]_vars
  PROVE  \/ UNCHANGED <<snapshots, accounts>>
         \/ \E p \in Procs : InsertVersion(p)
         \/ \E p \in Procs, status \in {"published", "needs_review"} :
              /\ proc[p].pc \in {"save", "close"} /\ Saves(p, status)
              /\ UNCHANGED <<github, repositories, snapshots>>
<1>1. ASSUME NEW p \in Procs, CloseSummary(p)
      PROVE  \E status \in {"published", "needs_review"} :
               /\ proc[p].pc \in {"save", "close"} /\ Saves(p, status)
               /\ UNCHANGED <<github, repositories, snapshots>>
  BY <1>1, Running DEF CloseSummary, Saves, Processes
<1>2. ASSUME NEW p \in Procs, SaveAndSelect(p)
      PROVE  \E status \in {"published", "needs_review"} :
               /\ proc[p].pc \in {"save", "close"} /\ Saves(p, status)
               /\ UNCHANGED <<github, repositories, snapshots>>
  BY <1>2 DEF SaveAndSelect, Savable, Saves
<1>3. ASSUME NEW p \in Procs, Ingest(p)
      PROVE  UNCHANGED <<snapshots, accounts>> \/ InsertVersion(p)
  BY <1>3 DEF Ingest, GetPages, Refresh, LockIdentity, LockLocator, SelectPrevious,
              UpsertPerson, rows
<1>4. ASSUME NEW p \in Procs, SelectReport(p) \/ Return(p) \/ SaveAccount(p) \/ Fail(p)
      PROVE  UNCHANGED <<snapshots, accounts>>
  BY <1>4 DEF SelectReport, Return, SaveAccount, Fail, rows
<1>5. ASSUME NEW p \in Procs, NEW pr \in Prs, Start(p, pr)
      PROVE  UNCHANGED <<snapshots, accounts>>
  BY <1>5 DEF Start, GetHead, load_snapshot, rows
<1>6. CASE (\E pr \in Prs : Edit(pr)) \/ (\E r \in Repos : Rename(r)) \/ UNCHANGED vars
  BY <1>6 DEF Edit, Rename, rows, vars
<1> QED BY <1>1, <1>2, <1>3, <1>4, <1>5, <1>6 DEF Next, Continue, Summarize

\* The rows implement VersionStore: numbered versions whose neighbours differ, one of
\* them the latest; reports of versions that exist; nothing changed or removed.
THEOREM StoreRefinement == Spec => StoreSpec
<1>1. Init => Store!Init
  <2> SUFFICES ASSUME Init PROVE Store!Init
    OBVIOUS
  <2>1. ASSUME NEW pr \in Prs
        PROVE  /\ snapshots[pr] = <<>> /\ accounts[pr] = <<>>
               /\ Len(snapshots[pr]) = 0 /\ Len(accounts[pr]) = 0 /\ 1..0 = {}
    BY EmptySeq DEF Init
  <2>2. IInv
    BY InitIsRight
  <2>3. \A pr \in Prs : /\ Numbered(snapshots[pr]) = {} /\ Newest(snapshots[pr]) = {}
                        /\ Listed(accounts[pr]) = <<>>
    BY <2>1 DEF Numbered, Newest, Listed
  <2> QED BY <2>2, <2>3, Readers DEF Store!Init
<1>2. IInv /\ IInv' /\ [Next]_vars => [Store!Next]_(Store!vars)
  <2> SUFFICES ASSUME IInv, IInv', [Next]_vars PROVE [Store!Next]_(Store!vars)
    OBVIOUS
  <2>1. CASE UNCHANGED <<snapshots, accounts>>
    <3>1. StoredVersions' = StoredVersions /\ NewestVersions' = NewestVersions
          /\ SavedReports' = SavedReports
      BY <2>1, Readers, ReadersNext
    <3> QED BY <3>1 DEF Store!vars
  <2>2. ASSUME NEW p \in Procs, Store!AddVersion(proc[p].pr) \/ Store!AddReport(proc[p].pr),
               proc[p].pc # "idle"
        PROVE  Store!Next
    BY <2>2, Running DEF Store!Next
  <2>3. ASSUME NEW p \in Procs, InsertVersion(p) PROVE Store!Next
    <3>1. proc[p].pc # "idle"
      BY <2>3 DEF InsertVersion
    <3> QED BY <2>2, <2>3, <3>1, InsertAddsVersion
  <2>4. ASSUME NEW p \in Procs, NEW status \in {"published", "needs_review"},
               proc[p].pc \in {"save", "close"}, Saves(p, status),
               UNCHANGED <<github, repositories, snapshots>>
        PROVE  Store!Next
    BY <2>2, <2>4, SaveAddsReport
  <2> QED BY <2>1, <2>3, <2>4, WhatMovesRows
<1> QED BY <1>1, <1>2, Invariance, PTL DEF Spec, StoreSpec, Store!Spec
=============================================================================
