-------------------------------- MODULE Accounts --------------------------------
(***************************************************************************)
(* `summarize' and the selection of pull request reports by `aggregate'.   *)
(* The CLI's summarize is one implicit transaction from load_snapshot to   *)
(* the close of the connection; aggregate runs in autocommit, so that each *)
(* report is durable once save_account returns.                            *)
(***************************************************************************)
EXTENDS PullRequestRows

Summarizing(pr) == {p \in Procs : proc[p].pr = pr /\ proc[p].pc \in {"select", "save", "close"}}

\* By the locator as it is stored now; only merged pull requests go on.
load_snapshot(p, pr, auto) ==
  /\ proc[p] = Idle
  /\ repositories[RepoOf[pr]] # NoName
  /\ Len(accounts[pr]) + Cardinality(Summarizing(pr)) < MaxAccounts[pr]
  /\ \E i \in Latest(pr) :
       /\ snapshots[pr][i].content.head \in Merged
       /\ proc' = [proc EXCEPT ![p] =
            [Idle EXCEPT !.pc = IF auto THEN "select" ELSE "save", !.pr = pr,
               !.auto = auto, !.snapshot = i, !.content = snapshots[pr][i].content]]
  /\ UNCHANGED <<github, rows, locks>>

OfSnapshot(pr, i) == {a \in 1..Len(accounts[pr]) : accounts[pr][a].snapshot = i}
Published(pr, i) == {a \in OfSnapshot(pr, i) : accounts[pr][a].status = "published"}

\* ORDER BY is_current DESC, id DESC LIMIT 1
Preferred(pr, candidates) ==
  LET current == {a \in candidates : accounts[pr][a].current} IN
  Max(IF current = {} THEN candidates ELSE current)

\* The report is an input; Return ends the command.
Selected(p, a) ==
  proc' = [proc EXCEPT ![p].pc = "selected", ![p].account = a]

\* resolve_reports: the published report of the loaded version, or a new one.
SelectReport(p) ==
  LET published == Published(proc[p].pr, proc[p].snapshot) IN
  /\ proc[p].pc = "select"
  /\ IF published = {} THEN Goto(p, "save")
                        ELSE Selected(p, Preferred(proc[p].pr, published))
  /\ UNCHANGED <<github, rows, locks>>

Return(p) ==
  /\ proc[p].pc = "selected"
  /\ proc' = [proc EXCEPT ![p] = Idle]
  /\ UNCHANGED <<github, rows, locks>>

Account(p, i, status) ==
  [snapshot |-> i, from |-> proc[p].content, status |-> status,
   current |-> status = "published"]

\* (faulty variant) A rerun replaces the current account whatever came of it.
WithAnyAccount(p, status) ==
  LET pr == proc[p].pr IN
  Append([a \in DOMAIN accounts[pr] |->
            [accounts[pr][a] EXCEPT
               !.current = @ /\ accounts[pr][a].snapshot # proc[p].snapshot]],
         Account(p, proc[p].snapshot, status))

\* (faulty variant) The account is attached to the latest version.
WithAccountOfLatest(p, status) ==
  LET pr == proc[p].pr
      i == CHOOSE j \in Latest(pr) : TRUE
      replaced(a) == status = "published" /\ accounts[pr][a].snapshot = i
  IN Append([a \in DOMAIN accounts[pr] |->
               [accounts[pr][a] EXCEPT !.current = @ /\ ~replaced(a)]],
            Account(p, i, status))

\* The rows of pr_summaries after save_account: a failed rerun does not replace
\* the current published account.
WithAccount(p, status) ==
  LET pr == proc[p].pr
      replaced(a) == status = "published" /\ accounts[pr][a].snapshot = proc[p].snapshot
  IN Append([a \in DOMAIN accounts[pr] |->
               [accounts[pr][a] EXCEPT !.current = @ /\ ~replaced(a)]],
            Account(p, proc[p].snapshot, status))

\* save_account up to its inserts, after the model calls; whether their answers
\* are usable is StructuredCalls' question.
Savable(p) ==
  LET pr == proc[p].pr IN
  /\ proc[p].pc = "save"
  /\ Free(Row(pr, proc[p].snapshot), p)
  /\ snapshots[pr][proc[p].snapshot].content = proc[p].content

\* In the CLI, the row lock and the account are the transaction's.
SaveAccount(p) ==
  /\ Savable(p) /\ ~proc[p].auto
  /\ Locked(Row(proc[p].pr, proc[p].snapshot), p)
  /\ \E status \in {"published", "needs_review"} :
       proc' = [proc EXCEPT ![p].pc = "close", ![p].status = status]
  /\ UNCHANGED <<github, rows>>

CloseSummary(p) ==
  /\ proc[p].pc = "close"
  /\ accounts' = [accounts EXCEPT ![proc[p].pr] = WithAccount(p, proc[p].status)]
  /\ proc' = [proc EXCEPT ![p] = Idle]
  /\ locks' = Released(p)
  /\ UNCHANGED <<github, repositories, snapshots>>

\* (faulty variant) Whatever summarize saved is an input.
SaveAndSelectAnything(p) ==
  /\ Savable(p) /\ proc[p].auto
  /\ \E status \in {"published", "needs_review"} :
       accounts' = [accounts EXCEPT ![proc[p].pr] = WithAccount(p, status)]
  /\ Selected(p, Len(accounts[proc[p].pr]) + 1)
  /\ UNCHANGED <<github, repositories, snapshots, locks>>

\* In aggregate, save_account and load_pr_input: a report that was not published
\* stops the command.
SaveAndSelect(p) ==
  /\ Savable(p) /\ proc[p].auto
  /\ \E status \in {"published", "needs_review"} :
       /\ accounts' = [accounts EXCEPT ![proc[p].pr] = WithAccount(p, status)]
       /\ IF status = "published" THEN Selected(p, Len(accounts[proc[p].pr]) + 1)
                                  ELSE proc' = [proc EXCEPT ![p] = Idle]
  /\ UNCHANGED <<github, repositories, snapshots, locks>>

Summarize(p) ==
  \/ SelectReport(p) \/ Return(p)
  \/ SaveAccount(p) \/ CloseSummary(p) \/ SaveAndSelect(p)
=============================================================================
