------------------------------- MODULE WorkflowInv -------------------------------
(***************************************************************************)
(* The inductive invariant behind the safety properties of Workflow: the   *)
(* estimate of the running case is reserved below the cap, what the runner *)
(* has made of a case is in its transaction, and a case it works on is not *)
(* in the file.                                                            *)
(***************************************************************************)
EXTENDS Workflow

\* Outside a case the runner holds nothing.
RunnerOK ==
  /\ runner.pc \in {"idle", "next", "execute", "save"}
  /\ runner.pc = "idle" => runner = Idle
  /\ runner.pc # "idle" => runner.phase \in Phases
  /\ runner.pc # "execute" =>
       runner = [Idle EXCEPT !.pc = runner.pc, !.phase = runner.phase, !.of = runner.of]
  /\ runner.pc \in {"execute", "save"} => ~Recorded(runner.phase, runner.of)

Shape ==
  /\ IsSequence(rows) /\ IsSequence(runner.own)
  /\ \A i \in DOMAIN Seen : Seen[i].status \in {"succeeded", "failed"}
  /\ spent \in Nat /\ unknown \in BOOLEAN
  /\ DOMAIN runner = DOMAIN Idle
  /\ runner.member \in Nat \ {0} /\ runner.cost \in Nat /\ runner.known \in BOOLEAN

\* A case is begun only when its whole estimate fits.
Reserved ==
  /\ overrun \in Nat /\ spent <= Cap + overrun
  /\ runner.pc = "execute" => spent + CeilingOf(runner.phase) <= Cap

HasRow(by) == RowsOf(runner.phase, runner.of, by) # {}

\* A case is begun when nothing is known to be in doubt and nothing of it is stored;
\* every member then gets its row.
CaseOK ==
  /\ runner.pc = "execute" =>
       /\ ~unknown
       /\ \A i \in DOMAIN runner.own :
            runner.own[i].phase = runner.phase /\ runner.own[i].of = runner.of
       /\ runner.member = 1 => Existing(runner.phase, runner.of) = {}
       /\ \A m \in 1..(runner.member - 1) : HasRow(Members(runner.phase)[m])
  /\ runner.pc = "save" => \A m \in DOMAIN Members(runner.phase) : HasRow(Members(runner.phase)[m])

OneSuccess(s) ==
  \A i, j \in DOMAIN s :
    /\ s[i].phase = s[j].phase /\ s[i].of = s[j].of /\ s[i].by = s[j].by
    /\ s[i].phase = "assess" \/ "failed" \notin {s[i].status, s[j].status}
    => i = j

IInv ==
  RunnerOK /\ Shape /\ Reserved /\ CaseOK /\ OneSuccess(Seen) /\ ProgressIsDurable
=============================================================================
