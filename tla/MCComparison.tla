----------------------------- MODULE MCComparison ------------------------------
(***************************************************************************)
(* Two processes: two recipes in two plan orders, with and without         *)
(* --regenerate, on one source or another, one repair.  MCModes gives the  *)
(* most interesting command line a connection in either mode.              *)
(***************************************************************************)
EXTENDS ComparisonInv, TLC

CONSTANTS r1, r2, c1, c2, s1, s2

TwoRuns == {r1, r2}
MCRecipes == {c1, c2}
MCSources == {s1, s2}
RepeatOrForce ==
  {[source |-> s1, plan |-> <<c1, c2>>, regenerate |-> FALSE],
   [source |-> s1, plan |-> <<c2, c1>>, regenerate |-> TRUE]}
RepeatForceOrOther ==
  RepeatOrForce \cup {[source |-> s2, plan |-> <<c1, c2>>, regenerate |-> FALSE]}
GoodOrMalformed == {Adapt("stop", TRUE, FALSE), Adapt("stop", FALSE, FALSE)}
CliModes == [q \in RepeatOrForce |-> {FALSE}]
MCModes ==
  [q \in RepeatForceOrOther |->
     IF q.regenerate THEN {FALSE} ELSE IF q.source = s1 THEN BOOLEAN ELSE {TRUE}]
TwoRunSymmetry == Permutations(TwoRuns)
=============================================================================
