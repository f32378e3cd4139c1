----------------------------- MODULE MCPullRequests -----------------------------
(***************************************************************************)
(* Two processes, two repositories and three names; one pull request in    *)
(* each repository, whose authors and mergers are the same two people in   *)
(* opposite roles.                                                         *)
(***************************************************************************)
EXTENDS PullRequests, TLC

CONSTANTS p1, p2, r1, r2, a, b, n1, n2, n3, open, merged, edited, ann, bob

MCProcs == {p1, p2}
MCRepos == {r1, r2}
MCPrs == {a, b}
MCRepoOf == a :> r1 @@ b :> r2
MCNames == {n1, n2, n3}
MCFirstName == r1 :> n1 @@ r2 :> n2
NoRenames == {}
MCRenames == {<<r1, n3>>, <<r2, n1>>}
MCContents == {open, merged, edited}
MCMerged == {merged, edited}
MCFirstContent == a :> merged @@ b :> open
OneEdit == a :> 1 @@ b :> 0
TwoAccounts == a :> 2 @@ b :> 1
OneAccount == a :> 1 @@ b :> 1
MCLogins == a :> <<ann, bob>> @@ b :> <<bob, ann>>
MCSymmetry == Permutations(MCProcs)
=============================================================================
