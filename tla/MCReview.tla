------------------------------- MODULE MCReview --------------------------------
(***************************************************************************)
(* Two processes and one session: one assessment and two exposures are     *)
(* enough for a reveal to race a capture and two observers to race.        *)
(***************************************************************************)
EXTENDS Review, TLC

CONSTANTS p1, p2, s1, a1

MCProcs == {p1, p2}
OneSession == {s1}
OneAssessment == {a1}
AccidentalOnly == {"accidental"}
MCSymmetry == Permutations(MCProcs)
=============================================================================
