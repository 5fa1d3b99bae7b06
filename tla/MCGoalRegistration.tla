------------------------- MODULE MCGoalRegistration -------------------------
(***************************************************************************)
(* A finite instance of GoalRegistration: two users and three calls.       *)
(***************************************************************************)
EXTENDS GoalRegistration, TLC

CONSTANTS u1, u2, c1, c2, c3

TwoUsers   == {u1, u2}
ThreeCalls == {c1, c2, c3}

Symmetric == Permutations(TwoUsers) \union Permutations(ThreeCalls)
=============================================================================
