-------------------------- MODULE MCTripMembership --------------------------
(***************************************************************************)
(* A finite instance of TripMembership: the owner and two friends, and a   *)
(* few calls, enough to create, invite and join before two calls race.     *)
(***************************************************************************)
EXTENDS TripMembership, TLC

CONSTANTS owner, u1, u2, c1, c2, c3, c4, c5, c6

Team3    == {owner, u1, u2}
SixCalls == {c1, c2, c3, c4, c5, c6}

Symmetric == Permutations({u1, u2}) \union Permutations(SixCalls)
=============================================================================
