---------------------------- MODULE MCSavedPlan -----------------------------
(***************************************************************************)
(* A finite instance of SavedPlan: two accounts, and enough calls for a    *)
(* generation, a claim and two calls that write back what they read.       *)
(***************************************************************************)
EXTENDS SavedPlan, TLC

CONSTANTS u1, u2, c1, c2, c3

TwoUsers  == {u1, u2}
ThreeCalls == {c1, c2, c3}

\* Bound: two trips beside two calls, one trip beside three.
TripsBound == made < 2 \/ \E c \in Calls : step[c] = "idle"

Symmetric == Permutations(TwoUsers) \union Permutations(ThreeCalls)
=============================================================================
