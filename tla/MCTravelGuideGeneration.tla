----------------------- MODULE MCTravelGuideGeneration -----------------------
(***************************************************************************)
(* Finite instances of TravelGuideGeneration: a few callers with a plain   *)
(* or a forced request each.                                               *)
(***************************************************************************)
EXTENDS TravelGuideGeneration, TLC

CONSTANTS c1, c2, c3

TwoCallers   == {c1, c2}
ThreeCallers == {c1, c2, c3}

Plain  == [force |-> FALSE, guideId |-> TRUE]
Forced == [force |-> TRUE, guideId |-> FALSE]

PlainOrForced == {Plain, Forced}

Symmetric == Permutations(ThreeCallers)
=============================================================================
