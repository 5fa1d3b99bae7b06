------------------------------ MODULE TripTeam ------------------------------
(***************************************************************************)
(* What the members of a shared trip are promised (trip-plan.service.ts as *)
(* its callers see it): a team that calls change one at a time.  A call    *)
(* that was answered took effect at once and completely, a refused one had *)
(* no effect, and the owner belongs to the team as long as there is one.   *)
(***************************************************************************)
CONSTANTS Users, Owner, Calls

VARIABLES team,    \* empty: there is no trip plan
          result   \* the answer of each call: what was done for whom

vars == <<team, result>>

NoAnswer == <<"none", Owner>>

Init ==
  /\ team = {}
  /\ result = [c \in Calls |-> NoAnswer]

Answer(c, done, u) ==
  /\ result[c] = NoAnswer
  /\ result' = [result EXCEPT ![c] = <<done, u>>]

\* An existing plan is returned as it is.
Create(c) ==
  /\ Answer(c, "create", Owner)
  /\ team' = IF team = {} THEN {Owner} ELSE team

Share(c) ==
  /\ Answer(c, "share", Owner)
  /\ team # {}
  /\ UNCHANGED team

Join(c, u) ==
  /\ Answer(c, "join", u)
  /\ team # {}
  /\ team' = team \union {u}

Part(c, u) ==
  /\ Answer(c, "remove", u) \/ Answer(c, "leave", u)
  /\ u # Owner
  /\ team' = team \ {u}

\* The plan may have been deleted, even created anew, in the meantime.
Delete(c) ==
  /\ Answer(c, "delete", Owner)
  /\ team' \in {{}, team}

Next ==
  \E c \in Calls :
     \/ Create(c) \/ Share(c) \/ Delete(c)
     \/ \E u \in Users : Join(c, u) \/ Part(c, u)

Spec == Init /\ [][Next]_vars
=============================================================================
