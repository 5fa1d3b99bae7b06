------------------------- MODULE ConnectionRequests -------------------------
(***************************************************************************)
(* What the users of one event are promised about their connection         *)
(* requests (festival-squad.service.ts as its callers see it): a request   *)
(* is sent by the owner of its first end, only its parties answer it and   *)
(* each only his way, and it stays between the two profiles it was sent    *)
(* between until one of their owners takes it away.  No calls, no reads of *)
(* stale documents: each of these happens at once.                         *)
(***************************************************************************)
EXTENDS Integers, Sequences

CONSTANTS Users

VARIABLES
  owner,    \* of each profile made so far
  requests, \* id, ends and status of each stored request
  sent      \* how many there were: ids are not given again

vars == <<owner, requests, sent>>

Answers == {"accepted", "declined", "cancelled"}

Init ==
  /\ owner = <<>>
  /\ requests = {}
  /\ sent = 0

Enter(u) ==
  /\ owner' = Append(owner, u)
  /\ UNCHANGED <<requests, sent>>

\* No two requests that go the same way are pending.
Send(u, from, to) ==
  /\ owner[from] = u /\ owner[to] # u
  /\ ~ \E r \in requests : r.from = from /\ r.to = to /\ r.status = "pending"
  /\ sent' = sent + 1
  /\ requests' = requests \union {[id |-> sent + 1, from |-> from, to |-> to, status |-> "pending"]}
  /\ UNCHANGED owner

\* The receiver accepts or declines, the sender cancels.  The answer may take the place
\* of another one; none makes a request pending again.
Decide(u, r, status) ==
  /\ owner[IF status = "cancelled" THEN r.from ELSE r.to] = u
  /\ requests' = (requests \ {r}) \union {[r EXCEPT !.status = status]}
  /\ UNCHANGED <<owner, sent>>

\* With a profile go the requests to and from it, by its owner's hand.
Withdraw(u, id) ==
  /\ owner[id] = u
  /\ requests' = {r \in requests : id \notin {r.from, r.to}}
  /\ UNCHANGED <<owner, sent>>

Next ==
  \E u \in Users :
    \/ Enter(u)
    \/ \E from, to \in DOMAIN owner : Send(u, from, to)
    \/ \E r \in requests, status \in Answers : Decide(u, r, status)
    \/ \E id \in DOMAIN owner : Withdraw(u, id)

Spec == Init /\ [][Next]_vars
=============================================================================
