--------------------------- MODULE TripMembership ---------------------------
(***************************************************************************)
(* Membership of one owner's trip plan for one activity:                   *)
(* trip-plan.service.ts.  Every call reads the document, checks, changes   *)
(* its copy and saves it; other calls run in between.                      *)
(*                                                                         *)
(* What save() sends is Mongoose's doing: only the changed paths; a push   *)
(* to memberIds as $push, incrementing __v; an array that is assigned as   *)
(* $set, which also requires __v to be the one that was read; and any      *)
(* save fails if the document is gone.                                     *)
(***************************************************************************)
EXTENDS Integers

CONSTANTS Users, Owner, Calls

ASSUME MembershipAssumption == Owner \in Users

VARIABLES
  planId,    \* _id of the plan's document, 0 if there is none
  made,      \* number of documents created so far
  copies,    \* how often memberIds holds each user (its order has no effect)
  version,   \* __v
  invite,    \* its share token: none, valid, or past shareTokenExpiresAt
  step,      \* where each call stands
  what, whom, \* its operation, and the user it adds or removes
  mine       \* the document it read

planVars == <<planId, made, copies, version, invite>>
callVars == <<step, what, whom, mine>>
vars     == <<planVars, callVars>>

Operations == {"create", "share", "join", "remove", "leave", "delete"}
Documents  == [id : Nat, copies : [Users -> Nat], version : Nat]

\* Types; and no call is under way that would take the owner off his plan.
TypeOK ==
  /\ made \in Nat
  /\ planId \in 0 .. made
  /\ copies \in [Users -> Nat]
  /\ version \in Nat
  /\ invite \in {"none", "valid", "expired"}
  /\ step \in [Calls -> {"idle", "saving", "answered", "refused"}]
  /\ what \in [Calls -> Operations]
  /\ whom \in [Calls -> Users]
  /\ mine \in [Calls -> Documents]
  /\ \A c \in Calls : what[c] \in {"remove", "leave"} => whom[c] # Owner

Nobody     == [u \in Users |-> 0]
OwnerAlone == [u \in Users |-> IF u = Owner THEN 1 ELSE 0]

Init ==
  /\ planId = 0
  /\ made = 0
  /\ copies = Nobody
  /\ version = 0
  /\ invite = "none"
  /\ step = [c \in Calls |-> "idle"]
  /\ what = [c \in Calls |-> "create"]
  /\ whom = [c \in Calls |-> Owner]
  /\ mine = [c \in Calls |-> [id |-> 0, copies |-> Nobody, version |-> 0]]

-----------------------------------------------------------------------------
(* Until the first await is over: find the document, check *)

Read(c, operation, u, next) ==
  /\ step[c] = "idle"
  /\ step' = [step EXCEPT ![c] = next]
  /\ what' = [what EXCEPT ![c] = operation]
  /\ whom' = [whom EXCEPT ![c] = u]
  /\ mine' = [mine EXCEPT ![c] = [id |-> planId, copies |-> copies, version |-> version]]
  /\ UNCHANGED planVars

Create(c) == Read(c, "create", Owner, IF planId = 0 THEN "saving" ELSE "answered")

\* generateShareToken(), by the owner.
Share(c) ==
  /\ planId # 0
  /\ Read(c, "share", Owner, "saving")

\* joinByToken(), with the token of the plan; a member is answered at once.
Join(c, u) ==
  /\ planId # 0
  /\ invite = "valid"
  /\ Read(c, "join", u, IF copies[u] = 0 THEN "saving" ELSE "answered")

RemoveAnyoneMutant(c, u) ==
  /\ planId # 0
  /\ Read(c, "remove", u, IF copies[u] = 0 THEN "answered" ELSE "saving")

\* removeMember(), by the owner; filtering out a stranger changes nothing.
Remove(c, u) ==
  /\ planId # 0
  /\ u # Owner
  /\ Read(c, "remove", u, IF copies[u] = 0 THEN "answered" ELSE "saving")

LeaveAnyoneMutant(c, u) ==
  /\ planId # 0
  /\ copies[u] > 0
  /\ Read(c, "leave", u, "saving")

\* leave(), by a member.
Leave(c, u) ==
  /\ planId # 0
  /\ u # Owner
  /\ copies[u] > 0
  /\ Read(c, "leave", u, "saving")

\* delete(), by the owner.
Delete(c) ==
  /\ planId # 0
  /\ Read(c, "delete", Owner, "saving")

\* No document, another actor, no member, another token or an expired one.
Refused(c) == Read(c, "create", Owner, "refused")

-----------------------------------------------------------------------------
(* The write, and the answer *)

Answer(c, answer) ==
  /\ step' = [step EXCEPT ![c] = answer]
  /\ UNCHANGED <<what, whom, mine>>

\* model.create(): ownerId and activityLegacyId are unique.
Insert(c) ==
  /\ step[c] = "saving" /\ what[c] = "create"
  /\ \/ /\ planId = 0
        /\ planId' = made + 1
        /\ made' = made + 1
        /\ copies' = OwnerAlone
        /\ version' = 0
        /\ invite' = "none"
        /\ Answer(c, "answered")
     \/ /\ planId # 0
        /\ Answer(c, "refused")
        /\ UNCHANGED planVars

Present(c) == planId # 0 /\ planId = mine[c].id

SaveToken(c) ==
  /\ step[c] = "saving" /\ what[c] = "share"
  /\ Present(c)
  /\ invite' = "valid"
  /\ Answer(c, "answered")
  /\ UNCHANGED <<planId, made, copies, version>>

PushUnversionedMutant(c) ==
  /\ step[c] = "saving" /\ what[c] = "join"
  /\ Present(c)
  /\ copies' = [copies EXCEPT ![whom[c]] = @ + 1]
  /\ Answer(c, "answered")
  /\ UNCHANGED <<planId, made, version, invite>>

\* memberIds.push(userId)
SavePush(c) ==
  /\ step[c] = "saving" /\ what[c] = "join"
  /\ Present(c)
  /\ copies' = [copies EXCEPT ![whom[c]] = @ + 1]
  /\ version' = version + 1
  /\ Answer(c, "answered")
  /\ UNCHANGED <<planId, made, invite>>

SaveFilteredBlindlyMutant(c) ==
  /\ step[c] = "saving" /\ what[c] \in {"remove", "leave"}
  /\ Present(c)
  /\ copies' = [mine[c].copies EXCEPT ![whom[c]] = 0]
  /\ version' = version + 1
  /\ Answer(c, "answered")
  /\ UNCHANGED <<planId, made, invite>>

\* memberIds = memberIds.filter(...): what was read, without the user.
SaveFiltered(c) ==
  /\ step[c] = "saving" /\ what[c] \in {"remove", "leave"}
  /\ Present(c)
  /\ version = mine[c].version
  /\ copies' = [mine[c].copies EXCEPT ![whom[c]] = 0]
  /\ version' = version + 1
  /\ Answer(c, "answered")
  /\ UNCHANGED <<planId, made, invite>>

\* DocumentNotFoundError, or VersionError where __v is required.
SaveFails(c) ==
  /\ step[c] = "saving"
  /\ \/ what[c] \in {"share", "join"} /\ ~Present(c)
     \/ what[c] \in {"remove", "leave"} /\ ~(Present(c) /\ version = mine[c].version)
  /\ Answer(c, "refused")
  /\ UNCHANGED planVars

\* doc.deleteOne(): by _id, whether or not it is still there.
DeleteOne(c) ==
  /\ step[c] = "saving" /\ what[c] = "delete"
  /\ IF Present(c)
       THEN /\ planId' = 0
            /\ copies' = Nobody
            /\ version' = 0
            /\ invite' = "none"
            /\ made' = made
       ELSE UNCHANGED planVars
  /\ Answer(c, "answered")

\* The process dies, or MongoDB cannot be reached.
Lost(c) ==
  /\ step[c] = "saving"
  /\ Answer(c, "refused")
  /\ UNCHANGED planVars

InviteExpires ==
  /\ invite = "valid"
  /\ invite' = "expired"
  /\ UNCHANGED <<planId, made, copies, version, callVars>>

Begin(c) ==
  \/ Create(c) \/ Share(c) \/ Delete(c) \/ Refused(c)
  \/ \E u \in Users : Join(c, u) \/ Remove(c, u) \/ Leave(c, u)

Finish(c) ==
  \/ Insert(c) \/ SaveToken(c) \/ SavePush(c) \/ SaveFiltered(c)
  \/ SaveFails(c) \/ DeleteOne(c) \/ Lost(c)

Next ==
  \/ \E c \in Calls : Begin(c) \/ Finish(c)
  \/ InviteExpires

Spec == Init /\ [][Next]_vars

-----------------------------------------------------------------------------
(* Safety *)

\* The owner is a member as long as the plan exists, whoever is removed,
\* leaves or writes back what he read a while ago.
OwnerStays == planId # 0 => copies[Owner] > 0

\* A document read under the current __v is still the current one: memberIds
\* never changes without a new version, which is what removeMember() and
\* leave() rely on when they write the whole array back.
VersionTellsMembers ==
  \A c \in Calls :
     step[c] = "saving" /\ Present(c) /\ mine[c].version = version
        => mine[c].copies = copies

-----------------------------------------------------------------------------
(* Refinement: reads are stuttering, the write or the answer is the change *)

Members == {u \in Users : copies[u] > 0}

Result(c) == IF step[c] = "answered" THEN <<what[c], whom[c]>> ELSE <<"none", Owner>>

Team == INSTANCE TripTeam
          WITH team <- Members, result <- [c \in Calls |-> Result(c)]

\* Joining, leaving and removing are atomic on the team: nobody who joined
\* is dropped by somebody else's concurrent removal, nobody who was removed is
\* brought back by it.
KeepsTeam == Team!Spec
=============================================================================
