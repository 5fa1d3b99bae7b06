------------------------ MODULE TripMembershipProofs ------------------------
(***************************************************************************)
(* Membership is atomic for any users and any number of concurrent calls.  *)
(* The argument is SnapshotInv: within one document, __v only grows, and   *)
(* whoever read the current __v has read the current members.              *)
(***************************************************************************)
EXTENDS TripMembership, TLAPS

SnapshotInv ==
  \A c \in Calls :
     /\ mine[c].id <= made
     /\ planId # 0 /\ mine[c].id = planId =>
          /\ mine[c].version <= version
          /\ mine[c].version = version => mine[c].copies = copies

\* The owner creates, shares and deletes, and nobody saves his removal.
OperationInv ==
  \A c \in Calls :
     /\ what[c] \in {"create", "share", "delete"} => whom[c] = Owner
     /\ what[c] \in {"remove", "leave"} => whom[c] # Owner

IInv ==
  /\ TypeOK
  /\ planId = 0 => copies = Nobody
  /\ OwnerStays
  /\ SnapshotInv
  /\ OperationInv

LEMMA InitIInv == Init => IInv
  BY MembershipAssumption
     DEF Init, IInv, TypeOK, OwnerStays, SnapshotInv, OperationInv, Nobody,
         Operations, Documents

-----------------------------------------------------------------------------
(* Reads *)

\* A read changes the plan in no way and records it as it is.
LEMMA ReadIInv ==
  ASSUME IInv, NEW c \in Calls, NEW operation \in Operations, NEW u \in Users,
         NEW next \in {"saving", "answered", "refused"},
         Read(c, operation, u, next),
         operation \in {"create", "share", "delete"} => u = Owner,
         operation \in {"remove", "leave"} => u # Owner
  PROVE  IInv'
<1> USE DEF IInv
<1>1. UNCHANGED planVars
  BY DEF Read
<1> DEFINE document == [id |-> planId, copies |-> copies, version |-> version]
<1>2. document \in Documents
  BY DEF TypeOK, Documents
<1>3. mine' = [mine EXCEPT ![c] = document]
  BY DEF Read
<1>4. TypeOK'
  <2>1. mine' \in [Calls -> Documents]
    BY <1>2, <1>3 DEF TypeOK
  <2>2. \A d \in Calls : what'[d] \in {"remove", "leave"} => whom'[d] # Owner
    BY DEF Read, OperationInv, TypeOK
  <2> QED
    BY <1>1, <2>1, <2>2 DEF Read, TypeOK, planVars
<1>5. SnapshotInv'
  <2> SUFFICES ASSUME NEW d \in Calls
               PROVE  /\ mine'[d].id <= made
                      /\ planId # 0 /\ mine'[d].id = planId =>
                           /\ mine'[d].version <= version
                           /\ mine'[d].version = version => mine'[d].copies = copies
    BY <1>1 DEF SnapshotInv, planVars
  <2>1. CASE d = c
    BY <1>3, <2>1 DEF TypeOK
  <2>2. CASE d # c
    BY <1>3, <2>2 DEF SnapshotInv, TypeOK
  <2> QED
    BY <2>1, <2>2
<1>6. OperationInv'
  BY DEF Read, OperationInv, TypeOK
<1> QED
  BY <1>1, <1>4, <1>5, <1>6 DEF planVars, OwnerStays

LEMMA BeginIInv == ASSUME IInv, NEW c \in Calls, Begin(c) PROVE IInv'
<1> USE DEF Operations
<1>1. CASE Create(c) \/ Refused(c)
  BY <1>1, ReadIInv, MembershipAssumption DEF Create, Refused
<1>2. CASE Share(c) \/ Delete(c)
  BY <1>2, ReadIInv, MembershipAssumption DEF Share, Delete
<1>3. ASSUME NEW u \in Users, Join(c, u) PROVE IInv'
  BY <1>3, ReadIInv DEF Join
<1>4. ASSUME NEW u \in Users, Remove(c, u) \/ Leave(c, u) PROVE IInv'
  BY <1>4, ReadIInv DEF Remove, Leave
<1> QED
  BY <1>1, <1>2, <1>3, <1>4 DEF Begin

-----------------------------------------------------------------------------
(* Writes *)

\* An answer starts no save.
LEMMA AnswerInv ==
  ASSUME TypeOK, OperationInv, NEW c \in Calls,
         Answer(c, "answered") \/ Answer(c, "refused")
  PROVE  /\ OperationInv'
         /\ UNCHANGED <<what, whom, mine>>
         /\ step' \in [Calls -> {"idle", "saving", "answered", "refused"}]
  BY DEF Answer, OperationInv, TypeOK

\* A step that leaves the document alone.
LEMMA QuietIInv ==
  ASSUME IInv, NEW c \in Calls, Answer(c, "answered") \/ Answer(c, "refused"),
         UNCHANGED <<planId, made, copies, version>>,
         invite' \in {"none", "valid", "expired"}
  PROVE  IInv'
  BY AnswerInv DEF IInv, TypeOK, OwnerStays, SnapshotInv

LEMMA InsertIInv == ASSUME IInv, NEW c \in Calls, Insert(c) PROVE IInv'
<1>1. CASE planId # 0
  BY <1>1, QuietIInv DEF Insert, planVars, IInv, TypeOK
<1>2. CASE planId = 0
  <2>1. /\ planId' = made + 1 /\ made' = made + 1 /\ version' = 0
        /\ copies' = OwnerAlone /\ invite' = "none" /\ Answer(c, "answered")
    BY <1>2 DEF Insert
  <2>2. UNCHANGED mine
    BY <2>1 DEF Answer
  <2>3. copies' \in [Users -> Nat] /\ copies'[Owner] > 0
    BY <2>1, MembershipAssumption DEF OwnerAlone
  <2>4. SnapshotInv'
    BY <2>1, <2>2 DEF IInv, SnapshotInv, TypeOK, Documents
  <2> QED
    BY <2>1, <2>3, <2>4, AnswerInv DEF IInv, TypeOK, OwnerStays
<1> QED
  BY <1>1, <1>2

\* The document changes together with its version.
LEMMA VersionedWrite ==
  ASSUME IInv, NEW c \in Calls, Answer(c, "answered"), planId # 0,
         copies' \in [Users -> Nat], copies'[Owner] > 0, version' = version + 1,
         UNCHANGED <<planId, made, invite>>
  PROVE  IInv'
<1>1. UNCHANGED mine
  BY DEF Answer
<1>2. SnapshotInv'
  BY <1>1 DEF IInv, SnapshotInv, TypeOK, Documents
<1> QED
  BY <1>2, AnswerInv DEF IInv, TypeOK, OwnerStays

\* A filtered save that passed the version check writes the current members
\* but for the one removed.
LEMMA FilteredExactly ==
  ASSUME IInv, NEW c \in Calls, SaveFiltered(c)
  PROVE  copies' = [copies EXCEPT ![whom[c]] = 0] /\ whom[c] # Owner
  BY DEF IInv, SaveFiltered, Present, SnapshotInv, OperationInv

LEMMA FinishIInv == ASSUME IInv, NEW c \in Calls, Finish(c) PROVE IInv'
<1>1. CASE Insert(c)
  BY <1>1, InsertIInv
<1>2. CASE SaveToken(c)
  BY <1>2, QuietIInv DEF SaveToken
<1>3. CASE SavePush(c)
  <2>1. whom[c] \in Users /\ copies \in [Users -> Nat] /\ copies[Owner] > 0
    BY <1>3 DEF IInv, TypeOK, OwnerStays, SavePush, Present
  <2>2. copies' = [copies EXCEPT ![whom[c]] = copies[whom[c]] + 1]
    BY <1>3 DEF SavePush
  <2>3. copies[whom[c]] + 1 \in Nat /\ copies[whom[c]] + 1 > 0
    BY <2>1
  <2>4. copies' \in [Users -> Nat]
    BY <2>1, <2>2, <2>3
  <2>5. copies'[Owner] > 0
    <3>1. CASE whom[c] = Owner
      BY <2>1, <2>2, <2>3, <3>1
    <3>2. CASE whom[c] # Owner
      BY <2>1, <2>2, <3>2
    <3> QED
      BY <3>1, <3>2
  <2> QED
    BY <1>3, <2>4, <2>5, VersionedWrite DEF SavePush, Present
<1>4. CASE SaveFiltered(c)
  <2>1. copies' \in [Users -> Nat] /\ copies'[Owner] > 0
    <3>1. copies \in [Users -> Nat] /\ copies[Owner] > 0
      BY <1>4 DEF IInv, TypeOK, OwnerStays, SaveFiltered, Present
    <3>2. copies' = [copies EXCEPT ![whom[c]] = 0] /\ whom[c] # Owner
      BY <1>4, FilteredExactly
    <3> QED
      BY <3>1, <3>2, MembershipAssumption
  <2> QED
    BY <1>4, <2>1, VersionedWrite DEF SaveFiltered, Present
<1>5. CASE SaveFails(c) \/ Lost(c)
  BY <1>5, QuietIInv DEF SaveFails, Lost, planVars, IInv, TypeOK
<1>6. CASE DeleteOne(c)
  <2>1. CASE ~Present(c)
    BY <1>6, <2>1, QuietIInv DEF DeleteOne, planVars, IInv, TypeOK
  <2>2. CASE Present(c)
    <3>1. /\ planId' = 0 /\ made' = made /\ copies' = Nobody /\ version' = 0
          /\ invite' = "none" /\ Answer(c, "answered")
      BY <1>6, <2>2 DEF DeleteOne
    <3>2. SnapshotInv'
      BY <3>1 DEF IInv, SnapshotInv, Answer
    <3>3. copies' \in [Users -> Nat]
      BY <3>1 DEF Nobody
    <3> QED
      BY <3>1, <3>2, <3>3, AnswerInv DEF IInv, TypeOK, OwnerStays
  <2> QED
    BY <2>1, <2>2
<1> QED
  BY <1>1, <1>2, <1>3, <1>4, <1>5, <1>6 DEF Finish

LEMMA NextIInv == IInv /\ [Next]_vars => IInv'
<1> SUFFICES ASSUME IInv, [Next]_vars PROVE IInv'
  OBVIOUS
<1>1. CASE InviteExpires
  BY <1>1 DEF InviteExpires, callVars, IInv, TypeOK, OwnerStays, SnapshotInv, OperationInv
<1>2. CASE UNCHANGED vars
  BY <1>2 DEF vars, planVars, callVars, IInv, TypeOK, OwnerStays, SnapshotInv, OperationInv
<1> QED
  BY <1>1, <1>2, BeginIInv, FinishIInv DEF Next

LEMMA Invariance == Spec => []IInv
  BY InitIInv, NextIInv, PTL DEF Spec

-----------------------------------------------------------------------------
(* The safety invariants *)

\* Documents, snapshots and calls keep their types, and neither removeMember() nor leave()
\* is under way for the owner.
THEOREM TypeCorrect == Spec => []TypeOK
<1>1. IInv => TypeOK
  BY DEF IInv
<1> QED
  BY <1>1, Invariance, PTL

\* The owner cannot be removed, not even by the write-back of an old copy.
THEOREM OwnerSafe == Spec => []OwnerStays
<1>1. IInv => OwnerStays
  BY DEF IInv
<1> QED
  BY <1>1, Invariance, PTL

\* __v decides whether a copy of memberIds is current.
THEOREM VersionSound == Spec => []VersionTellsMembers
<1>1. IInv => VersionTellsMembers
  BY DEF IInv, SnapshotInv, VersionTellsMembers, Present
<1> QED
  BY <1>1, Invariance, PTL

-----------------------------------------------------------------------------
(* Refinement of the team *)

results == [c \in Calls |-> Result(c)]

LEMMA InitTeam == Init => Team!Init
  BY DEF Init, Team!Init, Team!NoAnswer, Members, Nobody, Result

\* A call that is still saving, or is refused, has not answered.
LEMMA Unanswered ==
  ASSUME TypeOK, NEW c \in Calls, UNCHANGED copies,
         \/ \E operation \in Operations, u \in Users :
               Read(c, operation, u, "saving") \/ Read(c, operation, u, "refused")
         \/ step[c] = "saving" /\ Answer(c, "refused")
  PROVE  UNCHANGED <<Members, results>>
<1>1. \A d \in Calls : Result(d)' = Result(d)
  BY DEF TypeOK, Read, Answer, Result
<1> QED
  BY <1>1 DEF Members, results

\* An answer is what Result says from then on.
LEMMA Answered ==
  ASSUME TypeOK, NEW c \in Calls, step[c] = "saving", Answer(c, "answered")
  PROVE  Team!Answer(c, what[c], whom[c])
<1>1. results[c] = Team!NoAnswer
  BY DEF results, Result, Team!NoAnswer
<1>2. \A d \in Calls : Result(d)' = IF d = c THEN <<what[c], whom[c]>> ELSE Result(d)
  BY DEF Result, Answer, TypeOK
<1>3. results' = [results EXCEPT ![c] = <<what[c], whom[c]>>]
  BY <1>2 DEF results
<1> QED
  BY <1>1, <1>3 DEF Team!Answer, results

LEMMA AnsweredAtOnce ==
  ASSUME TypeOK, NEW c \in Calls, NEW operation \in Operations, NEW u \in Users,
         Read(c, operation, u, "answered")
  PROVE  Team!Answer(c, operation, u) /\ UNCHANGED Members
<1>1. results[c] = Team!NoAnswer
  BY DEF results, Result, Team!NoAnswer, Read
<1>2. \A d \in Calls : Result(d)' = IF d = c THEN <<operation, u>> ELSE Result(d)
  BY DEF Result, Read, TypeOK
<1>3. results' = [results EXCEPT ![c] = <<operation, u>>]
  BY <1>2 DEF results
<1> QED
  BY <1>1, <1>3 DEF Team!Answer, results, Read, planVars, Members

LEMMA BeginTeam ==
  ASSUME IInv, NEW c \in Calls, Begin(c)
  PROVE  Team!Next \/ UNCHANGED <<Members, results>>
<1> USE DEF Operations
<1>1. TypeOK /\ Owner \in Users
  BY MembershipAssumption DEF IInv
<1>2. planId # 0 => Owner \in Members
  BY <1>1 DEF IInv, OwnerStays, Members
<1>3. ASSUME NEW operation \in Operations, NEW u \in Users,
             Read(c, operation, u, "saving") \/ Read(c, operation, u, "refused")
      PROVE  UNCHANGED <<Members, results>>
  <2>1. UNCHANGED copies
    BY <1>3 DEF Read, planVars
  <2> QED
    BY <1>1, <1>3, <2>1, Unanswered
<1>4. CASE Create(c)
  <2>1. CASE planId = 0
    BY <1>1, <1>3, <1>4, <2>1 DEF Create
  <2>2. CASE planId # 0
    BY <1>1, <1>2, <1>4, <2>2, AnsweredAtOnce DEF Create, Team!Next, Team!Create
  <2> QED
    BY <2>1, <2>2
<1>5. CASE Share(c) \/ Delete(c) \/ Refused(c)
  BY <1>1, <1>3, <1>5 DEF Share, Delete, Refused
<1>6. ASSUME NEW u \in Users, Join(c, u) PROVE Team!Next \/ UNCHANGED <<Members, results>>
  <2>1. CASE copies[u] = 0
    BY <1>3, <1>6, <2>1 DEF Join
  <2>2. CASE copies[u] # 0
    <3>1. u \in Members
      BY <1>1, <2>2 DEF Members, TypeOK
    <3>2. Team!Answer(c, "join", u) /\ UNCHANGED Members
      BY <1>1, <1>6, <2>2, AnsweredAtOnce DEF Join
    <3> QED
      BY <3>1, <3>2 DEF Team!Next, Team!Join
  <2> QED
    BY <2>1, <2>2
<1>7. ASSUME NEW u \in Users, Remove(c, u) PROVE Team!Next \/ UNCHANGED <<Members, results>>
  <2>1. CASE copies[u] = 0
    <3>1. u \notin Members /\ u # Owner
      BY <1>7, <2>1 DEF Members, Remove
    <3>2. Team!Answer(c, "remove", u) /\ UNCHANGED Members
      BY <1>1, <1>7, <2>1, AnsweredAtOnce DEF Remove
    <3> QED
      BY <3>1, <3>2 DEF Team!Next, Team!Part
  <2>2. CASE copies[u] # 0
    BY <1>3, <1>7, <2>2 DEF Remove
  <2> QED
    BY <2>1, <2>2
<1>8. ASSUME NEW u \in Users, Leave(c, u) PROVE UNCHANGED <<Members, results>>
  BY <1>3, <1>8 DEF Leave
<1> QED
  BY <1>4, <1>5, <1>6, <1>7, <1>8 DEF Begin

LEMMA FinishTeam ==
  ASSUME IInv, NEW c \in Calls, Finish(c)
  PROVE  Team!Next \/ UNCHANGED <<Members, results>>
<1>1. TypeOK /\ Owner \in Users /\ whom[c] \in Users /\ step[c] = "saving"
  BY MembershipAssumption
     DEF IInv, TypeOK, Finish, Insert, SaveToken, SavePush, SaveFiltered, SaveFails,
         DeleteOne, Lost
<1>2. planId # 0 => Owner \in Members
  BY <1>1 DEF IInv, OwnerStays, Members
<1>3. CASE Answer(c, "refused") /\ UNCHANGED copies
  BY <1>1, <1>3, Unanswered
<1>4. CASE SaveFails(c) \/ Lost(c)
  BY <1>3, <1>4 DEF SaveFails, Lost, planVars
<1>5. ASSUME Answer(c, "answered") PROVE Team!Answer(c, what[c], whom[c])
  BY <1>1, <1>5, Answered
<1>6. what[c] \in {"create", "share", "delete"} => whom[c] = Owner
  BY DEF IInv, OperationInv
<1>7. CASE Insert(c)
  <2>1. CASE planId = 0
    <3>1. Members = {} /\ Members' = {Owner}
      BY <1>1, <1>7, <2>1 DEF IInv, Insert, Members, Nobody, OwnerAlone
    <3>2. Team!Answer(c, "create", Owner)
      BY <1>5, <1>6, <1>7, <2>1 DEF Insert
    <3> QED
      BY <3>1, <3>2 DEF Team!Next, Team!Create
  <2>2. CASE planId # 0
    BY <1>3, <1>7, <2>2 DEF Insert, planVars
  <2> QED
    BY <2>1, <2>2
<1>8. CASE SaveToken(c)
  <2>1. Members # {} /\ UNCHANGED Members
    BY <1>2, <1>8 DEF SaveToken, Present, Members
  <2>2. Team!Answer(c, "share", Owner)
    BY <1>5, <1>6, <1>8 DEF SaveToken
  <2> QED
    BY <2>1, <2>2 DEF Team!Next, Team!Share
<1>9. CASE SavePush(c)
  <2>1. Members # {}
    BY <1>2, <1>9 DEF SavePush, Present
  <2>2. Members' = Members \union {whom[c]}
    <3>1. \A u \in Users : copies'[u] = IF u = whom[c] THEN copies[u] + 1 ELSE copies[u]
      BY <1>1, <1>9 DEF SavePush, TypeOK
    <3> QED
      BY <1>1, <3>1 DEF Members, TypeOK
  <2>3. Team!Answer(c, "join", whom[c])
    BY <1>5, <1>9 DEF SavePush
  <2> QED
    BY <1>1, <2>1, <2>2, <2>3 DEF Team!Next, Team!Join
<1>10. CASE SaveFiltered(c)
  <2>1. whom[c] # Owner /\ copies' = [copies EXCEPT ![whom[c]] = 0]
    BY <1>10, FilteredExactly
  <2>2. Members' = Members \ {whom[c]}
    BY <1>1, <2>1 DEF Members, TypeOK
  <2>3. Team!Answer(c, "remove", whom[c]) \/ Team!Answer(c, "leave", whom[c])
    BY <1>5, <1>10 DEF SaveFiltered
  <2> QED
    BY <1>1, <2>1, <2>2, <2>3 DEF Team!Next, Team!Part
<1>11. CASE DeleteOne(c)
  <2>1. Members' \in {{}, Members}
    BY <1>11 DEF DeleteOne, Members, Nobody, planVars
  <2>2. Team!Answer(c, "delete", Owner)
    BY <1>5, <1>6, <1>11 DEF DeleteOne
  <2> QED
    BY <2>1, <2>2 DEF Team!Next, Team!Delete
<1> QED
  BY <1>4, <1>7, <1>8, <1>9, <1>10, <1>11 DEF Finish

LEMMA NextTeam == IInv /\ [Next]_vars => [Team!Next]_<<Members, results>>
<1> SUFFICES ASSUME IInv, [Next]_vars PROVE Team!Next \/ UNCHANGED <<Members, results>>
  OBVIOUS
<1>1. CASE InviteExpires \/ UNCHANGED vars
  <2>1. UNCHANGED <<copies, step, what, whom>>
    BY <1>1 DEF InviteExpires, vars, planVars, callVars
  <2> QED
    BY <2>1 DEF Members, results, Result
<1> QED
  BY <1>1, BeginTeam, FinishTeam DEF Next

\* Every read-modify-write of the members implements an atomic change of the
\* team, for any number of users and concurrent calls.
THEOREM Implementation == Spec => KeepsTeam
<1>1. IInv /\ [Next]_vars => [Team!Next]_(Team!vars)
  BY NextTeam DEF Team!vars, results
<1> QED
  BY <1>1, InitTeam, Invariance, PTL DEF Spec, Team!Spec, KeepsTeam

-----------------------------------------------------------------------------
(* Composition: the trip beside a saved guide *)

\* SavedPlan lets the trip of each owner appear, change its members and disappear beside
\* its calls.  Here are these steps of its, taken by the trip plan of this module, while
\* the guide, its calls and the trips of others stand still.  NoOne is the owner of no
\* trip.
Seen(MaxTrips, NoOne) ==
  [t \in 1 .. MaxTrips |->
     IF t = planId THEN [owner |-> Owner, members |-> Members, by |-> NoOne]
                   ELSE [owner |-> NoOne, members |-> {}, by |-> NoOne]]

Beside(MaxTrips, NoOne) ==
  INSTANCE SavedPlan
    WITH Anonymous <- "public", Calls <- {}, None <- NoOne, Patch <- "patch", MaxExpiries <- 0,
         guide <- "guide", due <- FALSE, expired <- 0,
         trips <- Seen(MaxTrips, NoOne),
         step <- <<>>, what <- <<>>, who <- <<>>, mine <- <<>>, resolved <- <<>>, named <- <<>>

TripMoves(MaxTrips, NoOne) ==
  \/ Beside(MaxTrips, NoOne)!TripCreated(Owner)
  \/ \E t \in 1 .. MaxTrips :
       \/ \E team \in SUBSET Users : Beside(MaxTrips, NoOne)!TeamChanges(t, team)
       \/ Beside(MaxTrips, NoOne)!TripDeleted(t)

\* The members are accounts, and the owner one of them while there is a trip.
LEMMA TeamHasOwner == IInv => Members \in SUBSET Users /\ (planId # 0 => Owner \in Members)
  BY MembershipAssumption DEF IInv, TypeOK, OwnerStays, Members

LEMMA MovesStep ==
  ASSUME IInv, [Next]_vars, NEW MaxTrips \in Nat, made' <= MaxTrips, NEW NoOne, NoOne # Owner
  PROVE  TripMoves(MaxTrips, NoOne) \/ UNCHANGED <<planId, made, Members>>
<1> USE DEF Beside!guideVars, Beside!callVars
<1>0. TypeOK /\ made \in Nat /\ planId \in Nat /\ planId <= made
  BY DEF IInv, TypeOK
<1>1. IInv'
  BY NextIInv
<1>2. Members' \in SUBSET Users /\ (planId' # 0 => Owner \in Members')
  <2>1. (Members \in SUBSET Users /\ (planId # 0 => Owner \in Members))'
    BY <1>1, TeamHasOwner, PTL
  <2> QED
    BY <2>1
<1> DEFINE plan(team) == [owner |-> Owner, members |-> team, by |-> NoOne]
           blank == [owner |-> NoOne, members |-> {}, by |-> NoOne]
<1>3. plan(Members) # blank /\ plan(Members).owner = Owner /\ blank.owner # Owner
  OBVIOUS
<1>4. /\ Seen(MaxTrips, NoOne) = [t \in 1 .. MaxTrips |-> IF t = planId THEN plan(Members) ELSE blank]
      /\ Seen(MaxTrips, NoOne)' = [t \in 1 .. MaxTrips |-> IF t = planId' THEN plan(Members') ELSE blank]
  BY DEF Seen
<1>9. [plan(Members) EXCEPT !.members = Members'] = plan(Members')
  OBVIOUS
<1> HIDE DEF plan, blank
<1>5. ASSUME NEW c \in Calls, Insert(c), planId = 0
      PROVE  TripMoves(MaxTrips, NoOne)
  <2>1. planId' = made + 1 /\ made' = made + 1 /\ copies' = OwnerAlone
    BY <1>5 DEF Insert
  <2>2. Members' = {Owner}
    BY <2>1, MembershipAssumption DEF Members, OwnerAlone
  <2>3. made' \in 1 .. MaxTrips /\ made < MaxTrips
    BY <1>0, <2>1
  <2>4. \A t \in 1 .. MaxTrips : Seen(MaxTrips, NoOne)[t] = blank
    BY <1>4, <1>5
  <2>5. Seen(MaxTrips, NoOne)' = [Seen(MaxTrips, NoOne) EXCEPT ![made'] = plan({Owner})]
    <3>1. \A t \in 1 .. MaxTrips : t # planId
      BY <1>5
    <3>2. plan(Members') = plan({Owner})
      BY <2>2
    <3> QED
      BY <1>4, <2>1, <2>3, <3>1, <3>2
  <2> QED
    BY <1>3, <2>1, <2>3, <2>4, <2>5 DEF TripMoves, Beside!TripCreated, Beside!TripIds, plan
<1>6. ASSUME NEW c \in Calls, SavePush(c) \/ SaveFiltered(c)
      PROVE  TripMoves(MaxTrips, NoOne)
  <2>1. planId # 0 /\ planId' = planId /\ made' = made
    BY <1>6 DEF SavePush, SaveFiltered, Present
  <2>2. planId \in 1 .. MaxTrips
    BY <1>0, <2>1
  <2>3. Seen(MaxTrips, NoOne)[planId] = plan(Members)
    BY <1>4, <2>2
  <2>4. Seen(MaxTrips, NoOne)' = [Seen(MaxTrips, NoOne) EXCEPT ![planId].members = Members']
    BY <1>4, <1>9, <2>1, <2>2, <2>3
  <2>6. Beside(MaxTrips, NoOne)!Present(planId)
    BY <1>3, <2>3 DEF Beside!Present, Beside!NoTrip, blank
  <2>5. Beside(MaxTrips, NoOne)!TeamChanges(planId, Members')
    BY <1>2, <1>3, <2>1, <2>3, <2>4, <2>6 DEF Beside!TeamChanges
  <2> QED
    BY <1>2, <2>2, <2>5 DEF TripMoves
<1>7. ASSUME NEW c \in Calls, DeleteOne(c), Present(c)
      PROVE  TripMoves(MaxTrips, NoOne)
  <2>1. planId # 0 /\ planId' = 0 /\ made' = made
    BY <1>7 DEF DeleteOne, Present
  <2>2. planId \in 1 .. MaxTrips
    BY <1>0, <2>1
  <2>3. Seen(MaxTrips, NoOne)[planId] = plan(Members)
    BY <1>4, <2>2
  <2>4. Seen(MaxTrips, NoOne)' = [Seen(MaxTrips, NoOne) EXCEPT ![planId] = blank]
    BY <1>4, <2>1, <2>2
  <2>5. Beside(MaxTrips, NoOne)!TripDeleted(planId)
    BY <1>3, <2>1, <2>3, <2>4 DEF Beside!TripDeleted, Beside!Present, Beside!NoTrip, blank
  <2> QED
    BY <2>2, <2>5 DEF TripMoves
<1>8. CASE UNCHANGED <<planId, made, copies>>
  BY <1>8 DEF Members
<1> QED
  BY <1>5, <1>6, <1>7, <1>8
     DEF Next, Begin, Finish, Create, Share, Join, Remove, Leave, Delete, Refused, Read, Insert,
         SaveToken, SaveFails, DeleteOne, Lost, InviteExpires, vars, planVars

\* What SavedPlan takes for granted of a trip beside its guide is what the calls of
\* trip-plan.service.ts do to it, however they overlap: ids are not used again, the owner
\* of a trip that exists is one of its members (assertGuideAccess() and the choice of the
\* trip to link rely on the list), and a deletion leaves none.  So what is proved of a
\* guide beside any such trips is proved of it beside this one, up to the number of trips
\* that SavedPlan is given as a bound.
THEOREM TripsAreAsSeen ==
  ASSUME NEW MaxTrips \in Nat, NEW NoOne, NoOne # Owner
  PROVE  Spec => /\ planId = 0 /\ made = 0 /\ Members = {}
                 /\ [][made' <= MaxTrips => TripMoves(MaxTrips, NoOne)]_<<planId, made, Members>>
<1>1. Init => planId = 0 /\ made = 0 /\ Members = {}
  BY DEF Init, Members, Nobody
<1>2. IInv /\ [Next]_vars
        => [made' <= MaxTrips => TripMoves(MaxTrips, NoOne)]_<<planId, made, Members>>
  BY MovesStep
<1> QED
  BY <1>1, <1>2, Invariance, PTL DEF Spec
=============================================================================
