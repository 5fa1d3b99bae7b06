----------------------- MODULE SquadConnectionsProofs -----------------------
(***************************************************************************)
(* Proofs about SquadConnections, for any users and calls.                 *)
(***************************************************************************)
EXTENDS SquadConnections, TLAPS

Connecting == {"finding", "checking", "creating"}
Answering  == {"weighing", "saving"}
Deleting   == {"clearing", "dropping"}

\* What a call is about, by the step it has reached.
CallInv ==
  \A c \in Calls :
    /\ step[c] = "idle" => what[c] = "connect"
    /\ step[c] \in Connecting =>
         /\ what[c] = "connect"
         /\ from[c] # 0 /\ to[c] # 0
         /\ owner[from[c]] = who[c]
    /\ step[c] \in {"checking", "creating"} => owner[to[c]] # who[c]
    /\ step[c] \in Deleting => what[c] = "delete" /\ from[c] # 0
    /\ step[c] \in Answering => what[c] = "answer" /\ request[c] # 0
    /\ step[c] = "merging" => verdict[c] \in Hiding
    /\ step[c] \in Answering => verdict[c] \in Verdicts

\* Calls in flight together have met.
MeetInv ==
  \A c, d \in Calls :
    c # d /\ step[c] \in InFlight /\ step[d] \in InFlight => d \in met[c]

\* Ends of the request that c is about to make, as far as it has looked.
Looked(c) ==
  {id \in Ids : \/ step[c] \in Connecting /\ id = from[c]
                \/ step[c] \in {"checking", "creating"} /\ id = to[c]}

DeletedBeside(c, id) ==
  \E d \in met[c] : what[d] = "delete" /\ who[d] = owner[id]

\* What c found open is open, or stirred since.
OpenInv ==
  \A c \in Calls : \A id \in Looked(c) : Open(id) \/ owner[id] \in stirred[c]

\* What c found is there, or was deleted beside it.
FoundInv ==
  \A c \in Calls : \A id \in Looked(c) : Exists(id) \/ DeletedBeside(c, id)

\* A deletion clears a request before it drops the profile, or met the call that
\* made it.
DeleteInv ==
  \A r \in requests : \A id \in {r.from, r.to} : \A d \in Calls :
    step[d] \in Deleting /\ who[d] = owner[id] /\ Exists(id)
      => d \in met[r.by] \/ (step[d] = "clearing" /\ from[d] = id)

\* A request that is no longer pending was answered beside who still answers it.
AnswerInv ==
  \A c \in Calls, r \in requests :
    step[c] \in Answering /\ r.id = request[c] /\ r.status # "pending"
      => \E d \in met[c] : what[d] = "answer" /\ request[d] = r.id

Records == [id : Nat, from : Nat, to : Nat, by : Calls, closed : SUBSET Nat,
            status : Verdicts \union {"pending"}]

\* The stored requests are records, made by calls that have ended.
MadeInv ==
  /\ requests \subseteq Records
  /\ \A r \in requests : step[r.by] = "done"

IInv ==
  /\ TypeOK
  /\ CallInv
  /\ MeetInv
  /\ MadeInv
  /\ OpenInv
  /\ FoundInv
  /\ DeleteInv
  /\ AnswerInv
  /\ RequestsMatchProfiles

LEMMA InitIInv == Init => IInv
  BY SquadConnectionsAssumption
     DEF Init, IInv, TypeOK, CallInv, MeetInv, MadeInv, OpenInv, FoundInv, DeleteInv,
         AnswerInv, RequestsMatchProfiles, Looked, Ids, InFlight, Connecting, Answering,
         Deleting, Verdicts, Hiding

-----------------------------------------------------------------------------
(* Types *)

ProfileTypes ==
  /\ owner \in Seq(Users)
  /\ profile \in [Users -> Ids]
  /\ \A u \in Users : profile[u] # 0 => owner[profile[u]] = u
  /\ hidden \subseteq {u \in Users : profile[u] # 0}

RequestTypes ==
  /\ made \in 0 .. MaxRequests
  /\ \A r \in requests :
       /\ r.id \in 1 .. made
       /\ r.from \in Ids \ {0} /\ r.to \in Ids \ {0}
       /\ owner[r.from] # owner[r.to]
       /\ r.status \in Verdicts \union {"pending"}
       /\ r.by \in Calls /\ r.closed \subseteq {r.from, r.to}
       /\ \A q \in requests : q.id = r.id => q = r

CallTypes ==
  /\ step \in [Calls -> InFlight \union {"idle", "done"}]
  /\ what \in [Calls -> {"connect", "answer", "settings", "delete"}]
  /\ who \in [Calls -> Users]
  /\ from \in [Calls -> Ids] /\ to \in [Calls -> Ids]
  /\ request \in [Calls -> 0 .. made]
  /\ verdict \in [Calls -> Verdicts \union Hiding]
  /\ met \in [Calls -> SUBSET Calls]
  /\ stirred \in [Calls -> SUBSET Users]

LEMMA Types == TypeOK <=> ProfileTypes /\ RequestTypes /\ CallTypes
  BY DEF TypeOK, ProfileTypes, RequestTypes, CallTypes

\* A profile that is made has the next id; the others keep their owners.
LEMMA Appended ==
  ASSUME TypeOK, NEW u \in Users, owner' = Append(owner, u)
  PROVE  /\ owner' \in Seq(Users)
         /\ Len(owner') = Len(owner) + 1
         /\ owner'[Len(owner) + 1] = u
         /\ Ids \subseteq Ids'
         /\ Len(owner) + 1 \in Ids'
         /\ \A id \in Ids \ {0} : owner'[id] = owner[id] /\ owner[id] \in Users
<1>1. owner \in Seq(Users) /\ Len(owner) \in Nat
  BY DEF TypeOK
<1>2. Len(owner') = Len(owner) + 1 /\ owner' \in Seq(Users)
  BY <1>1
<1>3. owner'[Len(owner) + 1] = u /\ \A id \in 1 .. Len(owner) : owner'[id] = owner[id]
  BY <1>1
<1>4. \A id \in 1 .. Len(owner) : owner[id] \in Users
  BY <1>1
<1> QED
  BY <1>1, <1>2, <1>3, <1>4 DEF Ids

LEMMA ProfileType ==
  ASSUME TypeOK, NEW u \in Users, NEW hiding \in Hiding, PutProfile(u, hiding)
  PROVE  TypeOK'
<1>1. CASE profile[u] = 0
  <2>1. owner' = Append(owner, u) /\ profile' = [profile EXCEPT ![u] = Len(owner) + 1]
    BY <1>1 DEF PutProfile
  <2>2. hidden' \subseteq hidden \union {u}
    BY DEF PutProfile, StoreHidden
  <2>3. profile' \in [Users -> Ids']
    BY <2>1, Appended DEF TypeOK
  <2>4. \A v \in Users : profile'[v] # 0 => owner'[profile'[v]] = v
    BY <2>1, Appended DEF TypeOK
  <2>5. hidden' \subseteq {v \in Users : profile'[v] # 0}
    BY <2>1, <2>2 DEF TypeOK
  <2>6. ProfileTypes'
    BY <2>1, <2>3, <2>4, <2>5, Appended DEF ProfileTypes
  <2>7. RequestTypes'
    BY <2>1, Appended DEF RequestTypes, TypeOK, PutProfile
  <2>8. CallTypes'
    BY <2>1, Appended DEF CallTypes, TypeOK, PutProfile, Stir, notes
  <2> QED
    BY <2>6, <2>7, <2>8 DEF TypeOK, ProfileTypes, RequestTypes, CallTypes
<1>2. CASE profile[u] # 0
  <2>1. UNCHANGED <<owner, profile, requests, made, step, what, who, from, to, request,
                    verdict, met>>
    BY <1>2 DEF PutProfile, notes
  <2>2. ProfileTypes'
    BY <1>2, <2>1 DEF ProfileTypes, TypeOK, Ids, PutProfile, StoreHidden
  <2>3. RequestTypes'
    BY <2>1 DEF RequestTypes, TypeOK, Ids
  <2>4. CallTypes'
    BY <2>1 DEF CallTypes, TypeOK, Ids, PutProfile, Stir
  <2> QED
    BY <2>2, <2>3, <2>4 DEF TypeOK, ProfileTypes, RequestTypes, CallTypes
<1> QED
  BY <1>1, <1>2

LEMMA ArriveType ==
  ASSUME TypeOK, NEW c \in Calls, Arrive(c)
  PROVE  TypeOK'
<1>1. UNCHANGED docVars
  BY DEF Arrive, PatchSettings, DeleteProfile, Connect, Answer
<1>2. ProfileTypes' /\ RequestTypes'
  BY <1>1 DEF docVars, TypeOK, ProfileTypes, RequestTypes, Ids
<1>3. ASSUME NEW operation \in {"connect", "answer", "settings", "delete"},
             NEW next \in InFlight, Begin(c, operation, next)
      PROVE  /\ step' \in [Calls -> InFlight \union {"idle", "done"}]
             /\ what' \in [Calls -> {"connect", "answer", "settings", "delete"}]
             /\ who' \in [Calls -> Users]
             /\ met' \in [Calls -> SUBSET Calls]
             /\ stirred' \in [Calls -> SUBSET Users]
  BY <1>3 DEF TypeOK, Begin, Others
<1>4. CallTypes'
  <2> USE DEF CallTypes, TypeOK, docVars, Ids, InFlight
  <2>1. CASE \E hiding \in Hiding : PatchSettings(c, hiding)
    BY <1>1, <1>3, <2>1 DEF PatchSettings
  <2>2. CASE DeleteProfile(c)
    BY <1>1, <1>3, <2>2 DEF DeleteProfile
  <2>3. CASE \E id \in Ids \ {0} : Connect(c, id)
    BY <1>1, <1>3, <2>3 DEF Connect
  <2>4. CASE \E r \in requests, status \in Verdicts : Answer(c, r, status)
    BY <1>1, <1>3, <2>4 DEF Answer
  <2> QED
    BY <2>1, <2>2, <2>3, <2>4 DEF Arrive
<1> QED
  BY <1>2, <1>4 DEF TypeOK, ProfileTypes, RequestTypes, CallTypes

\* Whatever a call in flight does, it goes on or ends.
LEMMA CallType ==
  ASSUME TypeOK, NEW c \in Calls, Ids' = Ids, made \in Nat, made' \in Nat, made <= made',
         stirred' \in [Calls -> SUBSET Users],
         Finish(c) \/ \E next \in InFlight : To(c, next)
  PROVE  CallTypes'
<1>1. CASE Finish(c)
  BY <1>1 DEF Finish, CallTypes, TypeOK, Hiding, Ids
<1>2. CASE \E next \in InFlight : To(c, next)
  BY <1>2 DEF To, notes, CallTypes, TypeOK, Ids
<1> QED
  BY <1>1, <1>2

LEMMA StirType ==
  ASSUME TypeOK, NEW u \in Users, Stir(u)
  PROVE  /\ stirred' \in [Calls -> SUBSET Users]
         /\ \A d \in Calls : stirred[d] \subseteq stirred'[d]
<1>1. stirred \in [Calls -> SUBSET Users]
  BY DEF TypeOK
<1> QED
  BY <1>1 DEF Stir

LEMMA ProceedType ==
  ASSUME TypeOK, CallInv, MadeInv, NEW c \in Calls, Proceed(c)
  PROVE  TypeOK'
<1>1. owner' = owner /\ Ids' = Ids
  BY DEF Proceed, Merge, Clear, Drop, Find, Check, Create, Weigh, Save, Lost, docVars, Ids
<1>2. made \in Nat /\ made' \in 0 .. MaxRequests /\ made <= made'
  <2>1. made \in 0 .. MaxRequests /\ MaxRequests \in Nat
    BY SquadConnectionsAssumption DEF TypeOK
  <2>2. made' = made \/ (made < MaxRequests /\ made' = made + 1)
    BY DEF Proceed, Merge, Clear, Drop, Find, Check, Create, Weigh, Save, Lost, docVars
  <2> QED
    BY <2>1, <2>2
<1>3. Finish(c) \/ \E next \in InFlight : To(c, next)
  BY DEF Proceed, Merge, Clear, Drop, Find, Check, Create, Weigh, Save, Lost, GoOn, InFlight
<1>4. who[c] \in Users
  BY DEF TypeOK
<1>5. stirred' \in [Calls -> SUBSET Users]
  BY <1>4, StirType DEF Proceed, Merge, Clear, Drop, Find, Check, Create, Weigh, Save, Lost,
                        TypeOK
<1>6. CallTypes'
  BY <1>1, <1>2, <1>3, <1>5, CallType
<1>7. ProfileTypes'
  <2>1. CASE Merge(c)
    BY <1>1, <1>4, <2>1 DEF Merge, StoreHidden, ProfileTypes, TypeOK
  <2>2. CASE Drop(c)
    BY <1>1, <1>4, <2>2 DEF Drop, ProfileTypes, TypeOK, Ids
  <2>3. CASE UNCHANGED <<profile, hidden>>
    BY <1>1, <2>3 DEF ProfileTypes, TypeOK
  <2> QED
    BY <2>1, <2>2, <2>3
       DEF Proceed, Clear, Find, Check, Create, Weigh, Save, Lost, docVars
<1>8. RequestTypes'
  <2>1. CASE Clear(c)
    BY <1>1, <1>2, <2>1 DEF Clear, RequestTypes, TypeOK
  <2>2. CASE Create(c) /\ Pending(c) = {}
    <3> DEFINE new == [id |-> made + 1, from |-> from[c], to |-> to[c], status |-> "pending",
                       by |-> c, closed |-> Closed({from[c], to[c]})]
    <3>1. requests' = requests \union {new} /\ made' = made + 1
      BY <2>2 DEF Create
    <3>2. /\ from[c] \in Ids \ {0} /\ to[c] \in Ids \ {0}
          /\ owner[from[c]] # owner[to[c]]
      BY <2>2 DEF Create, CallInv, Connecting, TypeOK
    <3>3. /\ new.id = made + 1 /\ new.from = from[c] /\ new.to = to[c]
          /\ new.status = "pending" /\ new.by = c
          /\ new.closed \subseteq {new.from, new.to}
      BY DEF Closed
    <3> HIDE DEF new
    <3>4. \A r \in requests : r.id \in 1 .. made
      BY DEF TypeOK
    <3>5. ASSUME NEW r \in requests'
          PROVE  /\ r.id \in 1 .. made'
                 /\ r.from \in Ids \ {0} /\ r.to \in Ids \ {0}
                 /\ owner[r.from] # owner[r.to]
                 /\ r.status \in Verdicts \union {"pending"}
                 /\ r.by \in Calls /\ r.closed \subseteq {r.from, r.to}
      <4>1. CASE r = new
        BY <1>2, <3>1, <3>2, <3>3, <4>1
      <4>2. CASE r \in requests
        BY <1>2, <3>1, <4>2 DEF TypeOK
      <4> QED
        BY <3>1, <4>1, <4>2
    <3>6. ASSUME NEW r \in requests', NEW q \in requests', q.id = r.id
          PROVE  q = r
      <4>1. \A s \in requests : s.id # new.id
        BY <1>2, <3>3, <3>4
      <4>2. \A s, u \in requests : s.id = u.id => s = u
        BY DEF TypeOK
      <4> QED
        BY <3>1, <3>6, <4>1, <4>2
    <3> QED
      BY <1>1, <1>2, <3>5, <3>6 DEF RequestTypes
  <2>3. CASE Save(c)
    <3> DEFINE Saved(r) == IF r.id = request[c] THEN [r EXCEPT !.status = verdict[c]] ELSE r
    <3>1. verdict[c] \in Verdicts
      BY <2>3 DEF Save, CallInv, Answering
    <3>2. requests' = {Saved(r) : r \in requests} /\ made' = made
      BY <2>3 DEF Save
    <3>3. \A r \in requests :
            /\ Saved(r).id = r.id /\ Saved(r).from = r.from /\ Saved(r).to = r.to
            /\ Saved(r).by = r.by /\ Saved(r).closed = r.closed
            /\ Saved(r).status \in {r.status, verdict[c]}
      BY DEF MadeInv
    <3> HIDE DEF Saved
    <3>4. ASSUME NEW r \in requests
          PROVE  /\ Saved(r).id \in 1 .. made
                 /\ Saved(r).from \in Ids \ {0} /\ Saved(r).to \in Ids \ {0}
                 /\ owner[Saved(r).from] # owner[Saved(r).to]
                 /\ Saved(r).status \in Verdicts \union {"pending"}
                 /\ Saved(r).by \in Calls /\ Saved(r).closed \subseteq {Saved(r).from, Saved(r).to}
      <4>1. /\ r.id \in 1 .. made /\ r.from \in Ids \ {0} /\ r.to \in Ids \ {0}
            /\ owner[r.from] # owner[r.to] /\ r.status \in Verdicts \union {"pending"}
            /\ r.by \in Calls /\ r.closed \subseteq {r.from, r.to}
        BY DEF TypeOK
      <4> QED
        BY <3>1, <3>3, <4>1
    <3>5. \A r, q \in requests : Saved(q).id = Saved(r).id => Saved(q) = Saved(r)
      BY <3>3 DEF TypeOK
    <3> QED
      BY <1>1, <1>2, <3>2, <3>4, <3>5 DEF RequestTypes
  <2>4. CASE UNCHANGED <<requests, made>>
    BY <1>1, <2>4 DEF RequestTypes, TypeOK
  <2> QED
    BY <2>1, <2>2, <2>3, <2>4 DEF Proceed, Merge, Drop, Find, Check, Create, Weigh, Lost, docVars
<1> QED
  BY <1>6, <1>7, <1>8 DEF TypeOK, ProfileTypes, RequestTypes, CallTypes

-----------------------------------------------------------------------------
(* What no step undoes *)

\* A call that has begun keeps what it is about, and who it met and what stirred
\* beside it stay.
LEMMA CallsKept ==
  ASSUME TypeOK, [Next]_vars
  PROVE  /\ who' = who
         /\ \A d \in Calls : step[d] # "idle" =>
              /\ step'[d] # "idle" /\ what'[d] = what[d] /\ request'[d] = request[d]
              /\ met[d] \subseteq met'[d] /\ stirred[d] \subseteq stirred'[d]
         /\ \A d \in Calls : step[d] = "done" => step'[d] = "done"
<1>1. CASE \E c \in Calls : Arrive(c)
  <2>1. PICK c \in Calls : Arrive(c)
    BY <1>1
  <2>2. \E operation, next : Begin(c, operation, next)
    BY <2>1 DEF Arrive, PatchSettings, DeleteProfile, Connect, Answer
  <2>3. \A d \in Calls \ {c} : request'[d] = request[d]
    BY <2>1 DEF Arrive, PatchSettings, DeleteProfile, Connect, Answer, TypeOK
  <2> QED
    BY <2>2, <2>3 DEF Begin, Others, TypeOK
<1>2. CASE \E c \in Calls : Proceed(c)
  <2>1. PICK c \in Calls : Proceed(c)
    BY <1>2
  <2>2. Finish(c) \/ \E next \in InFlight : To(c, next)
    BY <2>1 DEF Proceed, Merge, Clear, Drop, Find, Check, Create, Weigh, Save, Lost, GoOn,
                InFlight
  <2>3. step[c] \in InFlight
    BY <2>1 DEF Proceed, Merge, Clear, Drop, Find, Check, Create, Weigh, Save, Lost, InFlight
  <2>4. stirred' = stirred \/ \E u \in Users : Stir(u)
    BY <2>1 DEF Proceed, Merge, Clear, Drop, Find, Check, Create, Weigh, Save, Lost, TypeOK
  <2>5. \A d \in Calls : stirred[d] \subseteq stirred'[d]
    BY <2>4, StirType
  <2> QED
    BY <2>2, <2>3, <2>5 DEF Finish, To, notes, TypeOK, InFlight
<1>3. CASE \E u \in Users, hiding \in Hiding : PutProfile(u, hiding)
  BY <1>3 DEF PutProfile, Stir, notes, TypeOK
<1>4. CASE UNCHANGED vars
  BY <1>4 DEF vars, callVars, notes
<1> QED
  BY <1>1, <1>2, <1>3, <1>4 DEF Next

\* Calls in flight were in flight before, but for the one that begins.
LEMMA FlightKept ==
  ASSUME TypeOK, [Next]_vars, NEW d \in Calls, step'[d] \in InFlight
  PROVE  \/ step[d] \in InFlight
         \/ step[d] = "idle" /\ \E operation, next : Begin(d, operation, next)
<1>1. CASE \E c \in Calls : Arrive(c)
  <2>1. PICK c \in Calls : Arrive(c)
    BY <1>1
  <2>2. \E operation, next : Begin(c, operation, next)
    BY <2>1 DEF Arrive, PatchSettings, DeleteProfile, Connect, Answer
  <2>3. CASE d = c
    BY <2>2, <2>3 DEF Begin
  <2>4. CASE d # c
    BY <2>2, <2>4 DEF Begin, TypeOK
  <2> QED
    BY <2>3, <2>4
<1>2. CASE \E c \in Calls : Proceed(c)
  <2>1. PICK c \in Calls : Proceed(c)
    BY <1>2
  <2>2. Finish(c) \/ \E next \in InFlight : To(c, next)
    BY <2>1 DEF Proceed, Merge, Clear, Drop, Find, Check, Create, Weigh, Save, Lost, GoOn,
                InFlight
  <2>3. step[c] \in InFlight
    BY <2>1 DEF Proceed, Merge, Clear, Drop, Find, Check, Create, Weigh, Save, Lost, InFlight
  <2> QED
    BY <2>2, <2>3 DEF Finish, To, TypeOK
<1>3. CASE UNCHANGED step
  BY <1>3
<1> QED
  BY <1>1, <1>2, <1>3 DEF Next, PutProfile, vars, callVars

\* Ids are given once.
LEMMA IdsKept ==
  ASSUME TypeOK, [Next]_vars
  PROVE  /\ Ids \subseteq Ids'
         /\ \A id \in Ids \ {0} : owner'[id] = owner[id] /\ owner[id] \in Users
         /\ \A id \in Ids : Exists(id)' => Exists(id)
<1>0. \A id \in Ids \ {0} : owner[id] \in Users
  BY DEF TypeOK, Ids
<1>1. CASE \E u \in Users, hiding \in Hiding : PutProfile(u, hiding)
  <2>1. PICK u \in Users, hiding \in Hiding : PutProfile(u, hiding)
    BY <1>1
  <2>2. CASE profile[u] = 0
    <3>1. owner' = Append(owner, u) /\ profile' = [profile EXCEPT ![u] = Len(owner) + 1]
      BY <2>1, <2>2 DEF PutProfile
    <3>2. \A id \in Ids : id # Len(owner) + 1
      BY DEF Ids, TypeOK
    <3> QED
      BY <1>0, <3>1, <3>2, Appended DEF Exists, TypeOK
  <2>3. CASE profile[u] # 0
    BY <1>0, <2>1, <2>3 DEF PutProfile, Exists, Ids
  <2> QED
    BY <2>2, <2>3
<1>2. CASE \E c \in Calls : Drop(c)
  BY <1>0, <1>2 DEF Drop, Exists, Ids, TypeOK
<1>3. CASE UNCHANGED <<owner, profile>>
  BY <1>0, <1>3 DEF Exists, Ids
<1> QED
  BY <1>1, <1>2, <1>3
     DEF Next, Arrive, PatchSettings, DeleteProfile, Connect, Answer, Proceed, Merge, Clear,
         Find, Check, Create, Weigh, Save, Lost, docVars, vars

\* A profile goes only by a deletion that drops it ...
LEMMA Vanishes ==
  ASSUME TypeOK, [Next]_vars, NEW id \in Ids \ {0}, Exists(id), ~ Exists(id)'
  PROVE  \E d \in Calls : step[d] = "dropping" /\ who[d] = owner[id]
<1>1. profile[owner[id]] = id /\ owner[id] \in Users /\ owner'[id] = owner[id]
  BY IdsKept DEF Exists
<1>2. profile'[owner[id]] # id
  BY <1>1 DEF Exists
<1>3. CASE \E u \in Users, hiding \in Hiding : PutProfile(u, hiding)
  BY <1>1, <1>2, <1>3 DEF PutProfile, TypeOK
<1>4. CASE \E c \in Calls : Drop(c)
  BY <1>1, <1>2, <1>4 DEF Drop, TypeOK
<1>5. CASE UNCHANGED profile
  BY <1>1, <1>2, <1>5
<1> QED
  BY <1>3, <1>4, <1>5
     DEF Next, Arrive, PatchSettings, DeleteProfile, Connect, Answer, Proceed, Merge, Clear,
         Find, Check, Create, Weigh, Save, Lost, docVars, vars

\* ... and whatever closes it stirs the calls that are deciding about it.
LEMMA Closes ==
  ASSUME TypeOK, [Next]_vars, NEW id \in Ids \ {0}, Open(id), ~ Open(id)',
         NEW c \in Calls, step[c] \in Connecting
  PROVE  owner[id] \in stirred'[c]
<1>1. /\ profile[owner[id]] = id /\ owner[id] \in Users /\ owner'[id] = owner[id]
      /\ owner[id] \notin hidden
  BY IdsKept DEF Exists, Open
<1>2. profile'[owner[id]] # id \/ owner[id] \in hidden'
  BY <1>1 DEF Exists, Open
<1>3. ASSUME NEW u \in Users, Stir(u), u = owner[id]
      PROVE  owner[id] \in stirred'[c]
  BY <1>3 DEF Stir, Connecting
<1>4. CASE \E u \in Users, hiding \in Hiding : PutProfile(u, hiding)
  <2>1. PICK u \in Users, hiding \in Hiding : PutProfile(u, hiding)
    BY <1>4
  <2>2. u = owner[id]
    BY <1>1, <1>2, <2>1 DEF PutProfile, StoreHidden, TypeOK
  <2> QED
    BY <1>3, <2>1, <2>2 DEF PutProfile
<1>5. CASE \E d \in Calls : Drop(d)
  <2>1. PICK d \in Calls : Drop(d)
    BY <1>5
  <2>2. who[d] = owner[id] /\ who[d] \in Users
    BY <1>1, <1>2, <2>1 DEF Drop, TypeOK
  <2> QED
    BY <1>3, <2>1, <2>2 DEF Drop
<1>6. CASE \E d \in Calls : Merge(d)
  <2>1. PICK d \in Calls : Merge(d)
    BY <1>6
  <2>2. who[d] = owner[id] /\ who[d] \in Users /\ profile[who[d]] # 0
    BY <1>1, <1>2, <2>1 DEF Merge, StoreHidden, TypeOK
  <2> QED
    BY <1>3, <2>1, <2>2 DEF Merge
<1>7. CASE UNCHANGED <<profile, hidden>>
  BY <1>1, <1>2, <1>7
<1> QED
  BY <1>4, <1>5, <1>6, <1>7
     DEF Next, Arrive, PatchSettings, DeleteProfile, Connect, Answer, Proceed, Clear,
         Find, Check, Create, Weigh, Save, Lost, docVars, vars

-----------------------------------------------------------------------------
(* The invariant *)

LEMMA TypeStep ==
  ASSUME IInv, [Next]_vars
  PROVE  TypeOK'
<1>1. CASE UNCHANGED vars
  BY <1>1 DEF IInv, vars, docVars, callVars, notes, TypeOK, Ids
<1> QED
  BY <1>1, ProfileType, ArriveType, ProceedType DEF IInv, Next

LEMMA CallStep ==
  ASSUME IInv, [Next]_vars
  PROVE  CallInv'
<1> USE DEF IInv, CallInv, Connecting, Answering, Deleting
<1>0. /\ TypeOK
      /\ \A id \in Ids \ {0} : owner'[id] = owner[id]
  BY IdsKept
<1>1. CASE \E c \in Calls : Arrive(c)
  <2>1. PICK c \in Calls : Arrive(c)
    BY <1>1
  <2>2. CASE \E hiding \in Hiding : PatchSettings(c, hiding)
    BY <1>0, <2>2 DEF PatchSettings, Begin, docVars, TypeOK
  <2>3. CASE DeleteProfile(c)
    BY <1>0, <2>3 DEF DeleteProfile, Begin, docVars, TypeOK
  <2>4. CASE \E id \in Ids \ {0} : Connect(c, id)
    <3>1. profile[who[c]] # 0 /\ owner[profile[who[c]]] = who[c]
      BY <2>4 DEF Connect, Open, Exists, TypeOK
    <3> QED
      BY <1>0, <2>4, <3>1 DEF Connect, Begin, docVars, TypeOK
  <2>5. CASE \E r \in requests, status \in Verdicts : Answer(c, r, status)
    <3>1. \A r \in requests : r.id # 0
      BY DEF TypeOK
    <3> QED
      BY <1>0, <2>5, <3>1 DEF Answer, Begin, docVars, TypeOK
  <2> QED
    BY <2>1, <2>2, <2>3, <2>4, <2>5 DEF Arrive
<1>2. CASE \E c \in Calls : Proceed(c)
  <2>1. PICK c \in Calls : Proceed(c)
    BY <1>2
  <2>2. owner' = owner
    BY <2>1 DEF Proceed, Merge, Clear, Drop, Find, Check, Create, Weigh, Save, Lost, docVars
  <2>3. CASE Finish(c)
    BY <1>0, <2>2, <2>3 DEF Finish, TypeOK
  <2>4. CASE Clear(c)
    BY <1>0, <2>2, <2>4 DEF Clear, To, notes, TypeOK
  <2>5. CASE Find(c) /\ To(c, "checking") /\ owner[to[c]] # who[c]
    BY <1>0, <2>2, <2>5 DEF Find, To, notes, TypeOK
  <2>6. CASE Check(c) /\ To(c, "creating")
    BY <1>0, <2>2, <2>6 DEF Check, To, notes, TypeOK
  <2>7. CASE Weigh(c) /\ To(c, "saving")
    BY <1>0, <2>2, <2>7 DEF Weigh, To, notes, TypeOK
  <2> QED
    BY <2>1, <2>3, <2>4, <2>5, <2>6, <2>7
       DEF Proceed, Merge, Drop, Find, Check, Create, Weigh, Save, Lost, GoOn
<1>3. CASE UNCHANGED <<callVars>> \/ \E u \in Users, hiding \in Hiding : PutProfile(u, hiding)
  <2>1. UNCHANGED <<step, what, who, from, to, request, verdict>>
    BY <1>3 DEF callVars, notes, PutProfile
  <2>2. \A c \in Calls : from[c] \in Ids /\ to[c] \in Ids
    BY <1>0 DEF TypeOK
  <2>3. ASSUME NEW c \in Calls, step[c] \in Connecting
        PROVE  owner'[from[c]] = who[c]
    BY <1>0, <2>2, <2>3
  <2>4. ASSUME NEW c \in Calls, step[c] \in {"checking", "creating"}
        PROVE  owner'[to[c]] # who[c]
    <3>1. to[c] \in Ids \ {0} /\ owner[to[c]] # who[c]
      BY <2>2, <2>4
    <3> QED
      BY <1>0, <3>1
  <2> QED
    BY <2>1, <2>3, <2>4
<1> QED
  BY <1>1, <1>2, <1>3 DEF Next, vars

LEMMA MeetStep ==
  ASSUME IInv, [Next]_vars
  PROVE  MeetInv'
<1> SUFFICES ASSUME NEW c \in Calls, NEW d \in Calls, c # d,
                    step'[c] \in InFlight, step'[d] \in InFlight
             PROVE  d \in met'[c]
  BY DEF MeetInv
<1>1. TypeOK
  BY DEF IInv
<1>2. CASE step[c] \in InFlight /\ step[d] \in InFlight
  BY <1>1, <1>2, CallsKept DEF IInv, MeetInv, InFlight
<1>3. CASE \E operation, next : Begin(c, operation, next)
  BY <1>1, <1>3, FlightKept DEF Begin, Others, TypeOK
<1>4. CASE step[c] \in InFlight /\ \E operation, next : Begin(d, operation, next)
  BY <1>1, <1>4 DEF Begin, Others, TypeOK
<1> QED
  BY <1>1, <1>2, <1>3, <1>4, FlightKept

\* The same request, with another status perhaps.
Same(r, q) ==
  r.id = q.id /\ r.from = q.from /\ r.to = q.to /\ r.by = q.by /\ r.closed = q.closed

\* A stored request was stored before, or c makes it.
LEMMA Stored ==
  ASSUME IInv, [Next]_vars, NEW r \in requests'
  PROVE  /\ r \in Records
         /\ \/ \E q \in requests :
                 /\ Same(r, q)
                 /\ r.status = q.status \/ \E c \in Calls : Save(c) /\ q.id = request[c]
            \/ \E c \in Calls :
                 /\ Create(c)
                 /\ r.from = from[c] /\ r.to = to[c] /\ r.by = c /\ r.status = "pending"
                 /\ r.closed = Closed({from[c], to[c]})
<1>0. TypeOK /\ CallInv /\ MadeInv /\ made \in Nat
  BY SquadConnectionsAssumption DEF IInv, TypeOK
<1>1. CASE \E c \in Calls : Save(c)
  <2>1. PICK c \in Calls : Save(c)
    BY <1>1
  <2> DEFINE Saved(q) == IF q.id = request[c] THEN [q EXCEPT !.status = verdict[c]] ELSE q
  <2>2. verdict[c] \in Verdicts
    BY <1>0, <2>1 DEF Save, CallInv, Answering
  <2>3. requests' = {Saved(q) : q \in requests}
    BY <2>1 DEF Save
  <2>4. \A q \in requests :
          /\ Saved(q) \in Records
          /\ Same(Saved(q), q) /\ (q.id # request[c] => Saved(q) = q)
    BY <1>0, <2>2 DEF MadeInv, Records, Same
  <2> HIDE DEF Saved
  <2> QED
    BY <2>1, <2>3, <2>4
<1>2. CASE \E c \in Calls : Create(c) /\ Pending(c) = {}
  <2>1. PICK c \in Calls : Create(c) /\ Pending(c) = {}
    BY <1>2
  <2> DEFINE new == [id |-> made + 1, from |-> from[c], to |-> to[c], status |-> "pending",
                     by |-> c, closed |-> Closed({from[c], to[c]})]
  <2>2. requests' = requests \union {new}
    BY <2>1 DEF Create
  <2>3. from[c] \in Nat /\ to[c] \in Nat
    BY <1>0 DEF TypeOK, Ids
  <2>4. new \in Records
    BY <1>0, <2>3 DEF Records, Closed
  <2>5. /\ new.from = from[c] /\ new.to = to[c] /\ new.by = c /\ new.status = "pending"
        /\ new.closed = Closed({from[c], to[c]})
    OBVIOUS
  <2> HIDE DEF new
  <2>6. CASE r \in requests
    BY <1>0, <2>6 DEF Same, MadeInv
  <2> QED
    BY <2>1, <2>2, <2>4, <2>5, <2>6
<1>3. CASE requests' \subseteq requests
  BY <1>0, <1>3 DEF Same, MadeInv
<1> QED
  BY <1>1, <1>2, <1>3
     DEF Next, Arrive, PatchSettings, DeleteProfile, Connect, Answer, Proceed, Merge, Clear,
         Drop, Find, Check, Create, Weigh, Lost, PutProfile, docVars, vars

\* A request is between two profiles that were made.
LEMMA Ends ==
  ASSUME TypeOK, NEW r \in requests, NEW id \in {r.from, r.to}
  PROVE  id \in Ids \ {0} /\ owner[id] \in Users /\ r.by \in Calls
  BY DEF TypeOK, Ids

\* While c creates its request nothing else moves.
LEMMA Creates ==
  ASSUME TypeOK, NEW c \in Calls, Create(c)
  PROVE  /\ step[c] = "creating" /\ step' = [step EXCEPT ![c] = "done"]
         /\ UNCHANGED <<profile, hidden, owner, what, who, met, stirred>>
  BY DEF Create, Finish

LEMMA MadeStep ==
  ASSUME IInv, [Next]_vars
  PROVE  MadeInv'
<1>1. TypeOK /\ TypeOK' /\ MadeInv
  BY TypeStep DEF IInv
<1>2. requests' \subseteq Records
  BY Stored
<1>3. ASSUME NEW r \in requests'
      PROVE  step'[r.by] = "done"
  <2>1. CASE \E q \in requests : Same(r, q)
    BY <1>1, <2>1, CallsKept DEF Same, MadeInv, TypeOK
  <2>2. CASE \E c \in Calls : Create(c) /\ r.by = c
    BY <1>1, <2>2, Creates DEF TypeOK
  <2> QED
    BY <2>1, <2>2, Stored
<1> QED
  BY <1>2, <1>3 DEF MadeInv, Records

\* Who met a deletion of a profile has met it for good.
LEMMA DeletionKept ==
  ASSUME IInv, [Next]_vars, NEW c \in Calls, step[c] # "idle", NEW id \in Ids \ {0},
         DeletedBeside(c, id)
  PROVE  DeletedBeside(c, id)'
<1>1. TypeOK /\ CallInv
  BY DEF IInv
<1>2. PICK d \in met[c] : what[d] = "delete" /\ who[d] = owner[id]
  BY DEF DeletedBeside
<1>3. d \in Calls /\ step[d] # "idle"
  BY <1>1, <1>2 DEF TypeOK, CallInv
<1>4. d \in met'[c] /\ what'[d] = "delete" /\ who'[d] = owner'[id]
  BY <1>1, <1>2, <1>3, CallsKept, IdsKept
<1> QED
  BY <1>4 DEF DeletedBeside

\* What a call has looked at was found open.
LEMMA LookedGrows ==
  ASSUME IInv, [Next]_vars, NEW c \in Calls, NEW id \in Looked(c)'
  PROVE  /\ id \in Ids \ {0} /\ step'[c] \in Connecting
         /\ id \in Looked(c) \/ (Open(id) /\ UNCHANGED docVars)
<1> USE DEF Connecting
<1>0. TypeOK /\ CallInv /\ CallInv'
  BY CallStep DEF IInv
<1>1. /\ step'[c] \in Connecting
      /\ id = from'[c] \/ (step'[c] \in {"checking", "creating"} /\ id = to'[c])
  BY DEF Looked
<1>2. id # 0
  BY <1>0, <1>1 DEF CallInv
<1>3. from[c] \in Ids /\ to[c] \in Ids
  BY <1>0 DEF TypeOK
<1>4. CASE \E next \in Ids \ {0} : Connect(c, next)
  <2>1. PICK next \in Ids \ {0} : Connect(c, next)
    BY <1>4
  <2>2. step'[c] = "finding" /\ from'[c] = profile[who[c]]
    BY <1>0, <2>1 DEF Connect, Begin, TypeOK
  <2>3. profile[who[c]] \in Ids
    BY <1>0 DEF TypeOK
  <2> QED
    BY <1>1, <1>2, <2>1, <2>2, <2>3 DEF Connect
<1>5. CASE Find(c)
  <2>1. /\ step[c] = "finding" /\ from'[c] = from[c] /\ to'[c] = to[c]
        /\ Open(to[c]) /\ UNCHANGED docVars
    BY <1>0, <1>1, <1>5 DEF Find, GoOn, To, Finish, notes, TypeOK
  <2> QED
    BY <1>1, <1>2, <1>3, <2>1 DEF Looked
<1>6. CASE Check(c)
  <2>1. step[c] = "checking" /\ from'[c] = from[c] /\ to'[c] = to[c]
    BY <1>0, <1>1, <1>6 DEF Check, GoOn, To, Finish, notes, TypeOK
  <2> QED
    BY <1>1, <1>2, <1>3, <2>1 DEF Looked
<1>7. CASE step'[c] = step[c] /\ from'[c] = from[c] /\ to'[c] = to[c]
  BY <1>1, <1>2, <1>3, <1>7 DEF Looked
<1>8. ASSUME NEW e \in Calls \ {c}, Arrive(e) \/ Proceed(e)
      PROVE  step'[c] = step[c] /\ from'[c] = from[c] /\ to'[c] = to[c]
  BY <1>0, <1>8
     DEF Arrive, PatchSettings, DeleteProfile, Connect, Answer, Begin, Proceed, Merge, Clear,
         Drop, Find, Check, Create, Weigh, Save, Lost, GoOn, To, Finish, notes, TypeOK
<1>9. ASSUME Arrive(c)
      PROVE  \E next \in Ids \ {0} : Connect(c, next)
  BY <1>0, <1>1, <1>9 DEF Arrive, PatchSettings, DeleteProfile, Answer, Begin, TypeOK
<1>10. ASSUME Proceed(c)
       PROVE  Find(c) \/ Check(c)
  <2>1. ~ Finish(c) /\ ~ To(c, "dropping") /\ ~ To(c, "saving")
    BY <1>0, <1>1 DEF Finish, To, TypeOK
  <2> QED
    BY <1>10, <2>1 DEF Proceed, Merge, Clear, Drop, Create, Weigh, Save, Lost, GoOn
<1>11. CASE UNCHANGED vars \/ \E u \in Users, hiding \in Hiding : PutProfile(u, hiding)
  BY <1>7, <1>11 DEF vars, callVars, notes, PutProfile
<1> QED
  BY <1>4, <1>5, <1>6, <1>7, <1>8, <1>9, <1>10, <1>11 DEF Next

LEMMA OpenStep ==
  ASSUME IInv, [Next]_vars
  PROVE  OpenInv'
<1>1. TypeOK /\ OpenInv
  BY DEF IInv
<1>2. ASSUME NEW c \in Calls, NEW id \in Looked(c)'
      PROVE  Open(id)' \/ owner'[id] \in stirred'[c]
  <2>1. id \in Ids \ {0} /\ owner'[id] = owner[id]
    BY <1>1, <1>2, LookedGrows, IdsKept
  <2>2. CASE id \in Looked(c)
    <3>1. step[c] \in Connecting
      BY <2>2 DEF Looked, Connecting
    <3>2. stirred[c] \subseteq stirred'[c]
      BY <1>1, <3>1, CallsKept DEF Connecting
    <3> QED
      BY <1>1, <2>1, <2>2, <3>1, <3>2, Closes DEF OpenInv
  <2>3. CASE Open(id) /\ UNCHANGED docVars
    BY <2>3 DEF Open, Exists, docVars
  <2> QED
    BY <1>2, <2>2, <2>3, LookedGrows
<1> QED
  BY <1>2 DEF OpenInv

LEMMA FoundStep ==
  ASSUME IInv, [Next]_vars
  PROVE  FoundInv'
<1>1. TypeOK /\ FoundInv /\ MeetInv /\ CallInv
  BY DEF IInv
<1>2. ASSUME NEW c \in Calls, NEW id \in Looked(c)'
      PROVE  Exists(id)' \/ DeletedBeside(c, id)'
  <2>1. id \in Ids \ {0}
    BY <1>2, LookedGrows
  <2>2. CASE id \in Looked(c)
    <3>1. step[c] \in Connecting
      BY <2>2 DEF Looked, Connecting
    <3>2. CASE Exists(id) /\ ~ Exists(id)'
      <4>1. PICK d \in Calls : step[d] = "dropping" /\ who[d] = owner[id]
        BY <1>1, <2>1, <3>2, Vanishes
      <4>2. d \in met[c] /\ what[d] = "delete"
        BY <1>1, <3>1, <4>1 DEF MeetInv, CallInv, Connecting, Deleting, InFlight
      <4> QED
        BY <2>1, <3>1, <4>1, <4>2, DeletionKept DEF DeletedBeside, Connecting
    <3>3. CASE DeletedBeside(c, id)
      BY <2>1, <3>1, <3>3, DeletionKept DEF Connecting
    <3> QED
      BY <1>1, <2>2, <3>2, <3>3 DEF FoundInv
  <2>3. CASE Open(id) /\ UNCHANGED docVars
    BY <2>3 DEF Open, Exists, docVars
  <2> QED
    BY <1>2, <2>2, <2>3, LookedGrows
<1> QED
  BY <1>2 DEF FoundInv

\* Who deletes has just begun, is where he was, or has cleared the requests.
LEMMA Deletes ==
  ASSUME IInv, [Next]_vars, NEW d \in Calls, step'[d] \in Deleting
  PROVE  \/ DeleteProfile(d)
         \/ Clear(d)
         \/ step[d] \in Deleting /\ step'[d] = step[d] /\ from'[d] = from[d]
<1>0. TypeOK
  BY DEF IInv
<1>1. ASSUME NEW e \in Calls \ {d}, Arrive(e) \/ Proceed(e)
      PROVE  step'[d] = step[d] /\ from'[d] = from[d]
  BY <1>0, <1>1
     DEF Arrive, PatchSettings, DeleteProfile, Connect, Answer, Begin, Proceed, Merge, Clear,
         Drop, Find, Check, Create, Weigh, Save, Lost, GoOn, To, Finish, notes, TypeOK
<1>2. ASSUME Arrive(d)
      PROVE  DeleteProfile(d)
  BY <1>0, <1>2 DEF Arrive, PatchSettings, Connect, Answer, Begin, TypeOK, Deleting
<1>3. ASSUME Proceed(d)
      PROVE  Clear(d)
  <2>1. ~ Finish(d) /\ \A next \in {"checking", "creating", "saving"} : ~ To(d, next)
    BY <1>0 DEF Finish, To, TypeOK, Deleting
  <2> QED
    BY <1>3, <2>1 DEF Proceed, Merge, Drop, Find, Check, Create, Weigh, Save, Lost, GoOn
<1>4. CASE UNCHANGED vars \/ \E u \in Users, hiding \in Hiding : PutProfile(u, hiding)
  BY <1>4 DEF vars, callVars, notes, PutProfile
<1> QED
  BY <1>1, <1>2, <1>3, <1>4 DEF Next

LEMMA DeleteStep ==
  ASSUME IInv, [Next]_vars
  PROVE  DeleteInv'
<1>1. TypeOK /\ CallInv /\ MeetInv /\ MadeInv /\ DeleteInv
  BY DEF IInv
<1>2. ASSUME NEW r \in requests', NEW id \in {r.from, r.to}, NEW d \in Calls,
             step'[d] \in Deleting, who'[d] = owner'[id], Exists(id)'
      PROVE  d \in met'[r.by] \/ (step'[d] = "clearing" /\ from'[d] = id)
  <2>1. CASE \E q \in requests : Same(r, q)
    <3>1. PICK q \in requests : Same(r, q)
      BY <2>1
    <3>2. id \in {q.from, q.to}
      BY <3>1 DEF Same
    <3>3. /\ id \in Ids \ {0} /\ owner'[id] = owner[id] /\ Exists(id)
          /\ who[d] = owner[id] /\ q.by \in Calls
      BY <1>1, <1>2, <3>2, Ends, IdsKept, CallsKept
    <3>4. CASE DeleteProfile(d)
      BY <1>1, <3>3, <3>4 DEF DeleteProfile, Begin, Exists, TypeOK
    <3>5. CASE Clear(d)
      <4>1. step[d] = "clearing" /\ id # from[d]
        BY <1>2, <3>5 DEF Clear
      <4>2. d \in met[q.by]
        BY <1>1, <3>2, <3>3, <4>1 DEF DeleteInv, Deleting
      <4> QED
        BY <1>1, <3>1, <3>3, <4>2, CallsKept DEF MadeInv, Same
    <3>6. CASE step[d] \in Deleting /\ step'[d] = step[d] /\ from'[d] = from[d]
      <4>1. d \in met[q.by] \/ (step[d] = "clearing" /\ from[d] = id)
        BY <1>1, <3>2, <3>3, <3>6 DEF DeleteInv
      <4> QED
        BY <1>1, <3>1, <3>3, <3>6, <4>1, CallsKept DEF MadeInv, Same
    <3> QED
      BY <1>2, <3>4, <3>5, <3>6, Deletes
  <2>2. CASE \E c \in Calls : Create(c) /\ r.by = c
    <3>1. PICK c \in Calls : Create(c) /\ r.by = c
      BY <2>2
    <3>2. step[d] \in Deleting /\ step[c] = "creating" /\ met' = met
      BY <1>1, <1>2, <3>1, Creates DEF Deleting, TypeOK
    <3> QED
      BY <1>1, <3>1, <3>2 DEF MeetInv, Deleting, InFlight
  <2> QED
    BY <1>2, <2>1, <2>2, Stored
<1> QED
  BY <1>2 DEF DeleteInv

\* Who answers has just read his request as pending, or answers on.
LEMMA Answers ==
  ASSUME IInv, [Next]_vars, NEW c \in Calls, step'[c] \in Answering
  PROVE  \/ \E r \in requests, status \in Verdicts : Answer(c, r, status)
         \/ step[c] \in Answering
<1>0. TypeOK
  BY DEF IInv
<1>1. ASSUME NEW e \in Calls \ {c}, Arrive(e) \/ Proceed(e)
      PROVE  step'[c] = step[c]
  BY <1>0, <1>1
     DEF Arrive, PatchSettings, DeleteProfile, Connect, Answer, Begin, Proceed, Merge, Clear,
         Drop, Find, Check, Create, Weigh, Save, Lost, GoOn, To, Finish, notes, TypeOK
<1>2. ASSUME Arrive(c)
      PROVE  \E r \in requests, status \in Verdicts : Answer(c, r, status)
  BY <1>0, <1>2 DEF Arrive, PatchSettings, Connect, DeleteProfile, Begin, TypeOK, Answering
<1>3. ASSUME Proceed(c)
      PROVE  step[c] \in Answering
  <2>1. ~ Finish(c) /\ \A next \in {"checking", "creating", "dropping"} : ~ To(c, next)
    BY <1>0 DEF Finish, To, TypeOK, Answering
  <2> QED
    BY <1>3, <2>1 DEF Proceed, Merge, Clear, Drop, Find, Check, Create, Weigh, Save, Lost,
                      GoOn, Answering
<1>4. CASE UNCHANGED vars \/ \E u \in Users, hiding \in Hiding : PutProfile(u, hiding)
  BY <1>4 DEF vars, callVars, notes, PutProfile
<1> QED
  BY <1>1, <1>2, <1>3, <1>4 DEF Next

LEMMA AnswerStep ==
  ASSUME IInv, [Next]_vars
  PROVE  AnswerInv'
<1>1. TypeOK /\ CallInv /\ MeetInv /\ AnswerInv
  BY DEF IInv
<1>2. ASSUME NEW c \in Calls, NEW r \in requests', step'[c] \in Answering,
             r.id = request'[c], r.status # "pending"
      PROVE  \E d \in met'[c] : what'[d] = "answer" /\ request'[d] = r.id
  <2>1. PICK q \in requests :
          /\ Same(r, q)
          /\ r.status = q.status \/ \E d \in Calls : Save(d) /\ q.id = request[d]
    BY <1>2, Stored
  <2>2. q.id = r.id
    BY <2>1 DEF Same
  <2>3. CASE \E p \in requests, status \in Verdicts : Answer(c, p, status)
    <3>1. PICK p \in requests, status \in Verdicts : Answer(c, p, status)
      BY <2>3
    <3>2. p.status = "pending" /\ request'[c] = p.id /\ requests' = requests
      BY <1>1, <3>1 DEF Answer, docVars, TypeOK
    <3>3. r = p
      BY <1>1, <1>2, <3>2 DEF TypeOK
    <3> QED
      BY <1>2, <3>2, <3>3
  <2>4. CASE step[c] \in Answering
    <3>1. request'[c] = request[c] /\ met[c] \subseteq met'[c]
      BY <1>1, <2>4, CallsKept DEF Answering
    <3>2. ASSUME NEW d \in met[c], what[d] = "answer", request[d] = r.id
          PROVE  \E e \in met'[c] : what'[e] = "answer" /\ request'[e] = r.id
      <4>1. d \in Calls /\ step[d] # "idle"
        BY <1>1, <3>2 DEF TypeOK, CallInv
      <4>2. d \in met'[c] /\ what'[d] = "answer" /\ request'[d] = r.id
        BY <1>1, <3>1, <3>2, <4>1, CallsKept
      <4> QED
        BY <4>2
    <3>3. CASE q.status # "pending"
      BY <1>1, <1>2, <2>2, <2>4, <3>1, <3>2, <3>3 DEF AnswerInv
    <3>4. CASE \E d \in Calls : Save(d) /\ q.id = request[d]
      <4>1. PICK d \in Calls : Save(d) /\ q.id = request[d]
        BY <3>4
      <4>2. d # c
        BY <1>1, <1>2, <4>1 DEF Save, Finish, TypeOK, Answering
      <4>3. what[d] = "answer" /\ d \in met[c]
        BY <1>1, <2>4, <4>1, <4>2 DEF Save, CallInv, MeetInv, Answering, InFlight
      <4> QED
        BY <2>2, <3>2, <4>1, <4>3
    <3> QED
      BY <1>2, <2>1, <3>3, <3>4
  <2> QED
    BY <1>2, <2>3, <2>4, Answers
<1> QED
  BY <1>2 DEF AnswerInv

LEMMA RequestsStep ==
  ASSUME IInv, [Next]_vars
  PROVE  RequestsMatchProfiles'
<1>1. /\ TypeOK /\ CallInv /\ MeetInv /\ MadeInv /\ OpenInv /\ FoundInv /\ DeleteInv
      /\ RequestsMatchProfiles
  BY DEF IInv
<1>2. ASSUME NEW r \in requests', NEW id \in {r.from, r.to}
      PROVE  /\ id \in r.closed => owner'[id] \in stirred'[r.by]
             /\ ~ Exists(id)' => DeletedBeside(r.by, id)'
  <2>1. CASE \E q \in requests : Same(r, q)
    <3>1. PICK q \in requests : Same(r, q)
      BY <2>1
    <3>2. id \in {q.from, q.to} /\ q.by = r.by /\ q.closed = r.closed
      BY <3>1 DEF Same
    <3>3. /\ id \in Ids \ {0} /\ owner'[id] = owner[id] /\ q.by \in Calls
          /\ step[q.by] # "idle"
      BY <1>1, <3>2, Ends, IdsKept DEF MadeInv
    <3>4. id \in r.closed => owner'[id] \in stirred'[r.by]
      BY <1>1, <3>2, <3>3, CallsKept DEF RequestsMatchProfiles
    <3>5. CASE ~ Exists(id)
      BY <1>1, <3>2, <3>3, <3>4, <3>5, DeletionKept DEF RequestsMatchProfiles, DeletedBeside
    <3>6. CASE Exists(id) /\ ~ Exists(id)'
      <4>1. PICK d \in Calls : step[d] = "dropping" /\ who[d] = owner[id]
        BY <1>1, <3>3, <3>6, Vanishes
      <4>2. d \in met[q.by] /\ what[d] = "delete"
        BY <1>1, <3>2, <3>6, <4>1 DEF DeleteInv, CallInv, Deleting
      <4> QED
        BY <3>2, <3>3, <3>4, <4>1, <4>2, DeletionKept DEF DeletedBeside
    <3> QED
      BY <3>4, <3>5, <3>6
  <2>2. CASE \E c \in Calls :
               /\ Create(c)
               /\ r.from = from[c] /\ r.to = to[c] /\ r.by = c
               /\ r.closed = Closed({from[c], to[c]})
    <3>1. PICK c \in Calls :
               /\ Create(c)
               /\ r.from = from[c] /\ r.to = to[c] /\ r.by = c
               /\ r.closed = Closed({from[c], to[c]})
      BY <2>2
    <3>2. /\ step[c] = "creating"
          /\ UNCHANGED <<profile, hidden, owner, what, who, met, stirred>>
      BY <1>1, <3>1, Creates
    <3>3. id \in Looked(c)
      BY <1>1, <1>2, <3>1, <3>2 DEF Looked, Connecting, TypeOK
    <3>4. id \in r.closed => owner[id] \in stirred[c]
      BY <1>1, <3>1, <3>3 DEF Closed, OpenInv
    <3>5. Exists(id) \/ DeletedBeside(c, id)
      BY <1>1, <3>3 DEF FoundInv
    <3> QED
      BY <3>1, <3>2, <3>4, <3>5 DEF Exists, DeletedBeside
  <2> QED
    BY <1>2, <2>1, <2>2, Stored
<1> QED
  BY <1>2 DEF RequestsMatchProfiles, DeletedBeside

LEMMA StepIInv == IInv /\ [Next]_vars => IInv'
  BY TypeStep, CallStep, MeetStep, MadeStep, OpenStep, FoundStep, DeleteStep, AnswerStep,
     RequestsStep
     DEF IInv

LEMMA Invariance == Spec => []IInv
  BY InitIInv, StepIInv, PTL DEF Spec

-----------------------------------------------------------------------------

\* Who answers does so to the request he read: it has the ends he noted, and when he
\* writes he has the say.
PartyInv ==
  \A c \in Calls :
    /\ step[c] \in Answering =>
         \A r \in requests : r.id = request[c] => r.from = from[c] /\ r.to = to[c]
    /\ step[c] = "saving" =>
         /\ from[c] # 0 /\ to[c] # 0
         /\ who[c] = owner[IF verdict[c] = "cancelled" THEN from[c] ELSE to[c]]

\* Requests to be answered are there, and nothing else comes to have their ids.
LEMMA RequestsOlder ==
  ASSUME IInv, [Next]_vars, NEW c \in Calls, step[c] \in Answering, NEW r \in requests',
         r.id = request[c]
  PROVE  \E q \in requests : Same(r, q)
<1>1. \A q \in requests : q.id \in Nat /\ q.id <= made
  BY DEF IInv, TypeOK
<1>2. CASE \E d \in Calls : Create(d) /\ Pending(d) = {}
  <2>1. PICK d \in Calls : Create(d) /\ Pending(d) = {}
    BY <1>2
  <2> DEFINE new == [id |-> made + 1, from |-> from[d], to |-> to[d], status |-> "pending",
                     by |-> d, closed |-> Closed({from[d], to[d]})]
  <2>2. requests' = requests \union {new} /\ new.id = made + 1
    BY <2>1 DEF Create
  <2> HIDE DEF new
  <2>3. request[c] \in 0 .. made /\ made \in Nat
    BY SquadConnectionsAssumption DEF IInv, TypeOK
  <2>4. r # new
    BY <2>2, <2>3
  <2> QED
    BY <2>2, <2>4 DEF Same
<1>3. CASE \E d \in Calls : Create(d) /\ Pending(d) # {}
  BY <1>3 DEF Create, Same
<1>4. CASE ~ \E d \in Calls : Create(d)
  BY <1>4, Stored
<1> QED
  BY <1>2, <1>3, <1>4

\* Who answers on keeps what he read, and has the say once he saves.
LEMMA AnswersOn ==
  ASSUME IInv, [Next]_vars, NEW c \in Calls, step[c] \in Answering, step'[c] \in Answering
  PROVE  /\ from'[c] = from[c] /\ to'[c] = to[c] /\ verdict'[c] = verdict[c]
         /\ request'[c] = request[c] /\ who'[c] = who[c]
         /\ step'[c] = "saving" => \/ step[c] = "saving"
                                   \/ /\ Exists(from[c]) /\ Exists(to[c])
                                      /\ who[c] = owner[IF verdict[c] = "cancelled" THEN from[c] ELSE to[c]]
<1>0. TypeOK
  BY DEF IInv
<1>1. request'[c] = request[c] /\ who'[c] = who[c]
  BY <1>0, CallsKept DEF Answering
<1>2. ASSUME NEW e \in Calls \ {c}, Arrive(e) \/ Proceed(e)
      PROVE  step'[c] = step[c] /\ from'[c] = from[c] /\ to'[c] = to[c] /\ verdict'[c] = verdict[c]
  BY <1>0, <1>2
     DEF Arrive, PatchSettings, DeleteProfile, Connect, Answer, Begin, Proceed, Merge, Clear,
         Drop, Find, Check, Create, Weigh, Save, Lost, GoOn, To, Finish, notes, TypeOK
<1>3. ~ Arrive(c)
  BY DEF Arrive, PatchSettings, DeleteProfile, Connect, Answer, Begin, Answering
<1>4. ASSUME Proceed(c)
      PROVE  Weigh(c) /\ To(c, "saving")
  <2>1. ~ Finish(c)
    BY <1>0 DEF Finish, TypeOK, Answering
  <2> QED
    BY <1>4, <2>1 DEF Proceed, Merge, Clear, Drop, Find, Check, Create, Weigh, Save, Lost,
                      GoOn, Answering
<1>5. CASE Weigh(c) /\ To(c, "saving")
  <2>1. ~ Finish(c)
    BY <1>0, <1>5 DEF Finish, To, TypeOK
  <2>2. /\ Exists(from[c]) /\ Exists(to[c])
        /\ who[c] = owner[IF verdict[c] = "cancelled" THEN from[c] ELSE to[c]]
    BY <1>5, <2>1 DEF Weigh, GoOn
  <2> QED
    BY <1>1, <1>5, <2>2 DEF To, notes
<1>6. CASE UNCHANGED <<step, from, to, verdict>>
  BY <1>1, <1>6
<1> QED
  BY <1>1, <1>2, <1>3, <1>4, <1>5, <1>6 DEF Next, PutProfile, vars, callVars, notes

LEMMA PartyStep ==
  ASSUME IInv, PartyInv, [Next]_vars
  PROVE  PartyInv'
<1>0. TypeOK /\ CallInv
  BY DEF IInv
<1>1. ASSUME NEW c \in Calls, step'[c] \in Answering
      PROVE  /\ \A r \in requests' : r.id = request'[c] => r.from = from'[c] /\ r.to = to'[c]
             /\ step'[c] = "saving" =>
                  /\ from'[c] # 0 /\ to'[c] # 0
                  /\ who'[c] = owner'[IF verdict'[c] = "cancelled" THEN from'[c] ELSE to'[c]]
  <2>1. CASE \E r \in requests, status \in Verdicts : Answer(c, r, status)
    <3>1. PICK r \in requests, status \in Verdicts : Answer(c, r, status)
      BY <2>1
    <3>2. /\ requests' = requests /\ request'[c] = r.id /\ from'[c] = r.from /\ to'[c] = r.to
          /\ step'[c] = "weighing"
      BY <1>0, <3>1 DEF Answer, Begin, docVars, TypeOK
    <3>3. \A q \in requests : q.id = r.id => q = r
      BY <1>0 DEF TypeOK
    <3> QED
      BY <3>2, <3>3
  <2>2. CASE step[c] \in Answering
    <3>1. /\ from'[c] = from[c] /\ to'[c] = to[c] /\ verdict'[c] = verdict[c]
          /\ request'[c] = request[c] /\ who'[c] = who[c]
          /\ step'[c] = "saving" => \/ step[c] = "saving"
                                    \/ /\ Exists(from[c]) /\ Exists(to[c])
                                       /\ who[c] = owner[IF verdict[c] = "cancelled" THEN from[c] ELSE to[c]]
      BY <1>1, <2>2, AnswersOn
    <3>2. ASSUME NEW r \in requests', r.id = request'[c]
          PROVE  r.from = from'[c] /\ r.to = to'[c]
      <4>1. PICK q \in requests : Same(r, q)
        BY <2>2, <3>1, <3>2, RequestsOlder
      <4> QED
        BY <2>2, <3>1, <3>2, <4>1 DEF Same, PartyInv
    <3>3. ASSUME step'[c] = "saving"
          PROVE  /\ from[c] # 0 /\ to[c] # 0
                 /\ who[c] = owner[IF verdict[c] = "cancelled" THEN from[c] ELSE to[c]]
      BY <3>1, <3>3 DEF PartyInv, Exists
    <3>4. from[c] \in Ids /\ to[c] \in Ids /\ \A id \in Ids \ {0} : owner'[id] = owner[id]
      BY <1>0, IdsKept DEF TypeOK
    <3> QED
      BY <3>1, <3>2, <3>3, <3>4
  <2> QED
    BY <1>1, <2>1, <2>2, Answers
<1> QED
  BY <1>1 DEF PartyInv, Answering

LEMMA PartyInvariance == Spec => [](IInv /\ PartyInv)
<1>1. Init => PartyInv
  BY DEF Init, PartyInv, Answering
<1>2. IInv /\ PartyInv /\ [Next]_vars => IInv' /\ PartyInv'
  BY StepIInv, PartyStep
<1> QED
  BY <1>1, <1>2, InitIInv, PTL DEF Spec

-----------------------------------------------------------------------------
(* Each step is one that is promised, or none *)

\* Requests share neither ids nor records; what is shown of one has its parts.
LEMMA ShownParts ==
  ASSUME NEW r
  PROVE  /\ Shown(r).id = r.id /\ Shown(r).from = r.from /\ Shown(r).to = r.to
         /\ Shown(r).status = r.status
  BY DEF Shown

LEMMA ShownTwice ==
  ASSUME NEW r, NEW q, NEW status, Same(r, q), r.status = status
  PROVE  Shown(r) = [Shown(q) EXCEPT !.status = status]
  BY DEF Shown, Same

LEMMA InitPromised == Init => Promised!Init
  BY DEF Init, Promised!Init, AllShown

\* Whatever removes no request and changes none shows nothing.
LEMMA ShowsNothing ==
  ASSUME UNCHANGED <<owner, requests, made>>
  PROVE  UNCHANGED <<owner, AllShown, made>>
  BY DEF AllShown

LEMMA EnterShown ==
  ASSUME NEW u \in Users, NEW hiding \in Hiding, PutProfile(u, hiding)
  PROVE  Promised!Enter(u) \/ UNCHANGED <<owner, AllShown, made>>
<1>1. AllShown' = AllShown /\ made' = made
  BY DEF PutProfile, AllShown
<1> QED
  BY <1>1 DEF PutProfile, Promised!Enter

LEMMA WithdrawShown ==
  ASSUME NEW id, owner' = owner, made' = made,
         requests' = {r \in requests : id \notin {r.from, r.to}}
  PROVE  AllShown' = {s \in AllShown : id \notin {s.from, s.to}}
<1>1. AllShown' = {Shown(r) : r \in requests'}
  BY DEF AllShown
<1>2. \A r \in requests : Shown(r).from = r.from /\ Shown(r).to = r.to
  BY ShownParts
<1> HIDE DEF Shown
<1> QED
  BY <1>1, <1>2 DEF AllShown

LEMMA SendShown ==
  ASSUME IInv, NEW c \in Calls, Create(c), Pending(c) = {}
  PROVE  Promised!Send(who[c], from[c], to[c])
<1>1. CallInv /\ TypeOK
  BY DEF IInv
<1>2. owner[from[c]] = who[c] /\ owner[to[c]] # who[c]
  BY <1>1 DEF Create, CallInv, Connecting
<1> DEFINE new == [id |-> made + 1, from |-> from[c], to |-> to[c], status |-> "pending",
                   by |-> c, closed |-> Closed({from[c], to[c]})]
           shown == [id |-> made + 1, from |-> from[c], to |-> to[c], status |-> "pending"]
<1>3. requests' = requests \union {new} /\ made' = made + 1 /\ owner' = owner
  BY DEF Create
<1>4. Shown(new) = shown
  BY DEF Shown
<1> HIDE DEF new
<1>5. AllShown' = AllShown \union {shown}
  <2>1. AllShown' = {Shown(r) : r \in requests \union {new}}
    BY <1>3 DEF AllShown
  <2> HIDE DEF Shown, shown
  <2> QED
    BY <1>4, <2>1 DEF AllShown
<1>6. ASSUME NEW s \in AllShown, s.from = from[c], s.to = to[c], s.status = "pending"
      PROVE  FALSE
  <2>1. PICK r \in requests : s = Shown(r)
    BY DEF AllShown
  <2> QED
    BY <1>6, <2>1, ShownParts DEF Pending
<1> QED
  BY <1>2, <1>3, <1>5, <1>6 DEF Promised!Send

LEMMA DecideShown ==
  ASSUME IInv, PartyInv, NEW c \in Calls, Save(c), NEW q \in requests, q.id = request[c]
  PROVE  Promised!Decide(who[c], Shown(q), verdict[c])
<1>1. TypeOK /\ CallInv /\ MadeInv
  BY DEF IInv
<1>2. step[c] = "saving" /\ verdict[c] \in Verdicts
  BY <1>1 DEF Save, CallInv, Answering
<1>3. q.from = from[c] /\ q.to = to[c]
  BY <1>2 DEF PartyInv, Answering
<1>4. owner[IF verdict[c] = "cancelled" THEN q.from ELSE q.to] = who[c]
  BY <1>2, <1>3 DEF PartyInv
<1> DEFINE Saved(r) == IF r.id = request[c] THEN [r EXCEPT !.status = verdict[c]] ELSE r
<1>5. requests' = {Saved(r) : r \in requests} /\ made' = made /\ owner' = owner
  BY DEF Save
<1>6. \A r \in requests : r # q => Saved(r) = r /\ Shown(r) # Shown(q)
  <2>1. ASSUME NEW r \in requests, r # q
        PROVE  Saved(r) = r /\ Shown(r) # Shown(q)
    <3>1. r.id # q.id
      BY <1>1, <2>1 DEF TypeOK
    <3> QED
      BY <3>1, ShownParts
  <2> QED
    BY <2>1
<1>7. Same(Saved(q), q) /\ Saved(q).status = verdict[c]
  BY <1>1 DEF MadeInv, Records, Same
<1> HIDE DEF Saved
<1>8. Shown(Saved(q)) = [Shown(q) EXCEPT !.status = verdict[c]]
  BY <1>7, ShownTwice
<1>9. AllShown' = (AllShown \ {Shown(q)}) \union {Shown(Saved(q))}
  <2>1. AllShown' = {Shown(r) : r \in requests'}
    BY DEF AllShown
  <2> HIDE DEF Shown
  <2> QED
    BY <1>5, <1>6, <2>1 DEF AllShown
<1> QED
  BY <1>4, <1>5, <1>8, <1>9, ShownParts DEF Promised!Decide

\* The ends of what a call deletes or connects are profiles that were made.
LEMMA EndsMade ==
  ASSUME TypeOK, NEW c \in Calls
  PROVE  /\ from[c] # 0 => from[c] \in DOMAIN owner
         /\ to[c] # 0 => to[c] \in DOMAIN owner
         /\ who[c] \in Users
<1>1. owner \in Seq(Users) /\ Len(owner) \in Nat /\ DOMAIN owner = 1 .. Len(owner)
  BY DEF TypeOK
<1>2. from[c] \in 0 .. Len(owner) /\ to[c] \in 0 .. Len(owner) /\ who[c] \in Users
  BY DEF TypeOK, Ids
<1> QED
  BY <1>1, <1>2

LEMMA StepShown ==
  ASSUME IInv, PartyInv, [Next]_vars
  PROVE  Promised!Next \/ UNCHANGED <<owner, AllShown, made>>
<1>0. TypeOK /\ CallInv /\ MadeInv
  BY DEF IInv
<1>1. ASSUME NEW u \in Users, NEW hiding \in Hiding, PutProfile(u, hiding)
      PROVE  Promised!Next \/ UNCHANGED <<owner, AllShown, made>>
  BY <1>1, EnterShown DEF Promised!Next
<1>2. ASSUME NEW c \in Calls, Clear(c)
      PROVE  Promised!Next
  <2>1. from[c] # 0
    BY <1>0, <1>2 DEF Clear, CallInv, Deleting
  <2>2. from[c] \in DOMAIN owner /\ owner[from[c]] \in Users
    BY <1>0, <2>1, EndsMade DEF TypeOK, Ids
  <2>3. AllShown' = {s \in AllShown : from[c] \notin {s.from, s.to}}
    BY <1>2, WithdrawShown DEF Clear
  <2>4. Promised!Withdraw(owner[from[c]], from[c])
    BY <1>2, <2>3 DEF Clear, Promised!Withdraw
  <2> QED
    BY <2>2, <2>4 DEF Promised!Next
<1>3. ASSUME NEW c \in Calls, Create(c), Pending(c) = {}
      PROVE  Promised!Next
  <2>1. from[c] # 0 /\ to[c] # 0
    BY <1>0, <1>3 DEF Create, CallInv, Connecting
  <2>2. from[c] \in DOMAIN owner /\ to[c] \in DOMAIN owner /\ who[c] \in Users
    BY <1>0, <2>1, EndsMade
  <2>3. Promised!Send(who[c], from[c], to[c])
    BY <1>3, SendShown
  <2> QED
    BY <2>2, <2>3 DEF Promised!Next
<1>4. ASSUME NEW c \in Calls, Save(c)
      PROVE  Promised!Next \/ UNCHANGED <<owner, AllShown, made>>
  <2>1. CASE \E q \in requests : q.id = request[c]
    <3>1. PICK q \in requests : q.id = request[c]
      BY <2>1
    <3>2. Promised!Decide(who[c], Shown(q), verdict[c])
      BY <1>4, <3>1, DecideShown
    <3>3. verdict[c] \in Promised!Answers /\ who[c] \in Users /\ Shown(q) \in AllShown
      BY <1>0, <1>4, EndsMade DEF Save, CallInv, Answering, Verdicts, Promised!Answers, AllShown
    <3> QED
      BY <3>2, <3>3 DEF Promised!Next
  <2>2. CASE ~ \E q \in requests : q.id = request[c]
    <3>1. requests' = {r : r \in requests}
      BY <1>4, <2>2 DEF Save
    <3> QED
      BY <1>4, <3>1, ShowsNothing DEF Save
  <2> QED
    BY <2>1, <2>2
<1>5. ASSUME NEW c \in Calls,
             Merge(c) \/ Drop(c) \/ Find(c) \/ Check(c) \/ Weigh(c) \/ Lost(c) \/ Arrive(c)
      PROVE  UNCHANGED <<owner, AllShown, made>>
  BY <1>5, ShowsNothing
     DEF Merge, Drop, Find, Check, Weigh, Lost, Arrive, PatchSettings, DeleteProfile, Connect,
         Answer, docVars
<1>6. ASSUME NEW c \in Calls, Create(c), Pending(c) # {}
      PROVE  UNCHANGED <<owner, AllShown, made>>
  BY <1>6, ShowsNothing DEF Create
<1>7. CASE UNCHANGED vars
  BY <1>7, ShowsNothing DEF vars, docVars
<1> QED
  BY <1>1, <1>2, <1>3, <1>4, <1>5, <1>6, <1>7 DEF Next, Proceed

-----------------------------------------------------------------------------
(* The theorems *)

\* The documents and the notes of every call keep their types: each user's profile
\* is his own and no two requests share an id.
THEOREM TypeCorrect == Spec => []TypeOK
<1>1. IInv => TypeOK
  BY DEF IInv
<1> QED
  BY <1>1, Invariance, PTL

\* createConnectionRequest() and deleteProfile(): a request to or from a profile
\* that was closed when it was stored, and one that outlives a profile, was made
\* while that profile changed or was deleted.
THEOREM RequestsSound == Spec => []RequestsMatchProfiles
<1>1. IInv => RequestsMatchProfiles
  BY DEF IInv
<1> QED
  BY <1>1, Invariance, PTL

\* updateConnectionRequest(): an answer replaces another one only if the two
\* overlapped.
THEOREM AnswersStand == Spec => AnswersFinal
<1>1. IInv /\ [Next]_vars =>
        [\A c \in Calls, r \in requests :
           Save(c) /\ r.id = request[c] /\ r.status # "pending"
             => \E d \in met[c] : what[d] = "answer" /\ request[d] = r.id]_vars
  BY DEF IInv, AnswerInv, Save, Answering
<1> QED
  BY <1>1, Invariance, PTL DEF Spec, AnswersFinal

\* Requests as their users see them, however calls overlap, fail half way or answer from
\* what they read before: one is sent by the owner of its first end and none that goes the
\* same way is pending then, it keeps its ends, only the receiver accepts or declines it
\* and only the sender cancels it, it is never pending again, and it goes with a profile.
\* updateConnectionRequest() writes a document it read steps ago, to whatever its id names
\* by then; the proof shows that this is still the request whose parties it weighed.
THEOREM RequestsAsPromised == Spec => KeepsPromise
<1>1. IInv /\ PartyInv /\ [Next]_vars => [Promised!Next]_(Promised!vars)
  BY StepShown DEF Promised!vars
<1> QED
  BY <1>1, InitPromised, PartyInvariance, PTL DEF Spec, Promised!Spec, KeepsPromise

\* createConnectionRequest() looks for a pending request and stores its own later, against
\* the unique index of pending requests; answers are written by id, outside that index, and
\* none makes a request pending again: of the requests that go the same way at most one is
\* pending.
OnePending ==
  \A r, q \in requests :
    r.from = q.from /\ r.to = q.to /\ r.status = "pending" /\ q.status = "pending" => r = q

THEOREM PendingOnce == Spec => []OnePending
<1>1. Init => OnePending
  BY DEF Init, OnePending
<1>2. IInv /\ OnePending /\ [Next]_vars => OnePending'
  <2> SUFFICES ASSUME IInv, OnePending, [Next]_vars,
                      NEW r \in requests', NEW q \in requests',
                      r.from = q.from, r.to = q.to, r.status = "pending", q.status = "pending"
               PROVE  r = q
    BY DEF OnePending
  <2>0. TypeOK /\ TypeOK' /\ CallInv
    BY TypeStep DEF IInv
  <2>1. CASE \E c \in Calls : Create(c) /\ Pending(c) = {}
    <3>1. PICK c \in Calls : Create(c) /\ Pending(c) = {}
      BY <2>1
    <3> DEFINE new == [id |-> made + 1, from |-> from[c], to |-> to[c], status |-> "pending",
                       by |-> c, closed |-> Closed({from[c], to[c]})]
    <3>2. requests' = requests \union {new} /\ new.from = from[c] /\ new.to = to[c]
      BY <3>1 DEF Create
    <3> HIDE DEF new
    <3>3. \A s \in requests : ~ (s.from = from[c] /\ s.to = to[c] /\ s.status = "pending")
      BY <3>1 DEF Pending
    <3> QED
      BY <3>2, <3>3 DEF OnePending
  <2>2. CASE \E c \in Calls : Save(c)
    <3>1. PICK c \in Calls : Save(c)
      BY <2>2
    <3> DEFINE Saved(s) == IF s.id = request[c] THEN [s EXCEPT !.status = verdict[c]] ELSE s
    <3>2. requests' = {Saved(s) : s \in requests}
      BY <3>1 DEF Save
    <3>3. verdict[c] \in Verdicts /\ MadeInv
      BY <2>0, <3>1 DEF Save, CallInv, Answering, IInv
    <3>4. \A s \in requests : Saved(s).status = "pending" => Saved(s) = s
      BY <3>3 DEF MadeInv, Records, Verdicts
    <3> HIDE DEF Saved
    <3> QED
      BY <3>2, <3>4 DEF OnePending
  <2>3. CASE requests' \subseteq requests
    BY <2>3 DEF OnePending
  <2> QED
    BY <2>1, <2>2, <2>3
       DEF Next, Arrive, PatchSettings, DeleteProfile, Connect, Answer, Proceed, Merge, Clear,
           Drop, Find, Check, Create, Weigh, Lost, PutProfile, docVars, vars
<1> QED
  BY <1>1, <1>2, Invariance, PTL DEF Spec
=============================================================================
