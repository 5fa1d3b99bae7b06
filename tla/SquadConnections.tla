-------------------------- MODULE SquadConnections --------------------------
(***************************************************************************)
(* Connection requests between the squad profiles of one event:            *)
(* festival-squad/festival-squad.service.ts and its repository.            *)
(*                                                                         *)
(* A profile is a document with an id: who deletes his and saves it again  *)
(* has another.  A call is one request; each step ends at an await.  Of    *)
(* what closes a profile to requests (hideProfile, matchingPaused,         *)
(* allowConnectionRequests) only hideProfile appears.  For the properties  *)
(* only there are: met, the calls each was in flight with; stirred, the    *)
(* users whose profile was stored meanwhile; by and closed of a request.   *)
(***************************************************************************)
EXTENDS Integers, Sequences

CONSTANTS
  Users,
  Calls,
  MaxProfiles, \* bound: profiles made over time
  MaxRequests  \* bound: connection requests made over time

ASSUME SquadConnectionsAssumption == MaxProfiles \in Nat /\ MaxRequests \in Nat

VARIABLES
  profile,  \* id of each user's profile, 0 if he has none
  hidden,   \* the users whose profile is hidden
  owner,    \* of each profile made so far
  requests, \* the stored connection requests
  made,     \* how many there were
  step, what, who, \* of each call
  from, to, \* ids of the profiles its request is between
  request,  \* id of the request it answers
  verdict,  \* the status it gives it; of a settings call, whether it hides
  met, stirred

docVars  == <<profile, hidden, owner, requests, made>>
notes    == <<from, to, request, verdict>>
callVars == <<step, what, who, notes, met, stirred>>
vars     == <<docVars, callVars>>

Verdicts == {"accepted", "declined", "cancelled"}
Hiding   == {"hide", "show"}
InFlight == {"finding", "checking", "creating", "weighing", "saving",
             "merging", "clearing", "dropping"}

Ids == 0 .. Len(owner)

TypeOK ==
  /\ owner \in Seq(Users)
  /\ profile \in [Users -> Ids]
  /\ \A u \in Users : profile[u] # 0 => owner[profile[u]] = u
  /\ hidden \subseteq {u \in Users : profile[u] # 0}
  /\ made \in 0 .. MaxRequests
  /\ \A r \in requests :
       /\ r.id \in 1 .. made
       /\ r.from \in Ids \ {0} /\ r.to \in Ids \ {0}
       /\ owner[r.from] # owner[r.to]
       /\ r.status \in Verdicts \union {"pending"}
       /\ r.by \in Calls /\ r.closed \subseteq {r.from, r.to}
       /\ \A q \in requests : q.id = r.id => q = r
  /\ step \in [Calls -> InFlight \union {"idle", "done"}]
  /\ what \in [Calls -> {"connect", "answer", "settings", "delete"}]
  /\ who \in [Calls -> Users]
  /\ from \in [Calls -> Ids] /\ to \in [Calls -> Ids]
  /\ request \in [Calls -> 0 .. made]
  /\ verdict \in [Calls -> Verdicts \union Hiding]
  /\ met \in [Calls -> SUBSET Calls]
  /\ stirred \in [Calls -> SUBSET Users]

Init ==
  /\ profile = [u \in Users |-> 0]
  /\ hidden = {}
  /\ owner = <<>>
  /\ requests = {}
  /\ made = 0
  /\ step = [c \in Calls |-> "idle"]
  /\ what = [c \in Calls |-> "connect"]
  /\ who \in [Calls -> Users]
  /\ from = [c \in Calls |-> 0] /\ to = [c \in Calls |-> 0]
  /\ request = [c \in Calls |-> 0]
  /\ verdict = [c \in Calls |-> "show"]
  /\ met = [c \in Calls |-> {}]
  /\ stirred = [c \in Calls |-> {}]

-----------------------------------------------------------------------------
Others(c) == {d \in Calls \ {c} : step[d] \in InFlight}

Begin(c, operation, next) ==
  /\ step[c] = "idle"
  /\ step' = [step EXCEPT ![c] = next]
  /\ what' = [what EXCEPT ![c] = operation]
  /\ met' = [d \in Calls |-> IF d = c THEN Others(c)
                             ELSE IF d \in Others(c) THEN met[d] \union {c}
                             ELSE met[d]]
  /\ UNCHANGED <<who, stirred>>

\* Refused, answered or failed: the response is the same to the documents.
Finish(c) ==
  /\ step' = [step EXCEPT ![c] = "done"]
  /\ from' = [from EXCEPT ![c] = 0]
  /\ to' = [to EXCEPT ![c] = 0]
  /\ verdict' = [verdict EXCEPT ![c] = "show"]
  /\ UNCHANGED <<what, who, request, met>>

To(c, next) ==
  /\ step' = [step EXCEPT ![c] = next]
  /\ UNCHANGED <<what, who, notes, met>>

GoOn(c, may, next) == IF may THEN To(c, next) ELSE Finish(c)

\* The profile of u is stored or deleted while these calls decide about it.
Stir(u) ==
  stirred' = [d \in Calls |-> IF step[d] \in {"finding", "checking", "creating"}
                              THEN stirred[d] \union {u} ELSE stirred[d]]

Exists(id) == id # 0 /\ profile[owner[id]] = id
Open(id)   == Exists(id) /\ owner[id] \notin hidden
Closed(ids) == {id \in ids : ~ Open(id)}

-----------------------------------------------------------------------------
(* Profiles *)

StoreHidden(u, hiding) ==
  hidden' = IF hiding = "hide" THEN hidden \union {u} ELSE hidden \ {u}

\* upsertProfile()
PutProfile(u, hiding) ==
  /\ IF profile[u] = 0
       THEN /\ Len(owner) < MaxProfiles
            /\ owner' = Append(owner, u)
            /\ profile' = [profile EXCEPT ![u] = Len(owner) + 1]
       ELSE UNCHANGED <<owner, profile>>
  /\ StoreHidden(u, hiding)
  /\ Stir(u)
  /\ UNCHANGED <<requests, made, step, what, who, notes, met>>

\* updateProfileSettings() merges its flags into those it read: hideProfile is set,
\* or stored again as it was.
PatchSettings(c, hiding) ==
  /\ profile[who[c]] # 0
  /\ Begin(c, "settings", "merging")
  /\ verdict' = [verdict EXCEPT ![c] = hiding]
  /\ UNCHANGED <<docVars, from, to, request>>

MergeUpsertingMutant(c) ==
  /\ step[c] = "merging"
  /\ StoreHidden(who[c], verdict[c]) /\ Stir(who[c])
  /\ Finish(c)
  /\ UNCHANGED <<profile, owner, requests, made>>

Merge(c) ==
  /\ step[c] = "merging"
  /\ IF profile[who[c]] = 0
       THEN UNCHANGED <<hidden, stirred>>
       ELSE StoreHidden(who[c], verdict[c]) /\ Stir(who[c])
  /\ Finish(c)
  /\ UNCHANGED <<profile, owner, requests, made>>

\* deleteProfile(): the requests of the profile it read, then the profile of the user.
DeleteProfile(c) ==
  /\ profile[who[c]] # 0
  /\ Begin(c, "delete", "clearing")
  /\ from' = [from EXCEPT ![c] = profile[who[c]]]
  /\ UNCHANGED <<docVars, to, request, verdict>>

ClearSentMutant(c) ==
  /\ step[c] = "clearing"
  /\ requests' = {r \in requests : r.from # from[c]}
  /\ To(c, "dropping")
  /\ UNCHANGED <<profile, hidden, owner, made, stirred>>

Clear(c) ==
  /\ step[c] = "clearing"
  /\ requests' = {r \in requests : from[c] \notin {r.from, r.to}}
  /\ To(c, "dropping")
  /\ UNCHANGED <<profile, hidden, owner, made, stirred>>

Drop(c) ==
  /\ step[c] = "dropping"
  /\ profile' = [profile EXCEPT ![who[c]] = 0]
  /\ hidden' = hidden \ {who[c]}
  /\ Finish(c)
  /\ Stir(who[c])
  /\ UNCHANGED <<owner, requests, made>>

-----------------------------------------------------------------------------
(* createConnectionRequest() *)

\* The receiver is named by an id, of a profile that may be gone.  The sender is
\* weighed as he is read here.
Connect(c, id) ==
  /\ Open(profile[who[c]])
  /\ Begin(c, "connect", "finding")
  /\ from' = [from EXCEPT ![c] = profile[who[c]]]
  /\ to' = [to EXCEPT ![c] = id]
  /\ UNCHANGED <<docVars, request, verdict>>

Find(c) ==
  /\ step[c] = "finding"
  /\ GoOn(c, Open(to[c]) /\ owner[to[c]] # who[c], "checking")
  /\ UNCHANGED <<docVars, stirred>>

Pending(c) ==
  {r \in requests : r.from = from[c] /\ r.to = to[c] /\ r.status = "pending"}

Check(c) ==
  /\ step[c] = "checking"
  /\ GoOn(c, Pending(c) = {}, "creating")
  /\ UNCHANGED <<docVars, stirred>>

\* Sender, receiver and event of a pending request are unique.
Create(c) ==
  /\ step[c] = "creating"
  /\ IF Pending(c) = {}
       THEN /\ made < MaxRequests
            /\ made' = made + 1
            /\ requests' = requests \union
                 {[id |-> made + 1, from |-> from[c], to |-> to[c], status |-> "pending",
                   by |-> c, closed |-> Closed({from[c], to[c]})]}
       ELSE UNCHANGED <<made, requests>>
  /\ Finish(c)
  /\ UNCHANGED <<profile, hidden, owner, stirred>>

-----------------------------------------------------------------------------
(* updateConnectionRequest() *)

\* It reads the request, which must be pending ...
AnswerAnyMutant(c, r, status) ==
  /\ Begin(c, "answer", "weighing")
  /\ request' = [request EXCEPT ![c] = r.id]
  /\ verdict' = [verdict EXCEPT ![c] = status]
  /\ from' = [from EXCEPT ![c] = r.from]
  /\ to' = [to EXCEPT ![c] = r.to]
  /\ UNCHANGED docVars

Answer(c, r, status) ==
  /\ r.status = "pending"
  /\ Begin(c, "answer", "weighing")
  /\ request' = [request EXCEPT ![c] = r.id]
  /\ verdict' = [verdict EXCEPT ![c] = status]
  /\ from' = [from EXCEPT ![c] = r.from]
  /\ to' = [to EXCEPT ![c] = r.to]
  /\ UNCHANGED docVars

\* ... and the two profiles: the receiver accepts or declines, the sender cancels.
Weigh(c) ==
  /\ step[c] = "weighing"
  /\ GoOn(c, /\ Exists(from[c]) /\ Exists(to[c])
             /\ who[c] = owner[IF verdict[c] = "cancelled" THEN from[c] ELSE to[c]],
          "saving")
  /\ UNCHANGED <<docVars, stirred>>

\* save() updates the document by its id and fails if it is gone.
Save(c) ==
  /\ step[c] = "saving"
  /\ requests' = {IF r.id = request[c] THEN [r EXCEPT !.status = verdict[c]] ELSE r : r \in requests}
  /\ Finish(c)
  /\ UNCHANGED <<profile, hidden, owner, made, stirred>>

-----------------------------------------------------------------------------
\* The process dies, or MongoDB cannot be reached.
Lost(c) ==
  /\ step[c] \in InFlight
  /\ Finish(c)
  /\ UNCHANGED <<docVars, stirred>>

Arrive(c) ==
  \/ \E hiding \in Hiding : PatchSettings(c, hiding)
  \/ DeleteProfile(c)
  \/ \E id \in Ids \ {0} : Connect(c, id)
  \/ \E r \in requests, status \in Verdicts : Answer(c, r, status)

Proceed(c) ==
  \/ Merge(c) \/ Clear(c) \/ Drop(c) \/ Find(c) \/ Check(c) \/ Create(c)
  \/ Weigh(c) \/ Save(c) \/ Lost(c)

Next ==
  \/ \E c \in Calls : Arrive(c) \/ Proceed(c)
  \/ \E u \in Users, hiding \in Hiding : PutProfile(u, hiding)

Spec == Init /\ [][Next]_vars

-----------------------------------------------------------------------------
(* Safety *)

\* A connection request at odds with a profile was made while that changed: one to
\* or from a profile that was closed when it was stored, and one that outlives a
\* profile, whose deletion clears the requests first.
RequestsMatchProfiles ==
  \A r \in requests : \A id \in {r.from, r.to} :
    /\ id \in r.closed => owner[id] \in stirred[r.by]
    /\ ~ Exists(id) => \E d \in met[r.by] : what[d] = "delete" /\ who[d] = owner[id]

\* An answer is final: another one takes its place only if the two overlapped.
AnswersFinal ==
  [][\A c \in Calls, r \in requests :
       Save(c) /\ r.id = request[c] /\ r.status # "pending"
         => \E d \in met[c] : what[d] = "answer" /\ request[d] = r.id]_vars

-----------------------------------------------------------------------------
(* Refinement: the write is the change, every read a stutter *)

\* What users see of a request.
Shown(r) == [id |-> r.id, from |-> r.from, to |-> r.to, status |-> r.status]

AllShown == {Shown(r) : r \in requests}

Promised == INSTANCE ConnectionRequests WITH requests <- AllShown, sent <- made

\* Whatever happens between the reads and the write of a call, only the parties of a
\* request change it.
KeepsPromise == Promised!Spec
=============================================================================
