----------------------------- MODULE SavedPlan ------------------------------
(***************************************************************************)
(* One saved travel guide and the trip plans it may be linked to:          *)
(* travel-guide-saved-plan.service.ts, its repository, and the services    *)
(* that read a guide, work for seconds and write it back.                  *)
(*                                                                         *)
(* A call is one request.  What it read stays in mine, so that properties  *)
(* can say what it knew.  A generation is named by the call that made it:  *)
(* a plan is known by the generation it stems from (quotes and tiers are   *)
(* worked into it), a form by its generation and the later calls whose     *)
(* changes it holds.                                                       *)
(***************************************************************************)
EXTENDS Integers, FiniteSets

CONSTANTS
  Users,      \* accounts
  Anonymous,  \* the owner raven-public:guide:<guideId>
  Calls,
  None,
  Patch,      \* PATCH of a trip plan, as what set its guideId
  MaxTrips,   \* bound: trip plans made over time for the activity
  MaxExpiries \* bound: how often the TTL index removes the guide

ASSUME SavedPlanAssumption ==
  /\ Anonymous \notin Users
  /\ None \notin Users \union {Anonymous} \union Calls
  /\ Patch \notin Calls \union {None}
  /\ MaxTrips \in Nat
  /\ MaxExpiries \in Nat

VARIABLES
  guide,     \* the document of the guide, NoGuide if there is none
  due,       \* whether its expiresAt has passed
  expired,   \* how often it was removed
  trips,     \* the trip plans by _id, NoTrip where there is none
  made,      \* trip plans created so far
  step,      \* where each call stands
  what, who, \* its operation and actor
  mine,      \* the guide as it read it
  resolved,  \* the trip it links the guide to
  named      \* whether that trip named the guide when it was read

guideVars == <<guide, due, expired>>
tripVars  == <<trips, made>>
callVars  == <<step, what, who, mine, resolved, named>>
vars      == <<guideVars, tripVars, callVars>>

Owners == Users \union {Anonymous}
Forms  == [of : Calls, changes : SUBSET Calls]
Guides == [owner : Owners, plan : Calls, form : Forms, trip : Nat]

\* One owner has one trip for an activity; by says what set its guideId to this guide.
TripIds == 1 .. MaxTrips
Plans   == [owner : Users, members : SUBSET Users, by : Calls \union {None, Patch}]
NoTrip  == [owner |-> None, members |-> {}, by |-> None]

NoGuide == [owner |-> None, plan |-> None,
            form |-> [of |-> None, changes |-> {}], trip |-> 0]

Exists == guide # NoGuide

Present(t) == trips[t] # NoTrip

InFlight == {"checking", "working", "storing", "claiming",
             "engaging", "linking", "marking"}

\* Types; trips are numbered as they are made, and the owner of one is a member of it.
TypeOK ==
  /\ guide \in Guides \union {NoGuide}
  /\ due \in BOOLEAN
  /\ expired \in 0 .. MaxExpiries
  /\ made \in 0 .. MaxTrips
  /\ trips \in [TripIds -> Plans \union {NoTrip}]
  /\ \A t \in TripIds : Present(t) => t <= made /\ trips[t].owner \in trips[t].members
  /\ guide.trip \in 0 .. made
  /\ step \in [Calls -> InFlight \union {"idle", "answered", "refused", "halfway"}]
  /\ what \in [Calls -> {"generate", "claim", "edit", "tier", "refresh"}]
  /\ who \in [Calls -> Owners]
  /\ mine \in [Calls -> Guides \union {NoGuide}]
  /\ resolved \in [Calls -> 0 .. made]
  /\ named \in [Calls -> BOOLEAN]

Init ==
  /\ guide = NoGuide
  /\ due = FALSE
  /\ expired = 0
  /\ trips = [t \in TripIds |-> NoTrip]
  /\ made = 0
  /\ step = [c \in Calls |-> "idle"]
  /\ what = [c \in Calls |-> "generate"]
  /\ who = [c \in Calls |-> Anonymous]
  /\ mine = [c \in Calls |-> NoGuide]
  /\ resolved = [c \in Calls |-> 0]
  /\ named = [c \in Calls |-> FALSE]

-----------------------------------------------------------------------------
(* A request arrives *)

Begin(c, operation, actor, seen, next) ==
  /\ step[c] = "idle"
  /\ step' = [step EXCEPT ![c] = next]
  /\ what' = [what EXCEPT ![c] = operation]
  /\ who' = [who EXCEPT ![c] = actor]
  /\ mine' = [mine EXCEPT ![c] = seen]
  /\ UNCHANGED <<resolved, named>>

To(c, next) ==
  /\ step' = [step EXCEPT ![c] = next]
  /\ UNCHANGED <<what, who, mine, resolved, named>>

\* Nothing is kept of a call that changed nothing.
Refuse(c) ==
  /\ step' = [step EXCEPT ![c] = "refused"]
  /\ what' = [what EXCEPT ![c] = "generate"]
  /\ who' = [who EXCEPT ![c] = Anonymous]
  /\ mine' = [mine EXCEPT ![c] = NoGuide]
  /\ UNCHANGED <<resolved, named>>

GenerateReplacingMutant(c, actor) ==
  /\ Begin(c, "generate", actor, NoGuide, IF actor = Anonymous THEN "answered" ELSE "engaging")
  /\ guide' = [owner |-> actor, plan |-> c,
               form |-> [of |-> c, changes |-> {}], trip |-> 0]
  /\ due' = FALSE
  /\ UNCHANGED <<expired, tripVars>>

\* The end of a generation: upsert() with $set of all but the link, whoever
\* owns the guide.
Generate(c, actor) ==
  /\ Begin(c, "generate", actor, NoGuide, IF actor = Anonymous THEN "answered" ELSE "engaging")
  /\ guide' = [owner |-> actor, plan |-> c,
               form |-> [of |-> c, changes |-> {}], trip |-> guide.trip]
  /\ due' = FALSE
  /\ UNCHANGED <<expired, tripVars>>

\* claimPublicPlan(): the caller of his own guide is answered at once.
Claim(c, u) ==
  /\ Exists /\ guide.owner # u
  /\ Begin(c, "claim", u, NoGuide, "claiming")
  /\ UNCHANGED <<guideVars, tripVars>>

\* findAccessibleByGuideId(), for updateForm() or selectBudgetTier().
Open(c, operation, u) ==
  /\ Exists
  /\ Begin(c, operation, u, guide, IF guide.owner = u THEN "working" ELSE "checking")
  /\ UNCHANGED <<guideVars, tripVars>>

\* getSavedPlan() with quotes to refresh: the guideId is the credential.
Read(c) ==
  /\ Exists
  /\ Begin(c, "refresh", Anonymous, guide, "working")
  /\ UNCHANGED <<guideVars, tripVars>>

-----------------------------------------------------------------------------
(* Ownership *)

ClaimFromAnyoneMutant(c) ==
  /\ step[c] = "claiming"
  /\ IF Exists
       THEN guide' = [guide EXCEPT !.owner = who[c]] /\ To(c, "engaging")
       ELSE guide' = guide /\ Refuse(c)
  /\ UNCHANGED <<due, expired, tripVars>>

\* The repository's claimPublicPlan(): findOneAndUpdate with the public owner.
TakeOver(c) ==
  /\ step[c] = "claiming"
  /\ IF guide.owner = Anonymous
       THEN guide' = [guide EXCEPT !.owner = who[c]] /\ To(c, "engaging")
       ELSE guide' = guide /\ Refuse(c)
  /\ UNCHANGED <<due, expired, tripVars>>

\* assertGuideAccess(): a linked guide is for the members of its trip.
Accessible(u) ==
  \/ guide.trip = 0
  \/ u \in trips[guide.trip].members

Check(c) ==
  /\ step[c] = "checking"
  /\ IF Accessible(who[c]) THEN To(c, "working") ELSE Refuse(c)
  /\ UNCHANGED <<guideVars, tripVars>>

-----------------------------------------------------------------------------
(* Writing back what was read *)

StoreFormAloneMutant(c) ==
  /\ step[c] = "working" /\ what[c] = "edit"
  /\ Exists
  /\ guide' = [guide EXCEPT !.form = [mine[c].form EXCEPT !.changes = @ \union {c}]]
  /\ due' = FALSE
  /\ To(c, "answered")
  /\ UNCHANGED <<expired, tripVars>>

\* updateForm(): the same upsert, with the owner, form and plan that were read.
StoreForm(c) ==
  /\ step[c] = "working" /\ what[c] = "edit"
  /\ guide' = [owner |-> mine[c].owner, plan |-> mine[c].plan,
               form |-> [mine[c].form EXCEPT !.changes = @ \union {c}],
               trip |-> guide.trip]
  /\ due' = FALSE
  /\ To(c, "answered")
  /\ UNCHANGED <<expired, tripVars>>

\* updateBudgetTier() reads the guide again, for its owner and form.
RereadForm(c) ==
  /\ step[c] = "working" /\ what[c] = "tier"
  /\ IF guide.owner = mine[c].owner
       THEN /\ step' = [step EXCEPT ![c] = "storing"]
            /\ mine' = [mine EXCEPT ![c].form = guide.form]
            /\ UNCHANGED <<what, who, resolved, named>>
       ELSE Refuse(c)
  /\ UNCHANGED <<guideVars, tripVars>>

StoreTierForgettingMutant(c) ==
  /\ step[c] = "storing"
  /\ IF guide.owner = mine[c].owner
       THEN /\ guide' = [guide EXCEPT
                           !.plan = mine[c].plan,
                           !.form = [mine[c].form EXCEPT !.changes = {c}]]
            /\ To(c, "answered")
       ELSE guide' = guide /\ Refuse(c)
  /\ UNCHANGED <<due, expired, tripVars>>

\* The repository's updateBudgetTier(): only while the owner is the same.
StoreTier(c) ==
  /\ step[c] = "storing"
  /\ IF guide.owner = mine[c].owner
       THEN /\ guide' = [guide EXCEPT
                           !.plan = mine[c].plan,
                           !.form = [mine[c].form EXCEPT !.changes = @ \union {c}]]
            /\ To(c, "answered")
       ELSE guide' = guide /\ Refuse(c)
  /\ UNCHANGED <<due, expired, tripVars>>

StoreQuotesUpsertingMutant(c) ==
  /\ step[c] = "working" /\ what[c] = "refresh"
  /\ guide' = [guide EXCEPT !.plan = mine[c].plan]
  /\ To(c, "answered")
  /\ UNCHANGED <<due, expired, tripVars>>

\* updatePlan(): no upsert.
StoreQuotes(c) ==
  /\ step[c] = "working" /\ what[c] = "refresh"
  /\ guide' = IF Exists THEN [guide EXCEPT !.plan = mine[c].plan] ELSE guide
  /\ To(c, "answered")
  /\ UNCHANGED <<due, expired, tripVars>>

-----------------------------------------------------------------------------
(* linkGuideForActivity(), after caches and the goal have been seen to *)

TripsOf(u) == {t \in TripIds : u \in trips[t].members}

\* resolveForActivity(): the trip with most members (of several, the last updated one;
\* a member who is twice in memberIds counts twice there).
Largest(u) == {t \in TripsOf(u) : \A s \in TripsOf(u) :
                 Cardinality(trips[s].members) =< Cardinality(trips[t].members)}

Resolve(c) ==
  /\ step[c] = "engaging"
  /\ \/ \E t \in Largest(who[c]) :
          /\ step' = [step EXCEPT ![c] = "linking"]
          /\ resolved' = [resolved EXCEPT ![c] = t]
          /\ named' = [named EXCEPT ![c] = trips[t].by # None]
          /\ UNCHANGED <<what, who, mine>>
     \/ TripsOf(who[c]) = {} /\ To(c, "answered")
  /\ UNCHANGED <<guideVars, tripVars>>

\* tripPlan.save() fails if the trip plan is gone, and writes guideId only if that was
\* another when it was read.
SaveTrip(c) ==
  /\ step[c] = "linking"
  /\ IF Present(resolved[c])
       THEN /\ trips' = IF named[c] THEN trips ELSE [trips EXCEPT ![resolved[c]].by = c]
            /\ To(c, "marking")
       ELSE trips' = trips /\ To(c, "halfway")
  /\ UNCHANGED <<guideVars, made>>

MarkGuide(c) ==
  /\ step[c] = "marking"
  /\ guide' = IF Exists THEN [guide EXCEPT !.trip = resolved[c]] ELSE guide
  /\ To(c, "answered")
  /\ UNCHANGED <<due, expired, tripVars>>

\* The process dies, or MongoDB cannot be reached.
Lost(c) ==
  /\ step[c] \in InFlight
  /\ IF step[c] \in {"engaging", "linking", "marking"} THEN To(c, "halfway") ELSE Refuse(c)
  /\ UNCHANGED <<guideVars, tripVars>>

-----------------------------------------------------------------------------
(* Around the calls *)

\* The guide's 30 days outlast every call.
TimePasses ==
  /\ Exists /\ ~due
  /\ \A c \in Calls : step[c] \notin InFlight
  /\ due' = TRUE
  /\ UNCHANGED <<guide, expired, tripVars, callVars>>

Expire ==
  /\ due
  /\ expired < MaxExpiries
  /\ guide' = NoGuide
  /\ due' = FALSE
  /\ expired' = expired + 1
  /\ UNCHANGED <<tripVars, callVars>>

\* TripMembership, seen from here: each owner's trip appears, changes its members and
\* disappears.
TripCreated(u) ==
  /\ made < MaxTrips
  /\ \A t \in TripIds : trips[t].owner # u
  /\ made' = made + 1
  /\ trips' = [trips EXCEPT ![made'] = [owner |-> u, members |-> {u}, by |-> None]]
  /\ UNCHANGED <<guideVars, callVars>>

TeamChanges(t, team) ==
  /\ Present(t)
  /\ trips[t].owner \in team
  /\ trips' = [trips EXCEPT ![t].members = team]
  /\ UNCHANGED <<made, guideVars, callVars>>

TripDeleted(t) ==
  /\ Present(t)
  /\ trips' = [trips EXCEPT ![t] = NoTrip]
  /\ UNCHANGED <<made, guideVars, callVars>>

\* TripPlanService.update(): a member sets guideId, to this guide or to another one, and
\* nothing is written to the guide.  A link of another guide sets it to that one.
TripUpdated(t) ==
  /\ Present(t)
  /\ \E by \in {None, Patch} : trips' = [trips EXCEPT ![t].by = by]
  /\ UNCHANGED <<made, guideVars, callVars>>

Arrive(c) ==
  \/ Read(c)
  \/ \E actor \in Owners : Generate(c, actor)
  \/ \E u \in Users : Claim(c, u) \/ Open(c, "edit", u) \/ Open(c, "tier", u)

Proceed(c) ==
  \/ TakeOver(c) \/ Check(c)
  \/ StoreForm(c) \/ RereadForm(c) \/ StoreTier(c) \/ StoreQuotes(c)
  \/ Resolve(c) \/ SaveTrip(c) \/ MarkGuide(c) \/ Lost(c)

Around ==
  \/ TimePasses \/ Expire
  \/ \E u \in Users : TripCreated(u)
  \/ \E t \in TripIds : \/ TripDeleted(t) \/ TripUpdated(t)
                        \/ \E team \in SUBSET Users : TeamChanges(t, team)

Next == Around \/ \E c \in Calls : Arrive(c) \/ Proceed(c)

Spec == Init /\ [][Next]_vars

-----------------------------------------------------------------------------
(* Safety *)

ClaimsWon ==
  {c \in Calls : /\ what[c] = "claim"
                 /\ step[c] \in {"engaging", "linking", "marking", "answered", "halfway"}}

\* Calls that made the guide public: anonymous generations, and form edits that
\* had read it before it was claimed.
PublicWrites ==
  {c \in Calls : /\ step[c] = "answered"
                 /\ \/ what[c] = "generate" /\ who[c] = Anonymous
                    \/ what[c] = "edit" /\ mine[c].owner = Anonymous}

\* A guide is claimed once each time it has been written as public: two claims
\* do not both win it, however they overlap, unless an anonymous generation
\* or a form edit that read it as public gave it back in between.
ClaimsAccounted ==
  Cardinality(ClaimsWon) + (IF guide.owner = Anonymous THEN 1 ELSE 0)
     =< Cardinality(PublicWrites)

\* Form and plan are of one generation, unless a quote refresh or a tier change
\* that had read the plan of another generation was stored after it.
FormMatchesPlan ==
  guide.form.of # guide.plan
     => \E c \in Calls : /\ step[c] = "answered"
                         /\ what[c] \in {"refresh", "tier"}
                         /\ mine[c].plan = guide.plan

\* A form change that was answered is in the form, as long as that is of the same
\* generation, unless it was lost to another change: neither of the two had seen
\* the other.
ChangesSurvive ==
  \A c \in Calls :
     /\ step[c] = "answered" /\ what[c] \in {"edit", "tier"}
     /\ mine[c].form.of = guide.form.of
     /\ c \notin guide.form.changes
     => \E d \in guide.form.changes : /\ d \notin mine[c].form.changes
                                      /\ c \notin mine[d].form.changes

\* A trip that a call has linked to the guide is named by it: unless that call has its
\* second write before it or was cut short, the guide expired, or the trip that it names
\* instead was linked to it, too.
LinkAgrees ==
  \A t \in TripIds :
     Exists /\ trips[t].by \in Calls /\ guide.trip # t
       => \/ step[trips[t].by] \in {"marking", "halfway"}
          \/ guide.trip = 0 /\ expired > 0
          \/ \E d \in Calls : step[d] = "answered" /\ resolved[d] = guide.trip
=============================================================================
