--------------------------- MODULE SavedPlanProofs --------------------------
(***************************************************************************)
(* Proofs about SavedPlan, for any accounts and calls.                     *)
(***************************************************************************)
EXTENDS SavedPlan, FiniteSetTheorems, TLAPS

Reading == {"checking", "working", "storing"}
Linking == {"engaging", "linking", "marking"}

\* What a call is about, by the step it has reached, and what it has read.
CallInv ==
  \A c \in Calls :
    /\ step[c] \in Reading => what[c] \in {"edit", "tier", "refresh"}
    /\ step[c] = "storing" => what[c] = "tier"
    /\ step[c] = "claiming" => what[c] = "claim" /\ who[c] \in Users
    /\ step[c] \in Linking => what[c] \in {"claim", "generate"}
    /\ step[c] \in {"idle", "refused"} => what[c] = "generate"
    /\ what[c] \in {"edit", "tier", "refresh"} => mine[c] \in Guides
    /\ step[c] \in {"linking", "marking"} => resolved[c] \in TripIds

\* Forms hold the changes of answered calls, and stem from calls that have begun.
Stamped(form) ==
  /\ \A d \in form.changes : step[d] = "answered"
  /\ form.of \in Calls => step[form.of] # "idle"

FormInv ==
  /\ Stamped(guide.form)
  /\ \A c \in Calls : Stamped(mine[c].form)

\* What FormMatchesPlan says of the guide, of what a form edit has read.
ReadInv ==
  \A c \in Calls :
    what[c] = "edit" /\ mine[c].form.of # mine[c].plan
      => \E d \in Calls : /\ step[d] = "answered"
                          /\ what[d] \in {"refresh", "tier"}
                          /\ mine[d].plan = mine[c].plan

\* Without a guide there never was a link, unless the guide expired; and what names the
\* guide, and what it names, was written by the call that resolved that trip.
Unlinked ==
  ~ Exists /\ expired = 0 =>
    /\ \A c \in Calls : step[c] \notin InFlight
    /\ \A t \in TripIds : trips[t].by \notin Calls

LinkedBy(c, t) ==
  /\ resolved[c] = t
  /\ step[c] \in {"marking", "halfway", "answered"}
  /\ step[c] = "answered" /\ Exists /\ expired = 0 => guide.trip # 0

TripInv ==
  /\ Unlinked
  /\ guide.trip # 0 => \E d \in Calls : step[d] = "answered" /\ resolved[d] = guide.trip
  /\ \A t \in TripIds : trips[t].by \in Calls => LinkedBy(trips[t].by, t)

IInv ==
  /\ TypeOK
  /\ CallInv
  /\ FormInv
  /\ ReadInv
  /\ TripInv
  /\ FormMatchesPlan
  /\ ChangesSurvive

\* The guide that is not there.
LEMMA Blank ==
  /\ NoGuide.owner = None /\ NoGuide.plan = None /\ NoGuide.trip = 0
  /\ NoGuide.form.of = None /\ NoGuide.form.changes = {}
  /\ NoGuide \notin Guides
  BY SavedPlanAssumption DEF NoGuide, Guides, Owners

LEMMA InitIInv == Init => IInv
<1> SUFFICES ASSUME Init PROVE IInv
  OBVIOUS
<1>1. TypeOK
  <2>1. /\ guide \in Guides \union {NoGuide} /\ expired \in 0 .. MaxExpiries
        /\ made \in 0 .. MaxTrips /\ guide.trip \in 0 .. made
        /\ trips \in [TripIds -> Plans \union {NoTrip}]
        /\ \A t \in TripIds : Present(t) => t <= made /\ trips[t].owner \in trips[t].members
    BY SavedPlanAssumption, Blank DEF Init, Present
  <2>3. due \in BOOLEAN
    BY Zenon DEF Init
  <2>2. /\ step \in [Calls -> InFlight \union {"idle", "answered", "refused", "halfway"}]
        /\ what \in [Calls -> {"generate", "claim", "edit", "tier", "refresh"}]
        /\ who \in [Calls -> Owners]
        /\ mine \in [Calls -> Guides \union {NoGuide}]
        /\ resolved \in [Calls -> 0 .. made]
        /\ named \in [Calls -> BOOLEAN]
    BY DEF Init, Owners
  <2> QED
    BY <2>1, <2>2, <2>3 DEF TypeOK
<1>2. CallInv /\ TripInv
  BY SavedPlanAssumption, Blank
     DEF Init, CallInv, TripInv, Unlinked, Exists, InFlight, Reading, Linking, NoTrip
<1>3. FormInv /\ ReadInv /\ FormMatchesPlan /\ ChangesSurvive
  BY SavedPlanAssumption, Blank DEF Init, FormInv, Stamped, ReadInv, FormMatchesPlan, ChangesSurvive
<1> QED
  BY <1>1, <1>2, <1>3 DEF IInv

-----------------------------------------------------------------------------
(* What a step does not touch *)

\* A step of a call leaves the other calls alone.
LEMMA Frame ==
  ASSUME TypeOK, NEW c \in Calls, Arrive(c) \/ Proceed(c)
  PROVE  /\ step[c] \in InFlight \union {"idle"}
         /\ \A d \in Calls \ {c} :
              /\ step'[d] = step[d] /\ what'[d] = what[d] /\ who'[d] = who[d]
              /\ mine'[d] = mine[d] /\ resolved'[d] = resolved[d] /\ named'[d] = named[d]
<1>1. CASE Arrive(c)
  BY <1>1 DEF Arrive, Read, Generate, Claim, Open, Begin, TypeOK
<1>2. CASE Proceed(c)
  BY <1>2 DEF Proceed, TakeOver, Check, StoreForm, RereadForm, StoreTier, StoreQuotes, Resolve,
              SaveTrip, MarkGuide, Lost, To, Refuse, InFlight, TypeOK
<1> QED
  BY <1>1, <1>2

LEMMA AroundFrame == Around => UNCHANGED callVars
  BY DEF Around, TimePasses, Expire, TripDeleted, TripUpdated, TripCreated, TeamChanges

\* An answered call is left alone for good, and no call becomes idle again.
LEMMA Answered ==
  ASSUME TypeOK, [Next]_vars, NEW c \in Calls
  PROVE  /\ step[c] = "answered" =>
              /\ step'[c] = "answered" /\ what'[c] = what[c] /\ who'[c] = who[c]
              /\ mine'[c] = mine[c] /\ resolved'[c] = resolved[c]
         /\ step[c] = "halfway" => step'[c] = "halfway"
         /\ step[c] # "idle" => step'[c] # "idle"
<1>1. CASE UNCHANGED callVars
  BY <1>1 DEF callVars
<1>2. CASE Arrive(c) \/ Proceed(c)
  <2>1. step[c] \in InFlight \union {"idle"}
    BY <1>2, Frame
  <2>2. CASE Arrive(c)
    BY <2>1, <2>2 DEF Arrive, Read, Generate, Claim, Open, Begin, InFlight, TypeOK
  <2>3. CASE Proceed(c)
    BY <2>1, <2>3
       DEF Proceed, TakeOver, Check, StoreForm, RereadForm, StoreTier, StoreQuotes, Resolve,
           SaveTrip, MarkGuide, Lost, To, Refuse, InFlight, TypeOK
  <2> QED
    BY <1>2, <2>2, <2>3
<1>3. CASE \E d \in Calls \ {c} : Arrive(d) \/ Proceed(d)
  BY <1>3, Frame
<1> QED
  BY <1>1, <1>2, <1>3, AroundFrame DEF Next, vars

-----------------------------------------------------------------------------
(* Types *)

GuideTypes ==
  /\ guide \in Guides \union {NoGuide}
  /\ due \in BOOLEAN
  /\ expired \in 0 .. MaxExpiries
  /\ guide.trip \in 0 .. made

TripTypes ==
  /\ made \in 0 .. MaxTrips
  /\ trips \in [TripIds -> Plans \union {NoTrip}]
  /\ \A t \in TripIds : Present(t) => t <= made /\ trips[t].owner \in trips[t].members

CallTypes ==
  /\ step \in [Calls -> InFlight \union {"idle", "answered", "refused", "halfway"}]
  /\ what \in [Calls -> {"generate", "claim", "edit", "tier", "refresh"}]
  /\ who \in [Calls -> Owners]
  /\ mine \in [Calls -> Guides \union {NoGuide}]
  /\ resolved \in [Calls -> 0 .. made]
  /\ named \in [Calls -> BOOLEAN]

LEMMA Types == TypeOK <=> GuideTypes /\ TripTypes /\ CallTypes
  BY DEF TypeOK, GuideTypes, TripTypes, CallTypes

LEMMA GuideFields ==
  ASSUME NEW g \in Guides
  PROVE  /\ g.owner \in Owners /\ g.plan \in Calls /\ g.form \in Forms
         /\ g.form.of \in Calls /\ g.form.changes \in SUBSET Calls /\ g.trip \in Nat
  BY DEF Guides, Forms

\* Who finds the guide as he read it finds a guide.
LEMMA Matches ==
  ASSUME TypeOK, NEW c \in Calls, mine[c] \in Guides, guide.owner = mine[c].owner
  PROVE  guide \in Guides
  BY SavedPlanAssumption, GuideFields, Blank DEF TypeOK, Owners

\* A trip plan is replaced by another one.
LEMMA Placed ==
  ASSUME TypeOK, NEW t \in TripIds, t <= made, made' = made, NEW plan \in Plans,
         plan.owner \in plan.members, trips' = [trips EXCEPT ![t] = plan]
  PROVE  TripTypes'
<1>1. \A s \in TripIds : trips'[s] = IF s = t THEN plan ELSE trips[s]
  BY DEF TypeOK
<1>2. trips' \in [TripIds -> Plans \union {NoTrip}]
  BY DEF TypeOK
<1>3. ASSUME NEW s \in TripIds, Present(s)'
      PROVE  s <= made' /\ trips'[s].owner \in trips'[s].members
  BY <1>1, <1>3 DEF TypeOK, Present
<1> QED
  BY <1>2, <1>3 DEF TypeOK, TripTypes

\* A trip plan that is there gets another guideId.
LEMMA Relinked ==
  ASSUME TypeOK, NEW t \in TripIds, Present(t), made' = made,
         NEW by \in Calls \union {None, Patch}, trips' = [trips EXCEPT ![t].by = by]
  PROVE  TripTypes'
<1>1. trips[t] \in Plans /\ t <= made /\ trips[t].owner \in trips[t].members
  BY DEF Present, TypeOK
<1> DEFINE plan == [trips[t] EXCEPT !.by = by]
<1>2. plan \in Plans /\ plan.owner \in plan.members
  BY <1>1 DEF Plans
<1>3. trips' = [trips EXCEPT ![t] = plan]
  BY DEF TypeOK
<1> HIDE DEF plan
<1> QED
  BY <1>1, <1>2, <1>3, Placed

LEMMA ArriveType ==
  ASSUME TypeOK, NEW c \in Calls, Arrive(c)
  PROVE  TypeOK'
<1>1. TripTypes'
  BY DEF Arrive, Read, Generate, Claim, Open, tripVars, TypeOK, TripTypes, Present
<1>2. GuideTypes'
  <2>1. CASE \E actor \in Owners : Generate(c, actor)
    <3>1. PICK actor \in Owners : Generate(c, actor)
      BY <2>1
    <3>2. guide.trip \in Nat
      BY DEF TypeOK
    <3>3. guide' \in Guides /\ guide'.trip = guide.trip
      BY <3>1, <3>2 DEF Generate, Guides, Forms
    <3> QED
      BY <3>1, <3>3 DEF Generate, GuideTypes, TypeOK, tripVars
  <2>2. CASE UNCHANGED <<guide, due, expired, made>>
    BY <2>2 DEF GuideTypes, TypeOK
  <2> QED
    BY <2>1, <2>2 DEF Arrive, Read, Claim, Open, guideVars, tripVars
<1>3. CallTypes'
  <2>1. ASSUME NEW operation \in {"generate", "claim", "edit", "tier", "refresh"},
               NEW actor \in Owners, NEW seen \in Guides \union {NoGuide},
               NEW next \in InFlight \union {"answered"}, Begin(c, operation, actor, seen, next)
        PROVE  CallTypes'
    BY <1>1, <2>1 DEF Begin, CallTypes, TypeOK, TripTypes, Arrive, Read, Generate, Claim, Open,
                      tripVars
  <2> QED
    BY <2>1 DEF Arrive, Read, Generate, Claim, Open, Owners, InFlight, Exists, TypeOK
<1> QED
  BY <1>1, <1>2, <1>3 DEF TypeOK, GuideTypes, TripTypes, CallTypes

LEMMA ProceedType ==
  ASSUME TypeOK, CallInv, NEW c \in Calls, Proceed(c)
  PROVE  TypeOK'
<1> USE DEF Proceed, TakeOver, Check, StoreForm, RereadForm, StoreTier, StoreQuotes, Resolve,
            SaveTrip, MarkGuide, Lost
<1>0. /\ guide \in Guides \union {NoGuide} /\ guide.trip \in Nat /\ who[c] \in Owners
      /\ mine[c] \in Guides \union {NoGuide} /\ resolved[c] \in 0 .. made
      /\ made \in Nat
  BY SavedPlanAssumption DEF TypeOK
<1>1. TripTypes'
  <2>1. CASE SaveTrip(c) /\ Present(resolved[c]) /\ ~ named[c]
    <3>1. resolved[c] \in TripIds
      BY <2>1 DEF CallInv
    <3> QED
      BY <2>1, <3>1, Relinked
  <2>2. CASE UNCHANGED tripVars
    BY <2>2 DEF TypeOK, TripTypes, tripVars, Present
  <2> QED
    BY <2>1, <2>2 DEF guideVars, tripVars
<1>2. made' = made /\ due' \in BOOLEAN /\ expired' = expired
  BY DEF guideVars, tripVars, TypeOK
<1>3. guide' \in Guides \union {NoGuide} /\ guide'.trip \in 0 .. made
  <2>1. CASE TakeOver(c) /\ guide.owner = Anonymous
    <3>1. guide \in Guides
      BY <1>0, <2>1, SavedPlanAssumption, Blank
    <3>2. guide' = [guide EXCEPT !.owner = who[c]]
      BY <2>1, <1>0
    <3> QED
      BY <1>0, <3>1, <3>2 DEF Guides, TypeOK
  <2>2. CASE StoreForm(c)
    <3>1. mine[c] \in Guides
      BY <2>2 DEF CallInv
    <3>2. [mine[c].form EXCEPT !.changes = @ \union {c}] \in Forms
      BY <3>1, GuideFields DEF Forms
    <3> QED
      BY <1>0, <2>2, <3>1, <3>2, GuideFields DEF Guides, TypeOK
  <2>3. CASE StoreTier(c) /\ guide.owner = mine[c].owner
    <3>1. mine[c] \in Guides /\ guide \in Guides
      BY <2>3, Matches DEF CallInv
    <3>2. [mine[c].form EXCEPT !.changes = @ \union {c}] \in Forms
      BY <3>1, GuideFields DEF Forms
    <3>3. guide' = [guide EXCEPT !.plan = mine[c].plan,
                                 !.form = [mine[c].form EXCEPT !.changes = @ \union {c}]]
      BY <2>3
    <3> QED
      BY <1>0, <3>1, <3>2, <3>3, GuideFields DEF Guides, TypeOK
  <2>4. CASE StoreQuotes(c) /\ Exists
    <3>1. mine[c] \in Guides /\ guide \in Guides
      BY <1>0, <2>4 DEF CallInv, Exists
    <3>2. guide' = [guide EXCEPT !.plan = mine[c].plan]
      BY <2>4
    <3> QED
      BY <1>0, <3>1, <3>2, GuideFields DEF Guides, TypeOK
  <2>5. CASE MarkGuide(c) /\ Exists
    <3>1. guide \in Guides
      BY <1>0, <2>5 DEF Exists
    <3>2. guide' = [guide EXCEPT !.trip = resolved[c]]
      BY <2>5
    <3> QED
      BY <1>0, <3>1, <3>2 DEF Guides
  <2>6. CASE guide' = guide
    BY <2>6 DEF TypeOK
  <2> QED
    BY <2>1, <2>2, <2>3, <2>4, <2>5, <2>6 DEF guideVars
<1>4. mine' \in [Calls -> Guides \union {NoGuide}]
  <2>1. CASE RereadForm(c) /\ guide.owner = mine[c].owner
    <3>1. mine[c] \in Guides /\ guide \in Guides
      BY <2>1, Matches DEF CallInv
    <3>2. [mine[c] EXCEPT !.form = guide.form] \in Guides
      BY <3>1, GuideFields DEF Guides
    <3>3. mine' = [mine EXCEPT ![c] = [mine[c] EXCEPT !.form = guide.form]]
      BY <2>1 DEF TypeOK
    <3> QED
      BY <3>2, <3>3 DEF TypeOK
  <2>2. CASE Refuse(c)
    BY <2>2 DEF Refuse, TypeOK
  <2>3. CASE mine' = mine
    BY <2>3 DEF TypeOK
  <2> QED
    BY <2>1, <2>2, <2>3 DEF To
<1>5. /\ step' \in [Calls -> InFlight \union {"idle", "answered", "refused", "halfway"}]
      /\ what' \in [Calls -> {"generate", "claim", "edit", "tier", "refresh"}]
      /\ who' \in [Calls -> Owners]
  BY <1>0 DEF To, Refuse, TypeOK, InFlight, Owners
<1>6. resolved' \in [Calls -> 0 .. made] /\ named' \in [Calls -> BOOLEAN]
  <2>1. CASE UNCHANGED <<resolved, named>>
    BY <2>1 DEF TypeOK
  <2>2. ASSUME NEW t \in Largest(who[c]), resolved' = [resolved EXCEPT ![c] = t],
               named' = [named EXCEPT ![c] = trips[t].by # None]
        PROVE  resolved' \in [Calls -> 0 .. made] /\ named' \in [Calls -> BOOLEAN]
    <3>1. t \in TripIds /\ trips[t].members # {}
      BY DEF Largest, TripsOf
    <3>2. t <= made
      BY <3>1 DEF TypeOK, Present, NoTrip
    <3> QED
      BY <1>0, <2>2, <3>1, <3>2 DEF TypeOK, TripIds
  <2> QED
    BY <2>1, <2>2 DEF To, Refuse
<1> QED
  BY <1>1, <1>2, <1>3, <1>4, <1>5, <1>6 DEF TypeOK, TripTypes

LEMMA AroundType ==
  ASSUME TypeOK, Around
  PROVE  TypeOK'
<1>1. UNCHANGED callVars
  BY AroundFrame
<1>2. made' \in 0 .. MaxTrips /\ made \in Nat /\ made <= made'
  BY SavedPlanAssumption
     DEF Around, TimePasses, Expire, TripDeleted, TripUpdated, TripCreated, TeamChanges, tripVars, TypeOK
<1>0. due' \in BOOLEAN
  <2>1. due \in BOOLEAN
    BY DEF TypeOK
  <2> QED
    BY <2>1, Zenon DEF Around, TimePasses, Expire, TripDeleted, TripUpdated, TripCreated, TeamChanges, tripVars,
                       guideVars
<1>3. GuideTypes'
  <2>1. CASE TimePasses
    BY <2>1 DEF TimePasses, tripVars, TypeOK, GuideTypes
  <2>2. CASE Expire
    BY SavedPlanAssumption, <1>0, <1>2, <2>2, Blank DEF Expire, TypeOK, GuideTypes
  <2>3. CASE UNCHANGED guideVars
    BY <1>2, <2>3 DEF guideVars, TypeOK, GuideTypes
  <2> QED
    BY <2>1, <2>2, <2>3 DEF Around, TripDeleted, TripUpdated, TripCreated, TeamChanges
<1>4. TripTypes'
  <2>1. ASSUME NEW u \in Users, TripCreated(u) PROVE TripTypes'
    <3>1. /\ made' \in TripIds /\ made <= made'
          /\ trips' = [trips EXCEPT ![made'] = [owner |-> u, members |-> {u}, by |-> None]]
      BY <1>2, <2>1, SavedPlanAssumption DEF TripCreated, TypeOK, TripIds
    <3>2. [owner |-> u, members |-> {u}, by |-> None] \in Plans
      BY DEF Plans
    <3>3. trips' \in [TripIds -> Plans \union {NoTrip}]
      BY <3>1, <3>2 DEF TypeOK
    <3>4. ASSUME NEW t \in TripIds, trips'[t] # NoTrip
          PROVE  t <= made' /\ trips'[t].owner \in trips'[t].members
      <4>1. CASE t = made'
        BY <1>2, <3>1, <4>1 DEF TypeOK, TripIds
      <4>2. CASE t # made'
        <5>1. trips'[t] = trips[t]
          BY <3>1, <4>2 DEF TypeOK
        <5> QED
          BY <1>2, <3>1, <3>4, <5>1, SavedPlanAssumption DEF TypeOK, TripIds, Present
      <4> QED
        BY <4>1, <4>2
    <3> QED
      BY <1>2, <3>3, <3>4 DEF TripTypes, Present
  <2>2. ASSUME NEW t \in TripIds, TripDeleted(t) PROVE TripTypes'
    BY <1>2, <2>2 DEF TripDeleted, TypeOK, TripTypes, Present
  <2>3. ASSUME NEW t \in TripIds, NEW team \in SUBSET Users, TeamChanges(t, team)
        PROVE  TripTypes'
    <3>1. trips[t] \in Plans /\ t <= made
      BY <2>3 DEF TeamChanges, Present, TypeOK
    <3>2. trips' = [trips EXCEPT ![t] = [trips[t] EXCEPT !.members = team]]
      BY <2>3, <3>1 DEF TeamChanges, TypeOK
    <3>3. /\ [trips[t] EXCEPT !.members = team] \in Plans
          /\ [trips[t] EXCEPT !.members = team].owner \in [trips[t] EXCEPT !.members = team].members
      BY <2>3, <3>1 DEF Plans, TeamChanges
    <3> QED
      BY <1>2, <2>3, <3>1, <3>2, <3>3, Placed DEF TeamChanges
  <2>5. ASSUME NEW t \in TripIds, TripUpdated(t) PROVE TripTypes'
    <3>1. trips[t] \in Plans /\ t <= made /\ trips[t].owner \in trips[t].members
      BY <2>5 DEF TripUpdated, Present, TypeOK
    <3>2. PICK by \in {None, Patch} : trips' = [trips EXCEPT ![t].by = by]
      BY <2>5 DEF TripUpdated
    <3> QED
      BY <1>2, <2>5, <3>1, <3>2, Relinked DEF TripUpdated
  <2>4. CASE UNCHANGED tripVars
    BY <2>4 DEF tripVars, TypeOK, TripTypes, Present
  <2> QED
    BY <2>1, <2>2, <2>3, <2>4, <2>5 DEF Around, TimePasses, Expire
<1>5. CallTypes'
  BY <1>1, <1>2 DEF callVars, TypeOK, CallTypes
<1> QED
  BY <1>3, <1>4, <1>5 DEF TypeOK, GuideTypes, TripTypes, CallTypes

LEMMA TypeStep ==
  ASSUME IInv, [Next]_vars
  PROVE  TypeOK'
<1>1. CASE UNCHANGED vars
  BY <1>1 DEF IInv, vars, guideVars, tripVars, callVars, TypeOK, Present
<1> QED
  BY <1>1, ArriveType, ProceedType, AroundType DEF IInv, Next

-----------------------------------------------------------------------------
(* What a step writes, and what it reads *)

\* c stores its form change with the plan that it read.
Stores(c) ==
  /\ step[c] \in Reading /\ what[c] \in {"edit", "tier"} /\ mine[c] \in Guides
  /\ step' = [step EXCEPT ![c] = "answered"]
  /\ UNCHANGED <<what, who, mine, resolved, named>>
  /\ guide'.plan = mine[c].plan
  /\ guide'.form.of = mine[c].form.of
  /\ guide'.form.changes = mine[c].form.changes \union {c}

\* c stores the plan that it read.
Requotes(c) ==
  /\ what[c] = "refresh"
  /\ step' = [step EXCEPT ![c] = "answered"]
  /\ UNCHANGED <<what, who, mine, resolved, named>>
  /\ guide'.plan = mine[c].plan /\ guide'.form = guide.form

Generates(c) ==
  /\ step[c] = "idle" /\ step'[c] # "idle"
  /\ guide'.plan = c /\ guide'.form.of = c /\ guide'.form.changes = {}

LEMMA Storing ==
  ASSUME TypeOK, CallInv, NEW c \in Calls,
         StoreForm(c) \/ (StoreTier(c) /\ guide.owner = mine[c].owner)
  PROVE  Stores(c)
<1>1. CASE StoreForm(c)
  <2>1. mine[c] \in Guides
    BY <1>1 DEF StoreForm, CallInv
  <2> QED
    BY <1>1, <2>1, GuideFields DEF StoreForm, To, Stores, Reading, Forms
<1>2. CASE StoreTier(c) /\ guide.owner = mine[c].owner
  <2>1. what[c] = "tier" /\ mine[c] \in Guides /\ guide \in Guides
    BY <1>2, Matches DEF StoreTier, CallInv
  <2>2. guide' = [guide EXCEPT !.plan = mine[c].plan,
                               !.form = [mine[c].form EXCEPT !.changes = @ \union {c}]]
    BY <1>2 DEF StoreTier
  <2>3. guide'.plan = mine[c].plan
        /\ guide'.form = [mine[c].form EXCEPT !.changes = @ \union {c}]
    BY <2>1, <2>2 DEF Guides
  <2> QED
    BY <1>2, <2>1, <2>3, GuideFields DEF StoreTier, To, Stores, Reading, Forms
<1> QED
  BY <1>1, <1>2

LEMMA Writes ==
  ASSUME IInv, [Next]_vars
  PROVE  \/ guide'.plan = guide.plan /\ guide'.form = guide.form
         \/ Expire
         \/ \E c \in Calls : Generates(c) \/ Stores(c) \/ Requotes(c)
<1>0. TypeOK /\ CallInv /\ guide \in Guides \union {NoGuide}
  BY DEF IInv, TypeOK
<1>1. ASSUME NEW c \in Calls, Arrive(c)
      PROVE  guide' = guide \/ Generates(c)
  BY <1>0, <1>1 DEF Arrive, Read, Claim, Open, Generate, Begin, Generates, guideVars, TypeOK
<1>4. ASSUME NEW c \in Calls, StoreQuotes(c), Exists
      PROVE  Requotes(c)
  <2>1. guide' = [guide EXCEPT !.plan = mine[c].plan] /\ guide \in Guides
    BY <1>0, <1>4 DEF StoreQuotes, Exists
  <2> QED
    BY <1>0, <1>4, <2>1 DEF StoreQuotes, To, Requotes, Guides
<1>5. ASSUME NEW c \in Calls, TakeOver(c) \/ MarkGuide(c)
      PROVE  guide'.plan = guide.plan /\ guide'.form = guide.form
  <2>1. CASE guide' = guide
    BY <2>1
  <2>2. CASE \E owner \in Owners : guide' = [guide EXCEPT !.owner = owner]
    BY <1>0, <2>2 DEF Guides, NoGuide
  <2>3. CASE guide' = [guide EXCEPT !.trip = resolved[c]]
    BY <1>0, <2>3 DEF Guides, NoGuide
  <2> QED
    BY <1>0, <1>5, <2>1, <2>2, <2>3 DEF TakeOver, MarkGuide, TypeOK
<1>6. ASSUME NEW c \in Calls, Proceed(c)
      PROVE  \/ guide'.plan = guide.plan /\ guide'.form = guide.form
             \/ Stores(c) \/ Requotes(c)
  BY <1>0, <1>4, <1>5, <1>6, Storing
     DEF Proceed, Check, RereadForm, StoreTier, StoreQuotes, Resolve, SaveTrip, Lost, guideVars
<1>7. CASE Around \/ UNCHANGED vars
  BY <1>7 DEF Around, TimePasses, Expire, TripDeleted, TripUpdated, TripCreated, TeamChanges, guideVars, vars
<1> QED
  BY <1>1, <1>6, <1>7 DEF Next

LEMMA Reads ==
  ASSUME IInv, [Next]_vars, NEW c \in Calls
  PROVE  \/ mine'[c] = mine[c] /\ what'[c] = what[c]
         \/ mine'[c] = NoGuide /\ what'[c] \notin {"edit", "tier", "refresh"}
         \/ mine'[c] = guide /\ guide \in Guides /\ guide' = guide /\ step[c] = "idle"
         \/ /\ what[c] = "tier" /\ what'[c] = "tier" /\ step[c] = "working"
            /\ mine[c] \in Guides /\ guide \in Guides /\ mine'[c].form = guide.form
<1>0. TypeOK /\ CallInv /\ guide \in Guides \union {NoGuide}
  BY DEF IInv, TypeOK
<1>1. CASE \E actor \in Owners : Generate(c, actor)
  BY <1>0, <1>1 DEF Generate, Begin, TypeOK
<1>2. CASE \E u \in Users : Claim(c, u)
  BY <1>0, <1>2 DEF Claim, Begin, TypeOK
<1>3. CASE Read(c) \/ \E u \in Users : Open(c, "edit", u) \/ Open(c, "tier", u)
  BY <1>0, <1>3 DEF Read, Open, Begin, Exists, TypeOK, guideVars
<1>4. CASE RereadForm(c) /\ guide.owner = mine[c].owner
  <2>1. mine[c] \in Guides /\ guide \in Guides /\ what[c] = "tier" /\ step[c] = "working"
    BY <1>0, <1>4, Matches DEF RereadForm, CallInv
  <2>2. mine'[c] = [mine[c] EXCEPT !.form = guide.form] /\ what' = what
    BY <1>0, <1>4 DEF RereadForm, TypeOK
  <2>3. mine'[c].form = guide.form
    BY <2>1, <2>2 DEF Guides
  <2> QED
    BY <2>1, <2>2, <2>3
<1>5. CASE Refuse(c)
  BY <1>0, <1>5 DEF Refuse, TypeOK
<1>6. CASE UNCHANGED <<mine, what>>
  BY <1>6
<1>7. CASE \E d \in Calls \ {c} : Arrive(d) \/ Proceed(d)
  BY <1>0, <1>7, Frame
<1>8. CASE Proceed(c)
  BY <1>4, <1>5, <1>6, <1>8
     DEF Proceed, TakeOver, Check, StoreForm, RereadForm, StoreTier, StoreQuotes, Resolve,
         SaveTrip, MarkGuide, Lost, To
<1> QED
  BY <1>1, <1>2, <1>3, <1>6, <1>7, <1>8, AroundFrame DEF Next, Arrive, vars, callVars

-----------------------------------------------------------------------------
(* The invariant *)

\* A call resolves a trip that exists, and saves and marks that one.
LEMMA ResolvedStep ==
  ASSUME IInv, [Next]_vars, NEW c \in Calls, step'[c] \in {"linking", "marking"}
  PROVE  resolved'[c] \in TripIds
<1>0. TypeOK /\ CallInv
  BY DEF IInv
<1>1. CASE UNCHANGED callVars
  BY <1>0, <1>1 DEF CallInv, callVars
<1>2. CASE \E d \in Calls \ {c} : Arrive(d) \/ Proceed(d)
  BY <1>0, <1>2, Frame DEF CallInv
<1>3. ~ Arrive(c)
  BY <1>0 DEF Arrive, Read, Generate, Claim, Open, Begin, TypeOK
<1>4. CASE Resolve(c)
  BY <1>0, <1>4 DEF Resolve, Largest, TripsOf, To, TypeOK
<1>5. CASE SaveTrip(c)
  BY <1>0, <1>5 DEF SaveTrip, To, CallInv
<1>6. ASSUME Proceed(c)
      PROVE  Resolve(c) \/ SaveTrip(c)
  <2>1. /\ ~ Refuse(c) /\ step'[c] \notin {"storing"}
        /\ \A next \in {"answered", "halfway", "engaging", "working"} : ~ To(c, next)
    BY <1>0 DEF Refuse, To, TypeOK
  <2>2. ~ RereadForm(c)
    BY <1>0, <2>1 DEF RereadForm, TypeOK
  <2> QED
    BY <1>6, <2>1, <2>2
       DEF Proceed, TakeOver, Check, StoreForm, StoreTier, StoreQuotes, MarkGuide, Lost
<1> QED
  BY <1>1, <1>2, <1>3, <1>4, <1>5, <1>6, AroundFrame DEF Next, vars

LEMMA CallStep ==
  ASSUME IInv, [Next]_vars
  PROVE  CallInv'
<1>0. TypeOK /\ TypeOK' /\ CallInv
  BY TypeStep DEF IInv
<1> SUFFICES ASSUME NEW c \in Calls
             PROVE  /\ step'[c] \in Reading => what'[c] \in {"edit", "tier", "refresh"}
                    /\ step'[c] = "storing" => what'[c] = "tier"
                    /\ step'[c] = "claiming" => what'[c] = "claim" /\ who'[c] \in Users
                    /\ step'[c] \in Linking => what'[c] \in {"claim", "generate"}
                    /\ step'[c] \in {"idle", "refused"} => what'[c] = "generate"
                    /\ what'[c] \in {"edit", "tier", "refresh"} => mine'[c] \in Guides
  BY ResolvedStep DEF CallInv
<1>1. what'[c] \in {"edit", "tier", "refresh"} => mine'[c] \in Guides
  <2>1. mine'[c] = NoGuide \/ mine'[c] \in Guides
    BY <1>0 DEF TypeOK
  <2>2. CASE mine'[c].form = guide.form /\ guide \in Guides
    BY <2>1, <2>2, SavedPlanAssumption, Blank, GuideFields
  <2> QED
    BY <1>0, <2>2, Reads DEF CallInv
<1>2. CASE UNCHANGED <<step, what, who>>
  BY <1>0, <1>1, <1>2 DEF CallInv
<1>3. CASE Arrive(c)
  BY <1>0, <1>1, <1>3
     DEF Arrive, Read, Generate, Claim, Open, Begin, Reading, Linking, TypeOK
<1>4. CASE Proceed(c)
  <2> USE DEF CallInv, Reading, Linking, TypeOK
  <2>1. CASE Refuse(c)
    BY <1>0, <1>1, <2>1 DEF Refuse
  <2>2. CASE \E next \in {"answered", "halfway"} : To(c, next)
    BY <1>0, <1>1, <2>2 DEF To
  <2>3. CASE TakeOver(c) /\ To(c, "engaging")
    BY <1>0, <1>1, <2>3 DEF TakeOver, To
  <2>4. CASE Check(c) /\ To(c, "working")
    BY <1>0, <1>1, <2>4 DEF Check, To
  <2>5. CASE RereadForm(c)
    BY <1>0, <1>1, <2>1, <2>5 DEF RereadForm
  <2>6. CASE Resolve(c)
    BY <1>0, <1>1, <2>2, <2>6 DEF Resolve
  <2>7. CASE SaveTrip(c)
    BY <1>0, <1>1, <2>7 DEF SaveTrip, To
  <2> QED
    BY <1>4, <2>1, <2>2, <2>3, <2>4, <2>5, <2>6, <2>7
       DEF Proceed, TakeOver, Check, StoreForm, StoreTier, StoreQuotes, MarkGuide, Lost
<1>5. CASE \E d \in Calls \ {c} : Arrive(d) \/ Proceed(d)
  BY <1>0, <1>1, <1>5, Frame DEF CallInv
<1> QED
  BY <1>2, <1>3, <1>4, <1>5, AroundFrame DEF Next, vars, callVars

\* Only what is there is stamped, and the stamps stay.
LEMMA FormStep ==
  ASSUME IInv, [Next]_vars
  PROVE  FormInv'
<1>0. TypeOK /\ CallInv /\ FormInv
  BY DEF IInv
<1>1. ASSUME NEW form, form.of \in Calls \union {None}, form.changes \subseteq Calls, Stamped(form)
      PROVE  /\ \A d \in form.changes : step'[d] = "answered"
             /\ form.of \in Calls => step'[form.of] # "idle"
  BY <1>0, <1>1, Answered DEF Stamped
<1>2. ASSUME NEW g \in Guides \union {NoGuide}
      PROVE  g.form.of \in Calls \union {None} /\ g.form.changes \subseteq Calls
  BY <1>2, GuideFields, Blank
<1>3. /\ \A d \in guide.form.changes : step'[d] = "answered"
      /\ guide.form.of \in Calls => step'[guide.form.of] # "idle"
  BY <1>0, <1>1, <1>2 DEF FormInv, TypeOK
<1>4. ASSUME NEW c \in Calls
      PROVE  /\ \A d \in mine[c].form.changes : step'[d] = "answered"
             /\ mine[c].form.of \in Calls => step'[mine[c].form.of] # "idle"
  <2>1. mine[c] \in Guides \union {NoGuide}
    BY <1>0 DEF TypeOK
  <2> QED
    BY <1>0, <1>1, <1>2, <2>1 DEF FormInv
<1>5. Stamped(guide.form)'
  <2>1. CASE Expire
    BY <2>1, Blank, SavedPlanAssumption DEF Expire, Stamped
  <2>2. CASE \E c \in Calls : Generates(c)
    BY <2>2 DEF Generates, Stamped
  <2>3. CASE \E c \in Calls : Stores(c)
    <3>1. PICK c \in Calls : Stores(c)
      BY <2>3
    <3>2. step'[c] = "answered"
      BY <1>0, <3>1 DEF Stores, TypeOK
    <3> QED
      BY <1>4, <3>1, <3>2 DEF Stores, Stamped
  <2>4. CASE guide'.form = guide.form
    BY <1>3, <2>4 DEF Stamped
  <2> QED
    BY <2>1, <2>2, <2>3, <2>4, Writes DEF Requotes
<1>6. ASSUME NEW c \in Calls
      PROVE  Stamped(mine[c].form)'
  <2>1. CASE mine'[c].form = mine[c].form
    BY <1>4, <2>1 DEF Stamped
  <2>2. CASE mine'[c].form = guide.form
    BY <1>3, <2>2 DEF Stamped
  <2>3. CASE mine'[c] = NoGuide
    BY <2>3, Blank, SavedPlanAssumption DEF Stamped
  <2> QED
    BY <2>1, <2>2, <2>3, Reads
<1> QED
  BY <1>5, <1>6 DEF FormInv

LEMMA ReadStep ==
  ASSUME IInv, [Next]_vars
  PROVE  ReadInv'
<1>0. TypeOK /\ ReadInv /\ FormMatchesPlan
  BY DEF IInv
<1> SUFFICES ASSUME NEW c \in Calls, what'[c] = "edit", mine'[c].form.of # mine'[c].plan
             PROVE  \E d \in Calls : /\ step'[d] = "answered"
                                     /\ what'[d] \in {"refresh", "tier"}
                                     /\ mine'[d].plan = mine'[c].plan
  BY DEF ReadInv
<1>1. CASE mine'[c] = mine[c] /\ what'[c] = what[c]
  BY <1>0, <1>1, Answered DEF ReadInv
<1>2. CASE mine'[c] = guide
  BY <1>0, <1>2, Answered DEF FormMatchesPlan
<1> QED
  BY <1>1, <1>2, Reads

LEMMA MatchStep ==
  ASSUME IInv, [Next]_vars
  PROVE  FormMatchesPlan'
<1>0. TypeOK /\ ReadInv /\ FormMatchesPlan
  BY DEF IInv
<1> SUFFICES ASSUME guide'.form.of # guide'.plan
             PROVE  \E c \in Calls : /\ step'[c] = "answered"
                                     /\ what'[c] \in {"refresh", "tier"}
                                     /\ mine'[c].plan = guide'.plan
  BY DEF FormMatchesPlan
<1>1. CASE guide'.plan = guide.plan /\ guide'.form = guide.form
  BY <1>0, <1>1, Answered DEF FormMatchesPlan
<1>2. CASE Expire
  BY <1>2, Blank DEF Expire
<1>3. CASE \E c \in Calls : Generates(c)
  BY <1>3 DEF Generates
<1>4. ASSUME NEW c \in Calls, Stores(c)
      PROVE  \E d \in Calls : /\ step'[d] = "answered"
                              /\ what'[d] \in {"refresh", "tier"}
                              /\ mine'[d].plan = guide'.plan
  <2>1. CASE what[c] = "edit"
    <3>1. mine[c].form.of # mine[c].plan
      BY <1>4 DEF Stores
    <3> QED
      BY <1>0, <1>4, <2>1, <3>1, Answered DEF ReadInv, Stores
  <2>2. CASE what[c] = "tier"
    BY <1>0, <1>4, <2>2 DEF Stores, TypeOK
  <2> QED
    BY <1>4, <2>1, <2>2 DEF Stores
<1>5. CASE \E c \in Calls : Requotes(c)
  BY <1>0, <1>5 DEF Requotes, TypeOK
<1> QED
  BY <1>1, <1>2, <1>3, <1>4, <1>5, Writes

\* A form change is answered when it is stored.
LEMMA AnsweredWhenStored ==
  ASSUME IInv, [Next]_vars, NEW c \in Calls, step[c] # "answered", step'[c] = "answered",
         what'[c] \in {"edit", "tier"}
  PROVE  Stores(c)
<1>0. TypeOK /\ CallInv
  BY DEF IInv
<1>1. ~ Arrive(c)
  BY <1>0 DEF Arrive, Read, Generate, Claim, Open, Begin, TypeOK
<1>2. ASSUME Proceed(c)
      PROVE  Stores(c)
  <2>1. ~ Refuse(c) /\ \A next \in InFlight \union {"halfway"} : ~ To(c, next)
    BY <1>0 DEF Refuse, To, InFlight, TypeOK
  <2>2. ~ RereadForm(c) /\ ~ Lost(c) /\ ~ Resolve(c)
    BY <1>0, <2>1 DEF RereadForm, Lost, Resolve, To, CallInv, Linking, InFlight, TypeOK
  <2>3. ~ StoreQuotes(c) /\ ~ MarkGuide(c)
    BY <1>0 DEF StoreQuotes, MarkGuide, To, CallInv, Linking
  <2> QED
    BY <1>0, <1>2, <2>1, <2>2, <2>3, Storing
       DEF Proceed, TakeOver, Check, SaveTrip, StoreTier, InFlight
<1>3. ASSUME NEW d \in Calls \ {c}, Arrive(d) \/ Proceed(d)
      PROVE  FALSE
  BY <1>0, <1>3, Frame
<1>4. ~ UNCHANGED step
  OBVIOUS
<1> QED
  BY <1>1, <1>2, <1>3, <1>4, AroundFrame DEF Next, vars, callVars

LEMMA SurviveStep ==
  ASSUME IInv, [Next]_vars
  PROVE  ChangesSurvive'
<1>0. TypeOK /\ CallInv /\ FormInv /\ ChangesSurvive
  BY DEF IInv
<1> SUFFICES ASSUME NEW c \in Calls, step'[c] = "answered", what'[c] \in {"edit", "tier"},
                    mine'[c].form.of = guide'.form.of, c \notin guide'.form.changes
             PROVE  \E d \in guide'.form.changes : /\ d \notin mine'[c].form.changes
                                                   /\ c \notin mine'[d].form.changes
  BY DEF ChangesSurvive
<1>1. step[c] = "answered"
  BY AnsweredWhenStored DEF Stores
<1>2. what[c] \in {"edit", "tier"} /\ mine'[c] = mine[c] /\ mine[c] \in Guides
  BY <1>0, <1>1, Answered DEF CallInv
<1>3. CASE guide'.form = guide.form
  <2>1. PICK d \in guide.form.changes : /\ d \notin mine[c].form.changes
                                        /\ c \notin mine[d].form.changes
    BY <1>0, <1>1, <1>2, <1>3 DEF ChangesSurvive
  <2>2. d \in Calls /\ step[d] = "answered"
    BY <1>0, GuideFields, Blank DEF FormInv, Stamped, TypeOK
  <2>3. mine'[d] = mine[d]
    BY <1>0, <2>2, Answered
  <2> QED
    BY <1>2, <1>3, <2>1, <2>3
<1>4. ~ Expire
  BY <1>2, SavedPlanAssumption, GuideFields, Blank DEF Expire
<1>5. ASSUME NEW e \in Calls, Generates(e)
      PROVE  FALSE
  BY <1>0, <1>2, <1>5 DEF Generates, FormInv, Stamped
<1>6. ASSUME NEW e \in Calls, Stores(e)
      PROVE  \E d \in guide'.form.changes : /\ d \notin mine'[c].form.changes
                                            /\ c \notin mine'[d].form.changes
  <2>1. e \in guide'.form.changes /\ c \notin mine[e].form.changes /\ mine' = mine
    BY <1>6 DEF Stores
  <2>2. e \notin mine[c].form.changes
    BY <1>0, <1>6 DEF Stores, FormInv, Stamped, Reading
  <2> QED
    BY <2>1, <2>2
<1> QED
  BY <1>3, <1>4, <1>5, <1>6, Writes DEF Requotes

\* A trip comes to name the guide by the call that saves it.
LEMMA TripWrites ==
  ASSUME IInv, [Next]_vars, NEW t \in TripIds, trips'[t].by \in Calls
  PROVE  \/ trips'[t].by = trips[t].by
         \/ \E c \in Calls : /\ SaveTrip(c) /\ To(c, "marking")
                             /\ resolved[c] = t /\ trips'[t].by = c
<1>0. TypeOK /\ CallInv /\ trips[t] \in Plans \union {NoTrip} /\ trips \in [TripIds -> Plans \union {NoTrip}]
  BY DEF IInv, TypeOK
<1>1. CASE UNCHANGED trips
  BY <1>1
<1>2. ASSUME NEW c \in Calls, SaveTrip(c)
      PROVE  UNCHANGED trips \/ /\ To(c, "marking")
                                /\ trips' = [trips EXCEPT ![resolved[c]].by = c]
  BY <1>2 DEF SaveTrip
<1>3. ASSUME NEW c \in Calls, NEW r \in TripIds, r = resolved[c],
             trips' = [trips EXCEPT ![r].by = c]
      PROVE  \/ trips'[t].by = trips[t].by
             \/ resolved[c] = t /\ trips'[t].by = c
  BY <1>0, <1>3 DEF Plans, NoTrip
<1>4. ASSUME NEW c \in Calls, SaveTrip(c)
      PROVE  resolved[c] \in TripIds
  BY <1>0, <1>4 DEF SaveTrip, CallInv
<1>5. CASE \E c \in Calls : SaveTrip(c)
  BY <1>2, <1>3, <1>4, <1>5
<1>6. ASSUME NEW u \in Users, TripCreated(u)
      PROVE  trips'[t].by = trips[t].by
  <2>1. made' \in TripIds
    BY <1>6, <1>0, SavedPlanAssumption DEF TripCreated, TypeOK, TripIds
  <2> QED
    BY <1>0, <1>6, <2>1, SavedPlanAssumption DEF TripCreated
<1>7. ASSUME NEW s \in TripIds, TripDeleted(s) \/ TripUpdated(s)
      PROVE  trips'[t].by = trips[t].by
  <2>1. CASE TripDeleted(s)
    BY <1>0, <2>1, SavedPlanAssumption DEF TripDeleted, NoTrip
  <2>2. CASE TripUpdated(s)
    <3>1. PICK by \in {None, Patch} : trips' = [trips EXCEPT ![s].by = by]
      BY <2>2 DEF TripUpdated
    <3> QED
      BY <1>0, <3>1, SavedPlanAssumption DEF Plans, NoTrip
  <2> QED
    BY <1>7, <2>1, <2>2
<1>8. ASSUME NEW s \in TripIds, NEW team \in SUBSET Users, TeamChanges(s, team)
      PROVE  trips'[t].by = trips[t].by
  BY <1>0, <1>8 DEF TeamChanges, Plans, NoTrip
<1>9. ASSUME NEW c \in Calls, Arrive(c) \/ Proceed(c)
      PROVE  UNCHANGED trips \/ SaveTrip(c)
  BY <1>9
     DEF Arrive, Read, Generate, Claim, Open, Proceed, TakeOver, Check, StoreForm,
         RereadForm, StoreTier, StoreQuotes, Resolve, MarkGuide, Lost, tripVars
<1>10. CASE Around
  BY <1>1, <1>6, <1>7, <1>8, <1>10 DEF Around, TimePasses, Expire, tripVars
<1>11. CASE UNCHANGED vars
  BY <1>1, <1>11 DEF vars, tripVars
<1> QED
  BY <1>1, <1>5, <1>9, <1>10, <1>11 DEF Next

\* The guide that is there stays until it expires, and its link until it is marked.
LEMMA GuideKept ==
  ASSUME IInv, [Next]_vars, ~ Expire
  PROVE  /\ Exists => Exists'
         /\ expired' = expired
         /\ (\A c \in Calls : ~ MarkGuide(c)) => guide'.trip = guide.trip
         /\ \A c \in Calls : MarkGuide(c) /\ Exists => guide'.trip = resolved[c]
<1>0. TypeOK /\ CallInv /\ guide \in Guides \union {NoGuide}
  BY DEF IInv, TypeOK
<1>1. Exists => Exists'
  <2> SUFFICES ASSUME Exists
               PROVE  guide'.plan # None
    BY Blank DEF Exists
  <2>1. guide.plan # None
    BY <1>0, GuideFields, SavedPlanAssumption DEF Exists
  <2>2. ASSUME NEW c \in Calls, Generates(c) \/ Stores(c) \/ Requotes(c)
        PROVE  guide'.plan # None
    BY <1>0, <2>2, GuideFields, SavedPlanAssumption DEF Generates, Stores, Requotes, CallInv
  <2> QED
    BY <2>1, <2>2, Writes
<1>2. expired' = expired
  BY DEF Next, Around, TimePasses, TripDeleted, TripUpdated, TripCreated, TeamChanges, Arrive, Read, Generate,
         Claim, Open, Proceed, TakeOver, Check, StoreForm, RereadForm, StoreTier, StoreQuotes,
         Resolve, SaveTrip, MarkGuide, Lost, guideVars, vars
<1>3. ASSUME NEW c \in Calls, MarkGuide(c), Exists
      PROVE  guide'.trip = resolved[c]
  BY <1>0, <1>3 DEF MarkGuide, Exists, Guides
<1>4. ASSUME NEW c \in Calls, TakeOver(c) \/ StoreQuotes(c) \/ StoreTier(c)
      PROVE  guide'.trip = guide.trip
  <2>1. CASE guide' = guide
    BY <2>1
  <2>2. CASE guide \in Guides
    BY <1>4, <2>2 DEF TakeOver, StoreQuotes, StoreTier, Guides
  <2>3. CASE guide = NoGuide /\ guide' # guide
    <3>1. guide.owner = None
      BY <2>3, Blank
    <3>2. StoreTier(c) /\ mine[c].owner = None /\ what[c] = "tier"
      BY <1>0, <1>4, <2>3, <3>1, SavedPlanAssumption
         DEF TakeOver, StoreQuotes, StoreTier, Exists, CallInv
    <3> QED
      BY <1>0, <3>2, GuideFields, SavedPlanAssumption DEF CallInv, Owners
  <2> QED
    BY <1>0, <2>1, <2>2, <2>3
<1>5. ASSUME NEW c \in Calls, StoreForm(c) \/ \E actor \in Owners : Generate(c, actor)
      PROVE  guide'.trip = guide.trip
  BY <1>5 DEF StoreForm, Generate
<1> QED
  BY <1>1, <1>2, <1>3, <1>4, <1>5
     DEF Next, Around, TimePasses, TripDeleted, TripUpdated, TripCreated, TeamChanges, Arrive, Read, Claim,
         Open, Proceed, Check, RereadForm, Resolve, SaveTrip, Lost, guideVars, vars

LEMMA UnlinkedStep ==
  ASSUME IInv, [Next]_vars
  PROVE  Unlinked'
<1>0. TypeOK /\ TypeOK' /\ Unlinked /\ expired \in Nat
  BY TypeStep, SavedPlanAssumption DEF IInv, TypeOK, TripInv
<1> SUFFICES ASSUME ~ Exists', expired' = 0
             PROVE  /\ \A c \in Calls : step'[c] \notin InFlight
                    /\ \A t \in TripIds : trips'[t].by \notin Calls
  BY DEF Unlinked
<1>1. ~ Expire
  BY <1>0 DEF Expire
<1>2. /\ ~ Exists
      /\ \A c \in Calls : step[c] \notin InFlight
      /\ \A t \in TripIds : trips[t].by \notin Calls
  BY <1>0, <1>1, GuideKept DEF Unlinked
<1>3. ASSUME NEW c \in Calls
      PROVE  ~ Proceed(c)
  BY <1>2 DEF Proceed, TakeOver, Check, StoreForm, RereadForm, StoreTier, StoreQuotes,
              Resolve, SaveTrip, MarkGuide, Lost, InFlight
<1>4. ASSUME NEW c \in Calls
      PROVE  ~ Arrive(c)
  <2>1. ~ \E actor \in Owners : Generate(c, actor)
    BY SavedPlanAssumption, Blank DEF Generate, Exists
  <2> QED
    BY <1>2, <2>1 DEF Arrive, Read, Claim, Open
<1>5. \A t \in TripIds : trips'[t].by \notin Calls
  <2>1. ~ \E c \in Calls : SaveTrip(c)
    BY <1>3 DEF Proceed
  <2> QED
    BY <1>2, <2>1, TripWrites
<1>6. CASE Around \/ UNCHANGED vars
  BY <1>2, <1>5, <1>6, AroundFrame DEF vars, callVars
<1> QED
  BY <1>3, <1>4, <1>6 DEF Next

\* A call that has saved the trip stays linked to it, and marks the guide to be answered.
LEMMA LinkedCall ==
  ASSUME IInv, [Next]_vars, NEW c \in Calls, step[c] \in {"marking", "halfway", "answered"}
  PROVE  /\ step'[c] \in {"marking", "halfway", "answered"}
         /\ resolved'[c] = resolved[c]
         /\ step[c] # "answered" /\ step'[c] = "answered" => MarkGuide(c)
<1>0. TypeOK
  BY DEF IInv
<1>1. CASE UNCHANGED callVars
  BY <1>1 DEF callVars
<1>2. CASE \E d \in Calls \ {c} : Arrive(d) \/ Proceed(d)
  BY <1>0, <1>2, Frame
<1>3. ~ Arrive(c)
  BY DEF Arrive, Read, Generate, Claim, Open, Begin
<1>4. CASE Proceed(c)
  BY <1>0, <1>4
     DEF Proceed, TakeOver, Check, StoreForm, RereadForm, StoreTier, StoreQuotes, Resolve,
         SaveTrip, MarkGuide, Lost, InFlight, To, TypeOK
<1> QED
  BY <1>1, <1>2, <1>3, <1>4, AroundFrame DEF Next, vars

LEMMA LinkedStep ==
  ASSUME IInv, [Next]_vars, NEW t \in TripIds, trips'[t].by \in Calls
  PROVE  \E c \in Calls : /\ trips'[t].by = c
                          /\ resolved'[c] = t
                          /\ step'[c] \in {"marking", "halfway", "answered"}
                          /\ step'[c] = "answered" /\ Exists' /\ expired' = 0 => guide'.trip # 0
<1>0. TypeOK /\ TypeOK' /\ CallInv /\ TripInv /\ expired \in Nat
  BY TypeStep, SavedPlanAssumption DEF IInv, TypeOK
<1>1. CASE \E c \in Calls : /\ SaveTrip(c) /\ To(c, "marking")
                            /\ resolved[c] = t /\ trips'[t].by = c
  BY <1>0, <1>1 DEF To, TypeOK
<1>2. CASE trips'[t].by = trips[t].by
  <2>1. PICK c \in Calls : c = trips[t].by
    BY <1>2
  <2>2. LinkedBy(c, t)
    BY <1>0, <2>1 DEF TripInv
  <2>3. /\ resolved'[c] = t
        /\ step'[c] \in {"marking", "halfway", "answered"}
        /\ step[c] # "answered" /\ step'[c] = "answered" => MarkGuide(c)
    BY <2>2, LinkedCall DEF LinkedBy
  <2>4. ASSUME step'[c] = "answered", Exists', expired' = 0
        PROVE  guide'.trip # 0
    <3>1. ~ Expire
      BY <1>0, <2>4 DEF Expire
    <3>2. expired = 0 /\ Exists
      <4>1. expired = 0
        BY <2>4, <3>1, GuideKept
      <4> QED
        BY <1>0, <2>1, <4>1 DEF TripInv, Unlinked
    <3>3. CASE \E d \in Calls : MarkGuide(d)
      <4>1. PICK d \in Calls : MarkGuide(d) /\ guide'.trip = resolved[d]
        BY <3>1, <3>2, <3>3, GuideKept
      <4>2. resolved[d] \in TripIds
        BY <1>0, <4>1 DEF MarkGuide, CallInv
      <4> QED
        BY <4>1, <4>2 DEF TripIds
    <3>4. CASE \A d \in Calls : ~ MarkGuide(d)
      <4>1. guide'.trip = guide.trip
        BY <3>1, <3>4, GuideKept
      <4>2. step[c] = "answered"
        BY <2>3, <2>4, <3>4
      <4> QED
        BY <2>2, <3>2, <4>1, <4>2 DEF LinkedBy
    <3> QED
      BY <3>3, <3>4
  <2>5. trips'[t].by = c
    BY <1>2, <2>1
  <2> QED
    BY <2>3, <2>4, <2>5
<1> QED
  BY <1>1, <1>2, TripWrites

\* What the guide names was marked by a call that was answered.
LEMMA MarkedStep ==
  ASSUME IInv, [Next]_vars, guide'.trip # 0
  PROVE  \E d \in Calls : step'[d] = "answered" /\ resolved'[d] = guide'.trip
<1>0. TypeOK /\ TripInv
  BY DEF IInv
<1>1. ~ Expire
  BY Blank DEF Expire
<1>2. CASE \E d \in Calls : MarkGuide(d) /\ Exists
  <2>1. PICK d \in Calls : MarkGuide(d) /\ guide'.trip = resolved[d]
    BY <1>1, <1>2, GuideKept
  <2>2. step'[d] = "answered" /\ resolved'[d] = resolved[d]
    BY <1>0, <2>1 DEF MarkGuide, To, TypeOK
  <2> QED
    BY <2>1, <2>2
<1>3. CASE guide'.trip = guide.trip
  <2>1. PICK d \in Calls : step[d] = "answered" /\ resolved[d] = guide.trip
    BY <1>0, <1>3 DEF TripInv
  <2>2. step'[d] = "answered" /\ resolved'[d] = resolved[d]
    BY <1>0, <2>1, Answered
  <2> QED
    BY <1>3, <2>1, <2>2
<1>4. CASE \E d \in Calls : MarkGuide(d) /\ ~ Exists
  BY <1>3, <1>4 DEF MarkGuide
<1> QED
  BY <1>1, <1>2, <1>3, <1>4, GuideKept

LEMMA TripStep ==
  ASSUME IInv, [Next]_vars
  PROVE  TripInv'
<1>1. ASSUME NEW t \in TripIds, trips'[t].by \in Calls
      PROVE  LinkedBy(trips[t].by, t)'
  BY <1>1, LinkedStep DEF LinkedBy
<1> QED
  BY <1>1, UnlinkedStep, MarkedStep DEF TripInv

LEMMA LinkHolds == IInv => LinkAgrees
<1> SUFFICES ASSUME IInv, NEW t \in TripIds, Exists, trips[t].by \in Calls, guide.trip # t
             PROVE  \/ step[trips[t].by] \in {"marking", "halfway"}
                    \/ guide.trip = 0 /\ expired > 0
                    \/ \E d \in Calls : step[d] = "answered" /\ resolved[d] = guide.trip
  BY DEF LinkAgrees
<1>1. LinkedBy(trips[t].by, t) /\ expired \in Nat
  BY SavedPlanAssumption DEF IInv, TripInv, TypeOK
<1>2. CASE guide.trip = 0
  BY <1>1, <1>2 DEF LinkedBy
<1>3. CASE guide.trip # 0
  BY <1>3 DEF IInv, TripInv
<1> QED
  BY <1>2, <1>3

LEMMA Invariance == Spec => []IInv
<1>1. IInv /\ [Next]_vars => IInv'
  BY TypeStep, CallStep, FormStep, ReadStep, TripStep, MatchStep, SurviveStep DEF IInv
<1> QED
  BY <1>1, InitIInv, PTL DEF Spec

-----------------------------------------------------------------------------
(* Claims are counted *)


\* A claim wins by taking the guide over ...
LEMMA Won ==
  ASSUME IInv, [Next]_vars, NEW c \in ClaimsWon', c \notin ClaimsWon
  PROVE  TakeOver(c) /\ guide.owner = Anonymous
<1>0. TypeOK /\ CallInv
  BY DEF IInv
<1>1. c \in Calls /\ what'[c] = "claim" /\ step'[c] \in Linking \union {"answered", "halfway"}
  BY DEF ClaimsWon, Linking
<1>2. what[c] # "claim" \/ step[c] \notin Linking \union {"answered", "halfway"}
  BY <1>1 DEF ClaimsWon, Linking
<1>3. ~ UNCHANGED callVars
  BY <1>1, <1>2 DEF callVars
<1>4. ASSUME NEW d \in Calls \ {c}, Arrive(d) \/ Proceed(d)
      PROVE  FALSE
  BY <1>0, <1>1, <1>2, <1>4, Frame
<1>5. ~ Arrive(c)
  BY <1>0, <1>1 DEF Arrive, Read, Generate, Claim, Open, Begin, Linking, TypeOK
<1>6. ~ Refuse(c)
  BY <1>0, <1>1 DEF Refuse, TypeOK
<1>7. ASSUME Proceed(c)
      PROVE  TakeOver(c) /\ guide.owner = Anonymous
  <2>1. ~ RereadForm(c)
    BY <1>0, <1>1, <1>6 DEF RereadForm
  <2>2. what[c] = "claim"
    BY <1>1, <1>6, <1>7, <2>1
       DEF Proceed, TakeOver, Check, StoreForm, StoreTier, StoreQuotes, Resolve, SaveTrip,
           MarkGuide, Lost, To
  <2>3. step[c] \notin Reading /\ step[c] \notin Linking
    BY <1>0, <1>1, <1>2, <2>2 DEF CallInv
  <2>4. step[c] = "claiming"
    BY <1>7, <2>3
       DEF Proceed, TakeOver, Check, StoreForm, RereadForm, StoreTier, StoreQuotes, Resolve,
           SaveTrip, MarkGuide, Lost, Reading, Linking, InFlight
  <2>5. TakeOver(c)
    BY <1>6, <1>7, <2>4
       DEF Proceed, Check, StoreForm, RereadForm, StoreTier, StoreQuotes, Resolve, SaveTrip,
           MarkGuide, Lost
  <2> QED
    BY <1>6, <2>5 DEF TakeOver
<1> QED
  BY <1>1, <1>3, <1>4, <1>5, <1>7, AroundFrame DEF Next, vars, callVars

\* ... and a guide becomes public by a write that is counted.
LEMMA Published ==
  ASSUME IInv, [Next]_vars, guide.owner # Anonymous, guide'.owner = Anonymous
  PROVE  \E c \in PublicWrites' : c \notin PublicWrites
<1>0. TypeOK /\ CallInv /\ guide \in Guides \union {NoGuide}
  BY DEF IInv, TypeOK
<1>1. ASSUME NEW c \in Calls, Generate(c, Anonymous)
      PROVE  c \in PublicWrites' /\ c \notin PublicWrites
  BY <1>0, <1>1 DEF Generate, Begin, PublicWrites, TypeOK
<1>2. ASSUME NEW c \in Calls, StoreForm(c)
      PROVE  c \in PublicWrites' /\ c \notin PublicWrites
  <2>1. mine[c].owner = Anonymous
    BY <1>2 DEF StoreForm
  <2> QED
    BY <1>0, <1>2, <2>1 DEF StoreForm, To, PublicWrites, TypeOK
<1>3. ~ Expire
  BY Blank, SavedPlanAssumption DEF Expire
<1>4. ASSUME NEW c \in Calls, StoreTier(c) \/ StoreQuotes(c) \/ MarkGuide(c)
      PROVE  FALSE
  <2>1. guide' # guide
    OBVIOUS
  <2>2. guide \in Guides
    BY <1>0, <1>4, <2>1, Matches DEF StoreTier, StoreQuotes, MarkGuide, Exists, CallInv
  <2> QED
    BY <1>4, <2>1, <2>2 DEF StoreTier, StoreQuotes, MarkGuide, Guides
<1>5. ASSUME NEW c \in Calls, NEW u \in Users, Generate(c, u)
      PROVE  FALSE
  BY <1>5, SavedPlanAssumption DEF Generate
<1>6. ASSUME NEW c \in Calls, TakeOver(c)
      PROVE  FALSE
  BY <1>6 DEF TakeOver
<1>7. ASSUME NEW c \in Calls, Arrive(c) \/ Proceed(c)
      PROVE  Generate(c, Anonymous) \/ StoreForm(c)
  BY <1>4, <1>5, <1>6, <1>7
     DEF Arrive, Read, Claim, Open, Proceed, Check, RereadForm, Resolve, SaveTrip, Lost, guideVars,
         Owners
<1>8. ~ Around /\ ~ UNCHANGED vars
  BY <1>3 DEF Around, TimePasses, TripDeleted, TripUpdated, TripCreated, TeamChanges, guideVars, vars
<1> QED
  BY <1>1, <1>2, <1>7, <1>8 DEF Next

LEMMA CountStep ==
  ASSUME IsFiniteSet(Calls), IInv, ClaimsAccounted, [Next]_vars
  PROVE  ClaimsAccounted'
<1>0. TypeOK /\ CallInv /\ guide \in Guides \union {NoGuide}
  BY DEF IInv, TypeOK
<1>1. /\ IsFiniteSet(ClaimsWon) /\ IsFiniteSet(PublicWrites')
      /\ Cardinality(ClaimsWon) \in Nat /\ Cardinality(ClaimsWon') \in Nat
      /\ Cardinality(PublicWrites) \in Nat /\ Cardinality(PublicWrites') \in Nat
      /\ IsFiniteSet(PublicWrites)
  <2>1. /\ ClaimsWon \subseteq Calls /\ ClaimsWon' \subseteq Calls
        /\ PublicWrites \subseteq Calls /\ PublicWrites' \subseteq Calls
    BY DEF ClaimsWon, PublicWrites
  <2> QED
    BY <2>1, FS_Subset, FS_CardinalityType
<1>2. PublicWrites \subseteq PublicWrites'
  BY <1>0, Answered DEF PublicWrites
<1>3. Cardinality(PublicWrites) <= Cardinality(PublicWrites')
  BY <1>1, <1>2, FS_Subset
<1>4. CASE \E c \in Calls : TakeOver(c) /\ guide.owner = Anonymous
  <2>1. PICK c \in Calls : TakeOver(c) /\ guide.owner = Anonymous
    BY <1>4
  <2>2. /\ guide \in Guides /\ who[c] \in Users
        /\ guide' = [guide EXCEPT !.owner = who[c]]
        /\ step' = [step EXCEPT ![c] = "engaging"]
    BY <1>0, <2>1, Blank, SavedPlanAssumption DEF TakeOver, To, CallInv
  <2>3. guide'.owner # Anonymous
    BY <2>2, SavedPlanAssumption DEF Guides
  <2>4. \A d \in Calls : TakeOver(d) /\ d \in ClaimsWon' => d = c
    BY <1>0, <2>2 DEF TakeOver, ClaimsWon, TypeOK
  <2>5. ClaimsWon' \subseteq ClaimsWon \union {c}
    BY <2>4, Won DEF ClaimsWon
  <2>6. /\ IsFiniteSet(ClaimsWon \union {c})
        /\ Cardinality(ClaimsWon \union {c}) <= Cardinality(ClaimsWon) + 1
    <3>1. c \notin ClaimsWon
      BY <2>1 DEF TakeOver, ClaimsWon
    <3>2. /\ IsFiniteSet(ClaimsWon \union {c})
          /\ Cardinality(ClaimsWon \union {c}) = Cardinality(ClaimsWon) + 1
      BY <1>1, <3>1, FS_AddElement
    <3> QED
      BY <1>1, <3>2
  <2>7. /\ Cardinality(ClaimsWon') <= Cardinality(ClaimsWon \union {c})
        /\ Cardinality(ClaimsWon \union {c}) \in Nat
    BY <2>5, <2>6, FS_Subset, FS_CardinalityType
  <2> QED
    BY <1>1, <1>3, <2>1, <2>3, <2>6, <2>7 DEF ClaimsAccounted
<1>5. CASE \A c \in Calls : ~ (TakeOver(c) /\ guide.owner = Anonymous)
  <2>1. Cardinality(ClaimsWon') <= Cardinality(ClaimsWon)
    <3>1. ClaimsWon' \subseteq ClaimsWon
      BY <1>5, Won DEF ClaimsWon
    <3> QED
      BY <1>1, <3>1, FS_Subset
  <2>2. CASE guide.owner # Anonymous /\ guide'.owner = Anonymous
    <3>1. PICK c \in PublicWrites' : c \notin PublicWrites
      BY <2>2, Published
    <3>2. /\ IsFiniteSet(PublicWrites \union {c})
          /\ Cardinality(PublicWrites \union {c}) = Cardinality(PublicWrites) + 1
      BY <1>1, <3>1, FS_AddElement
    <3>3. Cardinality(PublicWrites) + 1 <= Cardinality(PublicWrites')
      BY <1>1, <1>2, <3>1, <3>2, FS_Subset
    <3> QED
      BY <1>1, <2>1, <2>2, <3>3 DEF ClaimsAccounted
  <2>3. CASE guide.owner = Anonymous \/ guide'.owner # Anonymous
    BY <1>1, <1>3, <2>1, <2>3 DEF ClaimsAccounted
  <2> QED
    BY <2>2, <2>3
<1> QED
  BY <1>4, <1>5

-----------------------------------------------------------------------------
(* The theorems *)

\* The guide, the trips and what every call has read keep their types, and the owner of a
\* trip stays among its members.
THEOREM TypeCorrect == Spec => []TypeOK
<1>1. IInv => TypeOK
  BY DEF IInv
<1> QED
  BY <1>1, Invariance, PTL

\* upsert(), updateBudgetTier() and updatePlan(): form and plan are of one generation,
\* unless a quote refresh or a tier change stored an older plan after it.
THEOREM FormsMatch == Spec => []FormMatchesPlan
<1>1. IInv => FormMatchesPlan
  BY DEF IInv
<1> QED
  BY <1>1, Invariance, PTL

\* updateForm() and selectBudgetTier(): an answered form change is lost only to one
\* that overlapped it.
THEOREM ChangesKept == Spec => []ChangesSurvive
<1>1. IInv => ChangesSurvive
  BY DEF IInv
<1> QED
  BY <1>1, Invariance, PTL

\* linkGuideForActivity(): trip and guide name each other, but for a link that is being
\* made or was cut short, an expiry and a call that had resolved a deleted trip.
THEOREM LinksAgree == Spec => []LinkAgrees
<1>1. IInv => LinkAgrees
  BY LinkHolds
<1> QED
  BY <1>1, Invariance, PTL

\* claimPublicPlan(): each win of a claim takes up a write that made the guide public.
THEOREM ClaimsCounted == ASSUME IsFiniteSet(Calls) PROVE Spec => []ClaimsAccounted
<1>1. Init => ClaimsAccounted
  <2> SUFFICES ASSUME Init PROVE ClaimsAccounted
    OBVIOUS
  <2>1. ClaimsWon = {} /\ PublicWrites = {} /\ guide.owner # Anonymous
    BY Blank, SavedPlanAssumption DEF Init, ClaimsWon, PublicWrites
  <2> QED
    BY <2>1, FS_EmptySet DEF ClaimsAccounted
<1>2. IInv /\ ClaimsAccounted /\ [Next]_vars => ClaimsAccounted'
  BY CountStep
<1> QED
  BY <1>1, <1>2, Invariance, PTL DEF Spec
=============================================================================
