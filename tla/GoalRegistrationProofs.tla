----------------------- MODULE GoalRegistrationProofs -----------------------
(***************************************************************************)
(* Proofs about GoalRegistration, for any calls of finitely many users.    *)
(***************************************************************************)
EXTENDS GoalRegistration, FiniteSetTheorems, TLAPS

Changing == Syncing \union {"invalidating"}
Looking  == {"fetching", "building", "caching", "keeping"}

\* What a call is about, by the step it has reached.
CallInv ==
  \A c \in Calls :
    /\ step[c] \in Looking \union {"idle"} => what[c] = "home"
    /\ step[c] \in {"caching", "keeping"} => seen[c] \in {"going", "away"}
    /\ step[c] = "fetching" => seen[c] \in {"none", "going", "away"}
    /\ step[c] \in {"finding", "inserting"} => what[c] \in {"register", "create", "subscribe"}
    /\ step[c] = "deleting" => what[c] \in {"unregister", "remove"}
    /\ step[c] \in Changing =>
         what[c] \in {"register", "unregister", "create", "subscribe", "remove"}
    /\ step[c] \in {"opting", "flagging"} => what[c] = "create"
    /\ step[c] \in {"seeking", "saving"} => what[c] \in {"create", "subscribe"}
    /\ step[c] = "cancelling" => what[c] = "remove"

\* Calls in flight together have met, and who was met has begun.
MeetInv ==
  \A c, d \in Calls :
    /\ c # d /\ step[c] \in InFlight /\ step[d] \in InFlight => d \in met[c]
    /\ d \in met[c] => step[c] # "idle" /\ step[d] # "idle"

-----------------------------------------------------------------------------
(* Types *)

LEMMA Counted == Cardinality(Attending) \in Nat
<1>1. IsFiniteSet(Attending)
  BY GoalRegistrationAssumption, FS_Subset DEF Attending
<1> QED
  BY <1>1, FS_CardinalityType

LEMMA ArriveType ==
  ASSUME TypeOK, NEW c \in Calls, Arrive(c)
  PROVE  TypeOK'
<1>1. registration' = registration /\ attendees' = attendees /\ listed' = listed
      /\ UNCHANGED homeVars
  BY DEF Arrive, Register, Create, Subscribe, Unregister, Remove, Patch, Home, docVars, viewVars
<1>2. goal' \in [Users -> GoalStatuses \union {"none"}]
  BY DEF Arrive, Register, Create, Subscribe, Unregister, Remove, Patch, Home, docVars, TypeOK
<1>3. ASSUME NEW operation \in Operations \union {"patch"}, NEW read, NEW next,
             read \in GoalStatuses \union {"none", "going", "away"},
             next \in InFlight \union {"answered"}, Begin(c, operation, read, next)
      PROVE  /\ step' \in [Calls -> InFlight \union {"idle", "answered", "refused", "cutShort"}]
             /\ what' \in [Calls -> Operations]
             /\ who' \in [Calls -> Users]
             /\ counted' \in [Calls -> Nat]
             /\ seen' \in [Calls -> GoalStatuses \union {"none", "going", "away"}]
             /\ met' \in [Calls -> SUBSET Calls]
  BY <1>3 DEF Begin, Others, TypeOK, Operations
<1>4. /\ step' \in [Calls -> InFlight \union {"idle", "answered", "refused", "cutShort"}]
      /\ what' \in [Calls -> Operations]
      /\ who' \in [Calls -> Users]
      /\ counted' \in [Calls -> Nat]
      /\ seen' \in [Calls -> GoalStatuses \union {"none", "going", "away"}]
      /\ met' \in [Calls -> SUBSET Calls]
  <2>1. CASE Home(c)
    BY <1>3, <2>1 DEF Home, Operations, InFlight, TypeOK
  <2> QED
    BY <1>3, <2>1 DEF Arrive, Register, Create, Subscribe, Unregister, Remove, Patch, Operations,
                      InFlight, TypeOK
<1> QED
  BY <1>1, <1>2, <1>4 DEF TypeOK, homeVars

LEMMA AfterType ==
  ASSUME NEW c \in Calls
  PROVE  After(c) \in {"opting", "seeking", "cancelling", "answered"}
  BY DEF After

LEMMA ProceedType ==
  ASSUME TypeOK, CallInv, NEW c \in Calls, Proceed(c)
  PROVE  TypeOK'
<1> USE DEF Proceed, Find, Insert, Delete, Count, Store, List, Show, Invalidate, Look, OptIn,
            Seek, SaveActive, SaveCancelled, Fetched, Build, Cache, Keep, Lost, docVars, viewVars, homeVars
<1>1. registration' \in [Users -> {"none", "registered", "optedIn"}]
  BY DEF TypeOK
<1>2. goal' \in [Users -> GoalStatuses \union {"none"}]
  BY DEF TypeOK, SaveStatus, GoalStatuses
<1>3. attendees' \in Nat /\ listed' \in Nat
  BY DEF TypeOK
<1>4. /\ remote' \in [Users -> {"none", "going", "away"}]
      /\ memory' \in [Users -> {"none", "going", "away"}]
      /\ undeleted' \in SUBSET Calls
  BY DEF TypeOK, CallInv
<1>5. /\ step' \in [Calls -> InFlight \union {"idle", "answered", "refused", "cutShort"}]
      /\ what' = what /\ who' = who /\ met' = met
  BY AfterType DEF TypeOK, To, InFlight, Syncing
<1>6. /\ counted' \in [Calls -> Nat]
      /\ seen' \in [Calls -> GoalStatuses \union {"none", "going", "away"}]
  BY Counted DEF TypeOK, To, Truth
<1> QED
  BY <1>1, <1>2, <1>3, <1>4, <1>5, <1>6 DEF TypeOK

-----------------------------------------------------------------------------
(* What a step does not touch *)

Ended == {"answered", "refused", "cutShort"}

\* A request that arrives meets those in flight, and leaves them where they are.
LEMMA Arrives ==
  ASSUME TypeOK, NEW c \in Calls, Arrive(c)
  PROVE  /\ step[c] = "idle" /\ who' = who /\ counted' = counted
         /\ step'[c] \in {"finding", "deleting", "fetching", "answered"}
         /\ met' = [d \in Calls |-> IF d = c THEN Others(c)
                                    ELSE IF d \in Others(c) THEN met[d] \union {c}
                                    ELSE met[d]]
         /\ \A d \in Calls \ {c} : /\ step'[d] = step[d] /\ what'[d] = what[d]
                                   /\ seen'[d] = seen[d]
         /\ UNCHANGED <<registration, attendees, viewVars>>
  BY DEF Arrive, Register, Create, Subscribe, Unregister, Remove, Patch, Home, Begin, docVars,
         viewVars, TypeOK

LEMMA Proceeds ==
  ASSUME TypeOK, NEW c \in Calls, Proceed(c)
  PROVE  /\ step[c] \in InFlight
         /\ step'[c] \in InFlight \union Ended
         /\ UNCHANGED <<what, who, met>>
         /\ \A d \in Calls \ {c} : /\ step'[d] = step[d] /\ seen'[d] = seen[d]
                                   /\ counted'[d] = counted[d]
  BY AfterType
     DEF Proceed, Find, Insert, Delete, Count, Store, List, Show, Invalidate, Look, OptIn, Seek,
         SaveActive, SaveCancelled, Fetched, Build, Cache, Keep, Lost, To, InFlight, Syncing, Ended, TypeOK

LEMMA Kept ==
  ASSUME TypeOK, [Next]_vars
  PROVE  /\ who' = who
         /\ \A d \in Calls : step[d] # "idle" =>
              step'[d] # "idle" /\ what'[d] = what[d] /\ met[d] \subseteq met'[d]
         /\ \A d \in Calls : step[d] \in Ended => step'[d] = step[d]
<1>1. CASE \E c \in Calls : Arrive(c)
  BY <1>1, Arrives DEF Ended, TypeOK
<1>2. CASE \E c \in Calls : Proceed(c)
  BY <1>2, Proceeds DEF Ended, InFlight, Syncing, TypeOK
<1>3. CASE UNCHANGED callVars
  BY <1>3 DEF callVars
<1> QED
  BY <1>1, <1>2, <1>3 DEF Next, Forget, vars

LEMMA CallStep ==
  ASSUME TypeOK, CallInv, [Next]_vars
  PROVE  CallInv'
<1> USE DEF CallInv, Changing, Looking, Syncing
<1>1. ASSUME NEW c \in Calls, Arrive(c)
      PROVE  CallInv'
  <2>1. ASSUME NEW operation, NEW read, NEW next, Begin(c, operation, read, next)
        PROVE  step'[c] = next /\ what'[c] = operation /\ seen'[c] = read
    BY <2>1 DEF Begin, TypeOK
  <2>2. /\ step'[c] = "fetching" => what'[c] = "home" /\ seen'[c] \in {"none", "going", "away"}
        /\ step'[c] = "finding" => what'[c] \in {"register", "create", "subscribe"}
        /\ step'[c] = "deleting" => what'[c] \in {"unregister", "remove"}
    <3>1. remote[who[c]] \in {"none", "going", "away"}
      BY DEF TypeOK
    <3> QED
      BY <1>1, <2>1, <3>1 DEF Arrive, Register, Create, Subscribe, Unregister, Remove, Patch, Home
  <2> QED
    BY <1>1, <2>2, Arrives
<1>2. ASSUME NEW c \in Calls, Proceed(c)
      PROVE  CallInv'
  <2>1. /\ step[c] \in InFlight
        /\ UNCHANGED <<what, who, met>>
        /\ \A d \in Calls \ {c} : step'[d] = step[d] /\ seen'[d] = seen[d]
    BY <1>2, Proceeds
  <2>2. CASE step'[c] = After(c) /\ step[c] \in Changing \union {"finding", "inserting", "deleting"}
    BY <2>1, <2>2 DEF After
  <2>3. CASE step'[c] \in Ended
    BY <2>1, <2>3 DEF Ended
  <2>4. CASE \/ step[c] = "finding" /\ step'[c] = "inserting"
             \/ step[c] \in {"inserting", "deleting"} /\ step'[c] = "counting"
             \/ step[c] \in Changing /\ step'[c] \in Changing
             \/ step[c] = "opting" /\ step'[c] = "flagging"
             \/ step[c] = "flagging" /\ step'[c] = "seeking"
             \/ step[c] = "seeking" /\ step'[c] = "saving"
             \/ step[c] = "fetching" /\ step'[c] = "building"
             \/ step[c] = "building" /\ step'[c] = "caching" /\ seen'[c] \in {"going", "away"}
             \/ step[c] = "caching" /\ step'[c] = "keeping" /\ seen'[c] = seen[c]
    BY <2>1, <2>4
  <2>5. \A next : To(c, next) => step'[c] = next
    BY DEF To, TypeOK
  <2> QED
    BY <1>2, <2>2, <2>3, <2>4, <2>5
       DEF Proceed, Find, Insert, Delete, Count, Store, List, Show, Invalidate, Look, OptIn,
           Seek, SaveActive, SaveCancelled, Fetched, Build, Cache, Keep, Lost, Ended, To, Truth, TypeOK
<1>3. CASE UNCHANGED callVars
  BY <1>3 DEF callVars
<1> QED
  BY <1>1, <1>2, <1>3 DEF Next, Forget, vars

LEMMA MeetStep ==
  ASSUME TypeOK, CallInv, MeetInv, [Next]_vars
  PROVE  MeetInv'
<1>1. ASSUME NEW c \in Calls, Arrive(c)
      PROVE  MeetInv'
  BY <1>1, Arrives DEF MeetInv, Others, InFlight, Syncing, TypeOK
<1>2. ASSUME NEW c \in Calls, Proceed(c)
      PROVE  MeetInv'
  BY <1>2, Proceeds DEF MeetInv, InFlight, Syncing, Ended
<1>3. CASE UNCHANGED callVars
  BY <1>3 DEF callVars, MeetInv
<1> QED
  BY <1>1, <1>2, <1>3 DEF Next, Forget, vars

LEMMA TypeStep ==
  ASSUME TypeOK, CallInv, [Next]_vars
  PROVE  TypeOK'
<1>1. CASE \E u \in Users : Forget(u)
  BY <1>1 DEF Forget, docVars, callVars, TypeOK
<1>2. CASE UNCHANGED vars
  BY <1>2 DEF vars, docVars, viewVars, homeVars, callVars, TypeOK
<1> QED
  BY <1>1, <1>2, ArriveType, ProceedType DEF Next

Basis == TypeOK /\ CallInv /\ MeetInv

LEMMA InitBasis == Init => Basis
<1> SUFFICES ASSUME Init PROVE Basis
  OBVIOUS
<1>1. TypeOK
  BY DEF Init, TypeOK, Operations
<1>2. CallInv /\ MeetInv
  BY DEF Init, CallInv, MeetInv, InFlight, Syncing, Changing, Looking
<1> QED
  BY <1>1, <1>2 DEF Basis

LEMMA BasisStep == Basis /\ [Next]_vars => Basis'
  BY TypeStep, CallStep, MeetStep DEF Basis

\* Who may change a registration has begun, and what he does is kept.
LEMMA RegisteringKept ==
  ASSUME Basis, [Next]_vars, NEW c \in Registering
  PROVE  /\ c \in Calls /\ c \in Registering' /\ step[c] # "idle"
         /\ who' = who /\ met[c] \subseteq met'[c]
         /\ step[c] = "cutShort" => step'[c] = "cutShort"
         /\ \A d \in met[c] : d \in Calls /\ what'[d] = what[d]
  BY Kept DEF Basis, Registering, CallInv, MeetInv, TypeOK, Ended

-----------------------------------------------------------------------------
(* The number of attendees *)

Disturbed == \E c \in Registering : c \in CutShort \/ met[c] \cap Registering # {}

CountInv ==
  \/ Disturbed
  \/ /\ (\A c \in Calls : step[c] \notin Syncing)
          => attendees = Cardinality(Attending) /\ listed = attendees
     /\ \A c \in Calls :
          /\ step[c] = "storing" => counted[c] = Cardinality(Attending)
          /\ step[c] = "listing" => attendees = Cardinality(Attending)
          /\ step[c] = "showing" =>
               attendees = Cardinality(Attending) /\ counted[c] = attendees

LEMMA DisturbedStays ==
  ASSUME Basis, [Next]_vars, Disturbed
  PROVE  Disturbed'
<1>1. PICK c \in Registering : c \in CutShort \/ met[c] \cap Registering # {}
  BY DEF Disturbed
<1>2. CASE c \in CutShort
  BY <1>2, RegisteringKept DEF Disturbed, CutShort
<1>3. CASE met[c] \cap Registering # {}
  <2>1. PICK d \in met[c] : d \in Registering
    BY <1>3
  <2>2. d \in met'[c] /\ d \in Registering' /\ c \in Registering'
    BY <2>1, RegisteringKept
  <2> QED
    BY <2>2 DEF Disturbed
<1> QED
  BY <1>1, <1>2, <1>3

LEMMA CountStep ==
  ASSUME Basis, CountInv, [Next]_vars
  PROVE  CountInv'
<1> SUFFICES ASSUME ~ Disturbed'
             PROVE  CountInv'
  BY DEF CountInv
<1>1. ~ Disturbed /\ TypeOK /\ CallInv /\ MeetInv
  BY DisturbedStays DEF Basis
<1>2. ASSUME Attending' = Attending, attendees' = attendees, listed' = listed,
             counted' = counted,
             \A d \in Calls : step'[d] = step[d] \/ {step[d], step'[d]} \cap Syncing = {}
      PROVE  CountInv'
  BY <1>1, <1>2 DEF CountInv, Syncing
<1>3. ASSUME NEW c \in Calls, Arrive(c)
      PROVE  CountInv'
  <2>1. Attending' = Attending
    BY <1>1, <1>3, Arrives DEF Attending, Registered
  <2> QED
    BY <1>1, <1>2, <1>3, <2>1, Arrives DEF Syncing, viewVars
<1>4. ASSUME NEW c \in Calls, Proceed(c), c \notin Registering
      PROVE  CountInv'
  <2>1. step[c] \in Looking
    BY <1>1, <1>4, Proceeds DEF Registering, CallInv, InFlight, Changing, Looking, Syncing
  <2>2. Fetched(c) \/ Build(c) \/ Cache(c) \/ Keep(c) \/ Lost(c)
    BY <1>4, <2>1
       DEF Proceed, Find, Insert, Delete, Count, Store, List, Show, Invalidate, Look, OptIn, Seek,
           SaveActive, SaveCancelled, Looking
  <2>3. /\ UNCHANGED <<registration, attendees, listed, counted>>
        /\ step'[c] \in Looking \union {"answered", "cutShort"}
    BY <1>1, <2>2 DEF Fetched, Build, Cache, Keep, Lost, To, docVars, viewVars, Looking, TypeOK
  <2>4. Attending' = Attending
    BY <2>3 DEF Attending, Registered
  <2> QED
    BY <1>1, <1>2, <1>4, <2>1, <2>3, <2>4, Proceeds DEF Syncing, Looking
<1>5. ASSUME NEW c \in Calls, Proceed(c), c \in Registering
      PROVE  CountInv'
  <2>1. ~ Lost(c)
    BY <1>1, <1>5, RegisteringKept DEF Lost, To, Disturbed, CutShort, TypeOK
  <2>2. ASSUME NEW d \in Calls \ {c}
        PROVE  step[d] \notin Syncing /\ step'[d] = step[d]
    <3>1. ASSUME step[d] \in Syncing PROVE FALSE
      <4>1. d \in Registering
        BY <1>1, <3>1 DEF CallInv, Changing, Registering
      <4>2. d \in met[c]
        BY <1>1, <1>5, <3>1, Proceeds DEF MeetInv, InFlight
      <4> QED
        BY <1>1, <1>5, <4>1, <4>2 DEF Disturbed
    <3> QED
      BY <1>1, <1>5, <3>1, Proceeds
  <2>3. CASE Count(c)
    <3>1. /\ step'[c] = "storing" /\ counted'[c] = Cardinality(Attending)
          /\ registration' = registration
      BY <1>1, <2>3 DEF Count, docVars, TypeOK
    <3>2. Attending' = Attending
      BY <3>1 DEF Attending, Registered
    <3> QED
      BY <2>2, <3>1, <3>2 DEF CountInv, Syncing
  <2>4. CASE Store(c)
    <3>1. /\ step[c] = "storing" /\ step'[c] = "listing" /\ attendees' = counted[c]
          /\ registration' = registration
      BY <1>1, <2>4 DEF Store, To, TypeOK
    <3>2. Attending' = Attending
      BY <3>1 DEF Attending, Registered
    <3> QED
      BY <1>1, <2>2, <3>1, <3>2 DEF CountInv, Syncing
  <2>5. CASE List(c)
    <3>1. /\ step[c] = "listing" /\ step'[c] = "showing" /\ counted'[c] = attendees
          /\ attendees' = attendees /\ registration' = registration
      BY <1>1, <2>5 DEF List, docVars, TypeOK
    <3>2. Attending' = Attending
      BY <3>1 DEF Attending, Registered
    <3> QED
      BY <1>1, <2>2, <3>1, <3>2 DEF CountInv, Syncing
  <2>6. CASE Show(c)
    <3>1. /\ step[c] = "showing" /\ step'[c] = "invalidating" /\ listed' = counted[c]
          /\ attendees' = attendees /\ registration' = registration
      BY <1>1, <2>6 DEF Show, To, docVars, TypeOK
    <3>2. Attending' = Attending
      BY <3>1 DEF Attending, Registered
    <3> QED
      BY <1>1, <2>2, <3>1, <3>2 DEF CountInv, Syncing
  <2>7. CASE step'[c] = "counting"
    BY <2>2, <2>7 DEF CountInv, Syncing
  <2>8. CASE Find(c) \/ Look(c) \/ Seek(c) \/ Invalidate(c) \/ Fetched(c) \/ Build(c)
             \/ Cache(c) \/ Keep(c) \/ SaveActive(c) \/ SaveCancelled(c)
    <3>1. /\ UNCHANGED <<registration, attendees, listed, counted>>
          /\ {step[c], step'[c]} \cap Syncing = {}
      BY <1>1, <2>8, AfterType
         DEF Find, Look, Seek, Invalidate, Fetched, Build, Cache, Keep, SaveActive, SaveCancelled,
             To, docVars, viewVars, Syncing, TypeOK
    <3>2. Attending' = Attending
      BY <3>1 DEF Attending, Registered
    <3> QED
      BY <1>2, <2>2, <3>1, <3>2
  <2>9. CASE (Insert(c) \/ Delete(c) \/ OptIn(c)) /\ step'[c] # "counting"
    <3>1. /\ UNCHANGED <<attendees, listed, counted>>
          /\ {step[c], step'[c]} \cap Syncing = {}
      BY <1>1, <2>9, AfterType
         DEF Insert, Delete, OptIn, To, viewVars, Syncing, TypeOK
    <3>2. Attending' = Attending
      BY <1>1, <2>9 DEF Insert, Delete, OptIn, To, Attending, Registered, TypeOK
    <3> QED
      BY <1>2, <2>2, <3>1, <3>2
  <2> QED
    BY <1>5, <2>1, <2>3, <2>4, <2>5, <2>6, <2>7, <2>8, <2>9 DEF Proceed
<1>6. CASE \E u \in Users : Forget(u)
  <2>1. UNCHANGED <<registration, attendees, listed, counted, step>>
    BY <1>6 DEF Forget, docVars, callVars
  <2>2. Attending' = Attending
    BY <2>1 DEF Attending, Registered
  <2> QED
    BY <1>2, <2>1, <2>2
<1>7. CASE UNCHANGED vars
  <2>1. UNCHANGED <<registration, attendees, listed, counted, step>>
    BY <1>7 DEF vars, docVars, viewVars, callVars
  <2>2. Attending' = Attending
    BY <2>1 DEF Attending, Registered
  <2> QED
    BY <1>2, <2>1, <2>2
<1> QED
  BY <1>3, <1>4, <1>5, <1>6, <1>7 DEF Next

-----------------------------------------------------------------------------
(* The cached summary *)

\* The invalidation of a change of u's registration was hindered ...
Excused(u) == \E c \in Registering : who[c] = u /\ Hindered(c)

\* ... or is on its way.
Underway(u) == \E c \in Registering : who[c] = u /\ step[c] \in Syncing \union {"invalidating"}

\* A summary that is read or computed is out of date only if an invalidation is hindered.
SeenInv ==
  \A d \in Calls :
    step[d] \in {"fetching", "caching", "keeping"} /\ seen[d] \notin {"none", Truth(who[d])}
      => Excused(who[d])

\* A registration changes in a call that counts next.
LEMMA Changes ==
  ASSUME Basis, [Next]_vars, NEW u \in Users, Truth(u)' # Truth(u)
  PROVE  \E c \in Registering : /\ who[c] = u /\ step[c] \in {"inserting", "deleting"}
                                /\ step'[c] = "counting" /\ Proceed(c)
<1>0. TypeOK /\ CallInv
  BY DEF Basis
<1>1. Registered(u)' # Registered(u)
  BY DEF Truth
<1>2. ASSUME NEW c \in Calls, Arrive(c)
      PROVE  FALSE
  BY <1>0, <1>1, <1>2, Arrives DEF Registered
<1>3. ASSUME NEW c \in Calls, Proceed(c)
      PROVE  /\ c \in Registering /\ who[c] = u /\ step[c] \in {"inserting", "deleting"}
             /\ step'[c] = "counting"
  <2>1. CASE OptIn(c)
    BY <1>0, <1>1, <2>1 DEF OptIn, Registered, TypeOK
  <2>2. CASE Insert(c) \/ Delete(c)
    BY <1>0, <1>1, <2>2 DEF Insert, Delete, To, Registered, Registering, CallInv, TypeOK
  <2>3. CASE registration' = registration
    BY <1>1, <2>3 DEF Registered
  <2> QED
    BY <1>3, <2>1, <2>2, <2>3
       DEF Proceed, Find, Count, Store, List, Show, Invalidate, Look, Seek, SaveActive,
           SaveCancelled, Fetched, Build, Cache, Keep, Lost, docVars
<1>4. ASSUME UNCHANGED registration
      PROVE  FALSE
  BY <1>1, <1>4 DEF Registered
<1> QED
  BY <1>2, <1>3, <1>4 DEF Next, Forget, vars, docVars

\* What hindered an invalidation remains so.
LEMMA ExcusedStays ==
  ASSUME Basis, [Next]_vars, NEW u \in Users, Excused(u)
  PROVE  Excused(u)'
<1>1. PICK c \in Registering : who[c] = u /\ Hindered(c)
  BY DEF Excused
<1>2. c \in Registering' /\ who'[c] = u
  BY <1>1, RegisteringKept
<1>3. undeleted \subseteq undeleted'
  BY DEF Next, Arrive, Register, Create, Subscribe, Unregister, Remove, Patch, Home, Proceed, Find,
         Insert, Delete, Count, Store, List, Show, Invalidate, Look, OptIn, Seek, SaveActive,
         SaveCancelled, Fetched, Build, Cache, Keep, Lost, Forget, vars, viewVars, homeVars
<1>4. Hindered(c)'
  <2>1. \A d \in met[c] : d \in met'[c] /\ what'[d] = what[d] /\ who'[d] = who[d]
    BY RegisteringKept
  <2> QED
    BY <1>1, <1>2, <1>3, <2>1, RegisteringKept DEF Hindered
<1> QED
  BY <1>2, <1>4 DEF Excused

\* A summary of u that is in flight together with a change of his registration excuses it.
LEMMA Beside ==
  ASSUME Basis, [Next]_vars, NEW u \in Users, NEW d \in Calls, who[d] = u, what'[d] = "home",
         NEW c \in Registering, who[c] = u, d \in met'[c]
  PROVE  Excused(u)'
  BY RegisteringKept DEF Excused, Hindered

LEMMA BesideNow ==
  ASSUME Basis, [Next]_vars, NEW d \in Calls, what[d] = "home", step[d] \in InFlight,
         NEW u \in Users, who[d] = u,
         NEW c \in Registering, who[c] = u, step[c] \in InFlight
  PROVE  Excused(u)'
<1>1. c \in Calls /\ c # d /\ step[d] # "idle"
  BY DEF Basis, TypeOK, Registering, InFlight, Syncing
<1>2. d \in met'[c] /\ what'[d] = "home"
  BY <1>1, RegisteringKept, Kept DEF Basis, MeetInv
<1> QED
  BY <1>1, <1>2, Beside

LEMMA SeenStep ==
  ASSUME Basis, SeenInv, HomeSettles, [Next]_vars
  PROVE  SeenInv'
<1>0. TypeOK /\ CallInv /\ MeetInv
  BY DEF Basis
<1> SUFFICES ASSUME NEW d \in Calls, step'[d] \in {"fetching", "caching", "keeping"},
                    seen'[d] \notin {"none", Truth(who[d])'}
             PROVE  Excused(who[d])'
  BY DEF SeenInv
<1>1. who' = who
  BY <1>0, Kept
<1>9. PICK u \in Users : u = who[d]
  BY <1>0 DEF TypeOK
<1>10. seen'[d] # "none" /\ seen'[d] # Truth(u)'
  BY <1>1, <1>9 DEF Truth, Registered
<1> SUFFICES Excused(u)'
  BY <1>1, <1>9 DEF Excused, Hindered
<1>2. CASE /\ step[d] \in {"fetching", "building", "caching", "keeping"}
           /\ Truth(u)' # Truth(u)
  <2>2. PICK c \in Registering : who[c] = u /\ step[c] \in {"inserting", "deleting"}
    BY <1>2, Changes
  <2> QED
    BY <1>9, <1>0, <1>2, <2>2, BesideNow DEF CallInv, Looking, InFlight
<1>3. CASE /\ step[d] \in {"fetching", "caching", "keeping"} /\ seen'[d] = seen[d]
           /\ Truth(u)' = Truth(u)
  BY <1>9, <1>1, <1>3, ExcusedStays DEF SeenInv
<1>4. CASE Home(d)
  <2>1. /\ seen'[d] = remote[who[d]] /\ Truth(u)' = Truth(u)
        /\ what'[d] = "home" /\ step'[d] = "fetching"
    BY <1>0, <1>1, <1>4 DEF Home, Begin, Truth, Registered, docVars, TypeOK
  <2>2. PICK c \in Registering :
          who[c] = who[d] /\ (step[c] \in Syncing \union {"invalidating"} \/ Hindered(c))
    BY <1>9, <1>1, <2>1 DEF HomeSettles
  <2>3. CASE Hindered(c)
    BY <1>9, <1>1, <2>2, <2>3, ExcusedStays DEF Excused
  <2>4. CASE step[c] \in Syncing \union {"invalidating"}
    <3>1. c # d /\ c \in Calls /\ step[c] \in InFlight
      BY <1>0, <1>4, <2>4, RegisteringKept DEF Home, Begin, InFlight, Syncing
    <3>2. d \in met'[c]
      BY <1>0, <1>4, <3>1 DEF Home, Begin, Others, TypeOK
    <3> QED
      BY <1>9, <1>1, <2>1, <2>2, <3>2, Beside
  <2> QED
    BY <2>2, <2>3, <2>4
<1>5. ASSUME Arrive(d)
      PROVE  Home(d)
  BY <1>0, <1>5
     DEF Arrive, Register, Create, Subscribe, Unregister, Remove, Patch, Begin, TypeOK
<1>6. ASSUME Proceed(d)
      PROVE  /\ \/ step[d] = "caching" /\ seen'[d] = seen[d]
                \/ step[d] = "building" /\ seen'[d] = Truth(u)
             /\ Truth(u)' = Truth(u)
  <2>1. Build(d) \/ Cache(d)
    BY <1>0, <1>6, AfterType
       DEF Proceed, Find, Insert, Delete, Count, Store, List, Show, Invalidate, Look, OptIn, Seek,
           SaveActive, SaveCancelled, Fetched, Keep, Lost, To, TypeOK
  <2>2. registration' = registration
    BY <2>1 DEF Build, Cache, docVars
  <2>3. Truth(u)' = Truth(u)
    BY <1>1, <2>2 DEF Truth, Registered
  <2> QED
    BY <1>9, <1>0, <2>1, <2>3 DEF Build, Cache, To, TypeOK
<1>7. ASSUME NEW e \in Calls \ {d}, Arrive(e) \/ Proceed(e)
      PROVE  step'[d] = step[d] /\ seen'[d] = seen[d]
  BY <1>0, <1>7, Arrives, Proceeds
<1>8. ASSUME UNCHANGED callVars
      PROVE  step'[d] = step[d] /\ seen'[d] = seen[d]
  BY <1>8 DEF callVars
<1> QED
  BY <1>2, <1>3, <1>4, <1>5, <1>6, <1>7, <1>8, <1>10 DEF Next, Forget, vars

\* What the caches say of u is what they said, nothing, or what a call has seen.
LEMMA Cached ==
  ASSUME Basis, [Next]_vars, NEW u \in Users, NEW value \in {remote'[u], memory'[u]},
         value \notin {"none", remote[u], memory[u]}
  PROVE  \E d \in Calls : /\ step[d] \in {"fetching", "caching", "keeping"}
                          /\ who[d] = u /\ value = seen[d]
<1>0. TypeOK
  BY DEF Basis
<1>1. CASE \E d \in Calls : Fetched(d) \/ Cache(d) \/ Keep(d)
  BY <1>0, <1>1 DEF Fetched, Cache, Keep, docVars, TypeOK
<1>2. ASSUME NEW d \in Calls, Invalidate(d)
      PROVE  FALSE
  BY <1>0, <1>2 DEF Invalidate, TypeOK
<1>3. ASSUME NEW v \in Users, Forget(v)
      PROVE  FALSE
  BY <1>0, <1>3 DEF Forget, TypeOK
<1>4. ASSUME UNCHANGED <<remote, memory>>
      PROVE  FALSE
  BY <1>4
<1> QED
  BY <1>1, <1>2, <1>3, <1>4
     DEF Next, Arrive, Register, Create, Subscribe, Unregister, Remove, Patch, Home, Proceed, Find,
         Insert, Delete, Count, Store, List, Show, Look, OptIn, Seek, SaveActive, SaveCancelled,
         Build, Lost, vars, viewVars, homeVars

\* An invalidation that is on its way goes on, is cut short, or is carried out.
LEMMA UnderwayStep ==
  ASSUME Basis, [Next]_vars, NEW u \in Users, Underway(u)
  PROVE  \/ Underway(u)' \/ Excused(u)'
         \/ remote'[u] = "none" /\ memory'[u] = "none"
<1>0. TypeOK
  BY DEF Basis
<1>1. PICK c \in Registering : who[c] = u /\ step[c] \in Syncing \union {"invalidating"}
  BY DEF Underway
<1>2. c \in Calls /\ c \in Registering' /\ who'[c] = u
  BY <1>1, RegisteringKept
<1>3. CASE Invalidate(c)
  <2>1. memory'[u] = "none" /\ (remote'[u] = "none" \/ c \in undeleted')
    BY <1>0, <1>1, <1>3 DEF Invalidate, TypeOK
  <2> QED
    BY <1>2, <2>1 DEF Excused, Hindered
<1>4. CASE step'[c] \in Syncing \union {"invalidating"}
  BY <1>2, <1>4 DEF Underway
<1>5. CASE step'[c] = "cutShort"
  BY <1>2, <1>5 DEF Excused, Hindered
<1>6. ASSUME Proceed(c)
      PROVE  Invalidate(c) \/ step'[c] \in Syncing \union {"invalidating", "cutShort"}
  BY <1>0, <1>1, <1>2, <1>6
     DEF Proceed, Find, Insert, Delete, Count, Store, List, Show, Look, OptIn, Seek, SaveActive,
         SaveCancelled, Fetched, Build, Cache, Keep, Lost, To, Syncing, TypeOK
<1>7. ~ Arrive(c)
  BY <1>0, <1>1, <1>2, Arrives DEF Syncing
<1>8. ASSUME NEW e \in Calls \ {c}, Arrive(e) \/ Proceed(e)
      PROVE  step'[c] = step[c]
  BY <1>0, <1>2, <1>8, Arrives, Proceeds
<1> QED
  BY <1>1, <1>2, <1>3, <1>4, <1>5, <1>6, <1>7, <1>8 DEF Next, Forget, vars, callVars

LEMMA WrongExplained ==
  ASSUME Basis, SeenInv, HomeSettles, [Next]_vars,
         NEW u \in Users, NEW value \in {remote'[u], memory'[u]},
         value # "none", value # Truth(u)'
  PROVE  Underway(u)' \/ Excused(u)'
<1>1. CASE Truth(u)' # Truth(u)
  <2>1. PICK c \in Registering : who[c] = u /\ step'[c] = "counting"
    BY <1>1, Changes
  <2> QED
    BY <2>1, RegisteringKept DEF Underway, Syncing
<1>2. CASE Truth(u)' = Truth(u) /\ value \in {remote[u], memory[u]}
  <2>1. Underway(u) \/ Excused(u)
    BY <1>2 DEF HomeSettles, Underway, Excused
  <2>2. CASE Excused(u)
    BY <2>2, ExcusedStays
  <2>3. CASE Underway(u)
    BY <2>3, UnderwayStep
  <2> QED
    BY <2>1, <2>2, <2>3
<1>3. CASE Truth(u)' = Truth(u) /\ value \notin {remote[u], memory[u]}
  <2>1. PICK d \in Calls : /\ step[d] \in {"fetching", "caching", "keeping"}
                           /\ who[d] = u /\ value = seen[d]
    BY <1>3, Cached
  <2>2. Excused(u)
    BY <1>3, <2>1 DEF SeenInv
  <2> QED
    BY <2>2, ExcusedStays
<1> QED
  BY <1>1, <1>2, <1>3

LEMMA HomeStep ==
  ASSUME Basis, SeenInv, HomeSettles, [Next]_vars
  PROVE  HomeSettles'
<1> SUFFICES ASSUME NEW u \in Users, ~ {remote[u], memory[u]}' \subseteq {"none", Truth(u)'}
             PROVE  (\E c \in Registering : who[c] = u
                      /\ (step[c] \in Syncing \union {"invalidating"} \/ Hindered(c)))'
  BY DEF HomeSettles
<1>1. Underway(u)' \/ Excused(u)'
  BY WrongExplained
<1> QED
  BY <1>1 DEF Underway, Excused

-----------------------------------------------------------------------------
(* The goal *)

\* u only created and removed his goal, or engaged, one request at a time.
Clean(u) ==
  /\ \A c \in Calls : who[c] = u =>
       /\ step[c] # "cutShort"
       /\ step[c] # "idle" => what[c] \in {"create", "subscribe", "remove", "home"}
  /\ \A c, d \in Calls : who[c] = u /\ who[d] = u => d \notin met[c]

Match(u) == goal[u] = "active" <=> Registered(u)

\* What holds of his goal and his registration, by the step of his one request.
OnTheWay(u, c) ==
  /\ step[c] \in Looking \union {"finding", "inserting"} => Match(u)
  /\ step[c] \in Changing /\ what[c] \in {"create", "subscribe"} => Registered(u)
  /\ step[c] \in {"opting", "flagging", "seeking", "saving"} => Registered(u)
  /\ step[c] = "saving" => seen[c] = goal[u]
  /\ step[c] \in InFlight /\ what[c] = "remove" => seen[c] = goal[u]
  /\ step[c] \in Changing \union {"cancelling"} /\ what[c] = "remove" => ~ Registered(u)

GoalInv ==
  \A u \in Users : Clean(u) =>
    /\ (\A c \in Calls : who[c] = u => step[c] \notin InFlight) => Match(u)
    /\ \A c \in Calls : who[c] = u => OnTheWay(u, c)

LEMMA CleanBefore ==
  ASSUME Basis, [Next]_vars, NEW u \in Users, Clean(u)'
  PROVE  Clean(u)
<1>0. TypeOK /\ CallInv /\ MeetInv
  BY DEF Basis
<1>1. ASSUME NEW c \in Calls, who[c] = u
      PROVE  /\ step[c] # "cutShort"
             /\ step[c] # "idle" => what[c] \in {"create", "subscribe", "remove", "home"}
  BY <1>0, <1>1, Kept DEF Clean, Ended
<1>2. ASSUME NEW c \in Calls, NEW d \in Calls, who[c] = u, who[d] = u, d \in met[c]
      PROVE  FALSE
  <2>1. d \in met'[c]
    BY <1>0, <1>2, Kept DEF MeetInv
  <2> QED
    BY <1>0, <1>2, <2>1, Kept DEF Clean
<1> QED
  BY <1>1, <1>2 DEF Clean

\* What another user's call does is nothing to u ...
LEMMA Apart ==
  ASSUME Basis, NEW c \in Calls, Arrive(c) \/ Proceed(c), NEW u \in Users, u # who[c]
  PROVE  /\ goal'[u] = goal[u] /\ Registered(u)' = Registered(u)
         /\ \A d \in Calls : who[d] = u =>
              step'[d] = step[d] /\ what'[d] = what[d] /\ seen'[d] = seen[d]
<1>0. TypeOK /\ CallInv
  BY DEF Basis
<1>1. CASE Arrive(c)
  BY <1>0, <1>1, Arrives
     DEF Arrive, Register, Create, Subscribe, Unregister, Remove, Patch, Home, docVars, Registered,
         TypeOK
<1>2. CASE Proceed(c)
  <2>1. goal'[u] = goal[u] /\ registration'[u] = registration[u]
    BY <1>0, <1>2
       DEF Proceed, Find, Insert, Delete, Count, Store, List, Show, Invalidate, Look, OptIn, Seek,
           SaveActive, SaveCancelled, SaveStatus, Fetched, Build, Cache, Keep, Lost, docVars, TypeOK
  <2> QED
    BY <1>0, <1>2, <2>1, Proceeds DEF Registered
<1> QED
  BY <1>1, <1>2

\* ... and the one request of his takes him along the way.
LEMMA GoesOn ==
  ASSUME Basis, NEW c \in Calls, NEW u \in Users, u = who[c], OnTheWay(u, c), Proceed(c),
         what[c] \in {"create", "subscribe", "remove", "home"}, step'[c] # "cutShort"
  PROVE  OnTheWay(u, c)' /\ (step'[c] \notin InFlight => Match(u)')
<1> USE DEF OnTheWay, Match, Registered, Changing, Looking, Syncing, InFlight
<1>0. TypeOK /\ CallInv /\ what' = what /\ goal[u] \in GoalStatuses \union {"none"}
  BY Proceeds DEF Basis, TypeOK
<1>1. CASE Find(c)
  BY <1>0, <1>1 DEF Find, To, After, CallInv, docVars, TypeOK
<1>2. CASE Insert(c)
  BY <1>0, <1>2 DEF Insert, To, After, CallInv, TypeOK
<1>3. CASE Delete(c)
  BY <1>0, <1>3 DEF Delete, To, After, CallInv, TypeOK
<1>4. CASE Count(c)
  BY <1>0, <1>4 DEF Count, CallInv, docVars, TypeOK
<1>5. CASE Store(c) \/ Show(c) \/ List(c)
  BY <1>0, <1>5 DEF Store, Show, List, To, CallInv, docVars, TypeOK
<1>6. CASE Invalidate(c)
  BY <1>0, <1>6 DEF Invalidate, To, After, CallInv, docVars, TypeOK
<1>7. CASE Look(c) \/ OptIn(c)
  BY <1>0, <1>7 DEF Look, OptIn, To, CallInv, docVars, TypeOK
<1>8. CASE Seek(c)
  BY <1>0, <1>8 DEF Seek, CallInv, docVars, TypeOK
<1>9. CASE SaveActive(c)
  BY <1>0, <1>9 DEF SaveActive, SaveStatus, To, CallInv, TypeOK
<1>10. CASE SaveCancelled(c)
  BY <1>0, <1>10 DEF SaveCancelled, SaveStatus, To, CallInv, TypeOK
<1>11. CASE Fetched(c) \/ Build(c) \/ Cache(c) \/ Keep(c)
  <2>1. step[c] \in Looking /\ what[c] = "home" /\ step'[c] \in Looking \union {"answered"}
        /\ UNCHANGED docVars
    BY <1>0, <1>11 DEF Fetched, Build, Cache, Keep, To, CallInv, TypeOK
  <2> QED
    BY <1>0, <2>1 DEF CallInv, docVars
<1>12. ~ Lost(c)
  BY <1>0 DEF Lost, To, TypeOK
<1> QED
  BY <1>1, <1>2, <1>3, <1>4, <1>5, <1>6, <1>7, <1>8, <1>9, <1>10, <1>11, <1>12 DEF Proceed

LEMMA GoalStep ==
  ASSUME Basis, GoalInv, [Next]_vars
  PROVE  GoalInv'
<1>0. TypeOK /\ CallInv /\ MeetInv /\ who' = who
  BY Kept DEF Basis
<1> SUFFICES ASSUME NEW u \in Users, Clean(u)'
             PROVE  /\ (\A c \in Calls : who[c] = u => step'[c] \notin InFlight) => Match(u)'
                    /\ \A c \in Calls : who[c] = u => OnTheWay(u, c)'
  BY <1>0 DEF GoalInv, Clean, Match, OnTheWay, Registered
<1>1. /\ Clean(u)
      /\ (\A c \in Calls : who[c] = u => step[c] \notin InFlight) => Match(u)
      /\ \A c \in Calls : who[c] = u => OnTheWay(u, c)
  BY CleanBefore DEF GoalInv
<1>2. ASSUME NEW c \in Calls, who[c] # u, Arrive(c) \/ Proceed(c)
      PROVE  /\ (\A d \in Calls : who[d] = u => step'[d] \notin InFlight) => Match(u)'
             /\ \A d \in Calls : who[d] = u => OnTheWay(u, d)'
  BY <1>1, <1>2, Apart DEF Match, OnTheWay
<1>3. ASSUME NEW c \in Calls, who[c] = u, Proceed(c)
      PROVE  /\ (\A d \in Calls : who[d] = u => step'[d] \notin InFlight) => Match(u)'
             /\ \A d \in Calls : who[d] = u => OnTheWay(u, d)'
  <2>1. /\ step'[c] # "cutShort" /\ step[c] \in InFlight
        /\ what[c] \in {"create", "subscribe", "remove", "home"}
    BY <1>0, <1>1, <1>3, Proceeds DEF Clean, InFlight, Syncing
  <2>2. OnTheWay(u, c)' /\ (step'[c] \notin InFlight => Match(u)')
    BY <1>1, <1>3, <2>1, GoesOn
  <2>3. ASSUME NEW d \in Calls \ {c}, who[d] = u
        PROVE  OnTheWay(u, d)'
    <3>1. step[d] \notin InFlight /\ step'[d] = step[d]
      BY <1>0, <1>1, <1>3, <2>1, <2>3, Proceeds DEF Clean, MeetInv
    <3> QED
      BY <3>1 DEF OnTheWay, InFlight, Syncing, Changing, Looking
  <2> QED
    BY <1>3, <2>2, <2>3
<1>4. ASSUME NEW c \in Calls, who[c] = u, Arrive(c)
      PROVE  /\ (\A d \in Calls : who[d] = u => step'[d] \notin InFlight) => Match(u)'
             /\ \A d \in Calls : who[d] = u => OnTheWay(u, d)'
  <2>1. ASSUME NEW d \in Calls \ {c}, who[d] = u
        PROVE  step[d] \notin InFlight /\ step'[d] = step[d]
    BY <1>0, <1>4, <2>1, Arrives DEF Clean, Others, TypeOK
  <2>2. Match(u) /\ step[c] = "idle"
    BY <1>0, <1>1, <1>4, <2>1, Arrives DEF InFlight, Syncing
  <2>3. step'[c] # "idle" /\ what'[c] \in {"create", "subscribe", "remove", "home"}
    BY <1>0, <1>4, Arrives DEF Clean
  <2>4. ASSUME NEW operation, NEW read, NEW next, Begin(c, operation, read, next)
        PROVE  step'[c] = next /\ what'[c] = operation /\ seen'[c] = read
    BY <1>0, <2>4 DEF Begin, TypeOK
  <2>5. /\ goal' = goal /\ registration' = registration
        /\ step'[c] \in {"finding", "fetching", "answered"}
             \/ (step'[c] = "deleting" /\ what'[c] = "remove" /\ seen'[c] = goal[u])
        /\ step'[c] \in {"finding", "fetching", "answered"} => what'[c] # "remove"
    BY <1>0, <1>4, <2>3, <2>4
       DEF Arrive, Register, Create, Subscribe, Unregister, Remove, Patch, Home, docVars
  <2>6. Match(u)'
    BY <2>2, <2>5 DEF Match, Registered
  <2>7. OnTheWay(u, c)'
    BY <2>5, <2>6 DEF OnTheWay, Changing, Looking, Syncing
  <2>8. ASSUME NEW d \in Calls \ {c}, who[d] = u
        PROVE  OnTheWay(u, d)'
    BY <2>1, <2>8 DEF OnTheWay, InFlight, Syncing, Changing, Looking
  <2> QED
    BY <2>6, <2>7, <2>8
<1>5. CASE UNCHANGED <<docVars, callVars>>
  BY <1>1, <1>5 DEF docVars, callVars, Match, OnTheWay, Registered
<1> QED
  BY <1>2, <1>3, <1>4, <1>5 DEF Next, Forget, vars

-----------------------------------------------------------------------------
(* Cancellations *)

\* Who engages has found no cancelled goal, and whatever cancelled it since met him.
EngageInv ==
  \A c \in Calls :
    what[c] = "subscribe" /\ step[c] \in InFlight /\ goal[who[c]] = "cancelled"
      => \E d \in met[c] : who[d] = who[c] /\ what[d] \in {"remove", "patch"}

LEMMA EngageStep ==
  ASSUME Basis, EngageInv, [Next]_vars
  PROVE  EngageInv'
<1>0. TypeOK /\ CallInv /\ MeetInv /\ who' = who
  BY Kept DEF Basis
<1> SUFFICES ASSUME NEW c \in Calls, what'[c] = "subscribe", step'[c] \in InFlight,
                    goal'[who[c]] = "cancelled"
             PROVE  \E d \in met'[c] : who[d] = who[c] /\ what'[d] \in {"remove", "patch"}
  BY <1>0 DEF EngageInv
<1>1. CASE Arrive(c)
  <2>1. Subscribe(c)
    BY <1>0, <1>1
       DEF Arrive, Register, Create, Unregister, Remove, Patch, Home, Begin, TypeOK
  <2> QED
    BY <1>0, <2>1 DEF Subscribe, Begin, docVars, InFlight, Syncing, TypeOK
<1>2. ASSUME step[c] \in InFlight, goal[who[c]] = "cancelled"
      PROVE  \E d \in met'[c] : who[d] = who[c] /\ what'[d] \in {"remove", "patch"}
  <2>1. what[c] = "subscribe" /\ met[c] \subseteq met'[c]
    BY <1>0, <1>2, Kept DEF InFlight, Syncing
  <2>2. PICK d \in met[c] : who[d] = who[c] /\ what[d] \in {"remove", "patch"}
    BY <1>2, <2>1 DEF EngageInv
  <2> QED
    BY <1>0, <2>1, <2>2, Kept DEF MeetInv, TypeOK
<1>3. ASSUME NEW e \in Calls, SaveCancelled(e), step[c] \in InFlight, goal[who[c]] # "cancelled"
      PROVE  \E d \in met'[c] : who[d] = who[c] /\ what'[d] \in {"remove", "patch"}
  <2>1. who[e] = who[c] /\ what'[e] = "remove" /\ what' = what /\ met' = met /\ e # c
    BY <1>0, <1>3 DEF SaveCancelled, SaveStatus, To, CallInv, TypeOK
  <2>2. e \in met[c]
    BY <1>0, <1>3, <2>1 DEF SaveCancelled, MeetInv, InFlight
  <2> QED
    BY <2>1, <2>2
<1>4. ASSUME NEW e \in Calls \ {c}, NEW status \in GoalStatuses, Patch(e, status),
             step[c] \in InFlight, goal[who[c]] # "cancelled"
      PROVE  \E d \in met'[c] : who[d] = who[c] /\ what'[d] \in {"remove", "patch"}
  <2>1. who[e] = who[c] /\ what'[e] = "patch"
    BY <1>0, <1>4 DEF Patch, Begin, TypeOK
  <2>2. c \in Others(e)
    BY <1>4 DEF Others
  <2>3. e \in met'[c]
    BY <1>0, <1>4, <2>2 DEF Patch, Begin, TypeOK
  <2> QED
    BY <2>1, <2>3
<1>5. step[c] \in InFlight \/ Arrive(c)
  <2>1. ASSUME NEW e \in Calls \ {c}, Arrive(e) \/ Proceed(e)
        PROVE  step'[c] = step[c]
    BY <1>0, <2>1, Arrives, Proceeds
  <2>2. ASSUME Proceed(c)
        PROVE  step[c] \in InFlight
    BY <1>0, <2>2, Proceeds
  <2> QED
    BY <2>1, <2>2 DEF Next, Forget, vars, callVars
<1>6. CASE goal' = goal
  BY <1>1, <1>2, <1>5, <1>6
<1>7. ASSUME NEW e \in Calls, SaveActive(e), goal[who[c]] # "cancelled"
      PROVE  FALSE
  BY <1>0, <1>7 DEF SaveActive, SaveStatus, TypeOK
<1>8. ASSUME NEW status \in GoalStatuses, Patch(c, status)
      PROVE  FALSE
  BY <1>0, <1>8 DEF Patch, Begin, InFlight, Syncing, TypeOK
<1>9. \/ goal' = goal
      \/ \E e \in Calls : \/ SaveActive(e) \/ SaveCancelled(e)
                          \/ \E status \in GoalStatuses : Patch(e, status)
  BY DEF Next, Arrive, Register, Create, Subscribe, Unregister, Remove, Home, Proceed, Find,
         Insert, Delete, Count, Store, List, Show, Invalidate, Look, OptIn, Seek, Fetched, Build,
         Cache, Keep, Lost, Forget, vars, docVars
<1> QED
  BY <1>1, <1>2, <1>3, <1>4, <1>5, <1>6, <1>7, <1>8, <1>9

\* The step that makes u's goal active again is that of a call of his that may.
Reactivation(u) ==
  \E c \in Calls :
     /\ who[c] = u /\ step[c] # "answered" /\ step'[c] = "answered"
     /\ \/ what'[c] \in {"create", "patch"}
        \/ /\ what[c] = "subscribe"
           /\ \E d \in met[c] : who[d] = u /\ what[d] \in {"remove", "patch"}

LEMMA Reactivates ==
  ASSUME Basis, EngageInv, [Next]_vars, NEW u \in Users,
         goal[u] = "cancelled", goal'[u] = "active"
  PROVE  Reactivation(u)
<1>0. TypeOK /\ CallInv
  BY DEF Basis
<1>1. ASSUME NEW c \in Calls, NEW status \in GoalStatuses, Patch(c, status)
      PROVE  Reactivation(u)
  <2>1. who[c] = u /\ what'[c] = "patch" /\ step[c] = "idle" /\ step'[c] = "answered"
    BY <1>0, <1>1 DEF Patch, Begin, TypeOK
  <2> QED
    BY <2>1 DEF Reactivation
<1>2. ASSUME NEW c \in Calls, SaveActive(c)
      PROVE  Reactivation(u)
  <2>1. /\ who[c] = u /\ what'[c] = what[c] /\ what[c] \in {"create", "subscribe"}
        /\ step[c] = "saving" /\ step'[c] = "answered"
    BY <1>0, <1>2 DEF SaveActive, SaveStatus, To, CallInv, TypeOK
  <2>2. what[c] = "subscribe" => \E d \in met[c] : who[d] = u /\ what[d] \in {"remove", "patch"}
    BY <2>1 DEF EngageInv, InFlight
  <2> QED
    BY <2>1, <2>2 DEF Reactivation
<1>3. ASSUME NEW c \in Calls, SaveCancelled(c)
      PROVE  FALSE
  BY <1>0, <1>3 DEF SaveCancelled, SaveStatus, TypeOK
<1>4. goal' # goal
  OBVIOUS
<1> QED
  BY <1>1, <1>2, <1>3, <1>4
     DEF Next, Arrive, Register, Create, Subscribe, Unregister, Remove, Home, Proceed, Find,
         Insert, Delete, Count, Store, List, Show, Invalidate, Look, OptIn, Seek, Fetched, Build,
         Cache, Keep, Lost, Forget, vars, docVars

-----------------------------------------------------------------------------
(* The theorems *)

IInv ==
  /\ Basis
  /\ CountInv
  /\ SeenInv
  /\ HomeSettles
  /\ GoalInv
  /\ EngageInv

LEMMA InitIInv == Init => IInv
<1> SUFFICES ASSUME Init PROVE IInv
  OBVIOUS
<1>1. Attending = {}
  BY DEF Init, Attending, Registered
<1>2. CountInv
  BY <1>1, FS_EmptySet DEF Init, CountInv, Syncing
<1>3. SeenInv /\ HomeSettles /\ EngageInv
  BY DEF Init, SeenInv, HomeSettles, EngageInv, InFlight, Syncing
<1>4. GoalInv
  BY DEF Init, GoalInv, OnTheWay, Match, Registered, InFlight, Syncing, Changing, Looking
<1> QED
  BY <1>2, <1>3, <1>4, InitBasis DEF IInv

LEMMA Invariance == Spec => []IInv
<1>1. IInv /\ [Next]_vars => IInv'
  BY BasisStep, CountStep, SeenStep, HomeStep, GoalStep, EngageStep DEF IInv
<1> QED
  BY <1>1, InitIInv, PTL DEF Spec

\* The documents, the caches and what every call carries keep their types.
THEOREM TypeCorrect == Spec => []TypeOK
<1>1. IInv => TypeOK
  BY DEF IInv, Basis
<1> QED
  BY <1>1, Invariance, PTL

\* syncAttendeeCounts(): when nobody counts, the stored and the listed number of
\* attendees are the number of registrations, unless two calls that count
\* overlapped or one was cut short.
THEOREM CountsSettle == Spec => []CountSettles
<1>1. IInv => CountSettles
  BY DEF IInv, CountInv, CountSettles, Disturbed
<1> QED
  BY <1>1, Invariance, PTL

\* invalidateHomeForUser(): what Redis or memory holds of a user is wrong only until the
\* call that changed his registration invalidates it, unless that call was cut short, its
\* DEL failed, or a summary was read or computed beside it.
THEOREM SummariesSettle == Spec => []HomeSettles
<1>1. IInv => HomeSettles
  BY DEF IInv
<1> QED
  BY <1>1, Invariance, PTL

\* create(), subscribeOnEngagement() and remove(): of who does one of these at a time,
\* the goal is active if and only if he is registered.
THEOREM GoalsMatch == Spec => []GoalMatchesRegistration
<1>1. IInv => GoalMatchesRegistration
  <2> SUFFICES ASSUME IInv, NEW u \in Users, Undisturbed(u),
                      \A c \in Calls : who[c] = u /\ step[c] # "idle"
                        => what[c] \in {"create", "subscribe", "remove", "home"}
               PROVE  goal[u] = "active" <=> Registered(u)
    BY DEF GoalMatchesRegistration
  <2>1. Clean(u) /\ \A c \in Calls : who[c] = u => step[c] \notin InFlight
    BY DEF Undisturbed, Clean
  <2> QED
    BY <2>1 DEF IInv, GoalInv, Match
<1> QED
  BY <1>1, Invariance, PTL

\* subscribeOnEngagement(): the step that makes a cancelled goal active is of its user's
\* own create or patch, or of an engagement in flight together with a remove or a patch
\* of his: engaging later, or beside other calls, undoes no cancellation.
THEOREM CancellationsStand == Spec => CancellationStands
<1>1. IInv /\ [Next]_vars =>
        [\A u \in Users : goal[u] = "cancelled" /\ goal'[u] = "active"
           => \E c \in Calls :
                /\ who[c] = u /\ step[c] # "answered" /\ step'[c] = "answered"
                /\ \/ what'[c] \in {"create", "patch"}
                   \/ /\ what[c] = "subscribe"
                      /\ \E d \in met[c] : who[d] = u /\ what[d] \in {"remove", "patch"}]_vars
  BY Reactivates DEF IInv, Reactivation
<1> QED
  BY <1>1, Invariance, PTL DEF Spec, CancellationStands
=============================================================================
