-------------------------- MODULE ClashResolution ---------------------------
(***************************************************************************)
(* What travellers decide about the clashes of their lineups, and what a   *)
(* new timetable does to it: itinerary/clash-resolution.service.ts, the    *)
(* seeding of itinerary-schedule.service.ts, and the conflicts that        *)
(* lineup-conflict.service.ts finds in between.                            *)
(*                                                                         *)
(* A call is one resolve().  The fingerprint of a timetable is taken for   *)
(* the timetable itself, of which a client may have been shown one weekend *)
(* and resolve() takes all.  For the properties only there are: by, the    *)
(* call that made a resolution; lineage, the calls whose work a state      *)
(* builds on; crossed; and whole, writes and lineage of what is asked: how *)
(* things stood when the client looked.                                    *)
(***************************************************************************)
EXTENDS LineupClashes

CONSTANTS
  Travellers,
  SignedIn,   \* the others are known by an anonymousId
  Calls,
  None,
  Timetables,
  Revisions,  \* pairs of a timetable and what a seeding may make of it
  Lineups,    \* what a client may have selected
  Views,      \* the days a client may look at: those of one weekend, or all
  Namings,    \* which of the versions it saw a client may name
  MaxWrites   \* bound: how often the timetable is written

ASSUME ClashResolutionAssumption ==
  /\ SignedIn \subseteq Travellers
  /\ None \notin Timetables
  /\ Revisions \subseteq Timetables \X Timetables
  /\ Lineups \subseteq SUBSET Artists
  /\ Namings \subseteq SUBSET {"schedule", "route"}
  /\ MaxWrites \in Nat

\* toClashPerformances() drops what has no time or does not end after it begins.
ASSUME TimetableAssumption ==
  \A table \in Timetables : \A x \in Artists :
    /\ table[x] \subseteq Slots
    /\ \A slot \in table[x] : slot.start < slot.end

VARIABLES
  timetable, \* the stored performances
  writes,    \* how often they were written
  seeder,    \* where seedItineraryCatalogData() stands
  state,     \* UserLineupClashState of each traveller, NoState if there is none
  itinerary, \* who has an itinerary; its selectedDjIds are left out
  step, who, \* of each call
  ask,       \* what it asks for
  loaded,    \* the timetable it loaded
  read,      \* the state it read
  crossed    \* the calls that a seeding ran into, or that ran into one

seedVars == <<timetable, writes, seeder>>
docVars  == <<state, itinerary>>
callVars == <<step, who, ask, loaded, read, crossed>>
vars     == <<seedVars, docVars, callVars>>

NoState == [schedule |-> None, route |-> 0, deferred |-> {}, journey |-> {},
            resolutions |-> {}, lineage |-> {}]

Id(conflict) == [type |-> conflict.type, day |-> conflict.day, between |-> conflict.between]

InFlight == {"loading", "reading", "storing", "looking", "creating"}

IsState(s) ==
  /\ s.schedule \in Timetables
  /\ s.route \in Nat \ {0}
  /\ s.deferred \subseteq Artists
  /\ s.journey \subseteq Artists
  /\ s.deferred \intersect s.journey = {}
  /\ s.lineage \subseteq Calls
  /\ \A r \in s.resolutions :
       /\ r.by \in s.lineage
       /\ r.schedule \in Timetables
       /\ r.needsReview \in BOOLEAN
       /\ \A q \in s.resolutions : q.conflict = r.conflict => q = r

\* No artist is kept and deferred at once, and a conflict is decided once.
TypeOK ==
  /\ timetable \in Timetables
  /\ writes \in 0 .. MaxWrites
  /\ seeder \in {"idle", "seeding", "down"}
  /\ \A t \in Travellers : state[t] = NoState \/ IsState(state[t])
  /\ itinerary \subseteq SignedIn
  /\ step \in [Calls -> InFlight \union {"idle", "answered", "refused", "cutShort", "halfway"}]
  /\ who \in [Calls -> Travellers]
  /\ loaded \in [Calls -> Timetables \union {None}]
  /\ \A c \in Calls : read[c] = NoState \/ IsState(read[c])
  /\ crossed \subseteq Calls

Init ==
  /\ timetable \in Timetables
  /\ writes = 0
  /\ seeder = "idle"
  /\ state = [t \in Travellers |-> NoState]
  /\ itinerary = {}
  /\ step = [c \in Calls |-> "idle"]
  /\ who \in [Calls -> Travellers]
  /\ ask = [c \in Calls |-> None]
  /\ loaded = [c \in Calls |-> None]
  /\ read = [c \in Calls |-> NoState]
  /\ crossed = {}

-----------------------------------------------------------------------------
(* resolve() *)

To(c, next) == step' = [step EXCEPT ![c] = next]

\* What a call loaded is of no use after this.
Forget(c) == loaded' = [loaded EXCEPT ![c] = None]

\* loadClashPerformances(), of one weekend or of all.
During(table, days) == [x \in Artists |-> {slot \in table[x] : slot.day \in days}]

\* A client evaluated an artist against its lineup and the stored state, and asks
\* for one of the options: it may name the versions it saw, of the timetable as far
\* as it was shown and of the route.
Ask(c, selected, artist, days, named) ==
  /\ step[c] = "idle"
  /\ LET shown == During(timetable, days)
         seen  == state[who[c]]
     IN \E conflict \in EvaluateArtist(shown, artist, selected, seen.deferred, seen.journey) :
          \E option \in conflict.options :
            ask' = [ask EXCEPT ![c] =
               [conflict |-> Id(conflict), option |-> option,
                schedule |-> IF "schedule" \in named THEN shown ELSE None,
                route    |-> IF "route" \in named THEN seen.route ELSE None,
                whole    |-> shown = timetable,
                writes   |-> writes,
                lineage  |-> seen.lineage]]
  /\ To(c, "loading")
  /\ UNCHANGED <<seedVars, docVars, who, loaded, read, crossed>>

Load(c) ==
  /\ step[c] = "loading"
  /\ IF ask[c].schedule \in {None, timetable}
       THEN To(c, "reading") /\ loaded' = [loaded EXCEPT ![c] = timetable]
       ELSE To(c, "refused") /\ UNCHANGED loaded
  /\ crossed' = IF seeder = "idle" THEN crossed ELSE crossed \union {c}
  /\ UNCHANGED <<seedVars, docVars, who, ask, read>>

ReadInsistingMutant(c) ==
  /\ step[c] = "reading"
  /\ IF ask[c].route = state[who[c]].route
       THEN /\ read' = [read EXCEPT ![c] = state[who[c]]]
            /\ To(c, "storing") /\ UNCHANGED loaded
       ELSE To(c, "refused") /\ Forget(c) /\ UNCHANGED read
  /\ UNCHANGED <<seedVars, docVars, who, ask, crossed>>

Read(c) ==
  /\ step[c] = "reading"
  /\ IF ask[c].route \in {None, state[who[c]].route}
       THEN /\ read' = [read EXCEPT ![c] = state[who[c]]]
            /\ To(c, "storing") /\ UNCHANGED loaded
       ELSE To(c, "refused") /\ Forget(c) /\ UNCHANGED read
  /\ UNCHANGED <<seedVars, docVars, who, ask, crossed>>

Journey(c)  == (read[c].journey \union ask[c].option.keeps) \ ask[c].option.defers
DeferredKeptMutant(c) == read[c].deferred \union ask[c].option.defers
Deferred(c) == (read[c].deferred \union ask[c].option.defers) \ ask[c].option.keeps

DecidedAnewMutant(c) ==
  [schedule    |-> loaded[c],
   route       |-> read[c].route + 1,
   deferred    |-> Deferred(c),
   journey     |-> Journey(c),
   resolutions |-> {[conflict |-> ask[c].conflict, option |-> ask[c].option,
                     schedule |-> loaded[c], needsReview |-> FALSE, by |-> c]},
   lineage     |-> read[c].lineage \union {c}]

\* The traveller's state with the decision.
Decided(c) ==
  [schedule    |-> loaded[c],
   route       |-> read[c].route + 1,
   deferred    |-> Deferred(c),
   journey     |-> Journey(c),
   resolutions |-> {r \in read[c].resolutions : r.conflict # ask[c].conflict}
                     \union {[conflict |-> ask[c].conflict, option |-> ask[c].option,
                              schedule |-> loaded[c], needsReview |-> FALSE, by |-> c]},
   lineage     |-> read[c].lineage \union {c}]

\* Both unique indexes hold every state, with null for the id it lacks: of the
\* signed-in travellers one can have a state, and one of the anonymous.
IndexAdmits(t) ==
  \A u \in Travellers \ {t} :
     (t \in SignedIn <=> u \in SignedIn) => state[u] = NoState

Store(c) ==
  /\ step[c] = "storing"
  /\ IF state[who[c]] # NoState \/ IndexAdmits(who[c])
       THEN /\ state' = [state EXCEPT ![who[c]] = Decided(c)]
            /\ To(c, IF who[c] \in SignedIn THEN "looking" ELSE "answered")
       ELSE state' = state /\ To(c, "refused")
  /\ Forget(c)
  /\ UNCHANGED <<seedVars, itinerary, who, ask, read, crossed>>

\* A decision adds its artists to the itinerary of a signed-in traveller, or
\* starts one with the journey.
Look(c) ==
  /\ step[c] = "looking"
  /\ To(c, IF who[c] \in itinerary THEN "answered" ELSE "creating")
  /\ UNCHANGED <<seedVars, docVars, who, ask, loaded, read, crossed>>

\* userId and activityLegacyId are unique.
Create(c) ==
  /\ step[c] = "creating"
  /\ itinerary' = itinerary \union {who[c]}
  /\ To(c, IF who[c] \in itinerary THEN "halfway" ELSE "answered")
  /\ UNCHANGED <<seedVars, state, who, ask, loaded, read, crossed>>

\* The process dies, or MongoDB cannot be reached: before the decision is stored
\* nothing is left of the call.
Lost(c) ==
  /\ step[c] \in InFlight
  /\ IF step[c] \in {"loading", "reading", "storing"}
       THEN /\ To(c, "cutShort")
            /\ ask' = [ask EXCEPT ![c] = None]
            /\ Forget(c)
            /\ read' = [read EXCEPT ![c] = NoState]
       ELSE To(c, "halfway") /\ UNCHANGED <<ask, loaded, read>>
  /\ UNCHANGED <<seedVars, docVars, who, crossed>>

-----------------------------------------------------------------------------
(* The rest of the system *)

\* The traveller saves an itinerary.
SaveItinerary(t) ==
  /\ t \notin itinerary
  /\ itinerary' = itinerary \union {t}
  /\ UNCHANGED <<seedVars, state, callVars>>

\* seedItineraryCatalogData(), at startup: it writes the performances one by one,
\* so that travellers may see more than one timetable, and then marks the states.
Seed(new) ==
  /\ writes < MaxWrites
  /\ <<timetable, new>> \in Revisions
  /\ timetable' = new
  /\ writes' = writes + 1
  /\ seeder' = "seeding"
  /\ crossed' = crossed \union {c \in Calls : step[c] \in {"reading", "storing"}}
  /\ UNCHANGED <<docVars, step, who, ask, loaded, read>>

MarkNewestMutant ==
  /\ seeder = "seeding"
  /\ state' = [t \in Travellers |->
       IF state[t] = NoState THEN NoState ELSE [state[t] EXCEPT !.schedule = timetable]]
  /\ seeder' = "idle"
  /\ UNCHANGED <<timetable, writes, itinerary, callVars>>

\* invalidateForScheduleChange()
Mark ==
  /\ seeder = "seeding"
  /\ state' = [t \in Travellers |->
       IF state[t] = NoState \/ state[t].schedule = timetable THEN state[t]
       ELSE [state[t] EXCEPT !.schedule = timetable,
                             !.resolutions = {[r EXCEPT !.needsReview = TRUE] : r \in @}]]
  /\ seeder' = "idle"
  /\ UNCHANGED <<timetable, writes, itinerary, callVars>>

SeederDies ==
  /\ seeder = "seeding"
  /\ seeder' = "down"
  /\ UNCHANGED <<timetable, writes, docVars, callVars>>

Proceed(c) ==
  \/ Load(c) \/ Read(c) \/ Store(c) \/ Look(c) \/ Create(c) \/ Lost(c)

Next ==
  \/ \E c \in Calls, selected \in Lineups, artist \in Artists, days \in Views,
        named \in Namings :
       Ask(c, selected, artist, days, named)
  \/ \E c \in Calls : Proceed(c)
  \/ \E t \in SignedIn : SaveItinerary(t)
  \/ \E new \in Timetables : Seed(new)
  \/ Mark \/ SeederDies

Spec == Init /\ [][Next]_vars
-----------------------------------------------------------------------------
(* Safety *)

\* The calls whose decision was stored.
Stored == {c \in Calls : step[c] \in {"looking", "creating", "answered", "halfway"}}

\* Whatever a traveller has decided: two artists of a lineup who each play once are
\* reported to clash if and only if they play on one day, too close to walk
\* from one to the other with the buffer, and neither is deferred; and an artist
\* without a time is reported as pending.
ClashesReported ==
  \A s \in {state[t] : t \in Travellers}, selected \in Lineups :
     LET found == DetectConflicts(timetable, selected, s.deferred, s.journey)
         Reported(between) == \E conflict \in found : conflict.between = between
     IN /\ \A x, y \in selected : \A a \in timetable[x], b \in timetable[y] :
             x # y /\ timetable[x] = {a} /\ timetable[y] = {b}
               => (Reported({x, y}) <=> /\ a.day = b.day /\ ~ CanWatchBoth(a, b)
                                        /\ {x, y} \intersect s.deferred = {})
        /\ \A x \in selected : timetable[x] = {} => Reported({x})

\* A stored decision stands until the traveller decides the conflict again, having
\* seen it; unless it was lost to another decision of his: neither of the two had
\* seen the other.
ChoicesSurvive ==
  \A c \in Stored :
     \/ \E r \in state[who[c]].resolutions :
          r.conflict = ask[c].conflict /\ (r.by = c \/ c \in read[r.by].lineage)
     \/ \E d \in state[who[c]].lineage : /\ d \notin read[c].lineage \union {c}
                                        /\ c \notin read[d].lineage

\* A decision about an older timetable is marked for review: unless a seeding is
\* running or died, or a decision the state builds on overlapped one.
UnmarkedExplained ==
  \A t \in Travellers : \A r \in state[t].resolutions :
     r.schedule # timetable /\ ~ r.needsReview
       => seeder # "idle" \/ state[t].lineage \intersect crossed # {}

\* A decision is refused only to a client that named a timetable which was written
\* since or which it was shown in part, or a route on which the traveller has
\* decided since; or because another signed-in, or another anonymous, traveller has
\* a state.
RefusalsExplained ==
  \A c \in Calls : step[c] = "refused"
     => \/ ask[c].schedule # None /\ (writes > ask[c].writes \/ ~ ask[c].whole)
        \/ ask[c].route # None /\ state[who[c]].lineage \ ask[c].lineage # {}
        \/ \E t \in Travellers \ {who[c]} :
              state[t] # NoState /\ (t \in SignedIn <=> who[c] \in SignedIn)
=============================================================================
