-------------------------- MODULE GoalRegistration --------------------------
(***************************************************************************)
(* Watching the lineup of one activity: the user's goal (goal.service.ts), *)
(* his registration (activity-registration.service.ts), the number of      *)
(* attendees derived from registrations (activity.service.ts), the catalog *)
(* in memory that shows it (activity-lookup.service.ts) and the cached     *)
(* home summary that shows who is going (home.service.ts), which is kept   *)
(* in Redis and in the memory of the process                               *)
(* (redis-memory-json-cache.service.ts).                                   *)
(*                                                                         *)
(* A call is one request; each step ends at an await.  met remembers which *)
(* calls were in flight together, for the properties only.  Any command to *)
(* Redis may fail, and is then as if it had not been given: RedisService   *)
(* logs the error and goes on.  Without Redis all of them do.              *)
(***************************************************************************)
EXTENDS Integers, FiniteSets

CONSTANTS Users, Calls

ASSUME GoalRegistrationAssumption == IsFiniteSet(Users)

VARIABLES
  registration, \* of each user: none, registered, or opted in to WeChat updates
  goal,         \* status of each user's watch_lineup goal
  attendees,    \* of the activity, as stored
  listed,       \* the same in the lookup cache
  remote,       \* what the home summary in Redis says of each user
  memory,       \* what the one in memory says
  step, what, who,
  counted,      \* the number a call carries
  seen,         \* what it read of the user's goal, or that he is going
  undeleted,    \* calls that could not delete what Redis held
  met

docVars  == <<registration, goal, attendees>>
homeVars == <<remote, memory, undeleted>>
viewVars == <<listed, homeVars>>
callVars == <<step, what, who, counted, seen, met>>
vars     == <<docVars, viewVars, callVars>>

GoalStatuses == {"active", "paused", "completed", "cancelled"}
Operations   == {"register", "unregister", "create", "subscribe", "remove", "patch", "home"}

\* From the change of a registration to the end of syncAttendeeCounts().
Syncing  == {"counting", "storing", "listing", "showing"}
InFlight == Syncing \union {"finding", "inserting", "invalidating", "opting", "flagging", "seeking",
                            "saving", "deleting", "cancelling", "fetching", "building", "caching",
                            "keeping"}

TypeOK ==
  /\ registration \in [Users -> {"none", "registered", "optedIn"}]
  /\ goal \in [Users -> GoalStatuses \union {"none"}]
  /\ attendees \in Nat
  /\ listed \in Nat
  /\ remote \in [Users -> {"none", "going", "away"}]
  /\ memory \in [Users -> {"none", "going", "away"}]
  /\ undeleted \in SUBSET Calls
  /\ step \in [Calls -> InFlight \union {"idle", "answered", "refused", "cutShort"}]
  /\ what \in [Calls -> Operations]
  /\ who \in [Calls -> Users]
  /\ counted \in [Calls -> Nat]
  /\ seen \in [Calls -> GoalStatuses \union {"none", "going", "away"}]
  /\ met \in [Calls -> SUBSET Calls]

Registered(u) == registration[u] # "none"
Attending     == {u \in Users : Registered(u)}

\* What a home summary should say of u.
Truth(u) == IF Registered(u) THEN "going" ELSE "away"

Init ==
  /\ registration = [u \in Users |-> "none"]
  /\ goal = [u \in Users |-> "none"]
  /\ attendees = 0
  /\ listed = 0
  /\ remote = [u \in Users |-> "none"]
  /\ memory = [u \in Users |-> "none"]
  /\ undeleted = {}
  /\ step = [c \in Calls |-> "idle"]
  /\ what = [c \in Calls |-> "home"]
  /\ who \in [Calls -> Users]
  /\ counted = [c \in Calls |-> 0]
  /\ seen = [c \in Calls |-> "none"]
  /\ met = [c \in Calls |-> {}]

-----------------------------------------------------------------------------
Others(c) == {d \in Calls \ {c} : step[d] \in InFlight}

Begin(c, operation, read, next) ==
  /\ step[c] = "idle"
  /\ step' = [step EXCEPT ![c] = next]
  /\ what' = [what EXCEPT ![c] = operation]
  /\ seen' = [seen EXCEPT ![c] = read]
  /\ met' = [d \in Calls |-> IF d = c THEN Others(c)
                             ELSE IF d \in Others(c) THEN met[d] \union {c}
                             ELSE met[d]]
  /\ UNCHANGED <<who, counted>>

To(c, next) ==
  /\ step' = [step EXCEPT ![c] = next]
  /\ UNCHANGED <<what, who, counted, seen, met>>

\* Where a call goes on when the user is registered, or no longer is.
After(c) ==
  CASE what[c] = "create"    -> "opting"
    [] what[c] = "subscribe" -> "seeking"
    [] what[c] = "remove"    -> "cancelling"
    [] OTHER                 -> "answered"

-----------------------------------------------------------------------------
(* Requests *)

Register(c) ==
  /\ Begin(c, "register", "none", "finding")
  /\ UNCHANGED <<docVars, viewVars>>

\* create(), with notifications.
Create(c) ==
  /\ Begin(c, "create", "none", "finding")
  /\ UNCHANGED <<docVars, viewVars>>

SubscribeAlwaysMutant(c) ==
  /\ Begin(c, "subscribe", "none", IF goal[who[c]] = "active" THEN "answered" ELSE "finding")
  /\ UNCHANGED <<docVars, viewVars>>

\* subscribeOnEngagement(): create() without notifications.
Subscribe(c) ==
  /\ Begin(c, "subscribe", "none",
           IF goal[who[c]] \in {"active", "cancelled"} THEN "answered" ELSE "finding")
  /\ UNCHANGED <<docVars, viewVars>>

Unregister(c) ==
  /\ Begin(c, "unregister", "none", "deleting")
  /\ UNCHANGED <<docVars, viewVars>>

RemoveRegisteredMutant(c) ==
  /\ goal[who[c]] # "none"
  /\ Begin(c, "remove", goal[who[c]], "cancelling")
  /\ UNCHANGED <<docVars, viewVars>>

\* remove(): the goal read is the one saved at the end.
Remove(c) ==
  /\ goal[who[c]] # "none"
  /\ Begin(c, "remove", goal[who[c]], "deleting")
  /\ UNCHANGED <<docVars, viewVars>>

\* update(): any status.
Patch(c, status) ==
  /\ goal[who[c]] # "none"
  /\ Begin(c, "patch", "none", "answered")
  /\ goal' = [goal EXCEPT ![who[c]] = status]
  /\ UNCHANGED <<registration, attendees, viewVars>>

-----------------------------------------------------------------------------
(* getSummary() *)

\* GET, answered with what is there or with nothing.
Home(c) ==
  /\ \E found \in {remote[who[c]], "none"} : Begin(c, "home", found, "fetching")
  /\ UNCHANGED <<docVars, viewVars>>

\* What Redis held is put into memory; otherwise memory is asked.
Fetched(c) ==
  /\ step[c] = "fetching"
  /\ memory' = IF seen[c] = "none" THEN memory ELSE [memory EXCEPT ![who[c]] = seen[c]]
  /\ To(c, IF seen[c] = "none" /\ memory[who[c]] = "none" THEN "building" ELSE "answered")
  /\ UNCHANGED <<docVars, listed, remote, undeleted>>

\* buildSummary(), of which this user's registrations matter.
Build(c) ==
  /\ step[c] = "building"
  /\ step' = [step EXCEPT ![c] = "caching"]
  /\ seen' = [seen EXCEPT ![c] = Truth(who[c])]
  /\ UNCHANGED <<docVars, viewVars, what, who, counted, met>>

Cache(c) ==
  /\ step[c] = "caching"
  /\ remote' \in {remote, [remote EXCEPT ![who[c]] = seen[c]]}
  /\ To(c, "keeping")
  /\ UNCHANGED <<docVars, listed, memory, undeleted>>

Keep(c) ==
  /\ step[c] = "keeping"
  /\ memory' = [memory EXCEPT ![who[c]] = seen[c]]
  /\ To(c, "answered")
  /\ UNCHANGED <<docVars, listed, remote, undeleted>>

-----------------------------------------------------------------------------
(* register() and unregister() *)

Find(c) ==
  /\ step[c] = "finding"
  /\ To(c, IF Registered(who[c]) THEN After(c) ELSE "inserting")
  /\ UNCHANGED <<docVars, viewVars>>

InsertUncountedMutant(c) ==
  /\ step[c] = "inserting"
  /\ IF Registered(who[c])
       THEN registration' = registration /\ To(c, After(c))
       ELSE /\ registration' = [registration EXCEPT ![who[c]] = "registered"]
            /\ To(c, "invalidating")
  /\ UNCHANGED <<goal, attendees, viewVars>>

\* userId and activityLegacyId are unique.
Insert(c) ==
  /\ step[c] = "inserting"
  /\ IF Registered(who[c])
       THEN registration' = registration /\ To(c, After(c))
       ELSE /\ registration' = [registration EXCEPT ![who[c]] = "registered"]
            /\ To(c, "counting")
  /\ UNCHANGED <<goal, attendees, viewVars>>

Delete(c) ==
  /\ step[c] = "deleting"
  /\ registration' = [registration EXCEPT ![who[c]] = "none"]
  /\ To(c, IF Registered(who[c]) THEN "counting" ELSE After(c))
  /\ UNCHANGED <<goal, attendees, viewVars>>

\* syncAttendeeCounts(): aggregate, store, and refresh the lookup cache from
\* what is stored.
Count(c) ==
  /\ step[c] = "counting"
  /\ step' = [step EXCEPT ![c] = "storing"]
  /\ counted' = [counted EXCEPT ![c] = Cardinality(Attending)]
  /\ UNCHANGED <<docVars, viewVars, what, who, seen, met>>

StoreDifferenceMutant(c) ==
  /\ step[c] = "storing"
  /\ attendees' = IF Registered(who[c]) THEN attendees + 1 ELSE attendees - 1
  /\ To(c, "listing")
  /\ UNCHANGED <<registration, goal, viewVars>>

Store(c) ==
  /\ step[c] = "storing"
  /\ attendees' = counted[c]
  /\ To(c, "listing")
  /\ UNCHANGED <<registration, goal, viewVars>>

List(c) ==
  /\ step[c] = "listing"
  /\ step' = [step EXCEPT ![c] = "showing"]
  /\ counted' = [counted EXCEPT ![c] = attendees]
  /\ UNCHANGED <<docVars, viewVars, what, who, seen, met>>

Show(c) ==
  /\ step[c] = "showing"
  /\ listed' = counted[c]
  /\ To(c, "invalidating")
  /\ UNCHANGED <<docVars, homeVars>>

InvalidateRedisAloneMutant(c) ==
  /\ step[c] = "invalidating"
  /\ \E left \in {remote[who[c]], "none"} :
       /\ remote' = [remote EXCEPT ![who[c]] = left]
       /\ undeleted' = IF left = "none" THEN undeleted ELSE undeleted \union {c}
  /\ To(c, After(c))
  /\ UNCHANGED <<docVars, listed, memory>>

\* invalidateHomeForUser(): memory first, and DEL, which may leave what is there.
Invalidate(c) ==
  /\ step[c] = "invalidating"
  /\ memory' = [memory EXCEPT ![who[c]] = "none"]
  /\ \E left \in {remote[who[c]], "none"} :
       /\ remote' = [remote EXCEPT ![who[c]] = left]
       /\ undeleted' = IF left = "none" THEN undeleted ELSE undeleted \union {c}
  /\ To(c, After(c))
  /\ UNCHANGED <<docVars, listed>>

-----------------------------------------------------------------------------
(* The goal *)

\* optInWechatActivityUpdates(): without a registration it is a 404 ...
Look(c) ==
  /\ step[c] = "opting"
  /\ To(c, IF Registered(who[c]) THEN "flagging" ELSE "refused")
  /\ UNCHANGED <<docVars, viewVars>>

\* ... and one that is deleted since is updated in vain.
OptIn(c) ==
  /\ step[c] = "flagging"
  /\ registration' = IF Registered(who[c]) THEN [registration EXCEPT ![who[c]] = "optedIn"]
                     ELSE registration
  /\ To(c, "seeking")
  /\ UNCHANGED <<goal, attendees, viewVars>>

Seek(c) ==
  /\ step[c] = "seeking"
  /\ step' = [step EXCEPT ![c] = "saving"]
  /\ seen' = [seen EXCEPT ![c] = goal[who[c]]]
  /\ UNCHANGED <<docVars, viewVars, what, who, counted, met>>

\* Mongoose's save() sends a status only if it differs from the one read;
\* userId, activity and kind are unique.
SaveStatus(c, status) ==
  goal' = IF seen[c] = status THEN goal ELSE [goal EXCEPT ![who[c]] = status]

SaveActive(c) ==
  /\ step[c] = "saving"
  /\ IF seen[c] = "none" /\ goal[who[c]] # "none"
       THEN goal' = goal /\ To(c, "refused")
       ELSE SaveStatus(c, "active") /\ To(c, "answered")
  /\ UNCHANGED <<registration, attendees, viewVars>>

SaveCancelled(c) ==
  /\ step[c] = "cancelling"
  /\ SaveStatus(c, "cancelled")
  /\ To(c, "answered")
  /\ UNCHANGED <<registration, attendees, viewVars>>

-----------------------------------------------------------------------------
\* The 45 seconds of a cached summary are over, in Redis or in memory (where it may be
\* kept for 600, and is dropped when there are too many).
Forget(u) ==
  /\ \/ remote' = [remote EXCEPT ![u] = "none"] /\ memory' = memory
     \/ memory' = [memory EXCEPT ![u] = "none"] /\ remote' = remote
  /\ UNCHANGED <<docVars, listed, undeleted, callVars>>

\* The process dies, or MongoDB cannot be reached.
Lost(c) ==
  /\ step[c] \in InFlight
  /\ To(c, "cutShort")
  /\ UNCHANGED <<docVars, viewVars>>

Arrive(c) ==
  \/ Register(c) \/ Create(c) \/ Subscribe(c) \/ Unregister(c) \/ Remove(c) \/ Home(c)
  \/ \E status \in GoalStatuses : Patch(c, status)

Proceed(c) ==
  \/ Find(c) \/ Insert(c) \/ Delete(c) \/ Count(c) \/ Store(c) \/ List(c) \/ Show(c)
  \/ Invalidate(c) \/ Look(c) \/ OptIn(c) \/ Seek(c) \/ SaveActive(c) \/ SaveCancelled(c)
  \/ Fetched(c) \/ Build(c) \/ Cache(c) \/ Keep(c) \/ Lost(c)

Next ==
  \/ \E c \in Calls : Arrive(c) \/ Proceed(c)
  \/ \E u \in Users : Forget(u)

Spec == Init /\ [][Next]_vars

-----------------------------------------------------------------------------
(* Safety *)

CutShort == {c \in Calls : step[c] = "cutShort"}

\* Calls that may have changed a registration.
Registering == {c \in Calls : what[c] \notin {"home", "patch"}}

\* Once nobody counts, the stored number of attendees and the listed one are the
\* number of registrations: unless two calls that count overlapped, or one was
\* cut short.
CountSettles ==
  (\A c \in Calls : step[c] \notin Syncing)
     => \/ attendees = Cardinality(Attending) /\ listed = attendees
        \/ \E c \in Registering : c \in CutShort \/ met[c] \cap Registering # {}

\* c ended, or will, without having seen to the cached summary of its user: it was cut
\* short, Redis did not delete what it held, or a summary that was read or computed beside
\* c may have been stored after c was done.
Hindered(c) ==
  \/ step[c] = "cutShort"
  \/ c \in undeleted
  \/ \E d \in met[c] : what[d] = "home" /\ who[d] = who[c]

\* A summary in Redis or in memory is wrong about its user only until the call that
\* changed his registration has invalidated it: unless that was hindered.
HomeSettles ==
  \A u \in Users :
     \/ {remote[u], memory[u]} \subseteq {"none", Truth(u)}
     \/ \E c \in Registering :
          who[c] = u /\ (step[c] \in Syncing \union {"invalidating"} \/ Hindered(c))

Undisturbed(u) ==
  /\ \A c \in Calls : who[c] = u => step[c] \notin InFlight \union {"cutShort"}
  /\ \A c, d \in Calls : who[c] = u /\ who[d] = u => d \notin met[c]

\* Who only creates and removes goals, or engages, one request at a time, is
\* registered if and only if his goal is active: removing unregisters before
\* it cancels, and engagement does not subscribe again who has cancelled.
GoalMatchesRegistration ==
  \A u \in Users :
     Undisturbed(u) /\ (\A c \in Calls : who[c] = u /\ step[c] # "idle"
                            => what[c] \in {"create", "subscribe", "remove", "home"})
        => (goal[u] = "active" <=> Registered(u))

\* Engagement never undoes a cancellation: the call whose step makes a cancelled goal
\* active is its user's own create or patch, or an engagement that was in flight together
\* with the cancellation and so may have looked before it was saved.
CancellationStands ==
  [][\A u \in Users : goal[u] = "cancelled" /\ goal'[u] = "active"
        => \E c \in Calls :
             /\ who[c] = u /\ step[c] # "answered" /\ step'[c] = "answered"
             /\ \/ what'[c] \in {"create", "patch"}
                \/ /\ what[c] = "subscribe"
                   /\ \E d \in met[c] : who[d] = u /\ what[d] \in {"remove", "patch"}]_vars
=============================================================================
