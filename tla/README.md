# A TLA+ model of sync-app-backend

sync-app-backend is the NestJS backend of a festival companion app: users pick an
activity (a festival), get a travel guide generated by an LLM pipeline, plan
their lineup, find a squad, and share a trip plan with friends.  It is one Node
process with MongoDB as the only durable store and Redis as an optional one
(locks, rate counters, caches); everything that Redis does has a fallback in the
memory of the process.

This directory holds TLA+ modules for the parts of it whose correctness depends
on the order in which things happen, TLC instances that check them, and TLAPS
proofs of what the instances show for every value of the constants.

Paths below are relative to `src/modules/` of the repository, or to its root if
they start with `src/` or `packages/`.  `PROJECT.json` maps every definition to the lines it models.

## 1. Inventory

### How the system runs

JavaScript runs to completion: a handler is atomic between two `await`s and
anything may happen at one.  So the interleavings to consider are those of
requests, job runners and timers *at their awaits*, plus the death of the process
(which takes every invocation and every Map in memory with it and leaves MongoDB
and Redis), plus Redis commands that fail: `src/redis/redis.service.ts` gives up on
a command after five seconds, never reconnects (`retryStrategy` is null), and swallows
every error, so that a GET reads "no such key" and a SET or DEL may not have happened.
In the models any command may fail, singly or all of them from some point on.  A
command that timed out took effect at once or never: the one connection keeps the order of
commands, so no later command of this process sees the difference.

There are no MongoDB transactions anywhere: a handler that reads,
checks and writes is three steps.

### Components

| Component | State | Operations | Talks to | What is hard | What makes it correct |
|---|---|---|---|---|---|
| Map request limiter `travel-guide/map/map-api-rate-limiter.ts` | queue, `active`, `windowStarts`, `drainScheduled` | enqueue, drain loop, completion | `AmapMapService` | several scheduleDrain() calls at any await, two kinds of sleep, pruning | concurrency and rate limits, one loop, no stranded call, FIFO |
| Guide generation `travel-guide/travel-guide-generation-orchestrator.service.ts` | none of its own | `generate()` | guard, plan cache, saved plans, LLM, map | ownerless TTL lock, GET-then-SET, lookups before and after the lock, an unawaited return in a try/finally | lock accounting, a refusal is truthful, no degraded plan is served to others |
| Guard `travel-guide/travel-guide-guard.service.ts` | lock key, rate counter | acquire, release, assertCanGenerate | Redis | two modes, expiry while held | as above |
| Plan cache `travel-guide/travel-guide-generation-cache.service.ts` | plan per parameter hash | exact and fuzzy lookup, write | MongoDB | writers that overlap | holds complete plans only |
| Generation jobs `travel-guide/travel-guide-generation-job.service.ts` | job documents (status, updatedAt, plan) | createJob, runJob, getJob | generation, MongoDB | find-then-create, staleness, re-kicks, runners that die and documents that do not | runs once, ends once, one active job per key, not abandoned |
| Saved plans `travel-guide/travel-guide-saved-plan.service.ts`, `persistence/` | plan per guideId, owner, form, trip | upsert, claim, updateForm, updateBudgetTier, quote write-back | generation, Raven controller, trips | four writers of one document, two of which read first | one claim at a time, form and plan belong together, no answered change disappears |
| Trip membership `trip-plan/trip-plan.service.ts` | trip plan: owner, memberIds, share token, `__v` | create, generateShareToken, joinByToken, removeMember, leave, delete | collaboration, guides | whole-array write-back under Mongoose's version check, delete and re-create under a call | membership changes are atomic, the owner stays |
| Trip collaboration `trip-plan/trip-plan-collaboration.service.ts`, overlay | links to ledger, itinerary, guide; member overlays | link, resolveShared…, patchOverlay | guides, ledger, itinerary | two documents written one after the other, read-merge-write | guide and trip name each other |
| Clash resolution `itinerary/clash-resolution.service.ts` | resolutions, timetable and route version, journey/deferred | resolve, invalidateForScheduleChange | schedule service, itinerary | versions compared with what was read, not enforced on the write; a seeding in between | decisions survive, old ones are marked, refusals have reasons |
| Clash detection `itinerary/domain/lineup-conflict.util.ts` | none | classify a pair, options, suggestion, conflicts of a lineup | clash resolution, lineup discovery | boundaries of gap, walk and buffer | reported exactly when both sets cannot be watched |
| Squad connections `festival-squad/` | profiles, requests | request, answer, cancel, delete profile | account risk, notifications | answer against cancellation, request against deletion | a request is answered once |
| Account risk `account-risk/` | violations, restriction | report, sanction, lazy expiry | most modules | counts read before, expiry against a ban | sanctions do not get milder by a race |
| Goals, registrations, attendee counts `goal/`, `activity/` | goal, registration, count and its copy in the catalogue, cached home summary | create, update, remove, subscribeOnEngagement, register, unregister, opt in, sync | home summary, set votes, itinerary, ledger, guides | two documents and two counts written by calls that overlap | goal and registration agree, counts and summary converge, a cancellation stands |
| Sessions `auth/auth.service.ts` | token version, its cache | login, logout, verify | read caches | a read in flight during logout | a revoked token is refused |
| Read caches `src/infra/cache/` | Redis and memory entries | get, set, delete | most readers | two levels, failing commands, reads in flight during an invalidation | an invalidated value does not come back, but for these |

The remaining components (ledger, receipts, itinerary generation, schedule and
catalogue, set votes, phone and e-mail login, public rate limits, media
security, notifications, users, providers, LLM, budget and plan assembly, read
models, content tools, feedback, vector store) are listed with the reason they
are left out in `PROJECT.json`, "components".  `PROJECT.json`, "hazards" lists
what is hard to test in this code line by line, with the properties that would
catch it, or why none does.

### How the modelled components interact

A client calls `createJob()`, which answers with a job id and kicks `runJob()`
without awaiting it; the runner calls `generate()`, the same method that a
direct request calls; `generate()` takes the guard's lock, reads and writes the
plan cache, makes map requests through the limiter, and upserts the saved plan
before its promise resolves; the runner then writes the outcome over the job
document the client polls.  The upsert first resolves the trip of its user for the
activity and then writes the link on both sides.  Lineup discovery evaluates an
artist against the timetable and the traveller's decisions, and posts one of the
options it was offered to `resolve()`; the seeding of the itinerary catalogue
changes the timetable and then marks the decisions.  Saving a plan, an itinerary, a ledger or a
vote subscribes its user to the activity (`subscribeOnEngagement`), which
registers him, counts, and invalidates his home summary.

## 2. Modules

| Module | Models | Role |
|---|---|---|
| `RateLimitedCalls` | what callers of the limiter are promised | abstract specification |
| `MapApiRateLimiter` | `map-api-rate-limiter.ts` | implements it |
| `TravelGuideGeneration` | orchestrator `generate()`, lock, plan cache, saved plan, Redis | |
| `GenerationJobLife` | what who polls a job is promised | abstract specification |
| `TravelGuideGenerationJobs` | `travel-guide-generation-job.service.ts` | EXTENDS `TravelGuideGeneration`: a job is one of its callers; implements the former |
| `TripTeam` | what members of a trip are promised | abstract specification |
| `TripMembership` | `trip-plan.service.ts` | implements it |
| `SavedPlan` | one guide and the trips that link to it: saved-plan service, repository, collaboration, Raven controller | |
| `GoalRegistration` | `goal.service.ts`, `activity-registration.service.ts`, attendee counts, home summary | |
| `LineupClashes` | `lineup-conflict.util.ts`, as operators | used by the next |
| `ClashResolution` | `clash-resolution.service.ts`, the seeding of the timetable | EXTENDS the former |
| `ConnectionRequests` | what users are promised about their requests | abstract specification |
| `SquadConnections` | `festival-squad.service.ts` and its repository | implements it |
| `MC…` | finite instances | |
| `…Proofs` | theorems | |

Operators whose names end in `Mutant` are plausible bugs kept next to the
definition they distort.  No specification uses them; `PROJECT.json`, "mutants",
names for every property a mutant that violates it.

### MapApiRateLimiter

`queue`, `active` and `drainScheduled` are the fields of the source.
`windowStarts` is not a variable: the model keeps the log of *all* starts and
the position `head` of the first one not yet pruned, so a property can speak of
starts the code has forgotten.  `loopPc[l]` tells whether an invocation of
`drainLoop()` runs (`ready`), sleeps or has returned.  A ready loop is running
JavaScript, so every other action requires `Quiescent`.  `Enqueue`, `Settle` (the
`finally` of a call), `LoopExit`, `LoopAwaitSlot`, `LoopAwaitConnection`,
`LoopStart` and `LoopWake` are the ways control moves; `Tick` is the clock, which
may run past a timer (timers fire late), and which is taken to be monotonic.

`KeepsPromise` is the refinement: calls start in the order they were submitted,
within both limits, and the queue's loop and timers are invisible.

### TravelGuideGeneration

One user and one set of parameters: one lock key, one cache key, one guideId.
`phase[c]` is where an invocation of `generate()` stands; each phase ends at an
await of the code.  A plan is a number in the order of making; `shells` are
those the pipeline made after the LLM and the map fallback failed, which the
code must not cache.  The lock exists or not (`lock`); `holds[c]` says that `c`
passed `acquireGenerationLock` and has not yet run its `finally`.  In memory mode
test-and-set is one action (`AcquireMemory`); with Redis it is `RedisGet` and
`RedisSet`, because the code sends GET and then SET … EX.  `Release` deletes the
key whoever holds it.  `Unreliable` says which of the three commands may fail: a GET
then reads no key, a SET sets none, and a DEL leaves the key behind with nobody holding it.
`left` is a history of who ended without deleting the key since it last was absent.
`saved[c]` is the plan that caller `c` has stored under its guideId.

Two details of control carry the interesting behaviours.  `return
this.finishWithPlan(…)` in the pipeline's `try` is not awaited, so with Redis the
plan is persisted *while* `finally` awaits the release (both orders are allowed;
in memory mode the release needs no I/O and comes first).  And if that persist
fails while the release is pending, nothing handles the rejection yet:
`PersistFailsUnhandled` ends the process, as Node does and as no
`unhandledRejection` handler in the repository prevents.

### TravelGuideGenerationJobs

Documents (`status`, `fresh`, `jobPlan`) survive a crash, runners and kicks do
not.  `fresh` abstracts `updatedAt`: `isStaleActiveJob()` compares it with 90 s
or 4 min, every write to a document renews it, `GoesStale` lets the time
pass.  `createJob()` is one action up to its first await that matters and one for
each write after it: `CreateForced`, `CreateNoneFound`, `CreateStaleFound`,
`CreateDeduped`, then `FailStale` and `CreateDoc`.  `runJob()` is `RunStarts` (the
guarded pending → running update, followed by the call of `generate()`),
`RunYields` (the update matched nothing), `Complete` and `Fail` (written by
jobId alone, as in the code).  `Generate(c)` is any step of
`TravelGuideGeneration`, with the progress reports that renew a document.

The dedupe key contains the guideId, so in the instances of this module all
requests of a key carry one.

`KeepsLife` is the refinement: of the status, the plan and the runner of a job,
who polls it sees that it is worked on once and keeps the one plan it delivered;
kicks, the lock, take-overs and the steps of `createJob()` are invisible.
`GenerationJobLife` is deliberately weak where the code is: any job may be given up
by another request, also one that completed just now, and one that was given up
while it was worked on may still deliver.

### TripMembership

One owner and one activity, hence at most one plan at a time.  A call reads the
document and checks (`Create`, `Share`, `Join`, `Remove`, `Leave`, `Delete`, or
`Refused`), other calls run, and it writes (`Insert`, `SaveToken`, `SavePush`,
`SaveFiltered`, `DeleteOne`) or fails (`SaveFails`, `Lost`).  Mongoose decides what
`save()` sends and when it fails, which is external to the repository: changed
paths only; a `push` becomes `$push` and increments `__v`; an assigned array
becomes `$set` and requires the `__v` that was read; a vanished document is an
error.  The order of `memberIds` has no effect, its multiplicities do (`copies`:
a user who joins twice at once is in it twice).

`KeepsTeam` is the refinement: every answered call took effect on the set of
members atomically, every refused one had none.

### SavedPlan

One guideId and one activity.  `guide` is the document (owner, plan, form, trip),
`trips` the trips of the activity by id, with owner, members and what last set their guideId to this guide (`by`: a
call, or `Patch`, or nothing), `mine[c]` what call `c` read of the guide, and
`what[c]` which of the writers it is: a generation (upsert), a claim of a public
guide, a form edit, a change of the budget tier, a refresh of quotes.  Each writer is the sequence of
its reads and writes, and what it sends is what the repository sends: `upsertPlan`
sets owner, form and plan together whatever is there; `claimPublicPlan` is one
conditional update; `updatePlan` sets the plan alone.  A plan is the call
that generated it; a form carries the plan it describes (`of`) and the calls whose
changes it contains.  Each owner has one trip for the activity and may be a member of
others: `Resolve` picks one with most members (`Largest`; ties are broken by time in the code and freely in
the model), `SaveTrip` writes the guideId only if the trip named another guide when it was read, as Mongoose
does, and `TripUpdated` is `TripPlanService.update()`, which sets or clears a guideId and
tells no guide.  The two reads of `assertGuideAccess` count as one.

### GoalRegistration

One activity, one goal kind.  `goal[u]`, the registrations, `attendees` (the stored
count), `listed` (the copy in the lookup catalogue) and the cached home summary
change in separate steps of a call, because the code awaits each.  The summary is in two places,
`remote` (Redis) and `memory`: `Home` asks the one and `Fetched` puts what it held
into the other, `Build`, `Cache` and `Keep` make and store a new one, and `Invalidate` clears memory and
sends a DEL that may leave what is there (`undeleted`).  So a read in flight puts a
deleted summary back, as in the code.  `met[c]` records
the calls that were in flight together with `c`; it is there for the properties
only.  With a single kind the `deleteOne` branch of `remove()` is not
reached.  `subscribeOnEngagement` is called by set votes, itineraries, ledgers and saved
plans; who calls it makes no difference to it.

### LineupClashes and ClashResolution

`LineupClashes` has no state: times are minutes, a slot is a record, and
`Classify`, `Options`, `Suggestions` and `DetectConflicts` are the functions of the
source over *sets* of artists (which of a pair is called A is the order of the
selection and only affects wording and ids).  `PrimarySlot` is `pickPrimarySlot()`,
which takes the earliest slot whatever its day: an artist who plays on two days is
checked for one of them, and `ClashesReported` therefore speaks of artists who play once.

In `ClashResolution` a call is one `resolve()`: `Load` (timetable and its version),
`Read` (state and route version), `Store`, then `Look` and `Create` for the
itinerary of a signed-in traveller.  `Ask` is the client: an option of a conflict it
was shown, looking at one weekend or at all (`Views`), and the versions it names, of the timetable it was
shown and of its route (`Namings`; the instance has clients that name both and clients that name neither).
`resolve()` compares with the version of the whole timetable, so a client that looked at one weekend of
two is refused a version that is current.  `ask` also notes, for the properties only, what was stored when the client looked.
The fingerprint of a timetable is the timetable.  `Seed` is a write of the performances at
startup and `Mark` is `invalidateForScheduleChange()` after it; calls run in
between.  `IndexAdmits` is what the compound sparse indexes make of states that lack one of
the two ids: of the signed-in travellers of an event only one can have a state, and of the
anonymous ones one; the others get a duplicate-key error.

### SquadConnections

Profiles have ids that are never reused, one per user at a time; a request goes
from profile to profile.  `createConnectionRequest()` looks at both profiles and at earlier
requests and then inserts, `updateConnectionRequest()` (accepting, declining and
cancelling) reads a request, checks it and saves, and `deleteProfile()` first
deletes the requests of the profile and then the profile.  Of the three flags
that close a profile, `hideProfile` is modelled; the others are compared at the same
place.  `stirred[c]` and `met[c]` record which owners changed a profile and
which calls ran while `c` was in flight.

`KeepsPromise` is the refinement: each write is one step of `ConnectionRequests`, by a
party of the request, and every read a stutter.  The specification allows a decision to take
the place of another, which the code does when two overlap.

## 3. Runs

| Run | Instance | Properties |
|---|---|---|
| `limiter` | 4 calls, 2 loops, 2 at once, 2 per window of 2 ticks | `TypeOK`, `ConcurrencyBound`, `SingleDrainLoop`, `NoStrandedCall`, `SlidingWindow`, `KeepsPromise`, `EveryCallSettles` |
| `generation` | 3 callers, plain or forced, both Redis modes, failing commands, 2 expiries, 1 crash | `GenTypeOK`, `LeaseAccounting`, `NoLeakedLock`, `NoShellServed` |
| `jobs` | 2 clients, 2 documents, both modes, failing commands, 1 expiry, 1 crash | `JobTypeOK`, `RunsOnce`, `SequentialDedupe`, `CompletedIsSaved`, `NoOrphan`, `KeepsLife` |
| `jobs_live` | 1 document, 1 direct caller, 2 clients, memory mode, 1 expiry | `EveryJobEnds` |
| `trip_membership` | owner and 2 friends, 6 calls | `TypeOK`, `OwnerStays`, `VersionTellsMembers`, `KeepsTeam` |
| `saved_plan` | 2 accounts and an anonymous client, 3 calls, 2 trips, 1 expiry | `TypeOK`, `ClaimsAccounted`, `FormMatchesPlan`, `ChangesSurvive`, `LinkAgrees` |
| `goal_registration` | 2 users, 3 calls | `TypeOK`, `CountSettles`, `HomeSettles`, `GoalMatchesRegistration`, `CancellationStands` |
| `clash_resolution` | 3 travellers (1 signed in), 2 calls, 2 artists, 2 views, 4 timetables, 1 seeding | `TypeOK`, `ClashesReported`, `ChoicesSurvive`, `UnmarkedExplained`, `RefusalsExplained` |
| `squad_connections` | 2 users, 3 calls, 3 profiles, 2 requests | `TypeOK`, `RequestsMatchProfiles`, `AnswersFinal` |
| `forced_runs_pipeline` | 2 callers, memory mode | `ForcedRunsPipeline` violated |
| `one_generation_in_flight` | 2 callers, Redis, no command fails | `OneGenerationInFlight` violated |
| `one_active_job` | 2 clients, memory mode | `OneActiveJob` violated |

What they show:

- **The limiter is right.**  Both limits hold over every interleaving, as a
  *sliding* window over all starts and not only over those the code remembers;
  at most one loop is ever alive; no call is lost.  The wait of `Grace` (5 ms) is
  what makes a loop find the window free when it wakes.
- **The generation lock is weaker than it reads.**  In memory it admits at most
  one generation more per TTL expiry (`LeaseAccounting`); expiry does not
  compound, although whoever finishes deletes the lock of whoever holds it.
  With Redis two generations pass together without any expiry
  (`one_generation_in_flight`; the comment at `travel-guide-guard.service.ts:58`
  says otherwise).  A lock that is taken belongs to a running generation, or, in
  Redis only, to one that ended without deleting it since the key was last absent, because its DEL failed or
  the process died (`NoLeakedLock`): the early exits all release.
- **`forceRegenerate` may be answered from the cache** it asks to skip
  (`forced_runs_pipeline`), by the lookup after a denied lock: of two forced calls the second gets the
  similar plan that was cached before both;
  `packages/travel-guide-contracts/dto.ts:26` says that it forces the whole
  pipeline.
- **Tip shells stay private** (`NoShellServed`): no lookup, race or quote
  write-back serves one to anybody but the caller it was made for.
- **Jobs run once, end for good and keep the plan they delivered** (`RunsOnce`, `KeepsLife`),
  however often they are kicked and whoever gives them up; that plan is the one the job's own run stored
  under the guideId (`CompletedIsSaved`).  Active jobs are worked on unless the process that was to do so
  died (`NoOrphan`), also those created or kicked after a restart.  Deduplication holds when `createJob()` calls
  do not overlap (`SequentialDedupe`) and fails when they do (`one_active_job`;
  the schema's comment says "dedupe in-flight jobs per user").
- **Trip membership is atomic** thanks to Mongoose's version check on assigned
  arrays, and the owner always belongs to his plan.
- **A guide can be claimed twice only if it was given back** (`ClaimsAccounted`): the
  conditional update admits one claim however many overlap, but an anonymous
  regeneration, or a form edit that had read the guide as public, makes it public
  again; `travel-guide-saved-plan.service.ts:119` says "once".
- **Writers of a guide can undo each other**, in the ways `FormMatchesPlan`,
  `ChangesSurvive` and `LinkAgrees` enumerate: a refresh or tier
  change puts an older plan under a newer form; of two form edits that overlap one
  disappears; a trip that a call has linked is not named by the guide while or after that call is between its two
  writes, after the guide expired, or when another call linked another trip.
  `LinkAgrees` is about the links that calls make.  A trip whose guideId was patched names a guide that
  knows nothing of it, and a patch that clears a guideId leaves the guide naming the trip.  Members of a
  deleted trip get 404 for the guide.
- **Counts converge only when their writers do not overlap** (`CountSettles`): two
  syncs may store the older count last, and nothing but the next registration
  repairs it; a registration that dies before its sync is not repaired by a retry, which finds
  it there and counts nothing.
- **A cached summary is wrong only until it is invalidated** (`HomeSettles`), in Redis and in
  memory, unless the invalidating call was cut short, its DEL failed, or a summary was read or computed
  beside it: in the two latter cases a wrong one may be kept in memory for up to 600 seconds.
- **A cancelled goal stays cancelled for engagement** (`CancellationStands`): the step that makes it active again is
  of its user's own create or patch, or of an engagement in flight together with the cancellation.
- **Goal and registration agree for users who create, remove and engage**, one
  request at a time.  `PATCH` of a goal's status does not touch the registration and
  `DELETE` of the registration does not touch the goal; both are excluded
  by name in `GoalMatchesRegistration`.
- **Clashes are reported exactly**, at every boundary of gap, walk and buffer the
  timetables contain, whatever was decided before.
- **A decision is lost only to one made in ignorance of it** (`ChoicesSurvive`), and
  a decision about an older timetable is unmarked only if a seeding ran into
  it (`UnmarkedExplained`).  Deferred artists are not asked about again.
- **A refused decision has a reason** (`RefusalsExplained`): the client named a timetable that was written since or
  of which it saw one weekend only, or a route on which the traveller has decided since, or another
  traveller of its kind has a state (the unique index).
- **Answers are final** unless two answers, or an answer and a cancellation,
  overlap; a request at odds with a profile was made while that profile changed.

### Bounds, and why they are enough

- *limiter*: with limits of 2 and 4 calls a third start must wait for the window
  and a fourth for a connection; two loop identities suffice to exhibit a second
  loop (`SingleDrainLoop` proves that no more are ever needed).  `MaxLatency` = 3
  exceeds the window, so that a call outlasts it; the clock stops once nothing
  waits and the last start has left the window, since a longer idle time changes
  no comparison.
- *generation*: three callers are what it takes for the scenario "the first
  deletes the second's lock, a third gets in"; two expiries tell "at most one
  more per expiry" from "at most one more"; one crash separates before from after.
- *jobs*: two clients and as many documents as clients (a client creates at
  most one); one expiry and one crash.  *jobs_live* leaves out Redis and the crash,
  after which a job legitimately stays pending until a client finds it stale (so it says nothing of the
  process that ends by an unhandled rejection), and has a direct caller compete for the lock.
- *trip_membership*: create, share and two joins leave two more calls to race,
  which includes delete against join, removal against removal and re-creation.
- *saved_plan*: three calls make a generation, an edit and a claim (or two edits
  and a regeneration) overlap in every order; a second trip is another account's, with
  other members, or the one created after the first was deleted under a call.  `TripsBound` keeps the space small: a
  second trip appears only while at most two of the three calls have begun, and two calls link two trips.
- *goal_registration*: two users make a count of two, and of three calls two can
  overlap after a first has set goal and registration up.
- *clash_resolution*: two calls of one traveller are what losing a decision takes, a
  third traveller what the index of the anonymous takes (two of a kind), and one
  seeding can fall before, between and after the steps of both.  The four timetables hold a
  clash by overlap, one by walk and buffer alone, a gap that just suffices and a missing time; in the first one
  artist plays on both weekends, so that it shows in one view and not in the other.
- *squad_connections*: two users, so that a request may go both ways, three profiles,
  so that one is deleted and made again, and three calls: a request, an answer and a
  cancellation or deletion.
- Symmetry is used for callers, documents, clients, calls and friends in the runs
  that check safety only.  (`KeepsTeam` and `KeepsLife` are action
  properties without fairness, which symmetry preserves.)

`CHECK_DEADLOCK FALSE` everywhere: calls are finite in number and the system is
idle when all have ended.

### Fairness

The four modules last listed state no fairness: their properties are about what has been
done, or about moments when nothing is in flight.

- Limiter (`MCMapApiRateLimiter`): weak fairness of the loop and its timers (the
  event loop runs ready code and due timers), of the clock, and of every
  `Settle(c)`: a fetch ends, by answer, error or timeout.  Enqueueing owes nothing.
- Jobs (`MCTravelGuideGenerationJobs`): weak fairness of a client's remaining
  writes, of each runner and of each job's `generate()`: every I/O they await
  settles.  Arrivals, ageing, lock expiries, direct callers and crashes owe nothing;
  `EveryJobEnds` therefore holds even when a direct caller holds the lock for ever.

## 4. Proofs

`TLAPS` checks every theorem for all values of the constants, under the named
assumptions of the modules: `LimiterAssumption` (positive limits, grace and
poll), `GenerationAssumption` (types of the parameters; any of the Redis commands, or none, may fail), `JobsAssumption` (jobs
are callers), `MembershipAssumption` (the owner is a user), and the like of the
other modules.  `TimetableAssumption` is what `toClashPerformances()` filters: the
slots it hands on end after they begin.  `LineupClashesAssumption` takes a pair of
stages that is given in both directions to be given alike.  `GoalRegistrationAssumption`
takes the users to be finitely many, since their registrations are counted, and `ClaimsCounted` the
calls.  Otherwise no set is assumed finite: that only finitely many calls run or hold the lock is part of the
invariants, since every step adds at most one.

| Module | Theorems | Inductive invariant, and why it is needed |
|---|---|---|
| `MapApiRateLimiterProofs` | `TypeOK`, `ConcurrencyBound`, `SingleDrainLoop`, `NoStrandedCall`, `SlidingWindow`, `KeepsPromise` | `IInv` adds `QueueInv` (the queue holds calls that are queued, each once: otherwise a start could count a call that runs already) and `WindowInv` (what pruning forgot has expired and what it kept fits the limit: so a slot that is free in the pruned window is free in the log of all starts, which is what both `SlidingWindow` and the refinement are about). |
| `TravelGuideGenerationProofs` | `GenTypeOK`, `LeaseAccounting`, `NoLeakedLock`, `NoShellServed`; `InMemoryOneAtATime` | `LockInv` adds that a caller is between GET and SET only when Redis is enabled, so no SET falls into memory mode. `ShellInv` adds that neither `cache` nor `similar` is a shell: without it the quote write-back could store one. `InMemoryOneAtATime` follows from `LockInv`: in memory mode and before an expiry, the comment that `one_generation_in_flight` refutes is true, whatever has crashed. |
| `TravelGuideGenerationJobsProofs` | `JobsRunGenerate`, and with it `JobsNoShellServed` and `JobsLeaseSafe`; `JobTypeOK`, `RunsOnce`, `SequentialDedupe`, `CompletedIsSaved`, `NoOrphan`, `KeepsLife`; `NeverReactivated` | First `JobSpec => GenSpec`: each step of the job system is a step of `generate()` or leaves its variables alone, which lifts the generation theorems. Then `RunsInv` (a job nobody started has not run), `DedupeInv` (before `createJob()` creates a document it has dealt with the active one: the state between its two awaits), `GotInv` (who has answered has a plan, and with a guideId has stored this very plan) and `CompletedInv` (a document is completed from a `generate()` that answered and released). `LifeInv` carries the refinement of `GenerationJobLife`: nobody has run a job that is still to be started, and who runs one finds it running or failed, never completed, so that a plan is never delivered twice. |
| `TripMembershipProofs` | `TypeOK`, `OwnerStays`, `VersionTellsMembers`, `KeepsTeam`; `TripsAreAsSeen` | `SnapshotInv`: what a call read is never newer than the document, and an equal `__v` means equal members. It must hold of all calls and not only of those that save, because a version that has been passed never returns; ids are never reused, so a snapshot of a deleted plan can only fail. `OperationInv`: nobody saves the owner's removal. `KeepsTeam` maps each save or answer to one step of `TripTeam`, reads to answers or stuttering. `TripsAreAsSeen` composes: `SavedPlan` lets trips appear, change members and disappear beside its calls, and every step of `TripMembership` is one of these steps or leaves the trip as it is (`MovesStep`); what is proved of guides there does not rest on trips that behave better than the trip service. |
| `SavedPlanProofs` | `TypeOK`, `ClaimsAccounted`, `FormMatchesPlan`, `ChangesSurvive`, `LinkAgrees` | `CallInv` (what a call may hold at each step), `FormInv` (forms carry changes of answered calls only, so that a call that has yet to store has been seen by nobody), `ReadInv` (what `FormMatchesPlan` says of the guide holds of what an edit has read, which it is going to write back), `TripInv` (without a guide there is no link unless the guide expired; what a trip or the guide names was written by a call that had resolved that trip, and a call that has answered has left the guide linked). `ClaimsAccounted` counts with `Cardinality` and follows each claim and each write as public. |
| `GoalRegistrationProofs` | `TypeOK`, `CountSettles`, `HomeSettles`, `GoalMatchesRegistration`, `CancellationStands` | `MeetInv`: calls in flight together have met, so that an overlap is on record when it is over. On it: `CountInv` (while no counting calls overlapped, the number a call carries is the number of registrations), `SeenInv` (a summary read from Redis or about to be stored is right, or an invalidation was hindered), `GoalInv` (for a user whose calls do not overlap, how far the one in flight has brought goal and registration apart), `EngageInv` (an engagement under way while the goal is cancelled has met who cancelled it). |
| `ClashResolutionProofs` | `TypeOK`, `ClashesReported`, `RefusalsExplained`, `ChoicesSurvive`, `UnmarkedExplained`; `FirstSetsDecide`, `OneConflictEach`, `SplitsCanBeWalked`, `OptionsSettle`, `EvaluatingForetells`, `DecisionsInForce`, `RoutesTell` | First the operators: `NoneMeansBoth` (`Classify` says none if and only if both sets can be watched) and `Reports` (the conflicts found in a lineup). `Basis` is types and shapes of states. `SeenInv`: a version a client named is current, or of one weekend only, or something was written or decided since. `ChoiceInv`: decisions stand in what a call read as they do in the stored state, and states build on stored calls only. `CrossInv`: a call no seeding ran into holds the present timetable. `LastInForce` and `NoneMutual`: a state builds on one decision more than that decision had read, and no two build on each other, so that this is the last and there is one; it is in force. `CountInv`: a state, stored or read, has as many decisions as its route says, which needs `ChoiceInv` (a call is not in the lineage of what it read). |
| `SquadConnectionsProofs` | `TypeOK`, `RequestsMatchProfiles`, `AnswersFinal`; `RequestsAsPromised`, `PendingOnce` | `MeetInv` as above; `MadeInv` (a stored request is of a call that is done), `OpenInv` and `FoundInv` (a profile a call found open or there still is, or was changed or deleted beside it), `DeleteInv` (a deletion under way has yet to clear a request, or has met who made it), `AnswerInv` (a call that is about to answer a request that is no longer pending has met another answer to it). `PartyInv` carries the refinement: who answers does so to the request he read, whose ends he noted, and has the say when he writes, although profiles and requests may be gone by then. |

The theorems after a semicolon are not properties of a run.  Some say more of the
operators than an instance can:

- `FirstSetsDecide` says of any lineup and timetable what `ClashesReported`, which TLC checks, says of
  artists who play once: the earliest sets decide, whatever the later ones are.  A clash of later
  sets only is not found.  `OneConflictEach` and `EvaluatingForetells` say that the conflict
  of a pair does not depend on the lineup around it, so that what a client is shown
  before it adds an artist is what it gets.
- `SplitsCanBeWalked` and `OptionsSettle` say what the options are worth, and `DecisionsInForce`
  carries the latter through `Spec`: of the decisions of a traveller exactly one was stored last, timetables
  seeded later mark it but do not undo it, and the clash it settled is not found again.  An older decision may
  be lost, in the way that `ChoicesSurvive` describes.
- `RoutesTell` says what the version that `resolve()` compares can tell a client: it counts the
  decisions the state builds on, so that it grows with every decision until one is lost.

`RequestsAsPromised` is the refinement of the squad's requests; TLC confirms it on the instance of
`squad_connections`, where it adds minutes, so that no run repeats it.  `NeverReactivated` is
what `KeepsLife` says of statuses alone.

Only model-checked: the liveness properties `EveryCallSettles` and `EveryJobEnds`
(the prover does not reason about ENABLED and fairness).  Every other property of a passing run is
proved.  Nothing in the models needs a recursive definition.

## 5. What is abstracted or left out

- The rate limit of generations is a nondeterministic pass or refusal.  The TTLs
  of cached plans (7 days) and of job documents (1 hour) are not modelled, nor are
  failing MongoDB writes other than that of the saved plan.
- The lock's TTL is unrelated to the length of a pipeline: 45 s are shorter than
  LLM calls may take.
- The two reads of the lookup after a denied lock (exact, then fuzzy) count as one.
- The text of plans, quotes and progress is not modelled; refreshed quotes appear
  as the write-back of the plan that was read, which may overwrite a newer one.
- A superseded job may be completed by its late runner and a job completed just
  now may be failed by a client that found it stale; the code does not say that it
  should not.
- Membership: `update()` (an action of `SavedPlan`), readers and everything else a trip links to are left out; a
  removed member may join again with the same token, as in the code.
- Saved plans: what a form or a plan says; the access rules of readers.  A guide has
  one form and one tier, which count as parts of the form.
- Goals: the scheduled runs of `goal-orchestrator.service.ts`, kinds other than one, the
  festival plan summary (the code invalidates it but stores it nowhere).
- Clashes: priorities, reasons, wording and ids of conflicts; which artists an
  itinerary lists.  `setStagePairMinutes` and `setEventDefaultTransfer` have no caller, so
  transfer times are constants.  The seeding runs at startup only, if configured.
- Squad: what profiles say, the matcher and the listings, notifications.
- The restart after a crash may find Redis or not; a restart without Redis forgets
  the leftover key.

### Not modelled

Most lines of the repository are festival data, prompts, and sequential code that
computes the contents of plans (quotes, budgets, itineraries, scoring): they have no
interleaving to check, unit tests reach them, and a model of them would repeat
them.  That is why the mapped lines are a small share of all lines.  Of the parts that do have a protocol
the following are left out; the hazards of each are in `PROJECT.json` with the line:

- Account risk, sessions and token versions, the read caches other than the home summary and the
  snapshot of the activity lookup in Redis: small and independent of what is modelled.
- Member overlays of trips, the ledger and the links of both: read, merge and
  whole-document write without a version check, so that a lost update is the plain
  reading of the code.
- Rate counters (INCR and EXPIRE as two commands), SMS codes, receipt jobs (a
  simpler sibling of the generation jobs), account deletion.

## 6. Plan

Each module is written for proof as well as for checking (constants with named
assumptions, one action per operation, no recursion).  Done: the limiter, `generate()` and its
jobs, trip membership, saved plans, goals and registrations, clashes, squad connections.
What would come next, in this order:

1. `AuthSession`: a read in flight during a logout stores the old token version after
   it.  Property: a revoked token is refused once the TTL has passed.
2. `AccountRisk`: sanctions computed from counts read before, lazy expiry against a
   ban.  Property: the restriction in force is at least what the counted violations call for.
3. Trip collaboration composed with `TripMembership` and `SavedPlan` through the set
   of members: links and overlays of members only.
4. Liveness of the counts: with fairness of every call, after the last registration
   that overlaps no other the count is right.
