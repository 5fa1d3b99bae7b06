------------------------ MODULE TravelGuideGeneration ------------------------
(***************************************************************************)
(* travel-guide-generation-orchestrator.service.ts generate(), with the    *)
(* generation lock of travel-guide-guard.service.ts, the generation cache  *)
(* and the saved plan it writes, for one user and one set of parameters    *)
(* (one lock key, one cache key, one guideId).                             *)
(*                                                                         *)
(* Callers are invocations of generate(), by a request or by a job runner, *)
(* interleaved at their awaits.  The lock is a key with a TTL, in Redis or *)
(* in a Map of the process: it has no owner.  Plans are numbered in the    *)
(* order they are made; a plan's text is not modelled.  The TTL of a       *)
(* pipeline run is not related to its length: LLM calls outlast it.        *)
(***************************************************************************)
EXTENDS Integers, FiniteSets

CONSTANTS Callers,
          Requests,       \* the [force, guideId] fields the callers may send
          RedisModes,     \* whether Redis may answer, or not, at a start-up
          Unreliable,     \* the commands to Redis that may fail
          MaxExpiries,    \* bound on lock TTL expiries
          MaxCrashes      \* bound on process crashes

ASSUME GenerationAssumption ==
  /\ Requests \subseteq [force : BOOLEAN, guideId : BOOLEAN]
  /\ RedisModes \subseteq BOOLEAN
  /\ Unreliable \subseteq {"GET", "SET", "DEL"}
  /\ MaxExpiries \in Nat
  /\ MaxCrashes \in Nat

VARIABLES
  phase,      \* where each invocation of generate() stands
  request,    \* its dto
  source,     \* where its plan came from: a lookup (exact or similar), a lookup
              \* after the lock was denied (racing), or the pipeline
  got,        \* its plan
  holds,      \* it passed acquireGenerationLock and has yet to release
  lock,       \* the lock key exists
  left,       \* history: who ended without deleting it, since it last was absent
  redisEnabled, \* isEnabled(): Redis answered when the process started
  plans,      \* number of plans made so far
  shells,     \* the plans that are tip shells: LLM and map fallback failed
  cache,      \* plan cached under the exact key
  similar,    \* plan cached under a key that matches fuzzily
  saved,      \* the plan each caller stored under the guideId of its dto
  expiries,   \* history: how often the TTL ended a held lock
  crashes     \* history: how often the process died

callerVars == <<phase, request, source, got, holds>>
storeVars  == <<plans, shells, cache, similar, saved>>
lockVars   == <<lock, left, redisEnabled>>
genVars    == <<callerVars, storeVars, lockVars, expiries, crashes>>

NoPlan == 0

Phases == {"idle", "lookup", "limit", "acquire", "set", "racing", "enrich",
           "pipeline", "persist", "answered", "rejected", "dead"}

\* Who is about to be answered has a plan.
Provided ==
  \A c \in Callers : phase[c] \in {"enrich", "persist", "answered"} => got[c] # NoPlan

\* Types, and Provided.
GenTypeOK ==
  /\ phase \in [Callers -> Phases]
  /\ request \in [Callers -> [force : BOOLEAN, guideId : BOOLEAN]]
  /\ source \in [Callers -> {"none", "exact", "similar", "racing", "pipeline"}]
  /\ got \in [Callers -> 0 .. plans]
  /\ holds \in [Callers -> BOOLEAN]
  /\ lock \in BOOLEAN
  /\ left \subseteq Callers
  /\ redisEnabled \in BOOLEAN
  /\ plans \in Nat
  /\ shells \subseteq 1 .. plans
  /\ cache \in 0 .. plans
  /\ similar \in 0 .. plans
  /\ saved \in [Callers -> 0 .. plans]
  /\ expiries \in Nat
  /\ crashes \in Nat
  /\ Provided

Holders == {c \in Callers : holds[c]}

\* The promise of generate() has settled, or died with its process.
Ended(c) == phase[c] \in {"answered", "rejected", "dead"} /\ ~holds[c]

\* Plan 1 may be cached for these parameters and plan 2 for similar ones.
GenInit ==
  /\ phase = [c \in Callers |-> "idle"]
  /\ request = [c \in Callers |-> [force |-> FALSE, guideId |-> FALSE]]
  /\ source = [c \in Callers |-> "none"]
  /\ got = [c \in Callers |-> NoPlan]
  /\ holds = [c \in Callers |-> FALSE]
  /\ lock = FALSE
  /\ left = {}
  /\ redisEnabled \in RedisModes
  /\ plans = 2
  /\ shells = {}
  /\ cache \in {NoPlan, 1}
  /\ similar \in {NoPlan, 2}
  /\ saved = [c \in Callers |-> NoPlan]
  /\ expiries = 0
  /\ crashes = 0

Goto(c, p) == phase' = [phase EXCEPT ![c] = p]

-----------------------------------------------------------------------------
(* generate(), up to the lock *)

\* Validation passes or throws; forceRegenerate skips the cache lookup.
Call(c, r) ==
  /\ phase[c] = "idle"
  /\ request' = [request EXCEPT ![c] = r]
  /\ \/ Goto(c, IF r.force THEN "limit" ELSE "lookup")
     \/ Goto(c, "rejected")
  /\ UNCHANGED <<source, got, holds, storeVars, lockVars, expiries, crashes>>

\* findGeneratedPlan, then findSimilarGeneratedPlan.
Found == IF cache # NoPlan THEN cache ELSE similar

LookupHit(c) ==
  /\ phase[c] = "lookup"
  /\ Found # NoPlan
  /\ got' = [got EXCEPT ![c] = Found]
  /\ source' = [source EXCEPT ![c] = IF cache # NoPlan THEN "exact" ELSE "similar"]
  /\ Goto(c, "enrich")
  /\ UNCHANGED <<request, holds, storeVars, lockVars, expiries, crashes>>

LookupMiss(c) ==
  /\ phase[c] = "lookup"
  /\ Found = NoPlan
  /\ Goto(c, "limit")
  /\ UNCHANGED <<request, source, got, holds, storeVars, lockVars, expiries, crashes>>

\* assertCanGenerate(): the count of the window is not modelled.
RateLimit(c) ==
  /\ phase[c] = "limit"
  /\ Goto(c, "acquire") \/ Goto(c, "rejected")
  /\ UNCHANGED <<request, source, got, holds, storeVars, lockVars, expiries, crashes>>

-----------------------------------------------------------------------------
(* acquireGenerationLock() and releaseGenerationLock() *)

AcquireMemoryUncheckedMutant(c) ==
  /\ ~redisEnabled
  /\ phase[c] = "acquire"
  /\ Goto(c, "pipeline")
  /\ holds' = [holds EXCEPT ![c] = TRUE]
  /\ lock' = TRUE
  /\ UNCHANGED <<request, source, got, storeVars, left, redisEnabled, expiries, crashes>>

\* Process-local Map: test and set without an await in between.
AcquireMemory(c) ==
  /\ ~redisEnabled
  /\ phase[c] = "acquire"
  /\ \/ /\ lock
        /\ Goto(c, "racing")
        /\ UNCHANGED <<holds, lock>>
     \/ /\ ~lock
        /\ Goto(c, "pipeline")
        /\ holds' = [holds EXCEPT ![c] = TRUE]
        /\ lock' = TRUE
  /\ UNCHANGED <<request, source, got, storeVars, left, redisEnabled, expiries, crashes>>

\* A Redis command may fail, and the error is swallowed: a GET reads "no key",
\* a SET or a DEL has had its effect or has not.
RedisGet(c) ==
  /\ redisEnabled
  /\ phase[c] = "acquire"
  /\ \/ lock /\ Goto(c, "racing")
     \/ (~lock \/ "GET" \in Unreliable) /\ Goto(c, "set")
  /\ UNCHANGED <<request, source, got, holds, storeVars, lockVars, expiries, crashes>>

\* SET key '1' EX ttl, whoever set it in the meantime.
RedisSet(c) ==
  /\ phase[c] = "set"
  /\ Goto(c, "pipeline")
  /\ holds' = [holds EXCEPT ![c] = TRUE]
  /\ lock' = TRUE \/ ("SET" \in Unreliable /\ lock' = lock)
  /\ UNCHANGED <<request, source, got, storeVars, left, redisEnabled, expiries, crashes>>

ReleaseForgottenMutant(c) ==
  /\ holds[c]
  /\ phase[c] \in {"persist", "answered", "rejected"}
  /\ holds' = [holds EXCEPT ![c] = FALSE]
  /\ UNCHANGED <<phase, request, source, got, storeVars, lockVars, expiries, crashes>>

\* The finally block: deletes the key, whoever holds it by now, unless the DEL fails.
Release(c) ==
  /\ holds[c]
  /\ phase[c] \in {"persist", "answered", "rejected"}
  /\ holds' = [holds EXCEPT ![c] = FALSE]
  /\ \/ lock' = FALSE /\ left' = {}
     \/ /\ "DEL" \in Unreliable
        /\ redisEnabled /\ lock /\ lock' = lock
        /\ left' = left \union {c}
  /\ UNCHANGED <<phase, request, source, got, storeVars, redisEnabled, expiries, crashes>>

-----------------------------------------------------------------------------
(* Serving a cached plan, and the pipeline *)

RacingUncheckedMutant(c) ==
  /\ phase[c] = "racing"
  /\ got' = [got EXCEPT ![c] = Found]
  /\ source' = [source EXCEPT ![c] = "racing"]
  /\ Goto(c, "enrich")
  /\ UNCHANGED <<request, holds, storeVars, lockVars, expiries, crashes>>

RacingWaitsMutant(c) ==
  /\ phase[c] = "racing"
  /\ Found # NoPlan
  /\ got' = [got EXCEPT ![c] = Found]
  /\ source' = [source EXCEPT ![c] = "racing"]
  /\ Goto(c, "enrich")
  /\ UNCHANGED <<request, holds, storeVars, lockVars, expiries, crashes>>

\* Denied the lock: serve what another caller cached by now, or throw 503.
Racing(c) ==
  /\ phase[c] = "racing"
  /\ \/ /\ Found # NoPlan
        /\ got' = [got EXCEPT ![c] = Found]
        /\ source' = [source EXCEPT ![c] = "racing"]
        /\ Goto(c, "enrich")
     \/ /\ Found = NoPlan
        /\ Goto(c, "rejected")
        /\ UNCHANGED <<source, got>>
  /\ UNCHANGED <<request, holds, storeVars, lockVars, expiries, crashes>>

\* enrichCachedPlanWithQuotes(): fresh quotes change nothing, refreshed ones
\* are written back over the cache entry of an exact hit, a failure rejects.
Enrich(c) ==
  /\ phase[c] = "enrich"
  /\ \/ Goto(c, "persist") /\ UNCHANGED cache
     \/ /\ source[c] = "exact"
        /\ Goto(c, "persist")
        /\ cache' = got[c]
     \/ Goto(c, "rejected") /\ UNCHANGED cache
  /\ UNCHANGED <<request, source, got, holds, plans, shells, similar, saved, lockVars,
                 expiries, crashes>>

PipelineFails(c) ==
  /\ phase[c] = "pipeline"
  /\ Goto(c, "rejected")
  /\ UNCHANGED <<request, source, got, holds, storeVars, lockVars, expiries, crashes>>

PipelineCachesShellMutant(c) ==
  /\ phase[c] = "pipeline"
  /\ plans' = plans + 1
  /\ got' = [got EXCEPT ![c] = plans']
  /\ source' = [source EXCEPT ![c] = "pipeline"]
  /\ cache' = plans'
  /\ shells' = shells \/ shells' = shells \union {plans'}
  /\ Goto(c, "persist")
  /\ UNCHANGED <<request, holds, similar, saved, lockVars, expiries, crashes>>

\* A plan is assembled; it is cached unless it is a tip shell.
PipelineMakesPlan(c) ==
  /\ phase[c] = "pipeline"
  /\ plans' = plans + 1
  /\ got' = [got EXCEPT ![c] = plans']
  /\ source' = [source EXCEPT ![c] = "pipeline"]
  /\ \/ cache' = plans' /\ shells' = shells
     \/ cache' = cache  /\ shells' = shells \union {plans'}
  /\ Goto(c, "persist")
  /\ UNCHANGED <<request, holds, similar, saved, lockVars, expiries, crashes>>

-----------------------------------------------------------------------------
(* finishWithPlan().  The pipeline's `return` does not await it, so that it *)
(* runs while the finally block awaits the release.  In memory the release  *)
(* takes no I/O and comes first.                                            *)

\* upsert() has stored the plan under the guideId.
Stored(c) == [saved EXCEPT ![c] = got[c]]

Persistable(c) ==
  /\ phase[c] = "persist"
  /\ ~redisEnabled => ~holds[c]

Persist(c) ==
  /\ Persistable(c)
  /\ saved' = IF request[c].guideId THEN Stored(c) ELSE saved
  /\ Goto(c, "answered")
  /\ UNCHANGED <<request, source, got, holds, plans, shells, cache, similar, lockVars,
                 expiries, crashes>>

\* upsert() fails, before or after the plan is stored.
PersistFails(c) ==
  /\ Persistable(c)
  /\ request[c].guideId
  /\ ~holds[c]
  /\ saved' \in {saved, Stored(c)}
  /\ Goto(c, "rejected")
  /\ UNCHANGED <<request, source, got, holds, plans, shells, cache, similar, lockVars,
                 expiries, crashes>>

\* The process dies with every invocation under way.  A lock in memory dies
\* with it, one in Redis stays until its TTL ends (unless the restart is the one
\* that finds no Redis).
Die ==
  /\ phase' = [c \in Callers |-> IF phase[c] = "idle" \/ Ended(c) THEN phase[c] ELSE "dead"]
  /\ holds' = [c \in Callers |-> FALSE]
  /\ redisEnabled' \in RedisModes
  /\ lock' = (lock /\ redisEnabled /\ redisEnabled')
  /\ left' = IF lock' THEN left \union Holders ELSE {}
  /\ crashes' = crashes + 1

\* upsert() fails while the release is still under way: nothing handles the
\* rejected promise yet, and an unhandled rejection ends a Node process.
PersistFailsUnhandled(c) ==
  /\ Persistable(c)
  /\ request[c].guideId
  /\ holds[c]
  /\ crashes < MaxCrashes
  /\ saved' \in {saved, Stored(c)}
  /\ Die
  /\ UNCHANGED <<request, source, got, plans, shells, cache, similar, expiries>>

-----------------------------------------------------------------------------
(* The environment *)

LockExpires ==
  /\ lock
  /\ expiries < MaxExpiries
  /\ lock' = FALSE
  /\ left' = {}
  /\ expiries' = expiries + 1
  /\ UNCHANGED <<callerVars, storeVars, redisEnabled, crashes>>

Crash ==
  /\ crashes < MaxCrashes
  /\ Die
  /\ UNCHANGED <<request, source, got, storeVars, expiries>>

Proceed(c) ==
  \/ LookupHit(c) \/ LookupMiss(c)
  \/ RateLimit(c)
  \/ AcquireMemory(c) \/ RedisGet(c) \/ RedisSet(c)
  \/ Racing(c) \/ Enrich(c)
  \/ PipelineFails(c) \/ PipelineMakesPlan(c)
  \/ Persist(c) \/ PersistFails(c)
  \/ Release(c)

Environment ==
  \/ \E c \in Callers : PersistFailsUnhandled(c)
  \/ LockExpires
  \/ Crash

GenNext ==
  \/ \E c \in Callers : \/ \E r \in Requests : Call(c, r)
                        \/ Proceed(c)
  \/ Environment

GenSpec == GenInit /\ [][GenNext]_genVars

-----------------------------------------------------------------------------
(* Safety *)

\* The lock has no owner and is deleted by whoever finishes, also after its
\* TTL passed it on.  In a process's memory this never compounds: pipelines
\* running at once exceed one by at most the number of TTL expiries.
LeaseAccounting ==
  ~redisEnabled =>
    Cardinality(Holders) - (IF lock THEN 1 ELSE 0) <= expiries

\* "The same guide is being generated, try again later" is true when it is
\* said: a lock that is taken belongs to a generation still running, or in Redis
\* to one that ended without deleting it (its DEL failed, or the process died)
\* since the key was last absent.  A lock in memory is never left behind.
NoLeakedLock == lock => Holders # {} \/ (redisEnabled /\ left # {})

\* A tip shell (LLM and map fallback failed) answers the caller it was made
\* for and nobody else: no lookup, race or quote write-back ever serves one.
NoShellServed ==
  \A c \in Callers : source[c] \in {"exact", "similar", "racing"} => got[c] \notin shells

\* packages/travel-guide-contracts/dto.ts on forceRegenerate: skip the cache,
\* run the whole pipeline.
ForcedRunsPipeline ==
  \A c \in Callers : request[c].force /\ phase[c] = "answered" => source[c] = "pipeline"

\* travel-guide-guard.service.ts on acquireGenerationLock: "Returns false when
\* another identical generation is in flight".
OneGenerationInFlight == Cardinality(Holders) <= 1
=============================================================================
