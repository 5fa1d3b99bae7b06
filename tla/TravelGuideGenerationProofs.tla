--------------------- MODULE TravelGuideGenerationProofs ---------------------
(***************************************************************************)
(* The generation lock and the generation cache are safe for every set of  *)
(* callers and requests, every number of lock expiries and crashes, and    *)
(* with or without Redis.                                                  *)
(***************************************************************************)
EXTENDS TravelGuideGeneration, FiniteSetTheorems, TLAPS

Held == IF lock THEN 1 ELSE 0

\* The lock, for every way in which it may be acquired.
LockInv ==
  /\ IsFiniteSet(Holders)
  /\ LeaseAccounting
  /\ NoLeakedLock
  /\ \A c \in Callers : phase[c] = "set" => redisEnabled

\* No shell is cached, so none is found, so none is written back.
ShellInv ==
  /\ cache \notin shells
  /\ similar \notin shells
  /\ NoShellServed

-----------------------------------------------------------------------------
(* Types *)

LEMMA InitType == GenInit => GenTypeOK
<1> SUFFICES ASSUME GenInit PROVE GenTypeOK
  OBVIOUS
<1> USE DEF GenInit, NoPlan
<1>1. /\ phase \in [Callers -> Phases]
      /\ request \in [Callers -> [force : BOOLEAN, guideId : BOOLEAN]]
      /\ source \in [Callers -> {"none", "exact", "similar", "racing", "pipeline"}]
      /\ holds \in [Callers -> BOOLEAN]
  BY DEF Phases
<1>2. /\ got \in [Callers -> 0 .. plans]
      /\ plans \in Nat /\ shells \subseteq 1 .. plans
      /\ cache \in 0 .. plans /\ similar \in 0 .. plans /\ saved \in [Callers -> 0 .. plans]
  OBVIOUS
<1>3. /\ lock \in BOOLEAN /\ redisEnabled \in BOOLEAN /\ left \subseteq Callers
      /\ expiries \in Nat /\ crashes \in Nat
  BY GenerationAssumption
<1>4. Provided
  BY DEF Provided
<1> QED
  BY <1>1, <1>2, <1>3, <1>4 DEF GenTypeOK

LEMMA CallType ==
  ASSUME GenTypeOK, NEW c \in Callers, NEW r \in Requests, Call(c, r)
  PROVE  GenTypeOK'
  BY GenerationAssumption
     DEF GenTypeOK, Provided, Call, Goto, Phases, storeVars, lockVars

LEMMA StoredType ==
  ASSUME GenTypeOK, NEW c \in Callers
  PROVE  Stored(c) \in [Callers -> 0 .. plans] /\ saved \in [Callers -> 0 .. plans]
  BY DEF GenTypeOK, Stored

\* A process that dies leaves nobody about to be answered who was not before.
LEMMA DieType ==
  ASSUME GenTypeOK, Die, saved' \in [Callers -> 0 .. plans],
         UNCHANGED <<request, source, got, plans, shells, cache, similar, expiries>>
  PROVE  GenTypeOK'
<1> USE DEF GenTypeOK, Phases, Die
<1>1. /\ phase' \in [Callers -> Phases]
      /\ holds' \in [Callers -> BOOLEAN]
  OBVIOUS
<1>2. redisEnabled' \in BOOLEAN /\ lock' \in BOOLEAN /\ crashes' \in Nat
  BY GenerationAssumption
<1>3. left' \subseteq Callers
  BY DEF Holders
<1>4. Provided'
  BY DEF Provided, Ended
<1> QED
  BY <1>1, <1>2, <1>3, <1>4

LEMMA ProceedType ==
  ASSUME GenTypeOK, NEW c \in Callers, Proceed(c)
  PROVE  GenTypeOK'
<1> USE DEF GenTypeOK, Provided, Phases, Goto, NoPlan, storeVars, lockVars
<1>1. CASE LookupHit(c)
  BY <1>1 DEF LookupHit, Found
<1>2. CASE LookupMiss(c)
  BY <1>2 DEF LookupMiss
<1>3. CASE RateLimit(c)
  BY <1>3 DEF RateLimit
<1>4. CASE AcquireMemory(c)
  BY <1>4 DEF AcquireMemory
<1>5. CASE RedisGet(c)
  BY <1>5 DEF RedisGet
<1>6. CASE RedisSet(c)
  BY <1>6 DEF RedisSet
<1>7. CASE Racing(c)
  <2>1. Provided'
    BY <1>7 DEF Racing, Found
  <2>2. got' \in [Callers -> 0 .. plans] /\ source' \in [Callers -> {"none", "exact", "similar", "racing", "pipeline"}]
    BY <1>7 DEF Racing, Found
  <2>3. phase' \in [Callers -> Phases]
    BY <1>7 DEF Racing
  <2> HIDE DEF Provided
  <2> QED
    BY <1>7, <2>1, <2>2, <2>3 DEF Racing
<1>8. CASE Enrich(c)
  BY <1>8 DEF Enrich
<1>9. CASE PipelineFails(c)
  BY <1>9 DEF PipelineFails
<1>10. CASE PipelineMakesPlan(c)
  <2>1. plans' \in Nat /\ \A n \in 0 .. plans : n \in 0 .. plans'
    BY <1>10 DEF PipelineMakesPlan
  <2>2. shells \subseteq 1 .. plans' /\ plans' \in 1 .. plans'
    BY <1>10 DEF PipelineMakesPlan
  <2>3. got' \in [Callers -> 0 .. plans']
    BY <1>10, <2>1, <2>2 DEF PipelineMakesPlan
  <2>4. Provided'
    BY <1>10, <2>2 DEF PipelineMakesPlan
  <2>5. saved' \in [Callers -> 0 .. plans'] /\ cache' \in 0 .. plans' /\ similar' \in 0 .. plans'
    BY <1>10, <2>1, <2>2 DEF PipelineMakesPlan
  <2> HIDE DEF Provided
  <2> QED
    BY <1>10, <2>1, <2>2, <2>3, <2>4, <2>5 DEF PipelineMakesPlan
<1>11. CASE Persist(c)
  <2>1. saved' \in [Callers -> 0 .. plans]
    BY <1>11, StoredType DEF Persist
  <2>2. Provided'
    BY <1>11 DEF Persist, Persistable
  <2> HIDE DEF Provided
  <2> QED
    BY <1>11, <2>1, <2>2 DEF Persist
<1>12. CASE PersistFails(c)
  <2>1. saved' \in [Callers -> 0 .. plans]
    BY <1>12, StoredType DEF PersistFails
  <2>2. Provided'
    BY <1>12 DEF PersistFails, Persistable
  <2> HIDE DEF Provided
  <2> QED
    BY <1>12, <2>1, <2>2 DEF PersistFails
<1>13. CASE Release(c)
  BY <1>13 DEF Release
<1> QED
  BY <1>1, <1>2, <1>3, <1>4, <1>5, <1>6, <1>7, <1>8, <1>9, <1>10, <1>11,
     <1>12, <1>13 DEF Proceed

LEMMA EnvironmentType ==
  ASSUME GenTypeOK, Environment
  PROVE  GenTypeOK'
<1> USE DEF GenTypeOK, Provided, Phases, callerVars, storeVars, lockVars
<1>1. ASSUME NEW c \in Callers, PersistFailsUnhandled(c) PROVE GenTypeOK'
  <2>1. saved' \in [Callers -> 0 .. plans]
    BY <1>1, StoredType DEF PersistFailsUnhandled
  <2>2. UNCHANGED <<request, source, got, plans, shells, cache, similar, expiries>> /\ Die
    BY <1>1 DEF PersistFailsUnhandled
  <2> QED
    BY <2>1, <2>2, DieType
<1>2. CASE LockExpires
  <2>1. expiries' \in Nat
    BY <1>2 DEF LockExpires
  <2>2. lock' \in BOOLEAN /\ left' \subseteq Callers
    BY <1>2 DEF LockExpires
  <2>3. UNCHANGED <<callerVars, storeVars, redisEnabled, crashes>>
    BY <1>2 DEF LockExpires
  <2> QED
    BY <2>1, <2>2, <2>3
<1>4. CASE Crash
  BY <1>4, DieType DEF Crash
<1> HIDE DEF GenTypeOK
<1> QED
  BY <1>1, <1>2, <1>4 DEF Environment

LEMMA NextType == GenTypeOK /\ [GenNext]_genVars => GenTypeOK'
<1>1. ASSUME GenTypeOK, UNCHANGED genVars PROVE GenTypeOK'
  BY <1>1 DEF GenTypeOK, Provided, genVars, callerVars, storeVars, lockVars
<1> QED
  BY <1>1, CallType, ProceedType, EnvironmentType DEF GenNext

\* Plan numbers, phases, flags and counters keep their types through every
\* step of generate(), the guard and the environment, and nobody is answered without a plan.
THEOREM GenTypeCorrect == GenSpec => []GenTypeOK
  BY InitType, NextType, PTL DEF GenSpec

-----------------------------------------------------------------------------
(* The lock *)

LEMMA InitLock == GenInit => LockInv
<1> SUFFICES ASSUME GenInit PROVE LockInv
  OBVIOUS
<1>1. Holders = {}
  BY DEF GenInit, Holders
<1> QED
  BY <1>1, FS_EmptySet DEF GenInit, LockInv, LeaseAccounting, NoLeakedLock

\* Most steps touch neither the lock nor its holders.
LEMMA UnlockedStep ==
  ASSUME LockInv,
         UNCHANGED <<holds, lockVars, expiries, crashes>>,
         \A c \in Callers : phase'[c] = "set" => phase[c] = "set" \/ redisEnabled
  PROVE  LockInv'
  BY DEF LockInv, LeaseAccounting, NoLeakedLock, Holders, lockVars

LEMMA AcquireMemoryLock ==
  ASSUME GenTypeOK, LockInv, NEW c \in Callers, AcquireMemory(c)
  PROVE  LockInv'
<1>1. CASE lock
  BY <1>1, UnlockedStep DEF AcquireMemory, Goto, GenTypeOK, lockVars
<1>2. CASE ~lock
  <2>1. Holders' = Holders \union {c}
    BY <1>2 DEF AcquireMemory, Holders, GenTypeOK
  <2>2. /\ IsFiniteSet(Holders')
        /\ Cardinality(Holders') <= Cardinality(Holders) + 1
        /\ Cardinality(Holders) \in Nat /\ Cardinality(Holders') \in Nat
    <3> DEFINE H == Holders
    <3>1. IsFiniteSet(H) /\ Cardinality(H) \in Nat
      BY FS_CardinalityType DEF LockInv
    <3>2. /\ IsFiniteSet(H \union {c})
          /\ Cardinality(H \union {c}) \in {Cardinality(H), Cardinality(H) + 1}
      BY <3>1, FS_AddElement
    <3> QED
      BY <2>1, <3>1, <3>2
  <2>3. LeaseAccounting'
    <3>1. Cardinality(Holders) <= expiries /\ expiries \in Nat
      BY <1>2, <2>2 DEF LockInv, LeaseAccounting, AcquireMemory, GenTypeOK
    <3>2. lock' /\ expiries' = expiries
      BY <1>2 DEF AcquireMemory
    <3> QED
      BY <2>2, <3>1, <3>2 DEF LeaseAccounting
  <2>4. NoLeakedLock'
    BY <2>1 DEF NoLeakedLock
  <2> QED
    BY <1>2, <2>2, <2>3, <2>4 DEF LockInv, AcquireMemory, Goto, lockVars, GenTypeOK
<1> QED
  BY <1>1, <1>2

LEMMA RedisSetLock ==
  ASSUME GenTypeOK, LockInv, NEW c \in Callers, RedisSet(c)
  PROVE  LockInv'
<1>1. Holders' = Holders \union {c}
  BY DEF RedisSet, Holders, GenTypeOK
<1>2. IsFiniteSet(Holders') /\ Holders' # {}
  BY <1>1, FS_AddElement DEF LockInv
<1>3. redisEnabled /\ UNCHANGED redisEnabled
  BY DEF RedisSet, LockInv
<1> QED
  BY <1>1, <1>2, <1>3
     DEF RedisSet, Goto, LockInv, LeaseAccounting, NoLeakedLock, lockVars, GenTypeOK

LEMMA ReleaseLock ==
  ASSUME GenTypeOK, LockInv, NEW c \in Callers, Release(c)
  PROVE  LockInv'
<1>1. Holders' = Holders \ {c} /\ c \in Holders
  BY DEF Release, Holders, GenTypeOK
<1>2. /\ IsFiniteSet(Holders')
      /\ Cardinality(Holders') = Cardinality(Holders) - 1
      /\ Cardinality(Holders) \in Nat
  BY <1>1, FS_RemoveElement, FS_CardinalityType DEF LockInv
<1>3. LeaseAccounting'
  BY <1>2 DEF LockInv, LeaseAccounting, Release, lockVars, GenTypeOK
<1>4. NoLeakedLock'
  BY DEF NoLeakedLock, Release, lockVars, GenTypeOK
<1> QED
  BY <1>2, <1>3, <1>4 DEF LockInv, Release, lockVars

\* A process that dies holds nothing; the holders it had are among who left the lock.
LEMMA DieLock ==
  ASSUME GenTypeOK, LockInv, Die, UNCHANGED expiries
  PROVE  LockInv'
<1>1. Holders' = {}
  BY DEF Die, Holders
<1>2. IsFiniteSet(Holders') /\ Cardinality(Holders') = 0
  BY <1>1, FS_EmptySet
<1>4. LeaseAccounting'
  BY <1>2 DEF LeaseAccounting, Die, GenTypeOK
<1>5. NoLeakedLock'
  <2> SUFFICES ASSUME lock' PROVE redisEnabled' /\ left' # {}
    BY DEF NoLeakedLock
  <2>1. lock /\ redisEnabled' /\ left' = left \union Holders
    BY DEF Die
  <2> QED
    BY <2>1 DEF LockInv, NoLeakedLock
<1>6. \A c \in Callers : phase'[c] # "set"
  BY DEF Die, Ended
<1> QED
  BY <1>2, <1>4, <1>5, <1>6 DEF LockInv, Die

LEMMA LockExpiresLock ==
  ASSUME GenTypeOK, LockInv, LockExpires
  PROVE  LockInv'
<1>1. UNCHANGED <<phase, holds, redisEnabled>> /\ ~lock'
  BY DEF LockExpires, callerVars, lockVars
<1>2. Holders' = Holders /\ Cardinality(Holders) \in Nat
  BY <1>1, FS_CardinalityType DEF Holders, LockInv
<1>3. LeaseAccounting'
  BY <1>1, <1>2 DEF LockExpires, LockInv, LeaseAccounting, GenTypeOK
<1> QED
  BY <1>1, <1>2, <1>3 DEF LockInv, NoLeakedLock

LEMMA NextLock == GenTypeOK /\ LockInv /\ [GenNext]_genVars => LockInv'
<1> SUFFICES ASSUME GenTypeOK, LockInv, [GenNext]_genVars PROVE LockInv'
  OBVIOUS
<1>1. ASSUME NEW c \in Callers, NEW r \in Requests, Call(c, r) PROVE LockInv'
  BY <1>1, UnlockedStep DEF Call, Goto, GenTypeOK
<1>2. ASSUME NEW c \in Callers, Proceed(c) PROVE LockInv'
  <2>1. CASE LookupHit(c) \/ LookupMiss(c) \/ RateLimit(c) \/ RedisGet(c) \/ Racing(c)
    BY <2>1, UnlockedStep
       DEF LookupHit, LookupMiss, RateLimit, RedisGet, Racing, Goto, GenTypeOK
  <2>2. CASE Enrich(c) \/ PipelineFails(c) \/ PipelineMakesPlan(c)
    BY <2>2, UnlockedStep DEF Enrich, PipelineFails, PipelineMakesPlan, Goto, GenTypeOK
  <2>3. CASE Persist(c) \/ PersistFails(c)
    BY <2>3, UnlockedStep DEF Persist, PersistFails, Goto, GenTypeOK
  <2> QED
    BY <1>2, <2>1, <2>2, <2>3, AcquireMemoryLock, RedisSetLock, ReleaseLock DEF Proceed
<1>3. CASE Environment
  <2>1. ASSUME NEW c \in Callers, PersistFailsUnhandled(c) PROVE LockInv'
    BY <2>1, DieLock DEF PersistFailsUnhandled
  <2>2. CASE Crash
    BY <2>2, DieLock DEF Crash
  <2> QED
    BY <1>3, <2>1, <2>2, LockExpiresLock DEF Environment
<1>4. CASE UNCHANGED genVars
  BY <1>4, UnlockedStep DEF genVars, callerVars
<1> QED
  BY <1>1, <1>2, <1>3, <1>4 DEF GenNext

LEMMA LockInvariance == GenSpec => []LockInv
  BY GenTypeCorrect, InitLock, NextLock, PTL DEF GenSpec

\* Without Redis, generations in flight exceed one by at most the number of
\* TTL expiries, although whoever finishes deletes whatever lock there is.
THEOREM LeaseSafe == GenSpec => []LeaseAccounting
<1>1. LockInv => LeaseAccounting
  BY DEF LockInv
<1> QED
  BY <1>1, LockInvariance, PTL

\* A caller refused with "the same guide is being generated" is told the truth: no path
\* of generate() leaves the lock behind, but for a DEL that fails in Redis and for a
\* process that dies while a lock is there.
THEOREM RefusalTruthful == GenSpec => []NoLeakedLock
<1>1. LockInv => NoLeakedLock
  BY DEF LockInv
<1> QED
  BY <1>1, LockInvariance, PTL

\* acquireGenerationLock() "returns false when another identical generation is in flight":
\* what its comment says, and Redis does not give (RedisGet, RedisSet), is true in a
\* process's memory until a TTL ends under a generation that outlasts it: before that, the
\* lock that is deleted is the holder's own, across crashes as well.
OneInMemory == ~redisEnabled /\ expiries = 0 => OneGenerationInFlight

THEOREM InMemoryOneAtATime == GenSpec => []OneInMemory
<1>1. LockInv => OneInMemory
  <2> SUFFICES ASSUME LockInv, ~redisEnabled, expiries = 0
               PROVE  Cardinality(Holders) <= 1
    BY DEF OneInMemory, OneGenerationInFlight
  <2>1. Cardinality(Holders) \in Nat
    BY FS_CardinalityType DEF LockInv
  <2>2. Cardinality(Holders) - Held <= 0 /\ Held \in {0, 1}
    BY DEF LockInv, LeaseAccounting, Held
  <2> QED
    BY <2>1, <2>2
<1> QED
  BY <1>1, LockInvariance, PTL

-----------------------------------------------------------------------------
(* The generation cache *)

LEMMA InitShell == GenInit => ShellInv
  BY DEF GenInit, ShellInv, NoShellServed

LEMMA NextShell == GenTypeOK /\ ShellInv /\ [GenNext]_genVars => ShellInv'
<1> SUFFICES ASSUME GenTypeOK, ShellInv, [GenNext]_genVars PROVE ShellInv'
  OBVIOUS
<1> USE DEF GenTypeOK, ShellInv, NoShellServed
<1>1. ASSUME UNCHANGED <<source, got, shells, cache, similar>> PROVE ShellInv'
  BY <1>1
<1>2. ASSUME NEW c \in Callers, NEW r \in Requests, Call(c, r) PROVE ShellInv'
  BY <1>1, <1>2 DEF Call, storeVars
<1>3. ASSUME NEW c \in Callers, Proceed(c) PROVE ShellInv'
  <2>1. CASE LookupHit(c) \/ Racing(c)
    BY <2>1 DEF LookupHit, Racing, Found, storeVars
  <2>2. CASE Enrich(c)
    BY <2>2 DEF Enrich
  <2>3. CASE PipelineMakesPlan(c)
    <3>1. plans' = plans + 1 /\ plans' \notin 0 .. plans /\ plans' \notin shells
      BY <2>3 DEF PipelineMakesPlan
    <3>2. \A n \in 0 .. plans : n \in shells' => n \in shells
      BY <2>3, <3>1 DEF PipelineMakesPlan
    <3>3. cache' \notin shells' /\ similar' \notin shells'
      BY <2>3, <3>1, <3>2 DEF PipelineMakesPlan
    <3>4. NoShellServed'
      BY <2>3, <3>2 DEF PipelineMakesPlan
    <3> QED
      BY <3>3, <3>4
  <2>4. CASE \/ LookupMiss(c) \/ RateLimit(c) \/ AcquireMemory(c) \/ RedisGet(c)
             \/ RedisSet(c) \/ PipelineFails(c) \/ Release(c)
    BY <1>1, <2>4 DEF LookupMiss, RateLimit, AcquireMemory, RedisGet, RedisSet,
       PipelineFails, Release, storeVars
  <2>5. CASE Persist(c) \/ PersistFails(c)
    BY <1>1, <2>5 DEF Persist, PersistFails
  <2> QED
    BY <1>3, <2>1, <2>2, <2>3, <2>4, <2>5 DEF Proceed
<1>4. CASE Environment
  BY <1>1, <1>4 DEF Environment, PersistFailsUnhandled, LockExpires,
     Crash, callerVars, storeVars
<1>5. CASE UNCHANGED genVars
  BY <1>1, <1>5 DEF genVars, callerVars, storeVars
<1> QED
  BY <1>2, <1>3, <1>4, <1>5 DEF GenNext

\* A tip shell is served to nobody but the caller it was made for.
THEOREM ShellsPrivate == GenSpec => []NoShellServed
<1>1. ShellInv => NoShellServed
  BY DEF ShellInv
<1> QED
  BY <1>1, GenTypeCorrect, InitShell, NextShell, PTL DEF GenSpec
=============================================================================
