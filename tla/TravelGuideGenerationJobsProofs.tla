------------------- MODULE TravelGuideGenerationJobsProofs -------------------
(***************************************************************************)
(* Jobs run generate() as TravelGuideGeneration says, so what is proved of *)
(* it holds of jobs too; and jobs are deduplicated, started and completed  *)
(* as promised, for any number of jobs, clients and crashes.               *)
(***************************************************************************)
EXTENDS TravelGuideGenerationJobs, TravelGuideGenerationProofs

\* What createJob() has in hand when it is resumed.
ClientInv ==
  \A k \in UnderWay : clientDto[k] \in Requests

\* A job that nobody started has not run.
RunsInv ==
  \A j \in Jobs : /\ status[j] \in {"none", "pending"} => runs[j] = 0
                  /\ runs[j] <= 1

\* Before createJob() creates a document it has dealt with the active one.
DedupeInv ==
  ~overlapped =>
    /\ \A k, l \in UnderWay : k = l
    /\ \A i, j \in Active : i = j
    /\ \A k \in Clients : clientAt[k] = "create" => Active = {}
    /\ \A k \in Clients : clientAt[k] = "failStale" => Active \subseteq {found[k]}

-----------------------------------------------------------------------------
(* Composition *)

LEMMA JobInitGen == JobInit => GenInit
  BY DEF JobInit

LEMMA JobNextGen == [JobNext]_vars => [GenNext]_genVars
<1> SUFFICES ASSUME JobNext \/ UNCHANGED vars PROVE GenNext \/ UNCHANGED genVars
  OBVIOUS
<1>1. ASSUME NEW k \in Clients, Client(k) PROVE UNCHANGED genVars
  BY <1>1 DEF Client, CreateForced, CreateNoneFound, CreateStaleFound,
     CreateDeduped, FailStale, CreateDoc
<1>2. ASSUME NEW j \in Jobs, Run(j) PROVE GenNext \/ UNCHANGED genVars
  <2>1. j \in Callers
    BY JobsAssumption
  <2> QED
    BY <1>2, <2>1 DEF Run, RunStarts, RunYields, Complete, Fail, GenNext
<1>3. ASSUME NEW j \in Jobs, ReportProgress(j) \/ GoesStale(j) PROVE UNCHANGED genVars
  BY <1>3 DEF ReportProgress, GoesStale
<1>4. ASSUME NEW c \in Callers, Generate(c) PROVE GenNext
  BY <1>4 DEF Generate, GenNext
<1>5. ASSUME NEW c \in Callers \ Jobs, NEW r \in Requests, Call(c, r) PROVE GenNext
  BY <1>5 DEF GenNext
<1>6. ASSUME LockExpires PROVE GenNext
  BY <1>6 DEF GenNext, Environment
<1>7. ASSUME ProcessDies PROVE GenNext
  BY <1>7 DEF ProcessDies, GenNext, Environment
<1>8. CASE UNCHANGED vars
  BY <1>8 DEF vars
<1> QED
  BY <1>1, <1>2, <1>3, <1>4, <1>5, <1>6, <1>7, <1>8 DEF JobNext

\* Whatever createJob() and runJob() do, generate() behaves as specified by
\* TravelGuideGeneration: jobs add no behaviour to the lock and the caches.
THEOREM JobsRunGenerate == JobSpec => GenSpec
  BY JobInitGen, JobNextGen, PTL DEF JobSpec, GenSpec

\* In particular no job is completed with a tip shell made for another.
THEOREM JobsNoShellServed == JobSpec => []NoShellServed
  BY JobsRunGenerate, ShellsPrivate, PTL

\* And jobs, too, respect the lock up to its expiries.
THEOREM JobsLeaseSafe == JobSpec => []LeaseAccounting
  BY JobsRunGenerate, LeaseSafe, PTL

-----------------------------------------------------------------------------
(* Types *)

LEMMA JobInitType == JobInit => JobTypeOK /\ ClientInv
<1> SUFFICES ASSUME JobInit PROVE JobTypeOK /\ ClientInv
  OBVIOUS
<1>1. GenTypeOK
  BY InitType DEF JobInit
<1>2. ClientInv
  BY DEF JobInit, ClientInv, UnderWay
<1>3. JobTypeOK
  BY <1>1 DEF JobInit, JobTypeOK, NoPlan, ActiveStatuses, TerminalStatuses
<1> QED
  BY <1>2, <1>3

LEMMA ClientType ==
  ASSUME JobTypeOK, ClientInv, GenTypeOK', NEW k \in Clients, Client(k)
  PROVE  JobTypeOK' /\ ClientInv'
<1> USE DEF JobTypeOK, ClientInv, UnderWay, docVars, runVars, ActiveStatuses, TerminalStatuses
<1>1. ASSUME NEW r \in Requests, CreateForced(k, r) PROVE JobTypeOK' /\ ClientInv'
  BY <1>1, GenerationAssumption DEF CreateForced, Arrive
<1>2. ASSUME NEW r \in Requests, CreateNoneFound(k, r) PROVE JobTypeOK' /\ ClientInv'
  BY <1>2, GenerationAssumption DEF CreateNoneFound, Arrive
<1>3. ASSUME NEW r \in Requests, CreateStaleFound(k, r) PROVE JobTypeOK' /\ ClientInv'
  BY <1>3, GenerationAssumption DEF CreateStaleFound, Arrive, Active
<1>4. ASSUME NEW r \in Requests, CreateDeduped(k, r) PROVE JobTypeOK' /\ ClientInv'
  BY <1>4, GenerationAssumption DEF CreateDeduped, Arrive, Active
<1>5. CASE FailStale(k)
  BY <1>5 DEF FailStale
<1>6. CASE CreateDoc(k)
  BY <1>6 DEF CreateDoc
<1> QED
  BY <1>1, <1>2, <1>3, <1>4, <1>5, <1>6 DEF Client

LEMMA RunType ==
  ASSUME JobTypeOK, ClientInv, GenTypeOK', NEW j \in Jobs, Run(j)
  PROVE  JobTypeOK' /\ ClientInv'
<1> USE DEF JobTypeOK, ClientInv, UnderWay, docVars, runVars, clientVars,
            ActiveStatuses, TerminalStatuses
<1>1. ASSUME NEW r \in Requests, RunStarts(j, r) PROVE JobTypeOK' /\ ClientInv'
  BY <1>1 DEF RunStarts
<1>2. ASSUME NEW r \in Requests, RunYields(j, r) PROVE JobTypeOK' /\ ClientInv'
  BY <1>2 DEF RunYields
<1>3. CASE Complete(j)
  <2>1. got[j] \in Nat
    BY JobsAssumption DEF GenTypeOK
  <2> QED
    BY <1>3, <2>1 DEF Complete
<1>4. CASE Fail(j)
  BY <1>4 DEF Fail
<1> QED
  BY <1>1, <1>2, <1>3, <1>4 DEF Run

LEMMA OtherType ==
  ASSUME JobTypeOK, ClientInv, GenTypeOK',
         \/ \E j \in Jobs : ReportProgress(j) \/ GoesStale(j)
         \/ \E c \in Callers : Generate(c)
         \/ UNCHANGED jobVars
         \/ ProcessDies
  PROVE  JobTypeOK' /\ ClientInv'
<1> USE DEF JobTypeOK, ClientInv, UnderWay, docVars, runVars, clientVars
<1>1. ASSUME NEW j \in Jobs, ReportProgress(j) \/ GoesStale(j) PROVE JobTypeOK' /\ ClientInv'
  BY <1>1 DEF ReportProgress, GoesStale
<1>2. ASSUME NEW c \in Callers, Generate(c) PROVE JobTypeOK' /\ ClientInv'
  BY <1>2 DEF Generate
<1>3. CASE UNCHANGED jobVars
  BY <1>3 DEF jobVars
<1>4. CASE ProcessDies
  BY <1>4 DEF ProcessDies
<1> QED
  BY <1>1, <1>2, <1>3, <1>4

LEMMA JobNextType ==
  JobTypeOK /\ ClientInv /\ [JobNext]_vars => JobTypeOK' /\ ClientInv'
<1> SUFFICES ASSUME JobTypeOK, ClientInv, [JobNext]_vars
             PROVE  JobTypeOK' /\ ClientInv'
  OBVIOUS
<1>1. GenTypeOK'
  BY JobNextGen, NextType DEF JobTypeOK
<1> QED
  BY <1>1, ClientType, RunType, OtherType DEF JobNext, vars

LEMMA JobTyped == JobSpec => [](JobTypeOK /\ ClientInv)
  BY JobInitType, JobNextType, PTL DEF JobSpec

\* Documents, runners and clients keep their types, and no client puts a job that is
\* being run back to pending.
THEOREM JobTypeCorrect == JobSpec => []JobTypeOK
  BY JobTyped, PTL

-----------------------------------------------------------------------------
(* What each step does to the documents *)

\* Every step but createJob()'s and runJob()'s leaves the statuses, the number
\* of runs and the history of overlaps alone.
LEMMA QuietStep ==
  ASSUME \/ \E j \in Jobs : ReportProgress(j) \/ GoesStale(j)
         \/ \E c \in Callers : Generate(c)
         \/ UNCHANGED jobVars
         \/ ProcessDies
  PROVE  UNCHANGED <<status, runs, overlapped, found>>
  BY DEF ReportProgress, GoesStale, Generate, jobVars, docVars, runVars,
     clientVars, ProcessDies

LEMMA NextCases ==
  ASSUME [JobNext]_vars
  PROVE  \/ \E k \in Clients : Client(k)
         \/ \E j \in Jobs : Run(j)
         \/ \E j \in Jobs : ReportProgress(j) \/ GoesStale(j)
         \/ \E c \in Callers : Generate(c)
         \/ UNCHANGED jobVars
         \/ ProcessDies
  BY DEF JobNext, vars

\* The statuses a step of runJob() can write.
LEMMA RunStatus ==
  ASSUME JobTypeOK, NEW j \in Jobs, Run(j)
  PROVE  /\ UNCHANGED <<overlapped, clientAt, found>>
         /\ \/ UNCHANGED <<status, runs>>
            \/ /\ status[j] = "pending"
               /\ status' = [status EXCEPT ![j] = "running"]
               /\ runs' = [runs EXCEPT ![j] = @ + 1]
            \/ /\ UNCHANGED runs
               /\ \/ status' = [status EXCEPT ![j] = "completed"]
                  \/ status' = [status EXCEPT ![j] = "failed"]
<1> USE DEF docVars, clientVars
<1>1. ASSUME NEW r \in Requests, RunStarts(j, r)
      PROVE  /\ UNCHANGED <<overlapped, clientAt, found>>
             /\ status[j] = "pending"
             /\ status' = [status EXCEPT ![j] = "running"]
             /\ runs' = [runs EXCEPT ![j] = @ + 1]
  BY <1>1 DEF RunStarts
<1>2. ASSUME NEW r \in Requests, RunYields(j, r)
      PROVE  UNCHANGED <<overlapped, clientAt, found, status, runs>>
  BY <1>2 DEF RunYields
<1>3. CASE Complete(j)
  BY <1>3 DEF Complete
<1>4. CASE Fail(j)
  BY <1>4 DEF Fail
<1> QED
  BY <1>1, <1>2, <1>3, <1>4 DEF Run

\* The statuses a step of createJob() can write.
LEMMA ClientStatus ==
  ASSUME JobTypeOK, NEW k \in Clients, Client(k)
  PROVE  /\ UNCHANGED runs
         /\ \A j \in Jobs : \/ status'[j] = status[j]
                            \/ status'[j] = "failed" /\ status[j] \in ActiveStatuses
                            \/ status'[j] = "failed" /\ clientAt[k] = "failStale" /\ j = found[k]
                            \/ status'[j] = "pending" /\ status[j] = "none"
<1> USE DEF JobTypeOK, docVars, runVars
<1>1. ASSUME NEW r \in Requests, CreateForced(k, r)
      PROVE  /\ UNCHANGED runs
             /\ \A j \in Jobs : \/ status'[j] = status[j]
                                \/ status'[j] = "failed" /\ status[j] \in ActiveStatuses
  BY <1>1 DEF CreateForced, Active
<1>2. ASSUME NEW r \in Requests,
             CreateNoneFound(k, r) \/ CreateStaleFound(k, r) \/ CreateDeduped(k, r)
      PROVE  UNCHANGED <<runs, status>>
  BY <1>2 DEF CreateNoneFound, CreateStaleFound, CreateDeduped
<1>3. CASE FailStale(k)
  BY <1>3 DEF FailStale
<1>4. CASE CreateDoc(k)
  BY <1>4 DEF CreateDoc
<1> QED
  BY <1>1, <1>2, <1>3, <1>4 DEF Client

-----------------------------------------------------------------------------
(* One run per job, and no way back from a terminal status *)

LEMMA NextRuns == JobTypeOK /\ RunsInv /\ [JobNext]_vars => RunsInv'
<1> SUFFICES ASSUME JobTypeOK, RunsInv, [JobNext]_vars, NEW i \in Jobs
             PROVE  (status[i] \in {"none", "pending"} => runs[i] = 0)' /\ (runs[i] <= 1)'
  BY DEF RunsInv
<1>1. /\ status[i] \in {"none", "pending"} => runs[i] = 0
      /\ runs[i] <= 1
      /\ runs[i] \in Nat
  BY DEF RunsInv, JobTypeOK
<1>2. ASSUME NEW k \in Clients, Client(k)
      PROVE  (status[i] \in {"none", "pending"} => runs[i] = 0)' /\ (runs[i] <= 1)'
  BY <1>1, <1>2, ClientStatus DEF ActiveStatuses
<1>3. ASSUME NEW j \in Jobs, Run(j)
      PROVE  (status[i] \in {"none", "pending"} => runs[i] = 0)' /\ (runs[i] <= 1)'
  <2>1. i = j \/ i # j
    OBVIOUS
  <2> QED
    BY <1>1, <1>3, <2>1, RunStatus DEF JobTypeOK
<1>4. CASE UNCHANGED <<status, runs>>
  BY <1>1, <1>4
<1> QED
  BY <1>2, <1>3, <1>4, NextCases, QuietStep

LEMMA InitRuns == JobInit => RunsInv
  BY DEF JobInit, RunsInv

\* However many clients kick a job, generate() runs at most once for it.
THEOREM OneRun == JobSpec => []RunsOnce
<1>1. RunsInv => RunsOnce
  BY DEF RunsInv, RunsOnce
<1> QED
  BY <1>1, InitRuns, NextRuns, JobTyped, PTL DEF JobSpec

\* A job that ended never occupies its dedupe key again, in spite of outcomes
\* that are written by jobId alone.
THEOREM EndedForGood == JobSpec => NeverReactivated
<1> DEFINE Stays == \A j \in Jobs : status[j] \in TerminalStatuses => status'[j] \in TerminalStatuses
<1>1. JobTypeOK /\ [JobNext]_vars => [Stays]_vars
  <2> SUFFICES ASSUME JobTypeOK, [JobNext]_vars, NEW i \in Jobs, status[i] \in TerminalStatuses
               PROVE  status'[i] \in TerminalStatuses
    OBVIOUS
  <2> USE DEF TerminalStatuses
  <2>1. ASSUME NEW k \in Clients, Client(k) PROVE status'[i] \in TerminalStatuses
    BY <2>1, ClientStatus
  <2>2. ASSUME NEW j \in Jobs, Run(j) PROVE status'[i] \in TerminalStatuses
    BY <2>2, RunStatus DEF JobTypeOK
  <2>3. CASE UNCHANGED status
    BY <2>3
  <2> QED
    BY <2>1, <2>2, <2>3, NextCases, QuietStep
<1> QED
  BY <1>1, JobTyped, PTL DEF JobSpec, NeverReactivated

-----------------------------------------------------------------------------
(* Deduplication *)

LEMMA InitDedupe == JobInit => DedupeInv
  BY DEF JobInit, DedupeInv, UnderWay, Active, ActiveStatuses

\* A createJob() that arrives while none is under way finds one active job at
\* most, and whatever it does next, it has the key for itself.
LEMMA ArriveDedupe ==
  ASSUME JobTypeOK, DedupeInv, NEW k \in Clients, NEW r \in Requests, ~overlapped',
         Arrive(k, r)
  PROVE  ~overlapped /\ UnderWay = {} /\ \A i, j \in Active : i = j
  BY DEF Arrive, DedupeInv, JobTypeOK

LEMMA ClientDedupe ==
  ASSUME JobTypeOK, DedupeInv, NEW k \in Clients, Client(k)
  PROVE  DedupeInv'
<1> SUFFICES ASSUME ~overlapped' PROVE DedupeInv'
  BY DEF DedupeInv
<1> USE DEF DedupeInv, JobTypeOK, UnderWay, Active, ActiveStatuses, docVars
<1>1. ASSUME NEW r \in Requests, CreateForced(k, r) PROVE DedupeInv'
  <2>1. Active' = {}
    BY <1>1 DEF CreateForced
  <2>2. UnderWay' = {k}
    BY <1>1, ArriveDedupe DEF CreateForced
  <2>3. \A m \in Clients : clientAt'[m] # "failStale"
    BY <1>1, ArriveDedupe DEF CreateForced
  <2> QED
    BY <2>1, <2>2, <2>3
<1>2. ASSUME NEW r \in Requests, CreateNoneFound(k, r) PROVE DedupeInv'
  <2>1. Active' = {} /\ UnderWay' = {k} /\ clientAt'[k] = "create"
    BY <1>2, ArriveDedupe DEF CreateNoneFound
  <2> QED
    BY <2>1
<1>3. ASSUME NEW r \in Requests, CreateStaleFound(k, r) PROVE DedupeInv'
  <2>1. PICK j \in Active : found' = [found EXCEPT ![k] = j]
    BY <1>3 DEF CreateStaleFound
  <2>2. Active' = Active /\ Active = {j} /\ UnderWay' = {k} /\ clientAt'[k] = "failStale"
    BY <1>3, <2>1, ArriveDedupe DEF CreateStaleFound
  <2>3. found'[k] = j
    BY <2>1
  <2> QED
    BY <2>2, <2>3
<1>4. ASSUME NEW r \in Requests, CreateDeduped(k, r) PROVE DedupeInv'
  <2>1. Active' = Active /\ UnderWay' = {}
    BY <1>4, ArriveDedupe DEF CreateDeduped
  <2>2. \A i, j \in Active : i = j
    BY <1>4, ArriveDedupe DEF CreateDeduped
  <2> QED
    BY <2>1, <2>2
<1>5. CASE FailStale(k)
  <2>1. ~overlapped /\ k \in UnderWay /\ UnderWay' = UnderWay
    BY <1>5 DEF FailStale
  <2>2. UnderWay' = {k} /\ clientAt'[k] = "create"
    BY <1>5, <2>1 DEF FailStale
  <2>3. Active' = {}
    BY <1>5, <2>1 DEF FailStale
  <2> QED
    BY <2>2, <2>3
<1>6. CASE CreateDoc(k)
  <2>1. ~overlapped /\ UnderWay = {k} /\ Active = {}
    BY <1>6 DEF CreateDoc
  <2>2. PICK j \in Jobs : status' = [status EXCEPT ![j] = "pending"]
    BY <1>6 DEF CreateDoc
  <2>3. Active' = {j} /\ UnderWay' = {}
    BY <1>6, <2>1, <2>2 DEF CreateDoc
  <2> QED
    BY <2>3
<1> QED
  BY <1>1, <1>2, <1>3, <1>4, <1>5, <1>6 DEF Client

\* A step that activates no document and starts no createJob() is harmless.
LEMMA ShrinkDedupe ==
  ASSUME DedupeInv, UNCHANGED <<overlapped, found>>, Active' \subseteq Active,
         \A k \in Clients : clientAt'[k] = clientAt[k] \/ clientAt'[k] = "dead"
  PROVE  DedupeInv'
<1>1. UnderWay' \subseteq UnderWay
  BY DEF UnderWay
<1> QED
  BY <1>1 DEF DedupeInv

LEMMA RunDedupe ==
  ASSUME JobTypeOK, DedupeInv, NEW j \in Jobs, Run(j)
  PROVE  DedupeInv'
<1>1. UNCHANGED <<overlapped, clientAt, found>>
  BY RunStatus
<1>2. Active' \subseteq Active
  BY RunStatus DEF Active, ActiveStatuses, JobTypeOK
<1> QED
  BY <1>1, <1>2, ShrinkDedupe

LEMMA NextDedupe == JobTypeOK /\ DedupeInv /\ [JobNext]_vars => DedupeInv'
<1> SUFFICES ASSUME JobTypeOK, DedupeInv, [JobNext]_vars PROVE DedupeInv'
  OBVIOUS
<1>1. ASSUME UNCHANGED <<status, overlapped, found, clientAt>> PROVE DedupeInv'
  BY <1>1, ShrinkDedupe DEF Active
<1>2. CASE \E j \in Jobs : ReportProgress(j) \/ GoesStale(j)
  BY <1>1, <1>2 DEF ReportProgress, GoesStale, clientVars
<1>3. CASE \E c \in Callers : Generate(c)
  BY <1>1, <1>3 DEF Generate, clientVars
<1>4. CASE UNCHANGED jobVars
  BY <1>1, <1>4 DEF jobVars, docVars, clientVars
<1>5. CASE ProcessDies
  <2>1. \A k \in Clients : clientAt'[k] = clientAt[k] \/ clientAt'[k] = "dead"
    BY <1>5 DEF ProcessDies
  <2>2. Active' \subseteq Active
    BY <1>5 DEF ProcessDies, docVars, Active
  <2> QED
    BY <1>5, <2>1, <2>2, ShrinkDedupe DEF ProcessDies
<1> QED
  BY <1>2, <1>3, <1>4, <1>5, ClientDedupe, RunDedupe, NextCases

LEMMA DedupeInvariance == JobSpec => []DedupeInv
  BY JobTyped, InitDedupe, NextDedupe, PTL DEF JobSpec

\* Clients that call one after the other share one active job, whatever they
\* take over, restart or leave behind in a crash.
THEOREM DedupesInSequence == JobSpec => []SequentialDedupe
<1>1. DedupeInv => SequentialDedupe
  <2> SUFFICES ASSUME DedupeInv, ~overlapped PROVE Cardinality(Active) <= 1
    BY DEF SequentialDedupe
  <2>1. CASE Active = {}
    BY <2>1, FS_EmptySet
  <2>2. CASE Active # {}
    <3>1. PICK j \in Active : Active = {j}
      BY <2>2 DEF DedupeInv
    <3>2. Cardinality({j}) = 1
      BY FS_Singleton
    <3> QED
      BY <3>1, <3>2
  <2> QED
    BY <2>1, <2>2
<1> QED
  BY <1>1, DedupeInvariance, PTL

-----------------------------------------------------------------------------
(* Completed jobs have saved their plan *)

\* What generate() has in hand from the lookup or the pipeline to the answer.
GotInv ==
  \A c \in Callers :
     /\ phase[c] \in {"enrich", "persist", "answered"} => got[c] # NoPlan
     /\ phase[c] = "answered" /\ request[c].guideId => saved[c] = got[c]

\* A document is completed from a generate() that answered and released.
CompletedInv ==
  \A j \in Jobs : status[j] = "completed" =>
                    phase[j] = "answered" /\ ~holds[j] /\ jobPlan[j] = got[j]

LEMMA InitGot == GenInit => GotInv
  BY DEF GenInit, GotInv

LEMMA NextGot == GenTypeOK /\ GotInv /\ [GenNext]_genVars => GotInv'
<1> SUFFICES ASSUME GenTypeOK, GotInv, [GenNext]_genVars PROVE GotInv'
  OBVIOUS
<1> USE DEF GenTypeOK, GotInv, Goto, NoPlan
<1>1. ASSUME UNCHANGED <<request, got, saved>>,
             \A c \in Callers : \/ phase'[c] = phase[c]
                                \/ phase'[c] \notin {"enrich", "persist", "answered"}
      PROVE  GotInv'
  BY <1>1
<1>2. ASSUME NEW c \in Callers, NEW r \in Requests, Call(c, r) PROVE GotInv'
  BY <1>2 DEF Call, storeVars
<1>3. ASSUME NEW c \in Callers, Proceed(c) PROVE GotInv'
  <2>1. CASE LookupHit(c) \/ Racing(c)
    BY <2>1 DEF LookupHit, Racing, Found, storeVars
  <2>2. CASE Enrich(c)
    BY <2>2 DEF Enrich
  <2>3. CASE PipelineMakesPlan(c)
    <3>1. plans' # 0
      BY <2>3 DEF PipelineMakesPlan
    <3> QED
      BY <2>3, <3>1 DEF PipelineMakesPlan
  <2>4. CASE LookupMiss(c) \/ RateLimit(c) \/ AcquireMemory(c) \/ RedisGet(c)
    BY <1>1, <2>4 DEF LookupMiss, RateLimit, AcquireMemory, RedisGet, storeVars
  <2>5. CASE RedisSet(c) \/ PipelineFails(c) \/ Release(c)
    BY <1>1, <2>5 DEF RedisSet, PipelineFails, Release, storeVars
  <2>6. CASE Persist(c) \/ PersistFails(c)
    <3>1. saved' \in {saved, [saved EXCEPT ![c] = got[c]]} /\ UNCHANGED <<request, got>>
      BY <2>6 DEF Persist, PersistFails, Stored
    <3>2. /\ phase[c] = "persist"
          /\ phase'[c] = "answered" /\ request[c].guideId => saved'[c] = got[c]
          /\ \A d \in Callers \ {c} : phase'[d] = phase[d] /\ saved'[d] = saved[d]
      BY <2>6, <3>1 DEF Persist, PersistFails, Persistable, Stored
    <3> QED
      BY <3>1, <3>2
  <2> QED
    BY <1>3, <2>1, <2>2, <2>3, <2>4, <2>5, <2>6 DEF Proceed
<1>4. CASE Environment
  <2>1. ASSUME NEW c \in Callers, PersistFailsUnhandled(c) PROVE GotInv'
    <3>1. phase[c] = "persist" /\ UNCHANGED <<request, got>>
      BY <2>1 DEF PersistFailsUnhandled, Persistable
    <3>2. \A d \in Callers : phase'[d] = phase[d] \/ phase'[d] = "dead"
      BY <2>1 DEF PersistFailsUnhandled, Die
    <3>3. \A d \in Callers \ {c} : saved'[d] = saved[d]
      BY <2>1 DEF PersistFailsUnhandled, Stored
    <3>4. phase'[c] = "persist" \/ phase'[c] = "dead"
      BY <3>1, <3>2
    <3> QED
      BY <3>1, <3>2, <3>3, <3>4
  <2>2. CASE LockExpires
    BY <1>1, <2>2 DEF LockExpires, callerVars, storeVars
  <2>3. CASE Crash
    BY <1>1, <2>3 DEF Crash, Die, storeVars
  <2> QED
    BY <1>4, <2>1, <2>2, <2>3 DEF Environment
<1>5. CASE UNCHANGED genVars
  BY <1>1, <1>5 DEF genVars, callerVars, storeVars
<1> QED
  BY <1>2, <1>3, <1>4, <1>5 DEF GenNext

LEMMA GotInvariance == JobSpec => []GotInv
<1>1. GenSpec => []GotInv
  BY GenTypeCorrect, InitGot, NextGot, PTL DEF GenSpec
<1> QED
  BY <1>1, JobsRunGenerate, PTL

\* A step after which c has still answered and released, and changed nothing of its own.
Settled(c) ==
  /\ phase'[c] = "answered" /\ ~holds'[c]
  /\ got'[c] = got[c] /\ saved'[c] = saved[c] /\ request'[c] = request[c]

\* generate() does nothing more once it answered and released.
LEMMA AnsweredStays ==
  ASSUME GenTypeOK, [GenNext]_genVars, NEW c \in Callers,
         phase[c] = "answered", ~holds[c]
  PROVE  Settled(c)
<1> USE DEF GenTypeOK, Goto, Settled
<1>1. ASSUME NEW d \in Callers, NEW r \in Requests, Call(d, r)
      PROVE  Settled(c)
  BY <1>1 DEF Call, storeVars
<1>2. ASSUME NEW d \in Callers, Proceed(d) PROVE Settled(c)
  <2>1. CASE LookupHit(d) \/ LookupMiss(d) \/ RateLimit(d) \/ Racing(d) \/ Enrich(d)
    BY <2>1 DEF LookupHit, LookupMiss, RateLimit, Racing, Enrich, storeVars
  <2>2. CASE AcquireMemory(d) \/ RedisGet(d) \/ RedisSet(d) \/ Release(d)
    BY <2>2 DEF AcquireMemory, RedisGet, RedisSet, Release, storeVars
  <2>3. CASE PipelineFails(d) \/ PipelineMakesPlan(d)
    BY <2>3 DEF PipelineFails, PipelineMakesPlan, storeVars
  <2>4. CASE Persist(d) \/ PersistFails(d)
    <3>1. d # c /\ saved' \in {saved, Stored(d)}
      BY <2>4 DEF Persist, PersistFails, Persistable
    <3>2. saved'[c] = saved[c]
      BY <3>1 DEF Stored
    <3> QED
      BY <2>4, <3>1, <3>2 DEF Persist, PersistFails
  <2> QED
    BY <1>2, <2>1, <2>2, <2>3, <2>4 DEF Proceed
<1>3. CASE Environment
  <2>1. ASSUME NEW d \in Callers, PersistFailsUnhandled(d) PROVE Settled(c)
    <3>1. d # c /\ saved' \in {saved, Stored(d)}
      BY <2>1 DEF PersistFailsUnhandled, Persistable
    <3>2. saved'[c] = saved[c]
      BY <3>1 DEF Stored
    <3> QED
      BY <2>1, <3>2 DEF PersistFailsUnhandled, Die, Ended
  <2>2. CASE LockExpires \/ Crash
    BY <2>2 DEF LockExpires, Crash, Die, Ended, callerVars, storeVars
  <2> QED
    BY <1>3, <2>1, <2>2 DEF Environment
<1>4. CASE UNCHANGED genVars
  BY <1>4 DEF genVars, callerVars, storeVars
<1> QED
  BY <1>1, <1>2, <1>3, <1>4 DEF GenNext

LEMMA InitCompleted == JobInit => CompletedInv
  BY DEF JobInit, CompletedInv

LEMMA NextCompleted ==
  JobTypeOK /\ GotInv /\ CompletedInv /\ [JobNext]_vars => CompletedInv'
<1> SUFFICES ASSUME JobTypeOK, GotInv, CompletedInv, [JobNext]_vars,
                    NEW i \in Jobs, status'[i] = "completed"
             PROVE  phase'[i] = "answered" /\ ~holds'[i] /\ jobPlan'[i] = got'[i]
  BY DEF CompletedInv
<1> i \in Callers
  BY JobsAssumption
<1>1. ASSUME status[i] = "completed", jobPlan'[i] = jobPlan[i]
      PROVE  phase'[i] = "answered" /\ ~holds'[i] /\ jobPlan'[i] = got'[i]
  BY <1>1, AnsweredStays, JobNextGen DEF CompletedInv, JobTypeOK, Settled
<1>2. ASSUME NEW k \in Clients, Client(k)
      PROVE  status[i] = "completed" /\ jobPlan'[i] = jobPlan[i]
  <2>1. jobPlan' = jobPlan
    BY <1>2 DEF Client, CreateForced, CreateNoneFound, CreateStaleFound,
       CreateDeduped, FailStale, CreateDoc, docVars
  <2> QED
    BY <1>2, <2>1, ClientStatus
<1>3. ASSUME NEW j \in Jobs, Run(j)
      PROVE  phase'[i] = "answered" /\ ~holds'[i] /\ jobPlan'[i] = got'[i]
  <2>1. ASSUME NEW r \in Requests, RunStarts(j, r)
        PROVE  status[i] = "completed" /\ jobPlan'[i] = jobPlan[i]
    BY <2>1 DEF RunStarts, JobTypeOK
  <2>2. ASSUME NEW r \in Requests, RunYields(j, r)
        PROVE  status[i] = "completed" /\ jobPlan'[i] = jobPlan[i]
    BY <2>2 DEF RunYields, docVars
  <2>3. CASE Complete(j)
    <3>1. CASE i = j
      BY <2>3, <3>1 DEF Complete, genVars, callerVars, GotInv, JobTypeOK
    <3>2. CASE i # j
      BY <1>1, <2>3, <3>2 DEF Complete, JobTypeOK
    <3> QED
      BY <3>1, <3>2
  <2>4. CASE Fail(j)
    BY <1>1, <2>4 DEF Fail, JobTypeOK
  <2> QED
    BY <1>1, <1>3, <2>1, <2>2, <2>3, <2>4 DEF Run
<1>4. ASSUME UNCHANGED <<status, jobPlan>>
      PROVE  phase'[i] = "answered" /\ ~holds'[i] /\ jobPlan'[i] = got'[i]
  BY <1>1, <1>4
<1>5. CASE \E j \in Jobs : ReportProgress(j) \/ GoesStale(j)
  BY <1>4, <1>5 DEF ReportProgress, GoesStale
<1>6. CASE \E c \in Callers : Generate(c)
  BY <1>4, <1>6 DEF Generate
<1>7. CASE UNCHANGED jobVars \/ ProcessDies
  BY <1>4, <1>7 DEF ProcessDies, jobVars, docVars
<1> QED
  BY <1>1, <1>2, <1>3, <1>5, <1>6, <1>7, NextCases

\* A client that polls a completed job opens a guideId under which the run of that job
\* stored the plan that the job reports.
THEOREM CompletedSaved == JobSpec => []CompletedIsSaved
<1>1. JobTypeOK /\ GotInv /\ CompletedInv => CompletedIsSaved
  BY JobsAssumption DEF GotInv, CompletedInv, CompletedIsSaved
<1> QED
  BY <1>1, JobTyped, GotInvariance, InitCompleted, NextCompleted, PTL DEF JobSpec

-----------------------------------------------------------------------------
(* Nobody polls in vain *)

LEMMA NextNoOrphan == JobTypeOK /\ NoOrphan /\ [JobNext]_vars => NoOrphan'
<1> SUFFICES ASSUME JobTypeOK, NoOrphan, [JobNext]_vars, NEW i \in Jobs
             PROVE  (/\ status[i] = "pending" => kicks[i] # {} \/ runner[i] = "dead"
                     /\ status[i] = "running" => runner[i] \in {"running", "dead"})'
  BY DEF NoOrphan
<1> DEFINE Worked == /\ status[i] = "pending" => kicks[i] # {} \/ runner[i] = "dead"
                     /\ status[i] = "running" => runner[i] \in {"running", "dead"}
<1>1. Worked
  BY DEF NoOrphan
<1>2. ASSUME UNCHANGED <<status, kicks, runner>> PROVE Worked'
  BY <1>1, <1>2
<1>3. ASSUME NEW k \in Clients, Client(k) PROVE Worked'
  <2>1. ASSUME NEW r \in Requests, CreateForced(k, r) PROVE Worked'
    BY <1>1, <2>1 DEF CreateForced, Active, ActiveStatuses, runVars
  <2>2. ASSUME NEW r \in Requests, CreateNoneFound(k, r) \/ CreateStaleFound(k, r) PROVE Worked'
    BY <1>2, <2>2 DEF CreateNoneFound, CreateStaleFound, docVars, runVars
  <2>3. ASSUME NEW r \in Requests, CreateDeduped(k, r) PROVE Worked'
    BY <1>1, <2>3 DEF CreateDeduped, docVars, JobTypeOK
  <2>4. CASE FailStale(k)
    BY <1>1, <2>4 DEF FailStale, runVars, JobTypeOK
  <2>5. CASE CreateDoc(k)
    BY <1>1, <2>5 DEF CreateDoc, JobTypeOK
  <2> QED
    BY <1>3, <2>1, <2>2, <2>3, <2>4, <2>5 DEF Client
<1>4. ASSUME NEW j \in Jobs, Run(j) PROVE Worked'
  <2>1. ASSUME NEW r \in Requests, RunStarts(j, r) PROVE Worked'
    BY <1>1, <2>1 DEF RunStarts, JobTypeOK
  <2>2. ASSUME NEW r \in Requests, RunYields(j, r) PROVE Worked'
    BY <1>1, <2>2 DEF RunYields, docVars, JobTypeOK
  <2>3. CASE Complete(j) \/ Fail(j)
    BY <1>1, <2>3 DEF Complete, Fail, JobTypeOK
  <2> QED
    BY <1>4, <2>1, <2>2, <2>3 DEF Run
<1>5. CASE \E j \in Jobs : ReportProgress(j) \/ GoesStale(j)
  BY <1>2, <1>5 DEF ReportProgress, GoesStale, runVars
<1>6. CASE \E c \in Callers : Generate(c)
  BY <1>2, <1>6 DEF Generate, runVars
<1>7. CASE UNCHANGED jobVars
  BY <1>2, <1>7 DEF jobVars, docVars, runVars
<1>8. CASE ProcessDies
  BY <1>1, <1>8 DEF ProcessDies, docVars, JobTypeOK
<1> QED
  BY <1>3, <1>4, <1>5, <1>6, <1>7, <1>8, NextCases

\* An active job is being worked on, or about to be, unless the process that was to do so
\* died: jobs created or kicked after a restart are run as the first ones were.
THEOREM ActiveJobsAreWorkedOn == JobSpec => []NoOrphan
<1>1. JobInit => NoOrphan
  BY DEF JobInit, NoOrphan
<1> QED
  BY <1>1, NextNoOrphan, JobTyped, PTL DEF JobSpec

-----------------------------------------------------------------------------
(* The life of a job *)

\* Nobody has run a job that is to be started; who runs one has not delivered and it has
\* not been completed; and a job that was found stale had been created.
LifeInv ==
  /\ \A j \in Jobs :
       /\ status[j] = "none" => runner[j] = "none"
       /\ status[j] = "pending" => runner[j] \in {"none", "dead"} /\ jobPlan[j] = NoPlan
       /\ runner[j] \in {"none", "running"} => jobPlan[j] = NoPlan
       /\ runner[j] = "running" => status[j] \in {"running", "failed"}
  /\ \A k \in Clients :
       clientAt[k] = "failStale" => found[k] \in Jobs /\ status[found[k]] # "none"

LEMMA InitLife == JobInit => Life!Init /\ LifeInv
  BY DEF JobInit, Life!Init, LifeInv, AtWork

\* A step that starts or ends no runner and writes no plan.
LEMMA QuietLife ==
  ASSUME UNCHANGED <<jobPlan, runner>>
  PROVE  AtWork' = AtWork /\ jobPlan' = jobPlan
  BY DEF AtWork

LEMMA ClientLife ==
  ASSUME JobTypeOK, LifeInv, NEW k \in Clients, Client(k)
  PROVE  (Life!Next \/ UNCHANGED <<status, jobPlan, AtWork>>) /\ LifeInv'
<1> USE DEF JobTypeOK
<1>1. ASSUME NEW r \in Requests, CreateForced(k, r)
      PROVE  (Life!Next \/ UNCHANGED <<status, jobPlan, AtWork>>) /\ LifeInv'
  <2>1. /\ status' = [j \in Jobs |-> IF j \in Active THEN "failed" ELSE status[j]]
        /\ clientAt' = [clientAt EXCEPT ![k] = "create"]
        /\ UNCHANGED <<jobPlan, runner, found>>
    BY <1>1 DEF CreateForced, runVars
  <2>2. Active \in SUBSET Jobs /\ \A j \in Active : status[j] # "none"
    BY DEF Active, ActiveStatuses
  <2>3. Life!GiveUp(Active)
    BY <2>1, <2>2, QuietLife DEF Life!GiveUp
  <2>4. LifeInv'
    BY <2>1, <2>2 DEF LifeInv
  <2> QED
    BY <2>2, <2>3, <2>4 DEF Life!Next
<1>2. ASSUME NEW r \in Requests, CreateNoneFound(k, r) \/ CreateDeduped(k, r)
      PROVE  (Life!Next \/ UNCHANGED <<status, jobPlan, AtWork>>) /\ LifeInv'
  <2>1. /\ UNCHANGED <<status, jobPlan, runner, found>>
        /\ \A l \in Clients : clientAt'[l] = "failStale" => clientAt[l] = "failStale"
    BY <1>2 DEF CreateNoneFound, CreateDeduped, docVars, runVars
  <2> QED
    BY <2>1, QuietLife DEF LifeInv
<1>3. ASSUME NEW r \in Requests, CreateStaleFound(k, r)
      PROVE  (Life!Next \/ UNCHANGED <<status, jobPlan, AtWork>>) /\ LifeInv'
  <2>1. PICK j \in Active : found' = [found EXCEPT ![k] = j]
    BY <1>3 DEF CreateStaleFound
  <2>2. j \in Jobs /\ status[j] # "none"
    BY DEF Active, ActiveStatuses
  <2>3. /\ UNCHANGED <<status, jobPlan, runner>>
        /\ clientAt' = [clientAt EXCEPT ![k] = "failStale"]
    BY <1>3 DEF CreateStaleFound, docVars, runVars
  <2> QED
    BY <2>1, <2>2, <2>3, QuietLife DEF LifeInv
<1>4. CASE FailStale(k)
  <2>1. found[k] \in Jobs /\ status[found[k]] # "none"
    BY <1>4 DEF FailStale, LifeInv
  <2>2. /\ status' = [status EXCEPT ![found[k]] = "failed"]
        /\ clientAt' = [clientAt EXCEPT ![k] = "create"]
        /\ UNCHANGED <<jobPlan, runner, found>>
    BY <1>4 DEF FailStale, runVars
  <2>3. status' = [j \in Jobs |-> IF j \in {found[k]} THEN "failed" ELSE status[j]]
    BY <2>1, <2>2
  <2>4. Life!GiveUp({found[k]})
    BY <2>1, <2>2, <2>3, QuietLife DEF Life!GiveUp
  <2>5. LifeInv'
    BY <2>1, <2>2 DEF LifeInv
  <2>6. {found[k]} \in SUBSET Jobs
    BY <2>1
  <2> QED
    BY <2>4, <2>5, <2>6 DEF Life!Next
<1>5. CASE CreateDoc(k)
  <2>1. PICK j \in Jobs : status[j] = "none" /\ status' = [status EXCEPT ![j] = "pending"]
    BY <1>5 DEF CreateDoc
  <2>2. /\ clientAt' = [clientAt EXCEPT ![k] = "done"]
        /\ UNCHANGED <<jobPlan, runner, found>>
    BY <1>5 DEF CreateDoc
  <2>3. Life!Create(j)
    BY <2>1, <2>2, QuietLife DEF Life!Create
  <2>4. LifeInv'
    BY <2>1, <2>2 DEF LifeInv
  <2> QED
    BY <2>3, <2>4 DEF Life!Next
<1> QED
  BY <1>1, <1>2, <1>3, <1>4, <1>5 DEF Client

LEMMA RunLife ==
  ASSUME JobTypeOK, GotInv, LifeInv, NEW j \in Jobs, Run(j)
  PROVE  (Life!Next \/ UNCHANGED <<status, jobPlan, AtWork>>) /\ LifeInv'
<1> USE DEF JobTypeOK
<1>0. j \in Callers
  BY JobsAssumption
<1>1. ASSUME NEW r \in Requests, RunStarts(j, r)
      PROVE  (Life!Next \/ UNCHANGED <<status, jobPlan, AtWork>>) /\ LifeInv'
  <2>1. /\ status[j] = "pending" /\ status' = [status EXCEPT ![j] = "running"]
        /\ runner' = [runner EXCEPT ![j] = "running"]
        /\ UNCHANGED <<jobPlan, found, clientAt>>
    BY <1>1 DEF RunStarts, clientVars
  <2>2. runner[j] # "running" /\ jobPlan[j] = NoPlan
    BY <2>1 DEF LifeInv
  <2>3. AtWork' = AtWork \union {j} /\ j \notin AtWork
    BY <2>1, <2>2 DEF AtWork
  <2>4. Life!Start(j)
    BY <2>1, <2>3 DEF Life!Start
  <2>5. LifeInv'
    BY <2>1, <2>2 DEF LifeInv
  <2> QED
    BY <2>4, <2>5 DEF Life!Next
<1>2. ASSUME NEW r \in Requests, RunYields(j, r)
      PROVE  (Life!Next \/ UNCHANGED <<status, jobPlan, AtWork>>) /\ LifeInv'
  BY <1>2, QuietLife DEF RunYields, LifeInv, docVars, clientVars
<1>3. CASE Complete(j)
  <2>1. /\ runner[j] = "running" /\ phase[j] = "answered"
        /\ status' = [status EXCEPT ![j] = "completed"]
        /\ jobPlan' = [jobPlan EXCEPT ![j] = got[j]]
        /\ runner' = [runner EXCEPT ![j] = "done"]
        /\ UNCHANGED <<found, clientAt>>
    BY <1>3 DEF Complete, clientVars
  <2>2. status[j] \in {"running", "failed"} /\ jobPlan[j] = NoPlan
    BY <2>1 DEF LifeInv
  <2>3. got[j] \in Nat \ {NoPlan}
    BY <1>0, <2>1 DEF GotInv, GenTypeOK
  <2>4. AtWork' = AtWork \ {j} /\ j \in AtWork
    BY <2>1 DEF AtWork
  <2>5. Life!Deliver(j)
    BY <2>1, <2>2, <2>3, <2>4 DEF Life!Deliver
  <2>6. LifeInv'
    BY <2>1 DEF LifeInv
  <2> QED
    BY <2>5, <2>6 DEF Life!Next
<1>4. CASE Fail(j)
  <2>1. /\ runner[j] = "running"
        /\ status' = [status EXCEPT ![j] = "failed"]
        /\ runner' = [runner EXCEPT ![j] = "done"]
        /\ UNCHANGED <<jobPlan, found, clientAt>>
    BY <1>4 DEF Fail, clientVars
  <2>2. status[j] \in {"running", "failed"}
    BY <2>1 DEF LifeInv
  <2>3. AtWork' = AtWork \ {j} /\ j \in AtWork
    BY <2>1 DEF AtWork
  <2>4. Life!Fail(j)
    BY <2>1, <2>2, <2>3 DEF Life!Fail
  <2>5. LifeInv'
    BY <2>1 DEF LifeInv
  <2> QED
    BY <2>4, <2>5 DEF Life!Next
<1> QED
  BY <1>1, <1>2, <1>3, <1>4 DEF Run

\* What concerns no document and no runner.
LEMMA BesideLife ==
  ASSUME LifeInv, UNCHANGED <<status, jobPlan, runner, clientAt, found>>
  PROVE  UNCHANGED <<status, jobPlan, AtWork>> /\ LifeInv'
  BY QuietLife DEF LifeInv

LEMMA DeathLife ==
  ASSUME JobTypeOK, LifeInv, ProcessDies
  PROVE  Life!Next /\ LifeInv'
<1>1. /\ runner' = [j \in Jobs |-> IF status[j] = "pending" \/ runner[j] = "running"
                                    THEN "dead" ELSE runner[j]]
      /\ clientAt' = [k \in Clients |-> IF k \in UnderWay THEN "dead" ELSE clientAt[k]]
      /\ UNCHANGED <<status, jobPlan, found>>
  BY DEF ProcessDies, docVars
<1>2. AtWork' = {}
  BY <1>1 DEF AtWork, JobTypeOK
<1>3. Life!ProcessDies
  BY <1>1, <1>2 DEF Life!ProcessDies
<1>4. LifeInv'
  BY <1>1 DEF LifeInv, JobTypeOK, UnderWay
<1> QED
  BY <1>3, <1>4 DEF Life!Next

LEMMA NextLife ==
  JobTypeOK /\ GotInv /\ LifeInv /\ [JobNext]_vars
    => (Life!Next \/ UNCHANGED <<status, jobPlan, AtWork>>) /\ LifeInv'
<1> SUFFICES ASSUME JobTypeOK, GotInv, LifeInv, [JobNext]_vars
             PROVE  (Life!Next \/ UNCHANGED <<status, jobPlan, AtWork>>) /\ LifeInv'
  OBVIOUS
<1>1. ASSUME NEW k \in Clients, Client(k)
      PROVE  (Life!Next \/ UNCHANGED <<status, jobPlan, AtWork>>) /\ LifeInv'
  BY <1>1, ClientLife
<1>2. ASSUME NEW j \in Jobs, Run(j)
      PROVE  (Life!Next \/ UNCHANGED <<status, jobPlan, AtWork>>) /\ LifeInv'
  BY <1>2, RunLife
<1>3. ASSUME NEW j \in Jobs, ReportProgress(j) \/ GoesStale(j)
      PROVE  UNCHANGED <<status, jobPlan, AtWork>> /\ LifeInv'
  BY <1>3, BesideLife DEF ReportProgress, GoesStale, runVars, clientVars
<1>4. ASSUME NEW c \in Callers, Generate(c)
      PROVE  UNCHANGED <<status, jobPlan, AtWork>> /\ LifeInv'
  BY <1>4, BesideLife DEF Generate, runVars, clientVars
<1>5. CASE UNCHANGED jobVars
  BY <1>5, BesideLife DEF jobVars, docVars, runVars, clientVars
<1> QED
  BY <1>1, <1>2, <1>3, <1>4, <1>5, DeathLife, NextCases

\* A job as its pollers see it: kicked as often as may be, it is worked on once; an outcome
\* is written by jobId alone, whatever the status is by then, but never over another one of
\* the same job, so that a plan that was delivered stays; and a job that was given up
\* while nobody worked on it, or whose process died, stays failed.
THEOREM JobsLive == JobSpec => KeepsLife
<1>1. JobTypeOK /\ GotInv /\ LifeInv /\ [JobNext]_vars
        => [Life!Next]_(Life!vars) /\ LifeInv'
  BY NextLife DEF Life!vars
<1> QED
  BY <1>1, InitLife, JobTyped, GotInvariance, PTL DEF JobSpec, Life!Spec, KeepsLife
=============================================================================
