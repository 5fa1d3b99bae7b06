---------------------- MODULE TravelGuideGenerationJobs ----------------------
(***************************************************************************)
(* travel-guide-generation-job.service.ts: asynchronous generation, for    *)
(* one dedupe key.  A client's createJob() reuses, takes over or creates a *)
(* job document in MongoDB and kicks runJob() without awaiting it; the     *)
(* runner calls generate() (TravelGuideGeneration, where a job is one of   *)
(* the callers) and writes its outcome over the document.  Documents       *)
(* outlive the process, runners do not.  Age is a flag: isStaleActiveJob() *)
(* looks at updatedAt, which every write to the document renews.           *)
(***************************************************************************)
EXTENDS TravelGuideGeneration

CONSTANTS Jobs,      \* job documents; generate() is also called directly
          Clients,   \* invocations of createJob()
          NoJob

ASSUME JobsAssumption ==
  /\ Jobs \subseteq Callers
  /\ NoJob \notin Jobs

VARIABLES
  status,      \* of each document
  fresh,       \* its updatedAt is recent
  jobPlan,     \* its plan
  kicks,       \* runJob() invocations yet to try pending -> running, by dto
  runner,      \* the invocation that did ("dead": it died, or the kicks did)
  runs,        \* history: how many did
  clientAt,    \* where each createJob() stands
  clientDto,
  found,       \* the stale document it found
  answer,      \* the jobId it answered
  overlapped   \* history: two createJob() have been under way at once

docVars    == <<status, fresh, jobPlan>>
runVars    == <<kicks, runner, runs>>
clientVars == <<clientAt, clientDto, found, answer, overlapped>>
jobVars    == <<docVars, runVars, clientVars>>
vars       == <<genVars, jobVars>>

ActiveStatuses   == {"pending", "running"}
TerminalStatuses == {"completed", "failed"}

\* Types; and a job that is being run is running, or was given up by others meanwhile.
JobTypeOK ==
  /\ GenTypeOK
  /\ status \in [Jobs -> {"none"} \union ActiveStatuses \union TerminalStatuses]
  /\ fresh \in [Jobs -> BOOLEAN]
  /\ jobPlan \in [Jobs -> Nat]
  /\ kicks \in [Jobs -> SUBSET Requests]
  /\ runner \in [Jobs -> {"none", "running", "done", "dead"}]
  /\ runs \in [Jobs -> Nat]
  /\ clientAt \in [Clients -> {"idle", "failStale", "create", "done", "dead"}]
  /\ clientDto \in [Clients -> [force : BOOLEAN, guideId : BOOLEAN]]
  /\ found \in [Clients -> Jobs \union {NoJob}]
  /\ answer \in [Clients -> Jobs \union {NoJob}]
  /\ overlapped \in BOOLEAN
  /\ \A j \in Jobs : runner[j] = "running" => status[j] \in {"running", "failed"}

Active  == {j \in Jobs : status[j] \in ActiveStatuses}
UnderWay == {k \in Clients : clientAt[k] \in {"failStale", "create"}}

JobInit ==
  /\ GenInit
  /\ status = [j \in Jobs |-> "none"]
  /\ fresh = [j \in Jobs |-> FALSE]
  /\ jobPlan = [j \in Jobs |-> NoPlan]
  /\ kicks = [j \in Jobs |-> {}]
  /\ runner = [j \in Jobs |-> "none"]
  /\ runs = [j \in Jobs |-> 0]
  /\ clientAt = [k \in Clients |-> "idle"]
  /\ clientDto = [k \in Clients |-> [force |-> FALSE, guideId |-> FALSE]]
  /\ found = [k \in Clients |-> NoJob]
  /\ answer = [k \in Clients |-> NoJob]
  /\ overlapped = FALSE

-----------------------------------------------------------------------------
(* createJob() *)

Arrive(k, r) ==
  /\ clientAt[k] = "idle"
  /\ clientDto' = [clientDto EXCEPT ![k] = r]
  /\ overlapped' = (overlapped \/ UnderWay # {})

\* forceRegenerate: failActiveJobsForDedupeKey().
CreateForced(k, r) ==
  /\ r.force
  /\ Arrive(k, r)
  /\ status' = [j \in Jobs |-> IF j \in Active THEN "failed" ELSE status[j]]
  /\ clientAt' = [clientAt EXCEPT ![k] = "create"]
  /\ UNCHANGED <<genVars, fresh, jobPlan, runVars, found, answer>>

\* findActiveJob() finds none, or a stale one, or one to reuse.
CreateNoneFound(k, r) ==
  /\ ~r.force
  /\ Arrive(k, r)
  /\ Active = {}
  /\ clientAt' = [clientAt EXCEPT ![k] = "create"]
  /\ UNCHANGED <<genVars, docVars, runVars, found, answer>>

CreateStaleFound(k, r) ==
  /\ ~r.force
  /\ Arrive(k, r)
  /\ \E j \in Active : ~fresh[j] /\ found' = [found EXCEPT ![k] = j]
  /\ clientAt' = [clientAt EXCEPT ![k] = "failStale"]
  /\ UNCHANGED <<genVars, docVars, runVars, answer>>

CreateDedupedRequeuesMutant(k, r) ==
  /\ ~r.force
  /\ Arrive(k, r)
  /\ \E j \in Active :
        /\ fresh[j]
        /\ answer' = [answer EXCEPT ![k] = j]
        /\ status' = [status EXCEPT ![j] = "pending"]
        /\ kicks' = [kicks EXCEPT ![j] = @ \union {r}]
  /\ clientAt' = [clientAt EXCEPT ![k] = "done"]
  /\ UNCHANGED <<genVars, fresh, jobPlan, runner, runs, found>>

\* A pending job is kicked again, with the dto of this client.
CreateDeduped(k, r) ==
  /\ ~r.force
  /\ Arrive(k, r)
  /\ \E j \in Active :
        /\ fresh[j]
        /\ answer' = [answer EXCEPT ![k] = j]
        /\ kicks' = IF status[j] = "pending"
                      THEN [kicks EXCEPT ![j] = @ \union {r}] ELSE kicks
  /\ clientAt' = [clientAt EXCEPT ![k] = "done"]
  /\ UNCHANGED <<genVars, docVars, runner, runs, found>>

FailStaleSkippedMutant(k) ==
  /\ clientAt[k] = "failStale"
  /\ clientAt' = [clientAt EXCEPT ![k] = "create"]
  /\ UNCHANGED <<genVars, docVars, runVars, clientDto, found, answer, overlapped>>

FailStaleErasingMutant(k) ==
  /\ clientAt[k] = "failStale"
  /\ status' = [status EXCEPT ![found[k]] = "failed"]
  /\ jobPlan' = [jobPlan EXCEPT ![found[k]] = NoPlan]
  /\ fresh' = [fresh EXCEPT ![found[k]] = TRUE]
  /\ clientAt' = [clientAt EXCEPT ![k] = "create"]
  /\ UNCHANGED <<genVars, runVars, clientDto, found, answer, overlapped>>

\* failJob(): whatever became of the job since it was found.
FailStale(k) ==
  /\ clientAt[k] = "failStale"
  /\ status' = [status EXCEPT ![found[k]] = "failed"]
  /\ fresh' = [fresh EXCEPT ![found[k]] = TRUE]
  /\ clientAt' = [clientAt EXCEPT ![k] = "create"]
  /\ UNCHANGED <<genVars, jobPlan, runVars, clientDto, found, answer, overlapped>>

CreateDocUnkickedMutant(k) ==
  /\ clientAt[k] = "create"
  /\ \E j \in Jobs :
        /\ status[j] = "none"
        /\ status' = [status EXCEPT ![j] = "pending"]
        /\ fresh' = [fresh EXCEPT ![j] = TRUE]
        /\ answer' = [answer EXCEPT ![k] = j]
  /\ clientAt' = [clientAt EXCEPT ![k] = "done"]
  /\ UNCHANGED <<genVars, jobPlan, runVars, clientDto, found, overlapped>>

\* model.create(), kick the runner, answer.
CreateDoc(k) ==
  /\ clientAt[k] = "create"
  /\ \E j \in Jobs :
        /\ status[j] = "none"
        /\ status' = [status EXCEPT ![j] = "pending"]
        /\ fresh' = [fresh EXCEPT ![j] = TRUE]
        /\ kicks' = [kicks EXCEPT ![j] = {clientDto[k]}]
        /\ answer' = [answer EXCEPT ![k] = j]
  /\ clientAt' = [clientAt EXCEPT ![k] = "done"]
  /\ UNCHANGED <<genVars, jobPlan, runner, runs, clientDto, found, overlapped>>

-----------------------------------------------------------------------------
(* runJob() *)

RunUnguardedMutant(j, r) ==
  /\ r \in kicks[j]
  /\ kicks' = [kicks EXCEPT ![j] = @ \ {r}]
  /\ status' = [status EXCEPT ![j] = "running"]
  /\ fresh' = [fresh EXCEPT ![j] = TRUE]
  /\ runner' = [runner EXCEPT ![j] = "running"]
  /\ runs' = [runs EXCEPT ![j] = @ + 1]
  /\ IF phase[j] = "idle" THEN Call(j, r) ELSE UNCHANGED genVars
  /\ UNCHANGED <<jobPlan, clientVars>>

\* updateOne({jobId, status: pending}, running) matched: report, generate().
RunStarts(j, r) ==
  /\ r \in kicks[j]
  /\ status[j] = "pending"
  /\ kicks' = [kicks EXCEPT ![j] = @ \ {r}]
  /\ status' = [status EXCEPT ![j] = "running"]
  /\ fresh' = [fresh EXCEPT ![j] = TRUE]
  /\ runner' = [runner EXCEPT ![j] = "running"]
  /\ runs' = [runs EXCEPT ![j] = @ + 1]
  /\ Call(j, r)
  /\ UNCHANGED <<jobPlan, clientVars>>

\* It matched nothing: the job was started or failed before.
RunYields(j, r) ==
  /\ r \in kicks[j]
  /\ status[j] # "pending"
  /\ kicks' = [kicks EXCEPT ![j] = @ \ {r}]
  /\ UNCHANGED <<genVars, docVars, runner, runs, clientVars>>

\* A step of generate().  Entering the pipeline and having a plan are
\* reported to the document of a job, which renews updatedAt.
Generate(c) ==
  /\ Proceed(c)
  /\ fresh' = [j \in Jobs |-> \/ fresh[j]
                              \/ /\ j = c
                                 /\ phase'[j] # phase[j]
                                 /\ phase'[j] \in {"pipeline", "persist"}]
  /\ UNCHANGED <<status, jobPlan, runVars, clientVars>>

\* Reports from within the pipeline.
ReportProgress(j) ==
  /\ phase[j] = "pipeline"
  /\ fresh' = [fresh EXCEPT ![j] = TRUE]
  /\ UNCHANGED <<genVars, status, jobPlan, runVars, clientVars>>

CompleteEarlyMutant(j) ==
  /\ runner[j] = "running"
  /\ phase[j] \in {"persist", "answered"} /\ ~holds[j]
  /\ status' = [status EXCEPT ![j] = "completed"]
  /\ jobPlan' = [jobPlan EXCEPT ![j] = got[j]]
  /\ fresh' = [fresh EXCEPT ![j] = TRUE]
  /\ runner' = [runner EXCEPT ![j] = "done"]
  /\ UNCHANGED <<genVars, kicks, runs, clientVars>>

\* The outcome is written by jobId alone, whatever the status is by now.
Complete(j) ==
  /\ runner[j] = "running"
  /\ phase[j] = "answered" /\ ~holds[j]
  /\ status' = [status EXCEPT ![j] = "completed"]
  /\ jobPlan' = [jobPlan EXCEPT ![j] = got[j]]
  /\ fresh' = [fresh EXCEPT ![j] = TRUE]
  /\ runner' = [runner EXCEPT ![j] = "done"]
  /\ UNCHANGED <<genVars, kicks, runs, clientVars>>

Fail(j) ==
  /\ runner[j] = "running"
  /\ phase[j] = "rejected" /\ ~holds[j]
  /\ status' = [status EXCEPT ![j] = "failed"]
  /\ fresh' = [fresh EXCEPT ![j] = TRUE]
  /\ runner' = [runner EXCEPT ![j] = "done"]
  /\ UNCHANGED <<genVars, jobPlan, kicks, runs, clientVars>>

-----------------------------------------------------------------------------
(* The environment *)

\* 90 s without an update while pending, 4 min while running.
GoesStale(j) ==
  /\ j \in Active
  /\ fresh[j]
  /\ fresh' = [fresh EXCEPT ![j] = FALSE]
  /\ UNCHANGED <<genVars, status, jobPlan, runVars, clientVars>>

\* The process dies: runners, kicks and createJob() invocations with it.
ProcessDies ==
  /\ Crash \/ \E c \in Callers : PersistFailsUnhandled(c)
  /\ kicks' = [j \in Jobs |-> {}]
  /\ runner' = [j \in Jobs |-> IF status[j] = "pending" \/ runner[j] = "running"
                                THEN "dead" ELSE runner[j]]
  /\ clientAt' = [k \in Clients |-> IF k \in UnderWay THEN "dead" ELSE clientAt[k]]
  /\ UNCHANGED <<docVars, runs, clientDto, found, answer, overlapped>>

Client(k) ==
  \/ \E r \in Requests : \/ CreateForced(k, r) \/ CreateNoneFound(k, r)
                         \/ CreateStaleFound(k, r) \/ CreateDeduped(k, r)
  \/ FailStale(k) \/ CreateDoc(k)

Run(j) ==
  \/ \E r \in Requests : RunStarts(j, r) \/ RunYields(j, r)
  \/ Complete(j) \/ Fail(j)

JobNext ==
  \/ \E k \in Clients : Client(k)
  \/ \E j \in Jobs : Run(j) \/ ReportProgress(j) \/ GoesStale(j)
  \/ \E c \in Callers : Generate(c)
  \/ \E c \in Callers \ Jobs, r \in Requests : Call(c, r) /\ UNCHANGED jobVars
  \/ LockExpires /\ UNCHANGED jobVars
  \/ ProcessDies

JobSpec == JobInit /\ [][JobNext]_vars

-----------------------------------------------------------------------------
(* Safety *)

\* However often a job is kicked (created, re-kicked by every client that
\* finds it pending), generate() runs once for it.
RunsOnce == \A j \in Jobs : runs[j] <= 1

\* A job that ended is never worked on again: it may turn from failed to
\* completed or back (outcomes are written unguarded), but not to an active
\* status that would occupy the dedupe key.
NeverReactivated ==
  [][\A j \in Jobs : status[j] \in TerminalStatuses => status'[j] \in TerminalStatuses]_vars

\* Deduplication works as long as createJob() calls do not overlap: at most
\* one job of a key is active, across take-overs, stale jobs and crashes.
SequentialDedupe == ~overlapped => Cardinality(Active) <= 1

\* database/schemas/travel-guide-generation-job.schema.ts on dedupeKey: "dedupe
\* in-flight jobs per user".
OneActiveJob == Cardinality(Active) <= 1

\* A job is completed only with the plan that its own run has stored under the
\* guideId that its client will open.
CompletedIsSaved ==
  \A j \in Jobs : status[j] = "completed" /\ request[j].guideId =>
                    jobPlan[j] # NoPlan /\ saved[j] = jobPlan[j]

\* An active job is being worked on, unless the process that worked on it died: a
\* client that was answered with it does not poll in vain.
NoOrphan ==
  \A j \in Jobs :
    /\ status[j] = "pending" => kicks[j] # {} \/ runner[j] = "dead"
    /\ status[j] = "running" => runner[j] \in {"running", "dead"}

-----------------------------------------------------------------------------
(* Refinement: what a job is to who polls it *)

AtWork == {j \in Jobs : runner[j] = "running"}

Life == INSTANCE GenerationJobLife WITH plan <- jobPlan, atWork <- AtWork

\* Kicks, take-overs and outcomes that are written by jobId alone make a job be worked on
\* once and keep the plan it delivered.
KeepsLife == Life!Spec
=============================================================================
