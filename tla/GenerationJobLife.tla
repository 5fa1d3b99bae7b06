-------------------------- MODULE GenerationJobLife --------------------------
(***************************************************************************)
(* What who polls a generation job is promised                             *)
(* (travel-guide-generation-job.service.ts as its callers see it): a job   *)
(* is worked on once, from pending on, and delivers at most one plan, which *)
(* it keeps.  It may be given up at any time, by its runner or by another  *)
(* request, and only a job that is being worked on recovers from that.     *)
(***************************************************************************)
CONSTANTS Jobs, NoPlan

VARIABLES
  status,
  plan,   \* of each job
  atWork  \* the jobs somebody works on

vars == <<status, plan, atWork>>

Init ==
  /\ status = [j \in Jobs |-> "none"]
  /\ plan = [j \in Jobs |-> NoPlan]
  /\ atWork = {}

Create(j) ==
  /\ status[j] = "none"
  /\ status' = [status EXCEPT ![j] = "pending"]
  /\ UNCHANGED <<plan, atWork>>

Start(j) ==
  /\ status[j] = "pending" /\ j \notin atWork
  /\ status' = [status EXCEPT ![j] = "running"]
  /\ atWork' = atWork \union {j}
  /\ UNCHANGED plan

\* Some plan, also when the job was given up in the meantime.
Deliver(j) ==
  /\ j \in atWork /\ status[j] \in {"running", "failed"} /\ plan[j] = NoPlan
  /\ status' = [status EXCEPT ![j] = "completed"]
  /\ plan'[j] # NoPlan /\ plan' = [plan EXCEPT ![j] = plan'[j]]
  /\ atWork' = atWork \ {j}

Fail(j) ==
  /\ j \in atWork /\ status[j] \in {"running", "failed"}
  /\ status' = [status EXCEPT ![j] = "failed"]
  /\ atWork' = atWork \ {j}
  /\ UNCHANGED plan

\* By a request that replaces these jobs; who works on one is not told.
GiveUp(S) ==
  /\ \A j \in S : status[j] # "none"
  /\ status' = [j \in Jobs |-> IF j \in S THEN "failed" ELSE status[j]]
  /\ UNCHANGED <<plan, atWork>>

ProcessDies ==
  /\ atWork' = {}
  /\ UNCHANGED <<status, plan>>

Next ==
  \/ \E j \in Jobs : Create(j) \/ Start(j) \/ Deliver(j) \/ Fail(j)
  \/ \E S \in SUBSET Jobs : GiveUp(S)
  \/ ProcessDies

Spec == Init /\ [][Next]_vars
=============================================================================
