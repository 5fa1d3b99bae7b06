--------------------- MODULE MCTravelGuideGenerationJobs ---------------------
(***************************************************************************)
(* Finite instances of TravelGuideGenerationJobs: as many documents as     *)
(* createJob() invocations, each client sending a plain or a forced dto,   *)
(* and (in one run) a direct call of generate() beside them.               *)
(***************************************************************************)
EXTENDS TravelGuideGenerationJobs, TLC

CONSTANTS j1, j2, k1, k2, direct

TwoJobs          == {j1, j2}
OneJob           == {j1}
OneJobAndDirect  == {j1, direct}
TwoClients       == {k1, k2}

Plain  == [force |-> FALSE, guideId |-> TRUE]
Forced == [force |-> TRUE, guideId |-> TRUE]

PlainOrForced == {Plain, Forced}

Symmetric == Permutations(TwoJobs) \union Permutations(TwoClients)

\* Fairness: createJob() and runJob() run on, as every I/O they await settles.
\* Arrivals, ageing, expiries and crashes owe nothing.
MCSpec ==
  /\ JobSpec
  /\ \A k \in Clients : WF_vars(FailStale(k) \/ CreateDoc(k))
  /\ \A j \in Jobs : WF_vars(Run(j)) /\ WF_vars(Generate(j))

\* Every job that is created ends, completed or failed.
EveryJobEnds == \A j \in Jobs : status[j] = "pending" ~> status[j] \in TerminalStatuses
=============================================================================
