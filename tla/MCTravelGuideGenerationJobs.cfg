CONSTANTS
  j1 = j1
  j2 = j2
  k1 = k1
  k2 = k2
  direct = direct
  NoJob = NoJob
  Callers <- TwoJobs
  Jobs <- TwoJobs
  Clients <- TwoClients
  Requests <- PlainOrForced
  RedisModes = {TRUE, FALSE}
  Unreliable = {"GET", "SET", "DEL"}
  MaxExpiries = 1
  MaxCrashes = 1
SPECIFICATION JobSpec
SYMMETRY Symmetric
INVARIANTS
  JobTypeOK
  RunsOnce
  SequentialDedupe
  CompletedIsSaved
  NoOrphan
PROPERTIES
  KeepsLife
CHECK_DEADLOCK FALSE
