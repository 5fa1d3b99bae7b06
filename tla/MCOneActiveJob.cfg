CONSTANTS
  j1 = j1
  j2 = j2
  k1 = k1
  k2 = k2
  direct = direct
  NoJob = NoJob
  Callers <- TwoJobs
  Jobs <- TwoJobs
  Clients <- TwoClients
  Requests <- PlainOrForced
  RedisModes = {FALSE}
  Unreliable = {}
  MaxExpiries = 0
  MaxCrashes = 0
SPECIFICATION JobSpec
INVARIANT OneActiveJob
CHECK_DEADLOCK FALSE
