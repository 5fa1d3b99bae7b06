CONSTANTS
  j1 = j1
  j2 = j2
  k1 = k1
  k2 = k2
  direct = direct
  NoJob = NoJob
  Callers <- OneJobAndDirect
  Jobs <- OneJob
  Clients <- TwoClients
  Requests <- PlainOrForced
  RedisModes = {FALSE}
  Unreliable = {}
  MaxExpiries = 1
  MaxCrashes = 0
SPECIFICATION MCSpec
PROPERTIES
  EveryJobEnds
CHECK_DEADLOCK FALSE
