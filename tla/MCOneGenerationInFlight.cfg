CONSTANTS
  c1 = c1
  c2 = c2
  c3 = c3
  Callers <- TwoCallers
  Requests <- PlainOrForced
  RedisModes = {TRUE}
  Unreliable = {}
  MaxExpiries = 0
  MaxCrashes = 0
SPECIFICATION GenSpec
INVARIANT OneGenerationInFlight
CHECK_DEADLOCK FALSE
