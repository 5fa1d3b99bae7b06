CONSTANTS
  c1 = c1
  c2 = c2
  c3 = c3
  Callers <- TwoCallers
  Requests <- PlainOrForced
  RedisModes = {FALSE}
  Unreliable = {}
  MaxExpiries = 0
  MaxCrashes = 0
SPECIFICATION GenSpec
INVARIANT ForcedRunsPipeline
CHECK_DEADLOCK FALSE
