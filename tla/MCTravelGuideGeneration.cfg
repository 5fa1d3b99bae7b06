CONSTANTS
  c1 = c1
  c2 = c2
  c3 = c3
  Callers <- ThreeCallers
  Requests <- PlainOrForced
  RedisModes = {TRUE, FALSE}
  Unreliable = {"GET", "SET", "DEL"}
  MaxExpiries = 2
  MaxCrashes = 1
SPECIFICATION GenSpec
SYMMETRY Symmetric
INVARIANTS
  GenTypeOK
  LeaseAccounting
  NoLeakedLock
  NoShellServed
CHECK_DEADLOCK FALSE
