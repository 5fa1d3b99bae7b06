CONSTANTS
  c1 = c1
  c2 = c2
  c3 = c3
  c4 = c4
  l1 = l1
  l2 = l2
  Calls = {c1, c2, c3, c4}
  Loops = {l1, l2}
  MaxConcurrent = 2
  MaxPerSecond = 2
  Window = 2
  Grace = 1
  Poll = 1
  MaxLatency = 3
SPECIFICATION MCSpec
INVARIANTS
  TypeOK
  ConcurrencyBound
  SingleDrainLoop
  NoStrandedCall
  SlidingWindow
PROPERTIES
  KeepsPromise
  EveryCallSettles
CHECK_DEADLOCK FALSE
