CONSTANTS
  u1 = u1
  u2 = u2
  c1 = c1
  c2 = c2
  c3 = c3
  Users <- TwoUsers
  Calls <- ThreeCalls
SPECIFICATION Spec
SYMMETRY Symmetric
INVARIANTS
  TypeOK
  CountSettles
  HomeSettles
  GoalMatchesRegistration
PROPERTIES
  CancellationStands
CHECK_DEADLOCK FALSE
