CONSTANTS
  u1 = u1
  u2 = u2
  c1 = c1
  c2 = c2
  c3 = c3
  Users <- TwoUsers
  Calls <- ThreeCalls
  Anonymous = Anonymous
  None = None
  Patch = Patch
  MaxTrips = 2
  MaxExpiries = 1
SPECIFICATION Spec
CONSTRAINT TripsBound
SYMMETRY Symmetric
INVARIANTS
  TypeOK
  ClaimsAccounted
  FormMatchesPlan
  ChangesSurvive
  
CHECK_DEADLOCK FALSE
