CONSTANTS
  u1 = u1
  u2 = u2
  c1 = c1
  c2 = c2
  c3 = c3
  Users <- TwoUsers
  Calls <- ThreeCalls
  MaxProfiles = 3
  MaxRequests = 2
SPECIFICATION Spec
SYMMETRY Symmetric
INVARIANTS
  TypeOK
  RequestsMatchProfiles
PROPERTIES
  AnswersFinal
CHECK_DEADLOCK FALSE
