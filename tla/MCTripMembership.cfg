CONSTANTS
  owner = owner
  u1 = u1
  u2 = u2
  c1 = c1
  c2 = c2
  c3 = c3
  c4 = c4
  c5 = c5
  c6 = c6
  Users <- Team3
  Owner <- owner
  Calls <- SixCalls
SPECIFICATION Spec
SYMMETRY Symmetric
INVARIANTS
  TypeOK
  OwnerStays
  VersionTellsMembers
PROPERTIES
  KeepsTeam
CHECK_DEADLOCK FALSE
