SPECIFICATION Spec
CONSTANTS
  Users = {u1, u2, u3}
  Individuals = {i1}
  None = None
  u1 = u1
  u2 = u2
  u3 = u3
  a1 = a1
  a2 = a2
  a3 = a3
  i1 = i1
  Agencies = {a1, a2, a3}
  Sessions = {s1}
  MaxRequests = 1
  Entrances = {"cli"}
  postings <- Movers
  tied <- NoneTied
  issued <- IssuedByThird
  Hours = {0, 1}
  Papers = {TRUE}
  MinCooldown = 1
  MaxCredentials = 2
  MaxClock = 1
INVARIANTS
  TypeOK
  ApprovalTookThree
PROPERTIES
  StrangersCannotRecover
CHECK_DEADLOCK FALSE
