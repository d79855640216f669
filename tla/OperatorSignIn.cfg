SPECIFICATION Spec
CONSTANTS
  Users = {u1}
  Workers = {w1, w2}
  Requests = {r1, r2}
  Sids = {s1, s2}
  bound = bound
  unbound = unbound
  Standings = {bound, unbound}
  Threshold = 2
  Window = 1
  LockFor = 2
  Cap <- OneEach
  Idle <- IdleTwo
  Touch = 1
  PurgeAfter = 2
  Timeout = 1
  Scenarios <- FourScenarios
  MaxFails = 4
  MaxRotations = 1
  MaxClock = 4
  Nobody = Nobody
SYMMETRY Symmetries
INVARIANTS
  SignInTypeOK
  LockedWhenDue
  LockStopsGuessing
  SessionCap
  RotationEndsSessions
  IdleMeansUnused
  EndStopsRequests
CHECK_DEADLOCK FALSE
