SPECIFICATION FairSpec
CONSTANTS
  Users = {u1, u3}
  Individuals = {i1}
  None = None
  u1 = u1
  u2 = u2
  u3 = u3
  a1 = a1
  a2 = a2
  a3 = a3
  i1 = i1
  Agencies = {a1, a2}
  Sessions = {s1, s2}
  MaxRequests = 2
  Entrances = {"web"}
  postings <- Settled
  tied <- FirstTied
  issued <- NeverIssued
  Hours = {1}
  Papers = {TRUE}
  MinCooldown = 1
  MaxCredentials = 0
  MaxClock = 0
INVARIANTS
  OnePendingPerPerson
PROPERTIES
  RecordsStand
  CallsEnd
CHECK_DEADLOCK FALSE
