SPECIFICATION ScenarioSpec
CONSTANTS
  Credentials = {c1}
  Agencies = {a1}
  Workers = {w1}
  Slots = {0, 1}
  a1 = a1
  c1 = c1
  issuerOf <- OneIssuer
  expiration <- ExpiresAtTwo
  keyEnds <- KeyLasts
  TTL <- ValueTTL
  CopyLife = 1
  ListTTL = 1
  Timeout = 1
  DayLength = 2
  MaxOf <- TwoOfEach
  MaxLists = 0
  MaxClock = 2
  Requests = {r1}
  Threads = {h1}
  RequestTTL = 1
  Skew = 1
  Presented = 1
  Loads <- Held
PROPERTIES
  ExpiredNotAnswered
CHECK_DEADLOCK FALSE
