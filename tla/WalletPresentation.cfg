SPECIFICATION ScenarioSpec
CONSTANTS
  Credentials = {c1}
  Agencies = {a1}
  Workers = {w1, w2}
  Slots = {0, 1}
  a1 = a1
  c1 = c1
  issuerOf <- OneIssuer
  expiration <- ExpiresAtTwo
  keyEnds <- KeyLasts
  TTL <- ValueTTL
  CopyLife = 1
  ListTTL = 1
  Timeout = 1
  DayLength = 2
  MaxOf <- TwoOfEach
  MaxLists = 1
  MaxClock = 2
  Requests = {r1}
  Threads = {h1, h2}
  RequestTTL = 1
  Skew = 1
  Presented = 2
  Loads <- HeldOrNot
SYMMETRY ClientSymmetry
INVARIANTS
  WalletTypeOK
  OneCopyPerOffer
  CopiesReadRight
  PresentTypeOK
  AnsweredOnce
  OnlyAcceptanceCloses
  WithdrawalReaches
  ListsAreRecent
PROPERTIES
  NoCopyOfTheEnded
CHECK_DEADLOCK FALSE
