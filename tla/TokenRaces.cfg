SPECIFICATION Spec
CONSTANTS
  Tokens = {t1, t2, t3}
  Individuals = {i1}
  Agencies = {a1, a2}
  Txns = {x1, x2}
  NoTxn = NoTxn
  NoToken = NoToken
  t1 = t1
  t2 = t2
  t3 = t3
  t4 = t4
  i1 = i1
  i2 = i2
  a1 = a1
  a2 = a2
  holder <- OneHolder
  issuer <- OneHolderIssuer
  expires <- TwoReservesExpires
  seed <- TwoReservesSeed
  Operations = {"transition", "uc4", "uc8"}
  Targets = {"ACTIVE", "DORMANT", "REVOKED"}
  Cosigners = {"none", "valid"}
  Window = 1
  MaxPercent = 50
  MaxClock = 1
SYMMETRY TxnSymmetry
INVARIANTS
  TypeOK
  OneActivePerPerson
  RevocationListAgrees
  AuditTrailAgrees
  SuccessionIsAChain
  RevocationRateBounded
PROPERTIES
  LegalLifecycle
CHECK_DEADLOCK FALSE
