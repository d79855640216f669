SPECIFICATION Spec
CONSTANTS
  Tokens = {t1, t2, t3}
  Individuals = {i1}
  Agencies = {a1, a2}
  Txns = {x1, x2}
  NoTxn = NoTxn
  NoToken = NoToken
  t1 = t1
  t2 = t2
  t3 = t3
  t4 = t4
  i1 = i1
  i2 = i2
  a1 = a1
  a2 = a2
  holder <- OneHolder
  issuer <- OneHolderIssuer
  expires <- OneHolderExpires
  seed <- OneHolderSeed
  Operations = {"uc4", "uc8"}
  Targets = {"RESERVE", "ACTIVE", "DORMANT", "REVOKED", "LOST", "EXPIRED"}
  Cosigners = {"none"}
  Window = 1
  MaxPercent = 100
  MaxClock = 0
SYMMETRY TxnSymmetry
INVARIANTS
  RevokedOnce
CHECK_DEADLOCK FALSE
