SPECIFICATION FairSpec
CONSTANTS
  Tokens = {t1, t2, t3, t4}
  Individuals = {i1, i2}
  Agencies = {a1, a2}
  Txns = {x1, x2}
  NoTxn = NoTxn
  NoToken = NoToken
  t1 = t1
  t2 = t2
  t3 = t3
  t4 = t4
  i1 = i1
  i2 = i2
  a1 = a1
  a2 = a2
  holder <- TwoHolders
  issuer <- TwoHoldersIssuer
  expires <- NeverExpires
  seed <- BatchSeed
  Operations = {"transition", "uc4", "uc9", "bulk", "uc1"}
  Targets = {"ACTIVE"}
  Cosigners = {"none"}
  Window = 1
  MaxPercent = 100
  MaxClock = 0
PROPERTIES
  ImplementsRegister
  TransactionsEnd
CHECK_DEADLOCK FALSE
