SPECIFICATION Spec
CONSTANTS
  Tokens = {t1, t2}
  Algorithms = {a1, a2}
  Sessions = {s1, s2}
  Recounter = Recounter
  Nobody = Nobody
  t1 = t1
  t2 = t2
  a1 = a1
  a2 = a2
  Loads <- TwoLoads
  MaxStatements = 3
SYMMETRY SessionSymmetry
INVARIANTS
  CountsTypeOK
  StatusCountsExact
  SignatureCountsExact
CHECK_DEADLOCK FALSE
