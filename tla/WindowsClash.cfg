SPECIFICATION ScenarioSpec
CONSTANTS
  MaxToken = 1
  Loads = {1}
  Operations = {"run", "close"}
  Algorithms = {old, target, other}
  Issuing = old
  Targets = {target, other}
  target = target
  other = other
  Singles <- NoSingle
  Sessions = {s1, s2}
  Nobody = Nobody
  BatchSize = 2
  MaxKills = 1
SYMMETRY SessionSymmetry
INVARIANTS
  NeverUnsigned
CHECK_DEADLOCK FALSE
