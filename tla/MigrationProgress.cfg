SPECIFICATION ScenarioSpec
CONSTANTS
  MaxToken = 2
  Loads = {1, 2}
  Operations = {"uc6", "run", "close", "issue", "withdraw"}
  Algorithms = {old, target, other}
  Issuing = old
  Targets = {target}
  target = target
  other = other
  Singles <- OneSingleEach
  Sessions = {s1, s2}
  Nobody = Nobody
  BatchSize = 1
  MaxKills = 1
INVARIANTS
  TypeOK
  NeverUnsigned
PROPERTIES
  Converges
  MigrationsEnd
CHECK_DEADLOCK FALSE
