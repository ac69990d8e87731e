SPECIFICATION Spec
CONSTANTS
  Ids = {1, 2, 3}
  Times = {1}
  Tenants = {1}
  Workers = {w1}
  BatchSize = 2
  Genesis = Genesis
  MaxInDoubt = 0
CHECK_DEADLOCK FALSE
INVARIANT ChainIsLinear
