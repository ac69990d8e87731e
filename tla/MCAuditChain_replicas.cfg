SPECIFICATION FairSpec
CONSTANTS
  Ids = {1, 2, 3}
  Times = {1, 2}
  Tenants = {1, 2}
  Workers = {w1, w2}
  BatchSize = 2
  Genesis = Genesis
  MaxInDoubt = 1
CHECK_DEADLOCK FALSE
INVARIANTS TypeOK RowsConserved LinksAreSound ForksHaveACause
PROPERTY EveryRowIsAudited
