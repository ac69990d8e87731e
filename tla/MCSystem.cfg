SPECIFICATION FairSpec
CONSTANTS
  Scale = 1
  AmountLimit = 1000
  ColumnLimit = 100
  Requests = {1, 2}
  Sends <- MCSends
  NoInput = NoInput
  NoTx = NoTx
  Drainers = {d}
  BatchSize = 2
  MaxFaults = 1
  Tenants = {1, 2}
  Times = {1}
  Workers = {w}
  Genesis = Genesis
  MaxInDoubt = 0
CHECK_DEADLOCK FALSE
INVARIANTS TypeOK ReconcilerNeverPages SuccessBooksTheAmount RefusedLeavesNoTrace
PROPERTY EveryTransferArrives
