SPECIFICATION FairSpec
CONSTANTS
  r1 = r1
  r2 = r2
  r3 = r3
  t1 = t1
  t2 = t2
  b1 = b1
  b2 = b2
  bad = bad
  Requests = {r1, r2, r3}
  Tenants = {t1, t2}
  Keys = {k1}
  Bodies = {b1, b2, bad}
  Malformed = {bad}
  Owner <- MCOwner
  MaxAttempts = 2
  NoInput = NoInput
  NoRecord = NoRecord
  NoTx = NoTx
ACTION_CONSTRAINT Scope
CHECK_DEADLOCK FALSE
INVARIANTS TypeOK OneTransactionPerKey SuccessIsCommitted CompletedIsCommitted RefusalIsJustified
PROPERTIES ImplementsIdempotentLedger EveryRequestEnds
