SPECIFICATION Spec
CONSTANTS
  r1 = r1
  r2 = r2
  r3 = r3
  t1 = t1
  t2 = t2
  b1 = b1
  b2 = b2
  bad = bad
  Requests = {r1, r2}
  Tenants = {t1}
  Keys = {k1}
  Bodies = {b1}
  Malformed = {}
  Owner <- MCOwner
  MaxAttempts = 1
  NoInput = NoInput
  NoRecord = NoRecord
  NoTx = NoTx
SYMMETRY Symmetric
CHECK_DEADLOCK FALSE
INVARIANT FailedKeyHasNoTransaction
