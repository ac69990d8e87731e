SPECIFICATION WorkflowSpec
CONSTANTS
  Keys = {k1}
  Requests <- MCRequests
  None = None
CHECK_DEADLOCK FALSE
INVARIANT CancelNeverPages
