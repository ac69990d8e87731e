SPECIFICATION FairWorkflowSpec
CONSTANTS
  Keys = {k1, k2}
  Requests <- MCRequests
  None = None
CHECK_DEADLOCK FALSE
INVARIANTS WorkflowTypeOK UndoneOnce CancelledNeverMoves
PROPERTY EveryWorkflowEnds
