SPECIFICATION FairSpec
CONSTANTS
  w1 = w1
  w2 = w2
  rec = rec
  Events = {1, 2}
  Drainers = {w1, w2, rec}
  Reconcilers = {rec}
  BatchSize = 2
  MaxFaults = 2
CHECK_DEADLOCK FALSE
INVARIANTS TypeOK PublishedIsDelivered DuplicatesNeedFaults
PROPERTY EveryEventIsPublished
