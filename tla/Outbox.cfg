\* Three events of two rows, the first one refused, a batch of two.
CONSTANTS
  MaxEvents = 3
  Rows = {ticket, payment}
  BatchSize = 2
  Refused = {1}
  MaxFailures = 1
  None = None
CHECK_DEADLOCK FALSE
SPECIFICATION FairSpec
INVARIANT NothingLost
PROPERTY HeadHoldsQueue
PROPERTY RowOrder
PROPERTY RefusedDoNotHoldQueue
