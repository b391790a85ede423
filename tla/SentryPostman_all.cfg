SPECIFICATION FairSpec
CONSTANTS
  Reports     = {crash, comment}
  Burst       = 2
  MaxReceipts = 2
INVARIANTS
  NoHalfRead
  DuplicatesAreExcused
PROPERTIES
  DeliversOrOutlives
CHECK_DEADLOCK FALSE
