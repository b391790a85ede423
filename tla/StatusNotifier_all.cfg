SPECIFICATION FairSpec
CONSTANTS
  Services          = {watcher, notifications}
  ActivationTimeout = 1
  CloseTimeout      = 3
  MaxChanges        = 3
  MaxStarts         = 2
INVARIANTS
  ClosesOnlySeenIcon
  RestartsOnce
PROPERTIES
  AnnouncementEnds
CHECK_DEADLOCK FALSE
