SPECIFICATION FairSpec
CONSTANTS
  Debugger     = "lldb"
  Sizes        <- RoomySizes
  UsesLockFile = TRUE
  WholeLines   = FALSE
  MaxStarts    = 3
  MaxPressure  = 1
PROPERTIES
  VerdictReached
CHECK_DEADLOCK FALSE
