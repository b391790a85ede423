SPECIFICATION FairSpec
CONSTANTS
  Debugger     = "gdb"
  Sizes        <- RoomySizes
  UsesLockFile = TRUE
  WholeLines   = TRUE
  MaxStarts    = 3
  MaxPressure  = 1
INVARIANTS
  SingleDebugger
  FenceFindsNoDebugger
  LockOnlyWhileLoading
  ManagerKnows
  NoNullProcess
  QuitLeavesNothing
  PressureBlameIsFresh
  TraceFromOneRun
  LoadingIsUnderWay
PROPERTIES
  LoadedIsFinal
  KeepsPromise
CHECK_DEADLOCK FALSE
