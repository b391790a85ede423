SPECIFICATION KCrashSpec
CONSTANTS
  GiB         = 2
  Word        = 128
  MemoryUses  = {0, 1, 3, 127}
  FreeRAMs    = {Unknown, 0, 1, 2, 3, 8, 13, 29}
  Unknown     = Unknown
  MaxRounds   = 2
  MaxPressure = 1
INVARIANTS
  StoppedWhileIdle
  NotLeftStopped
  FenceLeavesRoom
CHECK_DEADLOCK FALSE
