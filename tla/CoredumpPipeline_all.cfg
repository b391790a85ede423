SPECIFICATION FairSpec
CONSTANTS
  app            = app
  foreign        = foreign
  third          = third
  Dumps          = {app, foreign}
  KCrashDumps    = {app}
  KWinDumps      = {}
  IncludeAll     = FALSE
  Batch          = 1
  MaxConnections = 2
  MaxLogins      = 2
INVARIANTS
  HandledOnce
  InfoIsKept
PROPERTIES
  CrashIsAnnounced
  PickupIsComplete
CHECK_DEADLOCK FALSE
