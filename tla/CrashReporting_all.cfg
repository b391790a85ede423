SPECIFICATION FairSpec
CONSTANTS
  MaxTraces   = 2
  MaxToggles  = 2
  MaxMessages = 2
  MaxAttempts = 2
INVARIANTS
  NothingLost
  SentIsWritten
  ReadyIsDelivered
  OneEventPerTrace
  OnlyWithConsent
  WaitsForSomething
PROPERTIES
  FileOnlyGrows
  WaitingEnds
CHECK_DEADLOCK FALSE
