SPECIFICATION FairSpec
CONSTANTS
  MaxSends = 2
  LosesAnswers = TRUE
INVARIANTS
  SentIsComplete
  FiledWhereItBelongs
PROPERTIES
  SendingEnds
CHECK_DEADLOCK FALSE
