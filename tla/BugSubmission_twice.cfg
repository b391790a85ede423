SPECIFICATION Spec
CONSTANTS
  MaxSends = 2
  LosesAnswers = FALSE
INVARIANTS
  FiledOnce
CHECK_DEADLOCK FALSE
