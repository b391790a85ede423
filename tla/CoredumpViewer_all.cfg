SPECIFICATION Spec
CONSTANTS
  Patients    = {crash, other}
  KDEPatients = {crash}
  None        = None
  MaxPrepares = 2
INVARIANTS
  DetailsAreOfPatient
  NoStumpIsDebugged
CHECK_DEADLOCK FALSE
