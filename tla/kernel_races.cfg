SPECIFICATION Spec
CONSTANTS
  MAX_MULTIPROCESS_NUM = 2
  MAX_PROCESSES = 3
  PreemptAt <- RacePoints
  BootKeys = FALSE
  Status = {7}
  Faults = TRUE
  Vidmap = FALSE
  FlagsAfterHalt = {TRUE, FALSE}
INVARIANTS
  KeyboardGate KeyboardInService
CHECK_DEADLOCK FALSE
