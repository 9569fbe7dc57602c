SPECIFICATION Spec
CONSTANTS
  MAX_MULTIPROCESS_NUM = 2
  MAX_PROCESSES = 4
  PreemptAt <- SafePoints
  BootKeys = FALSE
  Status = {7}
  Faults = TRUE
  Vidmap = FALSE
  FlagsAfterHalt = {FALSE}
PROPERTIES ExitStatusDelivered
