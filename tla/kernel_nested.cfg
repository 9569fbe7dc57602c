SPECIFICATION Spec
CONSTANTS
  MAX_MULTIPROCESS_NUM = 2
  MAX_PROCESSES = 5
  PreemptAt <- StatusPoints
  BootKeys = FALSE
  Status = {0, 300}
  Faults = TRUE
  Vidmap = TRUE
  FlagsAfterHalt = {TRUE, FALSE}
PROPERTIES
  ImplementsTerminals ExitStatusDelivered
