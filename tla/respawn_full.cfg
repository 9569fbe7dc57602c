SPECIFICATION Spec
CONSTANTS
  MAX_MULTIPROCESS_NUM = 2
  MAX_PROCESSES = 3
  PreemptAt <- FullWindow
  BootKeys = FALSE
  Status = {7}
  Faults = FALSE
  Vidmap = FALSE
  FlagsAfterHalt = {FALSE}
INVARIANTS ParentNotNull
CHECK_DEADLOCK FALSE
