SPECIFICATION FairSpec
CONSTANTS
  MAX_MULTIPROCESS_NUM = 3
  MAX_PROCESSES = 4
  PreemptAt <- TurnPoints
  BootKeys = FALSE
  Status = {7}
  Faults = TRUE
  Vidmap = FALSE
  FlagsAfterHalt = {FALSE}
PROPERTIES
  EverySlotScheduled KeyboardComesBack SystemCallsFinish
