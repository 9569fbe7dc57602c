SPECIFICATION Spec
CONSTANTS
  MAX_MULTIPROCESS_NUM = 3
  MAX_PROCESSES = 4
  PreemptAt <- SafePoints
  BootKeys = FALSE
  Status = {300}
  Faults = TRUE
  Vidmap = FALSE
  FlagsAfterHalt = {FALSE}
INVARIANTS
  TypeOK NoCrash UserContext ParkedInOwnRecord RunningIffOwned OneChainPerSlot
  VideoRouted
