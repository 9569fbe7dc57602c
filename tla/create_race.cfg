SPECIFICATION Spec
CONSTANTS
  FS_BLK_SIZE = 2
  NUM_DENTRIES = 5
  MAX_INODES = 6
  MAX_DATA_BLOCKS = 5
  MAX_BLOCKS_IN_INODE = 4
  Names <- MCNames
  Bytes = {0, 1, 2}
  ImageEntries <- MCImageEntries
  ImageInodes <- MCImageInodes
  ImageData <- MCImageData
  Procs = {1, 2}
  FILE_DESCRIPTOR_SIZE = 4
  Workloads <- TwoFiles
  Buffers <- MCBuffers
  Lengths = {3}
  DIR_BOUND = 5
  LENGTH_BOUND = 6
  Preempt = TRUE
  AnySize = FALSE
  RTC_MAX_FREQ = 4
  DEFAULT_RTC_FREQ = 2
  COUNT_MOD = 6
  INT_MIN <- MCIntMin
  Frequencies <- MCFrequencies
  NUM_COLS = 4
  NUM_ROWS = 2
  FAKE_MOUSE_RES_X = 10
  FAKE_MOUSE_RES_Y = 6
  MAX_MOVEMENT = 7
  Packets <- MCPackets
  Placements <- MCPlacements
INVARIANTS
  InodesUnique
