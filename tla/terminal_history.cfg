SPECIFICATION Spec
CONSTANTS
  CHAR_BUFFER_SIZE = 3
  NUM_COLS = 2
  SCREEN_SIZE = 5
  MAX_COMMAND_STORE = 2
  TEXT_ROWS = 2
  TAB_WIDTH = 2
  NUL = NUL
  NL = NL
  Space = Space
  Printable = {Space}
  NoLine = NoLine
  TypeAhead = FALSE
  InvalidReads = TRUE
  Prompting = TRUE
  ROW_BOUND = 2
INVARIANTS
  CommandHistory
