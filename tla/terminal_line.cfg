SPECIFICATION Spec
CONSTANTS
  CHAR_BUFFER_SIZE = 4
  NUM_COLS = 2
  SCREEN_SIZE = 6
  MAX_COMMAND_STORE = 1
  TEXT_ROWS = 2
  TAB_WIDTH = 2
  NUL = NUL
  NL = NL
  Space = Space
  Printable = {a, Space}
  NoLine = NoLine
  TypeAhead = FALSE
  InvalidReads = FALSE
  Prompting = TRUE
  ROW_BOUND = 9
INVARIANTS
  TerminalTypeOK LineBounds HistoryInBounds LineFits ReadWaits
PROPERTIES
  ImplementsLineEditor
