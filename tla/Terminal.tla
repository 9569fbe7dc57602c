------------------------------ MODULE Terminal ------------------------------
(***************************************************************************)
(* The line discipline of one terminal: what the keyboard handler          *)
(* (devices/keyboard.c) and a program's terminal_read and terminal_write   *)
(* (devices/terminal.c) do to three_terminals[i].                          *)
(*                                                                         *)
(* Keys reach a terminal only while its own slot is scheduled (KeyboardGate*)
(* of Kernel), so one terminal with one program is the whole system seen   *)
(* from current_term.  The handler runs with interrupts disabled; its      *)
(* loops are steps here, during which `irq' keeps the program stopped.     *)
(* Left out: what is only painted (screen_x, screen_y, cursor_loc, the     *)
(* contents of history_buffer, of which row_index is the write position).  *)
(***************************************************************************)
EXTENDS Integers, Sequences

CONSTANTS
  CHAR_BUFFER_SIZE, NUM_COLS, SCREEN_SIZE, MAX_COMMAND_STORE,
  TEXT_ROWS,       \* NUM_ROWS - STATUS_BAR_HEIGHT
  TAB_WIDTH,       \* the 4 of tab()
  NUL, NL, Space,  \* '\0', '\n', ' '
  Printable,       \* the characters the keyboard produces
  TypeAhead,       \* may a key arrive between Enter and the reader's cli?
  Prompting,       \* do programs write a prompt before they read?
  InvalidReads,    \* do they call read with a NULL buffer or a negative count?
  ROW_BOUND        \* bound of the model: no Enter beyond this row_index

Cells    == 0 .. SCREEN_SIZE - 1
Commands == 0 .. MAX_COMMAND_STORE - 1
RowCells == 0 .. CHAR_BUFFER_SIZE - 1
Chars    == Printable \cup {NUL, NL}

ASSUME TerminalSizes ==
  /\ CHAR_BUFFER_SIZE \in Nat \ {0}
  /\ NUM_COLS \in Nat \ {0}
  /\ SCREEN_SIZE \in Nat /\ SCREEN_SIZE >= CHAR_BUFFER_SIZE + NUM_COLS
  /\ MAX_COMMAND_STORE \in Nat \ {0}
  /\ TEXT_ROWS \in Nat \ {0}
  /\ TAB_WIDTH \in Nat \ {0}
  /\ ROW_BOUND \in Nat
ASSUME TerminalChars ==
  /\ Space \in Printable
  /\ NUL \notin Printable /\ NL \notin Printable /\ NUL # NL
  /\ TypeAhead \in BOOLEAN /\ Prompting \in BOOLEAN
  /\ InvalidReads \in BOOLEAN

VARIABLES
  live_buffer, bytes_read, live_buffer_location,   \* the line being edited
  bytes_written,        \* its first cells, written by the program: the prompt
  row_index,
  live_buffer_store, bytes_read_store,             \* the line that was entered
  read_in_progress,
  command_buffer, write_command_row, view_command_row,
  temp_command,         \* temp_commands[0], the only cell that is ever shown
  irq, count,           \* the loop the keyboard handler is in, its counter
  pc, local_bytes_written,                         \* of terminal_read
  char_buffer,          \* the line the last terminal_read returned
  pressed,              \* Enter pressed since the last terminal_read (history)
  commands              \* the last lines read that were not empty (history)

lineVars    == <<live_buffer, bytes_read, live_buffer_location>>
storeVars   == <<live_buffer_store, bytes_read_store>>
commandVars == <<command_buffer, write_command_row, view_command_row, temp_command>>
readVars    == <<local_bytes_written, char_buffer, commands>>
vars == <<lineVars, bytes_written, row_index, storeVars, read_in_progress,
          commandVars, irq, count, pc, readVars, pressed>>

\* terminal_init; the rest is zero at boot.
Init ==
  /\ live_buffer = [i \in Cells |-> NUL]
  /\ live_buffer_store = [i \in Cells |-> NUL]
  /\ bytes_read = 0 /\ bytes_read_store = 0
  /\ bytes_written = 0 /\ live_buffer_location = 0
  /\ row_index = 0
  /\ read_in_progress = FALSE
  /\ command_buffer = [r \in Commands |-> [i \in RowCells |-> NUL]]
  /\ write_command_row = 0 /\ view_command_row = 0
  /\ temp_command = NUL
  /\ irq = "none" /\ count = 0
  /\ pc = "run" /\ local_bytes_written = 0
  /\ char_buffer = <<>>
  /\ pressed = FALSE
  /\ commands = <<>>

-----------------------------------------------------------------------------
\* Edits of the helpers below that a mistake could make; the model never uses
\* them, the mutants of PROJECT.json do.
Inserted_NoShift(buf, at, last, c) == [buf EXCEPT ![at] = c]
HasRoom_OffByOne(n)        == bytes_read + n <= CHAR_BUFFER_SIZE - 1 + bytes_written
Scrolled_OffByOne(row, extra) == IF row + extra > TEXT_ROWS THEN row - 1 ELSE row
PromptLength_Forgotten     == 0
CommandsFull_OffByOne      == write_command_row > MAX_COMMAND_STORE
CommandsScrolled_KeepsLast ==
  [r \in Commands |-> IF r + 1 \in Commands THEN command_buffer[r + 1]
                      ELSE command_buffer[r]]
LineComplete_Anywhere      == \E i \in Cells : live_buffer_store[i] = NL

LineComplete == live_buffer_store[bytes_read_store] = NL

\* IRQ 1 is taken: not inside another handler or the cli section of a write.
KeyAccepted ==
  /\ irq = "none"
  /\ pc # "writing"
  /\ TypeAhead \/ pc = "run" \/ (pc = "waiting" /\ ~LineComplete)

\* output_char and tab(): cells at..last move up by one, c takes cell `at'.
Inserted(buf, at, last, c) ==
  [i \in Cells |-> IF i = at THEN c
                   ELSE IF at < i /\ i <= last THEN buf[i - 1] ELSE buf[i]]

\* backspace(): the cell at `at' goes, the cells up to `last' move down.
Erased(buf, at, last) ==
  [i \in Cells |-> IF at < last /\ at <= i /\ i <= last THEN buf[i + 1]
                   ELSE IF i = (IF at < last THEN last + 1 ELSE at) THEN NUL
                   ELSE buf[i]]

\* Does a further character fit when `n' more are to come with it?
HasRoom(n) == bytes_read + n < CHAR_BUFFER_SIZE - 1 + bytes_written

LineEstimate == IF bytes_read >= NUM_COLS THEN 1 ELSE 0

\* terminal_scroll when the text area is full.
Scrolled(row, extra) == IF row + extra >= TEXT_ROWS THEN row - 1 ELSE row

TypeChar(c) ==
  /\ row_index' = Scrolled(row_index, LineEstimate)
  /\ live_buffer' = Inserted(live_buffer, live_buffer_location, bytes_read, c)
  /\ bytes_read' = bytes_read + 1
  /\ live_buffer_location' = live_buffer_location + 1

output_char(c) ==
  IF HasRoom(0) THEN TypeChar(c) ELSE UNCHANGED <<lineVars, row_index>>

backspace ==
  IF live_buffer_location > bytes_written
  THEN /\ bytes_read' = IF bytes_read > 0 THEN bytes_read - 1 ELSE 0
       /\ live_buffer_location' = live_buffer_location - 1
       /\ live_buffer' = Erased(live_buffer, live_buffer_location', bytes_read')
  ELSE UNCHANGED lineVars

-----------------------------------------------------------------------------
\* Keys that go through read_parser.
PrintableKey(c) ==
  /\ KeyAccepted /\ read_in_progress
  /\ output_char(c)
  /\ UNCHANGED <<bytes_written, storeVars, read_in_progress, commandVars,
                 irq, count, pc, readVars, pressed>>

BackspaceKey ==
  /\ KeyAccepted /\ read_in_progress
  /\ backspace
  /\ UNCHANGED <<bytes_written, row_index, storeVars, read_in_progress,
                 commandVars, irq, count, pc, readVars, pressed>>

TabKey ==
  /\ KeyAccepted /\ read_in_progress
  /\ HasRoom(TAB_WIDTH - 1)
  /\ irq' = "tab" /\ count' = 0
  /\ UNCHANGED <<lineVars, bytes_written, row_index, storeVars,
                 read_in_progress, commandVars, pc, readVars, pressed>>

TabChar ==
  /\ irq = "tab"
  /\ TypeChar(Space)
  /\ IF count + 1 < TAB_WIDTH THEN irq' = "tab" /\ count' = count + 1
                              ELSE irq' = "none" /\ count' = 0
  /\ UNCHANGED <<bytes_written, storeVars, read_in_progress, commandVars, pc,
                 readVars, pressed>>

\* ctrl-L: buffer_clear.
ClearKey ==
  /\ KeyAccepted /\ read_in_progress
  /\ row_index' = 0
  /\ live_buffer_location' = bytes_read
  /\ UNCHANGED <<live_buffer, bytes_read, bytes_written, storeVars,
                 read_in_progress, commandVars, irq, count, pc, readVars, pressed>>

\* The row new_line goes to.  Its scroll tests the global row_index of
\* keyboard.h, which nothing assigns: it never happens.
RowAfter(row, length) == IF length > NUM_COLS THEN row + 2 ELSE row + 1

\* new_line.
EnterKey ==
  /\ KeyAccepted /\ read_in_progress
  /\ row_index < ROW_BOUND
  /\ row_index' = RowAfter(row_index, bytes_read)
  /\ live_buffer_store' = [i \in Cells |-> IF i < bytes_read THEN live_buffer[i]
                                           ELSE IF i = bytes_read THEN NL
                                           ELSE live_buffer_store[i]]
  /\ bytes_read_store' = bytes_read
  /\ live_buffer' = [i \in Cells |-> IF i < bytes_read THEN NUL ELSE live_buffer[i]]
  /\ bytes_read' = 0 /\ live_buffer_location' = 0 /\ bytes_written' = 0
  /\ pressed' = TRUE
  /\ UNCHANGED <<read_in_progress, commandVars, irq, count, pc, readVars>>

-----------------------------------------------------------------------------
\* The arrow keys do not ask whether a read is in progress.  (The corner of
\* the screen where the code refuses to move right is left out.)
LeftKey ==
  /\ KeyAccepted
  /\ live_buffer_location > bytes_written
  /\ live_buffer_location' = live_buffer_location - 1
  /\ UNCHANGED <<live_buffer, bytes_read, bytes_written, row_index, storeVars,
                 read_in_progress, commandVars, irq, count, pc, readVars, pressed>>

RightKey ==
  /\ KeyAccepted
  /\ live_buffer_location < bytes_read
  /\ live_buffer_location' = live_buffer_location + 1
  /\ UNCHANGED <<live_buffer, bytes_read, bytes_written, row_index, storeVars,
                 read_in_progress, commandVars, irq, count, pc, readVars, pressed>>

\* temp_commands[0] when the line being edited is left for the history.
SavedCommand ==
  IF view_command_row # write_command_row THEN temp_command
  ELSE IF bytes_read_store > 0 THEN live_buffer[bytes_written] ELSE NUL

\* prev_command and next_command up to their loops.
UpKey ==
  /\ KeyAccepted
  /\ temp_command' = SavedCommand
  /\ IF view_command_row > 0
     THEN view_command_row' = view_command_row - 1 /\ irq' = "prev"
     ELSE UNCHANGED <<view_command_row, irq>>
  /\ UNCHANGED <<lineVars, bytes_written, row_index, storeVars, read_in_progress,
                 command_buffer, write_command_row, count, pc, readVars, pressed>>

DownKey ==
  /\ KeyAccepted
  /\ temp_command' = SavedCommand
  /\ IF view_command_row < write_command_row
     THEN view_command_row' = view_command_row + 1 /\ irq' = "next"
     ELSE UNCHANGED <<view_command_row, irq>>
  /\ UNCHANGED <<lineVars, bytes_written, row_index, storeVars, read_in_progress,
                 command_buffer, write_command_row, count, pc, readVars, pressed>>

\* Their first loop: CHAR_BUFFER_SIZE calls of backspace.
RecallErase ==
  /\ irq \in {"prev", "next"} /\ count < CHAR_BUFFER_SIZE
  /\ backspace
  /\ count' = count + 1
  /\ UNCHANGED <<bytes_written, row_index, storeVars, read_in_progress,
                 commandVars, irq, pc, readVars, pressed>>

\* command_buffer[view_command_row][i].  The row past the end of the array is
\* the memory of bytes_read, a number below 256: one byte, then zeros.
Stored(i) ==
  IF view_command_row < MAX_COMMAND_STORE THEN command_buffer[view_command_row][i]
  ELSE IF i = 0 /\ bytes_read # 0 THEN Space ELSE NUL

\* What is typed for it: next_command takes the saved line after the last row.
Shown(i) ==
  IF irq = "next" /\ view_command_row >= write_command_row THEN temp_command
  ELSE Stored(i)

\* Their second loop: it ends at a '\0' or at the end of the row.
RecallOver ==
  IF count < 2 * CHAR_BUFFER_SIZE THEN Stored(count - CHAR_BUFFER_SIZE) = NUL ELSE TRUE

RecallChar ==
  /\ irq \in {"prev", "next"} /\ count >= CHAR_BUFFER_SIZE
  /\ ~RecallOver
  /\ output_char(Shown(count - CHAR_BUFFER_SIZE))
  /\ count' = count + 1
  /\ UNCHANGED <<bytes_written, storeVars, read_in_progress, commandVars, irq,
                 pc, readVars, pressed>>

RecallEnd ==
  /\ irq \in {"prev", "next"} /\ count >= CHAR_BUFFER_SIZE
  /\ RecallOver
  /\ irq' = "none" /\ count' = 0
  /\ UNCHANGED <<lineVars, bytes_written, row_index, storeVars, read_in_progress,
                 commandVars, pc, readVars, pressed>>

-----------------------------------------------------------------------------
\* terminal_read with a NULL buffer or a negative count.
ReadInvalid ==
  /\ irq = "none" /\ pc = "run"
  /\ InvalidReads
  /\ read_in_progress' = TRUE
  /\ UNCHANGED <<lineVars, bytes_written, row_index, storeVars, commandVars,
                 irq, count, pc, readVars, pressed>>

ReadStart ==
  /\ irq = "none" /\ pc = "run"
  /\ Prompting => bytes_written # 0
  /\ read_in_progress' = TRUE
  /\ pc' = "reading"
  /\ UNCHANGED <<lineVars, bytes_written, row_index, storeVars, commandVars,
                 irq, count, readVars, pressed>>

\* The cli section that takes the length of the prompt.
PromptLength == bytes_written

ReadPrompt ==
  /\ irq = "none" /\ pc = "reading"
  /\ local_bytes_written' = PromptLength
  /\ pc' = "waiting"
  /\ UNCHANGED <<lineVars, bytes_written, row_index, storeVars, read_in_progress,
                 commandVars, irq, count, char_buffer, commands, pressed>>

\* The loop finds the newline; the cli is still to come.
ReadSee ==
  /\ irq = "none" /\ pc = "waiting"
  /\ LineComplete
  /\ pc' = "matched"
  /\ UNCHANGED <<lineVars, bytes_written, row_index, storeVars, read_in_progress,
                 commandVars, irq, count, readVars, pressed>>

\* live_buffer_store from local_bytes_written to bytes_read_store.
EnteredLine ==
  [i \in 1 .. (IF bytes_read_store > local_bytes_written
               THEN bytes_read_store - local_bytes_written ELSE 0) |->
     live_buffer_store[local_bytes_written + i - 1]]

CommandsFull == write_command_row >= MAX_COMMAND_STORE

\* command_buffer_scroll.
CommandsScrolled ==
  [r \in Commands |-> IF r + 1 \in Commands THEN command_buffer[r + 1]
                      ELSE [i \in RowCells |-> NUL]]

LastOf(s) == IF Len(s) > MAX_COMMAND_STORE THEN Tail(s) ELSE s

\* The cli section that copies the line out.
ReadCollect ==
  /\ irq = "none" /\ pc = "matched"
  /\ LET rows == IF CommandsFull THEN CommandsScrolled ELSE command_buffer
         loc  == IF CommandsFull THEN MAX_COMMAND_STORE - 1 ELSE write_command_row
         line == EnteredLine
     IN IF bytes_read_store > local_bytes_written
        THEN /\ command_buffer' = [rows EXCEPT ![loc] =
                  [i \in RowCells |-> IF i < Len(line) THEN line[i + 1] ELSE @[i]]]
             /\ write_command_row' = loc + 1
             /\ view_command_row' = loc + 1
             /\ commands' = LastOf(Append(commands, line))
        ELSE /\ command_buffer' = rows
             /\ write_command_row' = loc
             /\ UNCHANGED <<view_command_row, commands>>
  /\ char_buffer' = EnteredLine
  /\ live_buffer_store' = [i \in Cells |-> IF i < bytes_read_store THEN NUL
                                           ELSE live_buffer_store[i]]
  /\ bytes_read_store' = 0
  /\ read_in_progress' = FALSE
  /\ pressed' = FALSE
  /\ pc' = "run" /\ local_bytes_written' = 0
  /\ UNCHANGED <<lineVars, bytes_written, row_index, temp_command, irq, count>>

-----------------------------------------------------------------------------
\* terminal_write, whose loop runs with interrupts disabled.
WriteStart ==
  /\ irq = "none" /\ pc = "run"
  /\ pc' = "writing"
  /\ UNCHANGED <<lineVars, bytes_written, row_index, storeVars, read_in_progress,
                 commandVars, irq, count, readVars, pressed>>

\* The first CHAR_BUFFER_SIZE cells, and no others, are cleared.
Cleared(buf) == [i \in Cells |-> IF i < CHAR_BUFFER_SIZE THEN NUL ELSE buf[i]]

WriteChar(c) ==
  /\ irq = "none" /\ pc = "writing"
  /\ LET wrap == bytes_written >= NUM_COLS
         at   == IF wrap THEN 0 ELSE bytes_written
         row  == Scrolled(IF wrap THEN row_index + 1 ELSE row_index, 0)
         put  == [(IF at = 0 THEN Cleared(live_buffer) ELSE live_buffer)
                   EXCEPT ![at] = c]
     IN IF c = NL
        THEN /\ bytes_written' = 0
             /\ row_index' = row + 1
             /\ live_buffer' = Cleared(put)
        ELSE /\ bytes_written' = at + 1
             /\ row_index' = row
             /\ live_buffer' = put
  /\ UNCHANGED <<bytes_read, live_buffer_location, storeVars, read_in_progress,
                 commandVars, irq, count, pc, readVars, pressed>>

\* A line that was entered and that nobody read is dropped.
WriteEnd ==
  /\ irq = "none" /\ pc = "writing"
  /\ live_buffer_store' = [live_buffer_store EXCEPT ![0] = NUL]
  /\ bytes_read_store' = 0
  /\ bytes_read' = bytes_written % NUM_COLS
  /\ bytes_written' = bytes_written % NUM_COLS
  /\ live_buffer_location' = bytes_written % NUM_COLS
  /\ pc' = "run"
  /\ UNCHANGED <<live_buffer, row_index, read_in_progress, commandVars, irq,
                 count, readVars, pressed>>

-----------------------------------------------------------------------------
Key ==
  \/ \E c \in Printable : PrintableKey(c)
  \/ BackspaceKey \/ TabKey \/ ClearKey \/ EnterKey
  \/ LeftKey \/ RightKey \/ UpKey \/ DownKey

Handler == TabChar \/ RecallErase \/ RecallChar \/ RecallEnd

Program ==
  \/ ReadInvalid \/ ReadStart \/ ReadPrompt \/ ReadSee \/ ReadCollect
  \/ WriteStart \/ (\E c \in Printable \cup {NL} : WriteChar(c)) \/ WriteEnd

Next == Key \/ Handler \/ Program

Spec == Init /\ [][Next]_vars

-----------------------------------------------------------------------------
LineTypes ==
  /\ live_buffer \in [Cells -> Chars]
  /\ bytes_read \in Cells
  /\ live_buffer_location \in Cells
  /\ bytes_written \in 0 .. NUM_COLS
  /\ row_index \in Int
  /\ live_buffer_store \in [Cells -> Chars]
  /\ bytes_read_store \in Cells

CommandTypes ==
  /\ command_buffer \in [Commands -> [RowCells -> Chars]]
  /\ write_command_row \in 0 .. MAX_COMMAND_STORE
  /\ view_command_row \in 0 .. MAX_COMMAND_STORE
  /\ temp_command \in Chars
  /\ commands \in Seq(Seq(Chars))

ControlTypes ==
  /\ read_in_progress \in BOOLEAN
  /\ irq \in {"none", "tab", "prev", "next"}
  /\ count \in 0 .. TAB_WIDTH + 2 * CHAR_BUFFER_SIZE
  /\ pc \in {"run", "reading", "waiting", "matched", "writing"}
  /\ local_bytes_written \in 0 .. NUM_COLS
  /\ char_buffer \in Seq(Chars)
  /\ pressed \in BOOLEAN

\* Type invariant: every index stays inside the array it indexes.
TerminalTypeOK == LineTypes /\ CommandTypes /\ ControlTypes

\* Whatever is typed, tabbed, erased or recalled, the cursor stays between the
\* end of the prompt and the end of the line, and the line, prompt included,
\* leaves room for its newline.
LineBounds ==
  pc # "writing" =>
    /\ bytes_written <= live_buffer_location
    /\ live_buffer_location <= bytes_read
    /\ bytes_read <= CHAR_BUFFER_SIZE - 1 + bytes_written

\* new_line stores cell i of the line at cell NUM_COLS * row_index + i of
\* history_buffer: the line to be stored ends before the array does.
HistoryInBounds ==
  pc # "writing" /\ bytes_read > 0 =>
    NUM_COLS * row_index + bytes_read <= NUM_COLS * TEXT_ROWS

\* A line that terminal_read is about to copy fits a row of command_buffer.
LineFits ==
  pc \in {"waiting", "matched"} /\ LineComplete =>
    bytes_read_store - local_bytes_written <= CHAR_BUFFER_SIZE - 1

\* "wait until a newline character has been pressed" (terminal.c:120): a read
\* returns because of an Enter pressed since the last line was read.
ReadWaits == pc = "matched" => pressed

RowOf(line) == [i \in RowCells |-> IF i < Len(line) THEN line[i + 1] ELSE NUL]

\* The rows the arrow keys walk through hold the last lines that were read, in
\* order and unmixed; what scrolling loses is one line more than it must at
\* most, and the rows from write_command_row on are empty.
CommandHistory ==
  LET n == Len(commands)
      w == write_command_row
  IN /\ w <= n
     /\ w < n => w >= MAX_COMMAND_STORE - 1
     /\ \A r \in Commands :
          command_buffer[r] = IF r < w THEN RowOf(commands[n - w + r + 1])
                                       ELSE RowOf(<<>>)
=============================================================================
