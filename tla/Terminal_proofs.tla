--------------------------- MODULE Terminal_proofs ---------------------------
(***************************************************************************)
(* Proofs about Terminal: for every size of the buffers and whatever is    *)
(* typed, the indices stay in range and the cursor inside the line; and,   *)
(* when no key slips in between Enter and the reader, every line fits the  *)
(* row of command_buffer it is copied to.                                  *)
(***************************************************************************)
EXTENDS Terminal, TLAPS

USE TerminalSizes, TerminalChars

-----------------------------------------------------------------------------
\* The handler's loops: no program runs during them, and tab() has checked
\* the room for the characters it has still to insert.
LoopInv ==
  /\ irq = "none" => count = 0
  /\ irq # "none" => pc # "writing"
  /\ irq = "tab" =>
       /\ count < TAB_WIDTH
       /\ bytes_read + (TAB_WIDTH - count) <= CHAR_BUFFER_SIZE - 1 + bytes_written
  /\ irq \in {"prev", "next"} => count <= 2 * CHAR_BUFFER_SIZE
  /\ pc # "writing" => bytes_written < NUM_COLS

LineInv == TerminalTypeOK /\ LineBounds /\ LoopInv

-----------------------------------------------------------------------------
LEMMA CellFacts ==
  /\ SCREEN_SIZE \in Nat \ {0}
  /\ 0 \in Cells
  /\ NUL \in Chars /\ NL \in Chars /\ Space \in Chars /\ Printable \subseteq Chars
BY DEF Cells, Chars

\* Inserting a character in the array of cells.
LEMMA InsertedType ==
  ASSUME NEW buf \in [Cells -> Chars], NEW at \in Cells, NEW last \in Cells,
         NEW c \in Chars
  PROVE  Inserted(buf, at, last, c) \in [Cells -> Chars]
<1>1. \A i \in Cells : at < i => i - 1 \in Cells
  BY DEF Cells
<1> QED BY <1>1 DEF Inserted

\* Erasing one moves a cell down from inside the array only.
LEMMA ErasedType ==
  ASSUME NEW buf \in [Cells -> Chars], NEW at \in Cells, NEW last \in Int,
         last + 1 \in Cells
  PROVE  Erased(buf, at, last) \in [Cells -> Chars]
<1>1. \A i \in Cells : i <= last => i + 1 \in Cells
  BY DEF Cells
<1> QED BY <1>1, CellFacts DEF Erased

\* output_char: the line grows by one character, or not at all.
LEMMA OutputCharStep ==
  ASSUME LineInv, pc # "writing", NEW c \in Chars, output_char(c)
  PROVE  /\ live_buffer' \in [Cells -> Chars]
         /\ bytes_read' \in Cells /\ live_buffer_location' \in Cells
         /\ row_index' \in Int
         /\ bytes_written <= live_buffer_location'
         /\ live_buffer_location' <= bytes_read'
         /\ bytes_read' <= CHAR_BUFFER_SIZE - 1 + bytes_written
<1> USE DEF LineInv, TerminalTypeOK, LineTypes, LineBounds, LoopInv
<1>1. CASE HasRoom(0)
  <2>1. bytes_read < CHAR_BUFFER_SIZE - 1 + bytes_written
    BY <1>1 DEF HasRoom, Cells
  <2>2. TypeChar(c)
    BY <1>1 DEF output_char
  <2>3. live_buffer' \in [Cells -> Chars]
    BY <2>2, InsertedType DEF TypeChar
  <2>4. row_index' \in Int
    BY <2>2 DEF TypeChar, Scrolled, LineEstimate
  <2> QED BY <2>1, <2>2, <2>3, <2>4 DEF TypeChar, Cells
<1>2. CASE ~HasRoom(0)
  BY <1>2 DEF output_char, lineVars
<1> QED BY <1>1, <1>2

\* backspace: the line shrinks by one character, or not at all.
LEMMA BackspaceStep ==
  ASSUME LineInv, pc # "writing", backspace
  PROVE  /\ live_buffer' \in [Cells -> Chars]
         /\ bytes_read' \in Cells /\ live_buffer_location' \in Cells
         /\ bytes_written <= live_buffer_location'
         /\ live_buffer_location' <= bytes_read'
         /\ bytes_read' <= bytes_read
<1> USE DEF LineInv, TerminalTypeOK, LineTypes, LineBounds
<1>1. CASE live_buffer_location > bytes_written
  <2>1. bytes_read' = bytes_read - 1 /\ live_buffer_location' = live_buffer_location - 1
    BY <1>1 DEF backspace, Cells
  <2>2. live_buffer_location' \in Cells /\ bytes_read' \in Int /\ bytes_read' + 1 \in Cells
    BY <1>1, <2>1 DEF Cells
  <2>3. live_buffer' = Erased(live_buffer, live_buffer_location', bytes_read')
    BY <1>1 DEF backspace
  <2>4. live_buffer' \in [Cells -> Chars]
    BY <2>2, <2>3, ErasedType
  <2> QED BY <1>1, <2>1, <2>4 DEF Cells
<1>2. CASE ~(live_buffer_location > bytes_written)
  BY <1>2 DEF backspace, lineVars, Cells
<1> QED BY <1>1, <1>2

LEMMA EnteredLineType ==
  ASSUME TerminalTypeOK
  PROVE  EnteredLine \in Seq(Chars)
<1> DEFINE n == IF bytes_read_store > local_bytes_written
                THEN bytes_read_store - local_bytes_written ELSE 0
<1> USE DEF TerminalTypeOK, LineTypes, ControlTypes
<1>1. n \in Nat
  BY DEF Cells
<1>2. ASSUME NEW i \in 1 .. n
      PROVE  live_buffer_store[local_bytes_written + i - 1] \in Chars
  BY <1>1, <1>2 DEF Cells
<1>3. EnteredLine = [i \in 1 .. n |-> live_buffer_store[local_bytes_written + i - 1]]
  BY DEF EnteredLine
<1> HIDE DEF n
<1> QED BY <1>1, <1>2, <1>3

-----------------------------------------------------------------------------
THEOREM InitLine == Init => LineInv
<1> SUFFICES ASSUME Init PROVE LineInv
  OBVIOUS
<1> USE DEF Init
<1>1. LineTypes
  BY CellFacts DEF LineTypes
<1>2. CommandTypes
  <2>1. command_buffer \in [Commands -> [RowCells -> Chars]]
    BY CellFacts
  <2>2. commands \in Seq(Seq(Chars))
    OBVIOUS
  <2> QED BY <2>1, <2>2, CellFacts DEF CommandTypes
<1>3. ControlTypes
  <2>1. 0 \in 0 .. TAB_WIDTH + 2 * CHAR_BUFFER_SIZE /\ 0 \in 0 .. NUM_COLS
    OBVIOUS
  <2>2. char_buffer \in Seq(Chars)
    OBVIOUS
  <2> QED BY <2>1, <2>2 DEF ControlTypes
<1>4. LineBounds /\ LoopInv
  BY DEF LineBounds, LoopInv
<1> QED BY <1>1, <1>2, <1>3, <1>4 DEF LineInv, TerminalTypeOK

\* Actions that move the cursor at most: what they leave alone, they keep.
LEMMA KeyLine == LineInv /\ Key => LineInv'
<1> SUFFICES ASSUME LineInv, Key PROVE LineInv'
  OBVIOUS
<1> USE DEF LineInv, LineBounds, LoopInv
<1>0. KeyAccepted
  BY DEF Key, PrintableKey, BackspaceKey, TabKey, ClearKey, EnterKey, LeftKey,
         RightKey, UpKey, DownKey
<1>a. irq = "none" /\ pc # "writing"
  BY <1>0 DEF KeyAccepted
<1>b. TerminalTypeOK
  OBVIOUS
<1>c. /\ bytes_written < NUM_COLS /\ bytes_written \in Nat
      /\ bytes_read \in Nat /\ live_buffer_location \in Nat
  BY <1>a, <1>b DEF TerminalTypeOK, LineTypes, Cells
<1>1. ASSUME NEW c \in Printable, PrintableKey(c) PROVE LineInv'
  <2>1. output_char(c) /\ c \in Chars
    BY <1>1, CellFacts DEF PrintableKey
  <2>2. LineTypes' /\ LineBounds'
    BY <1>1, <1>a, <2>1, OutputCharStep
    DEF PrintableKey, TerminalTypeOK, LineTypes, storeVars
  <2>3. CommandTypes' /\ ControlTypes'
    BY <1>1, <1>b DEF PrintableKey, TerminalTypeOK, CommandTypes, ControlTypes,
                      commandVars, readVars
  <2>4. LoopInv'
    BY <1>1, <1>a, <1>c DEF PrintableKey
  <2> QED BY <2>2, <2>3, <2>4 DEF TerminalTypeOK
<1>2. CASE BackspaceKey
  <2>1. backspace
    BY <1>2 DEF BackspaceKey
  <2>2. /\ live_buffer' \in [Cells -> Chars]
        /\ bytes_read' \in Cells /\ live_buffer_location' \in Cells
        /\ bytes_written <= live_buffer_location'
        /\ live_buffer_location' <= bytes_read'
        /\ bytes_read' <= bytes_read
    BY <1>a, <2>1, BackspaceStep
  <2>3. LineTypes'
    BY <1>2, <1>b, <2>2 DEF BackspaceKey, TerminalTypeOK, LineTypes, storeVars
  <2>4. bytes_read' <= CHAR_BUFFER_SIZE - 1 + bytes_written
    BY <1>a, <1>c, <2>2 DEF Cells
  <2>5. CommandTypes' /\ ControlTypes'
    BY <1>2, <1>b DEF BackspaceKey, TerminalTypeOK, CommandTypes, ControlTypes,
                      commandVars, readVars
  <2>6. LineBounds' /\ LoopInv'
    BY <1>2, <1>a, <1>c, <2>2, <2>4 DEF BackspaceKey
  <2> QED BY <2>3, <2>5, <2>6 DEF TerminalTypeOK
<1>3. CASE TabKey
  <2>1. bytes_read + (TAB_WIDTH - 1) < CHAR_BUFFER_SIZE - 1 + bytes_written
    BY <1>3 DEF TabKey, HasRoom
  <2>2. TerminalTypeOK'
    BY <1>3, <1>b DEF TabKey, TerminalTypeOK, LineTypes, CommandTypes, ControlTypes,
                      lineVars, storeVars, commandVars, readVars
  <2>3. bytes_read + (TAB_WIDTH - 0) <= CHAR_BUFFER_SIZE - 1 + bytes_written
    BY <2>1, <1>c
  <2> QED BY <1>3, <1>a, <2>2, <2>3, <1>c DEF TabKey, lineVars
<1>4. CASE ClearKey
  <2>1. TerminalTypeOK'
    BY <1>4, <1>b DEF ClearKey, TerminalTypeOK, LineTypes, CommandTypes, ControlTypes,
                      storeVars, commandVars, readVars
  <2> QED BY <1>4, <1>a, <1>c, <2>1 DEF ClearKey
<1>5. CASE EnterKey
  <2>1. live_buffer' \in [Cells -> Chars] /\ live_buffer_store' \in [Cells -> Chars]
    BY <1>5, <1>b, CellFacts DEF EnterKey, TerminalTypeOK, LineTypes
  <2>2. row_index' \in Int
    BY <1>5, <1>b DEF EnterKey, RowAfter, TerminalTypeOK, LineTypes
  <2>3. LineTypes'
    BY <1>5, <1>b, <2>1, <2>2, CellFacts DEF EnterKey, TerminalTypeOK, LineTypes
  <2>4. CommandTypes'
    BY <1>5, <1>b DEF EnterKey, TerminalTypeOK, CommandTypes, commandVars, readVars
  <2>5. ControlTypes'
    BY <1>5, <1>b DEF EnterKey, TerminalTypeOK, ControlTypes, readVars
  <2>6. LineBounds' /\ LoopInv'
    BY <1>5, <1>a DEF EnterKey
  <2> QED BY <2>3, <2>4, <2>5, <2>6 DEF TerminalTypeOK
<1>6. CASE LeftKey \/ RightKey
  <2>1. /\ live_buffer_location' \in Cells
        /\ bytes_written <= live_buffer_location' /\ live_buffer_location' <= bytes_read
        /\ UNCHANGED <<live_buffer, bytes_read, bytes_written, row_index, storeVars,
                       read_in_progress, commandVars, irq, count, pc, readVars, pressed>>
    BY <1>6, <1>a, <1>b, <1>c DEF LeftKey, RightKey, TerminalTypeOK, LineTypes, Cells
  <2>2. TerminalTypeOK'
    BY <1>b, <2>1 DEF TerminalTypeOK, LineTypes, CommandTypes, ControlTypes,
                      storeVars, commandVars, readVars
  <2> QED BY <1>a, <1>c, <2>1, <2>2
<1>7. CASE UpKey \/ DownKey
  <2>1. temp_command' \in Chars
    BY <1>7, <1>b, <1>c, CellFacts
    DEF UpKey, DownKey, SavedCommand, TerminalTypeOK, LineTypes, CommandTypes, Cells
  <2>2. view_command_row' \in 0 .. MAX_COMMAND_STORE
    BY <1>7, <1>b DEF UpKey, DownKey, TerminalTypeOK, CommandTypes
  <2>3. irq' \in {"none", "prev", "next"} /\ count = 0 /\ count' = 0
    BY <1>7, <1>a DEF UpKey, DownKey
  <2>4. /\ UNCHANGED <<lineVars, bytes_written, row_index, storeVars, read_in_progress,
                       command_buffer, write_command_row, pc, readVars, pressed>>
    BY <1>7 DEF UpKey, DownKey
  <2>5. TerminalTypeOK'
    BY <1>b, <2>1, <2>2, <2>3, <2>4
    DEF TerminalTypeOK, LineTypes, CommandTypes, ControlTypes, lineVars, storeVars, readVars
  <2>6. LineBounds'
    BY <1>a, <2>4 DEF lineVars
  <2>7. LoopInv'
    BY <1>a, <1>c, <2>3, <2>4
  <2> QED BY <2>5, <2>6, <2>7
<1> QED BY <1>1, <1>2, <1>3, <1>4, <1>5, <1>6, <1>7 DEF Key

\* Nothing but the line changes in the loops of the handler.
LEMMA HandlerLine == LineInv /\ Handler => LineInv'
<1> SUFFICES ASSUME LineInv, Handler PROVE LineInv'
  OBVIOUS
<1>a. TerminalTypeOK /\ irq # "none" /\ pc # "writing"
  BY DEF LineInv, LoopInv, Handler, TabChar, RecallErase, RecallChar, RecallEnd
<1>b. /\ bytes_written < NUM_COLS /\ bytes_written \in Nat
      /\ bytes_read \in Nat /\ live_buffer_location \in Nat /\ count \in Nat
  BY <1>a DEF LineInv, LoopInv, TerminalTypeOK, LineTypes, ControlTypes, Cells
<1>1. CASE TabChar
  <2>1. /\ count < TAB_WIDTH
        /\ bytes_read + (TAB_WIDTH - count) <= CHAR_BUFFER_SIZE - 1 + bytes_written
    BY <1>1 DEF TabChar, LineInv, LoopInv
  <2>2. HasRoom(0)
    BY <1>b, <2>1 DEF HasRoom
  <2>3. output_char(Space) /\ Space \in Chars
    BY <1>1, <2>2, CellFacts DEF TabChar, output_char
  <2>4. LineTypes' /\ LineBounds'
    BY <1>1, <1>a, <2>3, OutputCharStep
    DEF TabChar, TerminalTypeOK, LineTypes, LineBounds, storeVars
  <2>5. CommandTypes'
    BY <1>1, <1>a DEF TabChar, TerminalTypeOK, CommandTypes, commandVars, readVars
  <2>6. bytes_read' = bytes_read + 1 /\ bytes_written' = bytes_written /\ pc' = pc
    BY <1>1 DEF TabChar, TypeChar
  <2>7. \/ irq' = "tab" /\ count' = count + 1 /\ count' < TAB_WIDTH
        \/ irq' = "none" /\ count' = 0
    BY <1>1 DEF TabChar
  <2>8. LoopInv'
    <3>1. CASE irq' = "tab" /\ count' = count + 1 /\ count' < TAB_WIDTH
      BY <1>a, <1>b, <2>1, <2>6, <3>1 DEF LoopInv
    <3>2. CASE irq' = "none" /\ count' = 0
      BY <1>b, <2>6, <3>2 DEF LoopInv
    <3> QED BY <2>7, <3>1, <3>2
  <2>9. count' \in 0 .. TAB_WIDTH + 2 * CHAR_BUFFER_SIZE
    BY <1>b, <2>7
  <2>10. ControlTypes'
    BY <1>1, <1>a, <2>7, <2>9 DEF TabChar, TerminalTypeOK, ControlTypes, readVars
  <2> QED BY <2>4, <2>5, <2>8, <2>10 DEF LineInv, TerminalTypeOK
<1>2. CASE RecallErase
  <2>1. backspace
    BY <1>2 DEF RecallErase
  <2>2. /\ live_buffer' \in [Cells -> Chars]
        /\ bytes_read' \in Cells /\ live_buffer_location' \in Cells
        /\ bytes_written <= live_buffer_location'
        /\ live_buffer_location' <= bytes_read'
        /\ bytes_read' <= bytes_read
    BY <1>a, <2>1, BackspaceStep
  <2>3. LineTypes' /\ CommandTypes'
    BY <1>2, <1>a, <2>2
    DEF RecallErase, TerminalTypeOK, LineTypes, CommandTypes, storeVars, commandVars, readVars
  <2>4. bytes_read' <= CHAR_BUFFER_SIZE - 1 + bytes_written
    BY <1>a, <1>b, <2>2 DEF LineInv, LineBounds, Cells
  <2>5. count' = count + 1 /\ count' <= CHAR_BUFFER_SIZE
    BY <1>2, <1>b DEF RecallErase
  <2>6. count' \in 0 .. TAB_WIDTH + 2 * CHAR_BUFFER_SIZE /\ count' <= 2 * CHAR_BUFFER_SIZE
    BY <1>b, <2>5
  <2>7. ControlTypes'
    BY <1>2, <1>a, <2>6 DEF RecallErase, TerminalTypeOK, ControlTypes, readVars
  <2>8. LineBounds'
    BY <1>2, <2>2, <2>4 DEF RecallErase, LineBounds
  <2>9. LoopInv'
    BY <1>2, <1>a, <1>b, <2>6 DEF RecallErase, LoopInv
  <2> QED BY <2>3, <2>7, <2>8, <2>9 DEF LineInv, TerminalTypeOK
<1>3. CASE RecallChar
  <2>1. count - CHAR_BUFFER_SIZE \in RowCells /\ count < 2 * CHAR_BUFFER_SIZE
    BY <1>3, <1>b DEF RecallChar, RecallOver, RowCells
  <2>2. Stored(count - CHAR_BUFFER_SIZE) \in Chars
    BY <1>a, <2>1, CellFacts DEF Stored, TerminalTypeOK, CommandTypes, Commands
  <2>3. Shown(count - CHAR_BUFFER_SIZE) \in Chars
    BY <1>a, <2>2 DEF Shown, TerminalTypeOK, CommandTypes
  <2>4. output_char(Shown(count - CHAR_BUFFER_SIZE))
    BY <1>3 DEF RecallChar
  <2>5. LineTypes' /\ LineBounds'
    BY <1>3, <1>a, <2>3, <2>4, OutputCharStep
    DEF RecallChar, TerminalTypeOK, LineTypes, LineBounds, storeVars
  <2>6. CommandTypes'
    BY <1>3, <1>a DEF RecallChar, TerminalTypeOK, CommandTypes, commandVars, readVars
  <2>7. count' \in 0 .. TAB_WIDTH + 2 * CHAR_BUFFER_SIZE /\ count' <= 2 * CHAR_BUFFER_SIZE
    BY <1>3, <1>b, <2>1 DEF RecallChar
  <2>8. ControlTypes'
    BY <1>3, <1>a, <2>7 DEF RecallChar, TerminalTypeOK, ControlTypes, readVars
  <2>9. LoopInv'
    BY <1>3, <1>a, <1>b, <2>7 DEF RecallChar, LoopInv
  <2> QED BY <2>5, <2>6, <2>8, <2>9 DEF LineInv, TerminalTypeOK
<1>4. CASE RecallEnd
  <2>1. LineTypes' /\ CommandTypes' /\ LineBounds'
    BY <1>4, <1>a
    DEF RecallEnd, LineInv, TerminalTypeOK, LineTypes, CommandTypes, LineBounds,
        lineVars, storeVars, commandVars, readVars
  <2>2. ControlTypes'
    <3>1. 0 \in 0 .. TAB_WIDTH + 2 * CHAR_BUFFER_SIZE
      OBVIOUS
    <3> QED BY <1>4, <1>a, <3>1 DEF RecallEnd, TerminalTypeOK, ControlTypes, readVars
  <2>3. LoopInv'
    BY <1>4, <1>b DEF RecallEnd, LoopInv
  <2> QED BY <2>1, <2>2, <2>3 DEF LineInv, TerminalTypeOK
<1> QED BY <1>1, <1>2, <1>3, <1>4 DEF Handler

\* The program's side: reads take the entered line, writes replace the line.
LEMMA ProgramLine == LineInv /\ Program => LineInv'
<1> SUFFICES ASSUME LineInv, Program PROVE LineInv'
  OBVIOUS
<1>a. TerminalTypeOK /\ irq = "none" /\ count = 0
  BY DEF LineInv, LoopInv, Program, ReadInvalid, ReadStart, ReadPrompt, ReadSee,
         ReadCollect, WriteStart, WriteChar, WriteEnd
<1>b. bytes_written \in 0 .. NUM_COLS /\ (pc # "writing" => bytes_written < NUM_COLS)
  BY <1>a DEF LineInv, LoopInv, TerminalTypeOK, LineTypes
<1>1. CASE ReadInvalid \/ ReadStart \/ ReadPrompt \/ ReadSee
  <2>1. /\ UNCHANGED <<lineVars, bytes_written, row_index, storeVars, commandVars,
                       irq, count, char_buffer, commands, pressed>>
        /\ pc # "writing" /\ pc' # "writing"
    BY <1>1 DEF ReadInvalid, ReadStart, ReadPrompt, ReadSee, readVars
  <2>2. LineTypes' /\ CommandTypes'
    BY <1>a, <2>1 DEF TerminalTypeOK, LineTypes, CommandTypes, lineVars, storeVars, commandVars
  <2>3. ControlTypes'
    BY <1>1, <1>a, <1>b, <2>1
    DEF ReadInvalid, ReadStart, ReadPrompt, ReadSee, PromptLength, TerminalTypeOK,
        ControlTypes, readVars
  <2>4. LineBounds' /\ LoopInv'
    BY <1>a, <2>1 DEF LineInv, LineBounds, LoopInv, lineVars
  <2> QED BY <2>2, <2>3, <2>4 DEF LineInv, TerminalTypeOK
<1>2. CASE ReadCollect
  <2>1. live_buffer_store' \in [Cells -> Chars] /\ bytes_read_store' \in Cells
    BY <1>2, <1>a, CellFacts DEF ReadCollect, TerminalTypeOK, LineTypes
  <2>2. /\ UNCHANGED <<lineVars, bytes_written, row_index, temp_command, irq, count>>
        /\ pc = "matched" /\ pc' = "run" /\ local_bytes_written' = 0
        /\ read_in_progress' = FALSE /\ pressed' = FALSE /\ char_buffer' = EnteredLine
    BY <1>2 DEF ReadCollect
  <2>3. LineTypes'
    BY <1>a, <2>1, <2>2 DEF TerminalTypeOK, LineTypes, lineVars
  <2>4. ControlTypes'
    <3>1. char_buffer' \in Seq(Chars) /\ 0 \in 0 .. NUM_COLS
      BY <1>a, <2>2, EnteredLineType
    <3> QED BY <1>a, <2>2, <3>1 DEF TerminalTypeOK, ControlTypes
  <2>5. CommandTypes'
    <3> DEFINE rows == IF CommandsFull THEN CommandsScrolled ELSE command_buffer
               loc  == IF CommandsFull THEN MAX_COMMAND_STORE - 1 ELSE write_command_row
               line == EnteredLine
               row  == [i \in RowCells |-> IF i < Len(line) THEN line[i + 1] ELSE rows[loc][i]]
    <3>1. CommandsScrolled \in [Commands -> [RowCells -> Chars]]
      BY <1>a, CellFacts DEF CommandsScrolled, TerminalTypeOK, CommandTypes
    <3>2. rows \in [Commands -> [RowCells -> Chars]] /\ loc \in Commands
      BY <1>a, <3>1 DEF CommandsFull, TerminalTypeOK, CommandTypes, Commands
    <3>3. line \in Seq(Chars)
      BY <1>a, EnteredLineType
    <3>4. loc + 1 \in 0 .. MAX_COMMAND_STORE /\ loc \in 0 .. MAX_COMMAND_STORE
      <4>1. loc \in 0 .. MAX_COMMAND_STORE - 1
        BY <3>2 DEF Commands
      <4> HIDE DEF loc
      <4> QED BY <4>1
    <3>5. CASE bytes_read_store > local_bytes_written
      <4>1. /\ command_buffer' = [rows EXCEPT ![loc] = row]
            /\ write_command_row' = loc + 1 /\ view_command_row' = loc + 1
            /\ commands' = LastOf(Append(commands, line))
        BY <1>2, <3>2, <3>5 DEF ReadCollect
      <4>2. row \in [RowCells -> Chars]
        <5>1. \A i \in RowCells : i < Len(line) => line[i + 1] \in Chars
          BY <3>3 DEF RowCells
        <5>2. rows[loc] \in [RowCells -> Chars]
          BY <3>2
        <5> HIDE DEF line, rows, loc
        <5> QED BY <5>1, <5>2
      <4>3. command_buffer' \in [Commands -> [RowCells -> Chars]]
        <5> HIDE DEF row, rows, loc
        <5> QED BY <3>2, <4>1, <4>2
      <4>4. commands' \in Seq(Seq(Chars))
        <5>1. Append(commands, line) \in Seq(Seq(Chars))
          BY <1>a, <3>3 DEF TerminalTypeOK, CommandTypes
        <5>2. Append(commands, line) # <<>>
          BY <1>a, <3>3 DEF TerminalTypeOK, CommandTypes
        <5>3. Tail(Append(commands, line)) \in Seq(Seq(Chars))
          BY <5>1, <5>2
        <5> QED BY <4>1, <5>1, <5>3 DEF LastOf
      <4> QED BY <1>a, <2>2, <3>4, <4>1, <4>3, <4>4 DEF TerminalTypeOK, CommandTypes
    <3>6. CASE ~(bytes_read_store > local_bytes_written)
      <4>1. /\ command_buffer' = rows /\ write_command_row' = loc
            /\ view_command_row' = view_command_row /\ commands' = commands
        BY <1>2, <3>6 DEF ReadCollect
      <4> QED BY <1>a, <2>2, <3>2, <3>4, <4>1 DEF TerminalTypeOK, CommandTypes
    <3> QED BY <3>5, <3>6
  <2>6. LineBounds' /\ LoopInv'
    BY <1>a, <2>2 DEF LineInv, LineBounds, LoopInv, lineVars
  <2> QED BY <2>3, <2>4, <2>5, <2>6 DEF LineInv, TerminalTypeOK
<1>3. CASE WriteStart
  <2>1. LineTypes' /\ CommandTypes' /\ ControlTypes'
    BY <1>3, <1>a
    DEF WriteStart, TerminalTypeOK, LineTypes, CommandTypes, ControlTypes,
        lineVars, storeVars, commandVars, readVars
  <2> QED BY <1>3, <1>a, <2>1 DEF WriteStart, LineInv, TerminalTypeOK, LineBounds, LoopInv
<1>4. ASSUME NEW c \in Printable \cup {NL}, WriteChar(c) PROVE LineInv'
  <2> DEFINE wrap == bytes_written >= NUM_COLS
             at   == IF wrap THEN 0 ELSE bytes_written
             row  == Scrolled(IF wrap THEN row_index + 1 ELSE row_index, 0)
             base == IF at = 0 THEN Cleared(live_buffer) ELSE live_buffer
             put  == [base EXCEPT ![at] = c]
  <2>1. c \in Chars
    BY <1>4, CellFacts DEF Chars
  <2>2. at \in Cells /\ at + 1 \in 0 .. NUM_COLS /\ 0 \in 0 .. NUM_COLS
    BY <1>b DEF Cells
  <2>3. ASSUME NEW buf \in [Cells -> Chars] PROVE Cleared(buf) \in [Cells -> Chars]
    BY CellFacts DEF Cleared
  <2>4. put \in [Cells -> Chars]
    <3>1. base \in [Cells -> Chars]
      BY <1>a, <2>3 DEF TerminalTypeOK, LineTypes
    <3> HIDE DEF base, at
    <3> QED BY <2>1, <3>1
  <2>5. row \in Int
    BY <1>a DEF Scrolled, TerminalTypeOK, LineTypes
  <2>6. /\ bytes_written' \in {0, at + 1} /\ row_index' \in {row, row + 1}
        /\ live_buffer' \in {put, Cleared(put)}
    <3>1. CASE c = NL
      BY <1>4, <3>1 DEF WriteChar
    <3>2. CASE c # NL
      BY <1>4, <3>2 DEF WriteChar
    <3> QED BY <3>1, <3>2
  <2>7. /\ UNCHANGED <<bytes_read, live_buffer_location, storeVars, read_in_progress,
                       commandVars, irq, count, pc, readVars, pressed>>
        /\ pc = "writing"
    BY <1>4 DEF WriteChar
  <2>8. LineTypes'
    <3>1. live_buffer' \in [Cells -> Chars]
      <4> HIDE DEF put
      <4> QED BY <2>3, <2>4, <2>6
    <3>2. row_index' \in Int /\ bytes_written' \in 0 .. NUM_COLS
      <4> HIDE DEF row, at
      <4> QED BY <2>2, <2>5, <2>6
    <3> QED BY <1>a, <2>7, <3>1, <3>2 DEF TerminalTypeOK, LineTypes, storeVars
  <2>9. CommandTypes' /\ ControlTypes'
    BY <1>a, <2>7 DEF TerminalTypeOK, CommandTypes, ControlTypes, commandVars, readVars
  <2>10. LineBounds' /\ LoopInv'
    BY <1>a, <2>7 DEF LineBounds, LoopInv
  <2> QED BY <2>8, <2>9, <2>10 DEF LineInv, TerminalTypeOK
<1>5. CASE WriteEnd
  <2>1. bytes_written % NUM_COLS \in 0 .. NUM_COLS - 1
    BY <1>b
  <2>2. /\ bytes_read' \in Cells /\ live_buffer_location' \in Cells
        /\ bytes_written' \in 0 .. NUM_COLS /\ bytes_written' < NUM_COLS
        /\ bytes_written' <= live_buffer_location' /\ live_buffer_location' <= bytes_read'
        /\ bytes_read' <= CHAR_BUFFER_SIZE - 1 + bytes_written'
    BY <1>5, <2>1 DEF WriteEnd, Cells
  <2>3. LineTypes'
    BY <1>5, <1>a, <2>2, CellFacts DEF WriteEnd, TerminalTypeOK, LineTypes
  <2>4. CommandTypes' /\ ControlTypes'
    BY <1>5, <1>a DEF WriteEnd, TerminalTypeOK, CommandTypes, ControlTypes, commandVars, readVars
  <2>5. LineBounds' /\ LoopInv'
    BY <1>5, <1>a, <2>2 DEF WriteEnd, LineBounds, LoopInv
  <2> QED BY <2>3, <2>4, <2>5 DEF LineInv, TerminalTypeOK
<1> QED BY <1>1, <1>2, <1>3, <1>4, <1>5 DEF Program

LEMMA NextLine == LineInv /\ [Next]_vars => LineInv'
<1>1. LineInv /\ UNCHANGED vars => LineInv'
  BY DEF LineInv, TerminalTypeOK, LineTypes, CommandTypes, ControlTypes, LineBounds,
         LoopInv, vars, lineVars, storeVars, commandVars, readVars
<1> QED BY <1>1, KeyLine, HandlerLine, ProgramLine DEF Next

\* Whatever is typed, read and written, in any order, every counter of the
\* terminal stays inside the array it indexes.
THEOREM TerminalTypeCorrect == Spec => []TerminalTypeOK
<1>1. LineInv => TerminalTypeOK
  BY DEF LineInv
<1> QED BY InitLine, NextLine, <1>1, PTL DEF Spec

\* The cursor never leaves the line, the line never reaches into the prompt,
\* and there is always room for the newline, also when tab() has checked the
\* room once for all its spaces and when a longer command is recalled.
THEOREM LineBoundsCorrect == Spec => []LineBounds
<1>1. LineInv => LineBounds
  BY DEF LineInv
<1> QED BY InitLine, NextLine, <1>1, PTL DEF Spec

-----------------------------------------------------------------------------
\* What a read relies on when no key is taken between Enter and the reader:
\* outside a read no line is entered, the prompt's length the reader took is
\* the current one until Enter, and the line fits from then on.
FitInv ==
  /\ LineInv
  /\ pc \in {"run", "writing"} => ~read_in_progress
  /\ pc \in {"run", "reading", "writing"} => bytes_read_store = 0
  /\ pc = "waiting" /\ ~LineComplete => local_bytes_written = bytes_written
  /\ pc = "matched" => LineComplete
  /\ LineFits

LEMMA InitFit == Init => FitInv
<1> SUFFICES ASSUME Init PROVE FitInv
  OBVIOUS
<1>1. LineInv
  BY InitLine
<1> QED BY <1>1 DEF Init, FitInv, LineFits

\* What the handler and the arrow keys leave alone is all that FitInv is about.
LEMMA FitKept ==
  ASSUME FitInv, LineInv',
         UNCHANGED <<bytes_written, storeVars, read_in_progress, pc, local_bytes_written>>
  PROVE  FitInv'
BY DEF FitInv, LineFits, LineComplete, storeVars

LEMMA NextFit ==
  ASSUME ~TypeAhead, ~InvalidReads
  PROVE  FitInv /\ [Next]_vars => FitInv'
<1> SUFFICES ASSUME FitInv, [Next]_vars PROVE FitInv'
  OBVIOUS
<1>a. LineInv /\ LineInv'
  BY NextLine DEF FitInv
<1>b. /\ bytes_read \in Cells /\ bytes_written \in 0 .. NUM_COLS
      /\ local_bytes_written \in 0 .. NUM_COLS
      /\ live_buffer_store \in [Cells -> Chars]
  BY <1>a DEF LineInv, TerminalTypeOK, LineTypes, ControlTypes
<1>1. CASE EnterKey
  <2>1. pc = "waiting" /\ ~LineComplete
    BY <1>1 DEF EnterKey, KeyAccepted, FitInv
  <2>2. local_bytes_written = bytes_written
        /\ bytes_read <= CHAR_BUFFER_SIZE - 1 + bytes_written
    BY <1>a, <2>1 DEF FitInv, LineInv, LineBounds
  <2>3. /\ bytes_read_store' = bytes_read /\ pc' = pc
        /\ local_bytes_written' = local_bytes_written
        /\ live_buffer_store'[bytes_read] = NL
    BY <1>1, <1>b DEF EnterKey, readVars, Cells
  <2>4. LineComplete'
    BY <2>3 DEF LineComplete
  <2>5. bytes_read_store' - local_bytes_written' <= CHAR_BUFFER_SIZE - 1
    BY <1>b, <2>2, <2>3 DEF Cells
  <2> QED BY <1>a, <2>1, <2>3, <2>4, <2>5 DEF FitInv, LineFits
<1>2. CASE Key /\ ~EnterKey
  <2>1. ASSUME NEW c \in Printable, PrintableKey(c) PROVE FitInv'
    BY <1>a, <2>1, FitKept DEF PrintableKey, readVars
  <2>2. CASE BackspaceKey \/ TabKey \/ ClearKey
    BY <1>a, <2>2, FitKept DEF BackspaceKey, TabKey, ClearKey, readVars
  <2>3. CASE LeftKey \/ RightKey \/ UpKey \/ DownKey
    BY <1>a, <2>3, FitKept DEF LeftKey, RightKey, UpKey, DownKey, readVars
  <2> QED BY <1>2, <2>1, <2>2, <2>3 DEF Key
<1>3. CASE Handler
  BY <1>a, <1>3, FitKept DEF Handler, TabChar, RecallErase, RecallChar, RecallEnd, readVars
<1>4. CASE ReadStart
  BY <1>a, <1>4 DEF ReadStart, FitInv, LineFits, storeVars
<1>5. CASE ReadPrompt
  <2>1. /\ bytes_read_store' = 0 /\ pc' = "waiting"
        /\ local_bytes_written' = bytes_written' /\ bytes_written' = bytes_written
    BY <1>5 DEF ReadPrompt, PromptLength, FitInv, storeVars
  <2>2. bytes_read_store' - local_bytes_written' <= CHAR_BUFFER_SIZE - 1
    BY <1>b, <2>1
  <2> QED BY <1>a, <2>1, <2>2 DEF FitInv, LineFits
<1>6. CASE ReadSee
  BY <1>a, <1>6 DEF ReadSee, FitInv, LineFits, LineComplete, storeVars, readVars
<1>7. CASE ReadCollect
  BY <1>a, <1>7 DEF ReadCollect, FitInv, LineFits
<1>8. CASE WriteStart
  BY <1>a, <1>8 DEF WriteStart, FitInv, LineFits, storeVars
<1>9. ASSUME NEW c \in Printable \cup {NL}, WriteChar(c) PROVE FitInv'
  <2>1. UNCHANGED <<bytes_read_store, read_in_progress, pc>> /\ pc = "writing"
    BY <1>9 DEF WriteChar, storeVars
  <2> QED BY <1>a, <2>1 DEF FitInv, LineFits
<1>10. CASE WriteEnd
  BY <1>a, <1>10 DEF WriteEnd, FitInv, LineFits
<1>11. CASE UNCHANGED vars
  BY <1>a, <1>11, FitKept DEF vars, readVars
<1>12. ~ReadInvalid
  BY DEF ReadInvalid
<1> QED
  BY <1>1, <1>2, <1>3, <1>4, <1>5, <1>6, <1>7, <1>8, <1>9, <1>10, <1>11, <1>12
  DEF Next, Program

\* When no key is taken between Enter and the reader, and no read is refused,
\* the line a read copies is at most one character shorter than a row of
\* command_buffer, prompts of any length included.
THEOREM LineFitsCorrect ==
  ASSUME ~TypeAhead, ~InvalidReads
  PROVE  Spec => []LineFits
<1>1. FitInv => LineFits
  BY DEF FitInv
<1>2. FitInv /\ [Next]_vars => FitInv'
  BY NextFit
<1> QED BY InitFit, <1>1, <1>2, PTL DEF Spec
=============================================================================
