---------------------------- MODULE Reads_proofs ----------------------------
(***************************************************************************)
(* Proofs about what terminal_read gives a program: it waits for an Enter, *)
(* and the rows of the command history are the lines it gave.              *)
(***************************************************************************)
EXTENDS Terminal_proofs

USE TerminalSizes, TerminalChars

\* A program that prompts leaves no newline of a line that was read already
\* where the next read would find it.
WaitInv ==
  /\ FitInv
  /\ pc = "run" /\ bytes_written # 0 => live_buffer_store[0] # NL
  /\ pc = "reading" => live_buffer_store[0] # NL
  /\ pc = "waiting" /\ LineComplete => pressed /\ bytes_written = 0
  /\ pc = "matched" => pressed /\ bytes_written = 0

LEMMA InitWait == Init => WaitInv
BY InitFit DEF Init, WaitInv

\* The handler's loops and the keys that only edit.
LEMMA WaitKept ==
  ASSUME WaitInv, FitInv', UNCHANGED <<bytes_written, storeVars, pc, pressed>>
  PROVE  WaitInv'
BY DEF WaitInv, LineComplete, storeVars

LEMMA NextWait ==
  ASSUME ~TypeAhead, ~InvalidReads, Prompting
  PROVE  WaitInv /\ [Next]_vars => WaitInv'
<1> SUFFICES ASSUME WaitInv, [Next]_vars PROVE WaitInv'
  OBVIOUS
<1>a. FitInv /\ FitInv'
  BY NextFit DEF WaitInv
<1>b. live_buffer_store \in [Cells -> Chars]
  BY <1>a DEF FitInv, LineInv, TerminalTypeOK, LineTypes
<1>1. CASE EnterKey
  <2>1. pc = "waiting"
    BY <1>1, <1>a DEF EnterKey, KeyAccepted, FitInv
  <2> QED BY <1>1, <1>a, <2>1 DEF EnterKey, WaitInv
<1>2. CASE Key /\ ~EnterKey
  <2>1. ASSUME NEW c \in Printable, PrintableKey(c) PROVE WaitInv'
    BY <1>a, <2>1, WaitKept DEF PrintableKey
  <2>2. CASE BackspaceKey \/ TabKey \/ ClearKey
    BY <1>a, <2>2, WaitKept DEF BackspaceKey, TabKey, ClearKey
  <2>3. CASE LeftKey \/ RightKey \/ UpKey \/ DownKey
    BY <1>a, <2>3, WaitKept DEF LeftKey, RightKey, UpKey, DownKey
  <2> QED BY <1>2, <2>1, <2>2, <2>3 DEF Key
<1>3. CASE Handler
  BY <1>a, <1>3, WaitKept DEF Handler, TabChar, RecallErase, RecallChar, RecallEnd
<1>4. CASE ReadStart
  BY <1>a, <1>4 DEF ReadStart, WaitInv, storeVars
<1>5. CASE ReadPrompt
  <2>1. ~LineComplete'
    BY <1>5, <1>a DEF ReadPrompt, WaitInv, FitInv, LineComplete, storeVars
  <2> QED BY <1>5, <1>a, <2>1 DEF ReadPrompt, WaitInv
<1>6. CASE ReadSee
  BY <1>a, <1>6 DEF ReadSee, WaitInv
<1>7. CASE ReadCollect
  BY <1>a, <1>7 DEF ReadCollect, WaitInv
<1>8. CASE WriteStart
  BY <1>a, <1>8 DEF WriteStart, WaitInv
<1>9. ASSUME NEW c \in Printable \cup {NL}, WriteChar(c) PROVE WaitInv'
  BY <1>a, <1>9 DEF WriteChar, WaitInv
<1>10. CASE WriteEnd
  <2>1. live_buffer_store'[0] = NUL
    BY <1>10, <1>b, CellFacts DEF WriteEnd
  <2> QED BY <1>10, <1>a, <2>1 DEF WriteEnd, WaitInv
<1>11. CASE UNCHANGED vars
  BY <1>a, <1>11, WaitKept DEF vars
<1>12. ~ReadInvalid
  BY DEF ReadInvalid
<1> QED
  BY <1>1, <1>2, <1>3, <1>4, <1>5, <1>6, <1>7, <1>8, <1>9, <1>10, <1>11, <1>12
  DEF Next, Program

\* A read does not return before an Enter was pressed that no other read has
\* returned for, if every program writes before it reads, no read is refused
\* and no key is taken between Enter and the reader.
THEOREM ReadWaitsCorrect ==
  ASSUME ~TypeAhead, ~InvalidReads, Prompting
  PROVE  Spec => []ReadWaits
<1>1. WaitInv => ReadWaits
  BY DEF WaitInv, ReadWaits
<1>2. WaitInv /\ [Next]_vars => WaitInv'
  BY NextWait
<1> QED BY InitWait, <1>1, <1>2, PTL DEF Spec

-----------------------------------------------------------------------------
\* The history variable keeps as many lines as there are rows.
HistoryInv ==
  /\ LineInv
  /\ Len(commands) <= MAX_COMMAND_STORE
  /\ CommandHistory

LEMMA InitHistory == Init => HistoryInv
<1> SUFFICES ASSUME Init PROVE HistoryInv
  OBVIOUS
<1>1. Len(commands) = 0
  BY DEF Init
<1>2. RowOf(<<>>) = [i \in RowCells |-> NUL]
  BY DEF RowOf, RowCells
<1>3. CommandHistory
  BY <1>1, <1>2 DEF Init, CommandHistory, Commands
<1> QED BY <1>1, <1>3, InitLine DEF HistoryInv

\* The row a line is copied to.
LEMMA RowFilled ==
  ASSUME NEW line \in Seq(Chars), NEW old, old = RowOf(<<>>)
  PROVE  [i \in RowCells |-> IF i < Len(line) THEN line[i + 1] ELSE old[i]] = RowOf(line)
BY DEF RowOf, RowCells

\* The sequence of the last lines, one line later.
LEMMA LastLines ==
  ASSUME NEW s \in Seq(Seq(Chars)), NEW line \in Seq(Chars), Len(s) <= MAX_COMMAND_STORE
  PROVE  LET t == LastOf(Append(s, line))
         IN  /\ t \in Seq(Seq(Chars))
             /\ Len(s) < MAX_COMMAND_STORE =>
                  /\ Len(t) = Len(s) + 1 /\ t[Len(t)] = line
                  /\ \A k \in 1 .. Len(s) : t[k] = s[k]
             /\ Len(s) = MAX_COMMAND_STORE =>
                  /\ Len(t) = Len(s) /\ t[Len(t)] = line
                  /\ \A k \in 1 .. (Len(s) - 1) : t[k] = s[k + 1]
<1> DEFINE a == Append(s, line)
<1>1. /\ a \in Seq(Seq(Chars)) /\ Len(a) = Len(s) + 1 /\ a[Len(s) + 1] = line
      /\ \A k \in 1 .. Len(s) : a[k] = s[k]
  OBVIOUS
<1>2. /\ Tail(a) \in Seq(Seq(Chars)) /\ Len(Tail(a)) = Len(a) - 1
      /\ \A k \in 1 .. (Len(a) - 1) : Tail(a)[k] = a[k + 1]
  <2> HIDE DEF a
  <2>1. a # <<>> /\ Len(s) \in Nat
    BY <1>1
  <2> QED BY <1>1, <2>1
<1> HIDE DEF a
<1>3. Len(s) \in Nat
  OBVIOUS
<1>4. CASE Len(s) < MAX_COMMAND_STORE
  <2>1. LastOf(a) = a
    BY <1>1, <1>3, <1>4 DEF LastOf
  <2> QED BY <1>1, <1>3, <1>4, <2>1 DEF a
<1>5. CASE Len(s) = MAX_COMMAND_STORE
  <2>1. LastOf(a) = Tail(a)
    BY <1>1, <1>3, <1>5 DEF LastOf
  <2>2. \A k \in 1 .. (Len(s) - 1) : Tail(a)[k] = s[k + 1]
    BY <1>1, <1>2, <1>3
  <2>3. Tail(a)[Len(s)] = line
    BY <1>1, <1>2, <1>3, <1>5
  <2> QED BY <1>1, <1>2, <1>3, <1>5, <2>1, <2>2, <2>3 DEF a
<1> QED BY <1>3, <1>4, <1>5

LEMMA HistoryKept ==
  ASSUME HistoryInv, LineInv', UNCHANGED <<command_buffer, write_command_row, commands>>
  PROVE  HistoryInv'
BY DEF HistoryInv, CommandHistory, RowOf

\* An empty line leaves the rows alone, or drops the first of them.
LEMMA EmptyLineHistory ==
  ASSUME HistoryInv, LineInv', ReadCollect, ~(bytes_read_store > local_bytes_written)
  PROVE  HistoryInv'
<1> DEFINE n == Len(commands)
           w == write_command_row
<1>0. /\ n \in Nat /\ w \in 0 .. MAX_COMMAND_STORE /\ n <= MAX_COMMAND_STORE /\ w <= n
      /\ commands' = commands
      /\ \A r \in Commands :
           command_buffer[r] = IF r < w THEN RowOf(commands[n - w + r + 1]) ELSE RowOf(<<>>)
  BY DEF HistoryInv, CommandHistory, LineInv, TerminalTypeOK, CommandTypes, ReadCollect
<1>1. CASE ~CommandsFull
  <2>1. UNCHANGED <<command_buffer, write_command_row, commands>>
    BY <1>1 DEF ReadCollect
  <2> QED BY <2>1, HistoryKept
<1>2. CASE CommandsFull
  <2>1. command_buffer' = CommandsScrolled /\ write_command_row' = MAX_COMMAND_STORE - 1
    BY <1>2 DEF ReadCollect
  <2>2. w = MAX_COMMAND_STORE /\ n = MAX_COMMAND_STORE
    BY <1>0, <1>2 DEF CommandsFull
  <2> HIDE DEF n, w
  <2>3. ASSUME NEW r \in Commands, r < MAX_COMMAND_STORE - 1
        PROVE  command_buffer'[r] = RowOf(commands[n - (MAX_COMMAND_STORE - 1) + r + 1])
    <3>1. r + 1 \in Commands /\ r + 1 < w
      BY <2>2, <2>3 DEF Commands
    <3>2. command_buffer'[r] = command_buffer[r + 1]
      BY <2>1, <3>1 DEF CommandsScrolled
    <3>3. n - w + (r + 1) + 1 = n - (MAX_COMMAND_STORE - 1) + r + 1
      BY <2>2, <2>3 DEF Commands
    <3> QED BY <1>0, <3>1, <3>2, <3>3
  <2>4. ASSUME NEW r \in Commands, ~(r < MAX_COMMAND_STORE - 1)
        PROVE  command_buffer'[r] = RowOf(<<>>)
    <3>1. r + 1 \notin Commands
      BY <2>4 DEF Commands
    <3>2. RowOf(<<>>) = [i \in RowCells |-> NUL]
      BY DEF RowOf, RowCells
    <3> QED BY <2>1, <3>1, <3>2 DEF CommandsScrolled
  <2>5. \A r \in Commands :
          command_buffer'[r] = IF r < MAX_COMMAND_STORE - 1
                               THEN RowOf(commands[n - (MAX_COMMAND_STORE - 1) + r + 1])
                               ELSE RowOf(<<>>)
    BY <2>3, <2>4
  <2>6. MAX_COMMAND_STORE - 1 <= n /\ Len(commands') = n
    BY <1>0, <2>2 DEF n
  <2>7. CommandHistory'
    BY <1>0, <2>1, <2>5, <2>6 DEF CommandHistory, RowOf
  <2> QED BY <1>0, <2>6, <2>7 DEF HistoryInv
<1> QED BY <1>1, <1>2

\* A line that is not empty takes the first free row, the last one after the
\* others were moved up if there is none.
LEMMA LineHistory ==
  ASSUME HistoryInv, LineInv', ReadCollect, bytes_read_store > local_bytes_written
  PROVE  HistoryInv'
<1> DEFINE n == Len(commands)
           w == write_command_row
           line == EnteredLine
           t == LastOf(Append(commands, line))
           rows == IF CommandsFull THEN CommandsScrolled ELSE command_buffer
           loc == IF CommandsFull THEN MAX_COMMAND_STORE - 1 ELSE w
<1>0. /\ n \in Nat /\ w \in 0 .. MAX_COMMAND_STORE /\ n <= MAX_COMMAND_STORE /\ w <= n
      /\ w < n => w >= MAX_COMMAND_STORE - 1
      /\ commands \in Seq(Seq(Chars))
      /\ \A r \in Commands :
           command_buffer[r] = IF r < w THEN RowOf(commands[n - w + r + 1]) ELSE RowOf(<<>>)
      /\ command_buffer \in [Commands -> [RowCells -> Chars]]
  BY DEF HistoryInv, CommandHistory, LineInv, TerminalTypeOK, CommandTypes
<1>1. line \in Seq(Chars)
  BY EnteredLineType DEF HistoryInv, LineInv
<1>2. /\ command_buffer' = [rows EXCEPT ![loc] =
           [i \in RowCells |-> IF i < Len(line) THEN line[i + 1] ELSE rows[loc][i]]]
      /\ write_command_row' = loc + 1
      /\ commands' = t
  <2>1. loc \in Commands /\ rows \in [Commands -> [RowCells -> Chars]]
    BY <1>0, CellFacts DEF CommandsFull, CommandsScrolled, Commands
  <2> QED BY <2>1 DEF ReadCollect
<1>3. /\ n < MAX_COMMAND_STORE =>
           Len(t) = n + 1 /\ t[Len(t)] = line /\ \A k \in 1 .. n : t[k] = commands[k]
      /\ n = MAX_COMMAND_STORE =>
           Len(t) = n /\ t[Len(t)] = line /\ \A k \in 1 .. (n - 1) : t[k] = commands[k + 1]
  BY <1>0, <1>1, LastLines
<1>a. n \in Nat /\ w \in Nat /\ Len(t) \in Nat
  <2> HIDE DEF n, w, t
  <2> QED BY <1>0, <1>3
<1>4. loc \in Commands /\ loc + 1 <= Len(t) /\ Len(t) <= MAX_COMMAND_STORE
      /\ (loc + 1 < Len(t) => loc + 1 >= MAX_COMMAND_STORE - 1)
  <2> HIDE DEF n, w, t
  <2>1. n < MAX_COMMAND_STORE \/ n = MAX_COMMAND_STORE
    BY <1>0
  <2>2. loc = (IF w >= MAX_COMMAND_STORE THEN MAX_COMMAND_STORE - 1 ELSE w)
    BY DEF CommandsFull, w
  <2> QED BY <1>0, <1>3, <2>1, <2>2 DEF Commands
\* The rows before it hold the lines before the last one.
<1>5. ASSUME NEW r \in Commands, r < loc
      PROVE  rows[r] = RowOf(t[Len(t) - (loc + 1) + r + 1])
  <2>1. CASE CommandsFull
    <3>1. w = MAX_COMMAND_STORE /\ n = MAX_COMMAND_STORE /\ loc = MAX_COMMAND_STORE - 1
      BY <1>0, <2>1 DEF CommandsFull
    <3>2. rows = CommandsScrolled
      BY <2>1
    <3>3. r \in Nat
      BY DEF Commands
    <3> HIDE DEF n, w, t, rows, loc
    <3>4. r + 1 \in Commands /\ r + 1 < w
      BY <1>5, <3>1, <3>3 DEF Commands
    <3>5. rows[r] = command_buffer[r + 1]
      BY <3>2, <3>4 DEF CommandsScrolled
    <3>6. command_buffer[r + 1] = RowOf(commands[n - w + (r + 1) + 1])
      BY <1>0, <3>4
    <3>7. n - w + (r + 1) + 1 = r + 2 /\ Len(t) - (loc + 1) + r + 1 = r + 1
      BY <1>3, <3>1, <3>3
    <3>8. t[r + 1] = commands[r + 2]
      <4>1. r + 1 \in 1 .. (n - 1) /\ (r + 1) + 1 = r + 2
        BY <1>5, <3>1, <3>3
      <4> QED BY <1>3, <3>1, <4>1
    <3> QED BY <3>5, <3>6, <3>7, <3>8
  <2>2. CASE ~CommandsFull
    <3>1. w < MAX_COMMAND_STORE /\ loc = w /\ rows = command_buffer
      BY <1>0, <2>2 DEF CommandsFull
    <3>2. r \in Nat
      BY DEF Commands
    <3> HIDE DEF n, w, t, rows, loc
    <3>3. rows[r] = RowOf(commands[n - w + r + 1])
      BY <1>0, <1>5, <3>1
    <3>4. CASE n < MAX_COMMAND_STORE
      <4>0. Len(t) = n + 1
        BY <1>3, <3>4
      <4>1. Len(t) - (loc + 1) + r + 1 = n - w + r + 1
        BY <1>a, <3>1, <3>2, <4>0
      <4>2. n - w + r + 1 \in 1 .. n
        BY <1>0, <1>5, <3>1, <3>2
      <4> QED BY <1>3, <3>3, <3>4, <4>1, <4>2
    <3>5. CASE n = MAX_COMMAND_STORE
      <4>1. w = MAX_COMMAND_STORE - 1
        BY <1>0, <3>1, <3>5
      <4>0. Len(t) = n
        BY <1>3, <3>5
      <4>2. n - w + r + 1 = r + 2 /\ Len(t) - (loc + 1) + r + 1 = r + 1
        BY <1>a, <3>1, <3>2, <3>5, <4>0, <4>1
      <4>3. r + 1 \in 1 .. (n - 1) /\ (r + 1) + 1 = r + 2
        BY <1>5, <3>1, <3>2, <3>5, <4>1
      <4>4. t[r + 1] = commands[r + 2]
        BY <1>3, <3>5, <4>3
      <4> QED BY <3>3, <4>2, <4>4
    <3> QED BY <1>0, <3>4, <3>5
  <2> QED BY <2>1, <2>2
\* The rows from it on were empty, also after the others were moved up.
<1>6. ASSUME NEW r \in Commands, ~(r < loc)
      PROVE  rows[r] = RowOf(<<>>)
  <2>1. CASE CommandsFull
    <3>1. r + 1 \notin Commands
      BY <1>6, <2>1 DEF Commands
    <3>2. RowOf(<<>>) = [i \in RowCells |-> NUL]
      BY DEF RowOf, RowCells
    <3> QED BY <2>1, <3>1, <3>2 DEF CommandsScrolled
  <2>2. CASE ~CommandsFull
    BY <1>0, <1>6, <2>2
  <2> QED BY <2>1, <2>2
<1>7. rows \in [Commands -> [RowCells -> Chars]]
  BY <1>0, CellFacts DEF CommandsScrolled
<1>8. command_buffer'[loc] = RowOf(line)
  <2>1. rows[loc] = RowOf(<<>>)
    <3>1. ~(loc < loc)
      BY <1>4 DEF Commands
    <3> HIDE DEF loc, rows
    <3> QED BY <1>4, <1>6, <3>1
  <2>2. [i \in RowCells |-> IF i < Len(line) THEN line[i + 1] ELSE rows[loc][i]] = RowOf(line)
    <3> HIDE DEF rows, loc, line
    <3> QED BY <1>1, <2>1, RowFilled
  <2> HIDE DEF rows, loc, line
  <2> QED BY <1>2, <1>4, <1>7, <2>2
<1>9. ASSUME NEW r \in Commands
      PROVE  command_buffer'[r] = IF r < loc + 1
                                  THEN RowOf(t[Len(t) - (loc + 1) + r + 1]) ELSE RowOf(<<>>)
  <2> HIDE DEF rows, loc, t, n, w
  <2>1. CASE r = loc
    <3>1. Len(t) - (loc + 1) + r + 1 = Len(t) /\ r < loc + 1
      BY <1>a, <2>1 DEF Commands
    <3>2. t[Len(t)] = line
      BY <1>0, <1>3
    <3> QED BY <1>8, <2>1, <3>1, <3>2
  <2>2. CASE r # loc
    <3>1. command_buffer'[r] = rows[r]
      BY <1>2, <1>7, <2>2
    <3>2. r < loc + 1 <=> r < loc
      BY <1>4, <2>2 DEF Commands
    <3> QED BY <1>5, <1>6, <3>1, <3>2
  <2> QED BY <2>1, <2>2
<1> HIDE DEF rows, loc, t, n, w
<1>10. CommandHistory'
  BY <1>2, <1>4, <1>9 DEF CommandHistory, RowOf
<1> QED BY <1>2, <1>4, <1>10 DEF HistoryInv

LEMMA NextHistory == HistoryInv /\ [Next]_vars => HistoryInv'
<1> SUFFICES ASSUME HistoryInv, [Next]_vars PROVE HistoryInv'
  OBVIOUS
<1>a. LineInv'
  BY NextLine DEF HistoryInv
<1>1. CASE ReadCollect
  BY <1>1, <1>a, EmptyLineHistory, LineHistory
<1>2. CASE Key
  <2>1. ASSUME NEW c \in Printable, PrintableKey(c) PROVE HistoryInv'
    BY <1>a, <2>1, HistoryKept DEF PrintableKey, commandVars, readVars
  <2>2. CASE BackspaceKey \/ TabKey \/ ClearKey \/ EnterKey
    BY <1>a, <2>2, HistoryKept
    DEF BackspaceKey, TabKey, ClearKey, EnterKey, commandVars, readVars
  <2>3. CASE LeftKey \/ RightKey \/ UpKey \/ DownKey
    BY <1>a, <2>3, HistoryKept DEF LeftKey, RightKey, UpKey, DownKey, commandVars, readVars
  <2> QED BY <1>2, <2>1, <2>2, <2>3 DEF Key
<1>3. CASE Handler
  BY <1>a, <1>3, HistoryKept
  DEF Handler, TabChar, RecallErase, RecallChar, RecallEnd, commandVars, readVars
<1>4. CASE Program /\ ~ReadCollect
  <2>1. CASE ReadInvalid \/ ReadStart \/ ReadPrompt \/ ReadSee
    BY <1>a, <2>1, HistoryKept
    DEF ReadInvalid, ReadStart, ReadPrompt, ReadSee, commandVars, readVars
  <2>2. CASE WriteStart \/ WriteEnd
    BY <1>a, <2>2, HistoryKept DEF WriteStart, WriteEnd, commandVars, readVars
  <2>3. ASSUME NEW c \in Printable \cup {NL}, WriteChar(c) PROVE HistoryInv'
    BY <1>a, <2>3, HistoryKept DEF WriteChar, commandVars, readVars
  <2> QED BY <1>4, <2>1, <2>2, <2>3 DEF Program
<1>5. CASE UNCHANGED vars
  BY <1>a, <1>5, HistoryKept DEF vars, commandVars, readVars
<1> QED BY <1>1, <1>2, <1>3, <1>4, <1>5 DEF Next

\* For any number of rows and any lines, typed ahead or not, the rows of the
\* command history are the last lines that were read, each copied over an
\* empty row, so that no line is mixed with the rest of an older one.
THEOREM CommandHistoryCorrect == Spec => []CommandHistory
<1>1. HistoryInv => CommandHistory
  BY DEF HistoryInv
<1> QED BY InitHistory, NextHistory, <1>1, PTL DEF Spec

-----------------------------------------------------------------------------
\* Prompts leave room for a line that ends in the row after its first.  (The
\* kernel's own sizes: prompts of at most 33 characters.)
ShortPrompts ==
  pc # "writing" => CHAR_BUFFER_SIZE - 1 + bytes_written <= 2 * NUM_COLS

\* The row of the cursor, and the row a long line goes on in, are rows of the
\* text area; only an empty line may stand below the last one.  Whoever reads
\* has a prompt, until its line is entered.
RowInv ==
  /\ FitInv
  /\ row_index <= TEXT_ROWS
  /\ pc # "writing" /\ bytes_read > 0 => row_index < TEXT_ROWS
  /\ pc # "writing" /\ bytes_read > NUM_COLS => row_index < TEXT_ROWS - 1
  /\ pc = "writing" /\ bytes_written > 0 => row_index < TEXT_ROWS
  /\ pc = "reading" \/ (pc = "waiting" /\ ~LineComplete) => bytes_written # 0

LEMMA InitRow == Init => RowInv
BY InitFit DEF Init, RowInv

\* A character that is typed scrolls in time.
LEMMA TypedRow ==
  ASSUME RowInv, FitInv', ShortPrompts', TEXT_ROWS >= 2, pc # "writing", NEW c, TypeChar(c),
         UNCHANGED <<bytes_written, storeVars, pc>>
  PROVE  RowInv'
<1>1. /\ bytes_read \in Nat /\ row_index \in Int /\ bytes_written \in Nat
      /\ bytes_read' = bytes_read + 1 /\ bytes_read' <= 2 * NUM_COLS
  BY DEF RowInv, FitInv, LineInv, TerminalTypeOK, LineTypes, LineBounds, ShortPrompts, Cells,
         TypeChar
<1>2. /\ row_index' < TEXT_ROWS
      /\ bytes_read' > NUM_COLS => row_index' < TEXT_ROWS - 1
  BY <1>1 DEF RowInv, TypeChar, Scrolled, LineEstimate
<1>3. (LineComplete' <=> LineComplete) /\ row_index' \in Int
  BY <1>1 DEF LineComplete, storeVars, TypeChar, Scrolled
<1>4. row_index' <= TEXT_ROWS
  BY <1>2, <1>3
<1> QED
  BY <1>1, <1>2, <1>3, <1>4 DEF RowInv

\* The line does not get longer, nor the row larger.
LEMMA RowKept ==
  ASSUME RowInv, FitInv', pc # "writing", row_index' \in Int, bytes_read' \in Int,
         row_index' <= row_index, bytes_read' <= bytes_read,
         UNCHANGED <<bytes_written, storeVars, pc>>
  PROVE  RowInv'
<1>1. bytes_read \in Int /\ row_index \in Int
  BY DEF RowInv, FitInv, LineInv, TerminalTypeOK, LineTypes, Cells
<1>2. LineComplete' <=> LineComplete
  BY DEF LineComplete, storeVars
<1>3. /\ row_index' <= TEXT_ROWS
      /\ bytes_read' > 0 => row_index' < TEXT_ROWS
      /\ bytes_read' > NUM_COLS => row_index' < TEXT_ROWS - 1
  BY <1>1 DEF RowInv
<1>4. pc' # "writing" /\ (pc' = "reading" \/ (pc' = "waiting" /\ ~LineComplete')
                            => bytes_written' # 0)
  BY <1>2 DEF RowInv
<1> QED BY <1>3, <1>4 DEF RowInv

LEMMA BackspaceRow ==
  ASSUME RowInv, FitInv', pc # "writing", backspace,
         UNCHANGED <<bytes_written, row_index, storeVars, pc>>
  PROVE  RowInv'
<1>1. /\ bytes_read \in Nat /\ row_index \in Int
      /\ bytes_read' \in {bytes_read, bytes_read - 1, 0}
  BY DEF RowInv, FitInv, LineInv, TerminalTypeOK, LineTypes, Cells, backspace, lineVars
<1> QED BY <1>1, RowKept

LEMMA OutputRow ==
  ASSUME RowInv, FitInv', ShortPrompts', TEXT_ROWS >= 2, pc # "writing", NEW c, output_char(c),
         UNCHANGED <<bytes_written, storeVars, pc>>
  PROVE  RowInv'
<1>1. CASE HasRoom(0)
  BY <1>1, TypedRow DEF output_char
<1>2. CASE ~HasRoom(0)
  <2>1. bytes_read \in Int /\ row_index \in Int
    BY DEF RowInv, FitInv, LineInv, TerminalTypeOK, LineTypes, Cells
  <2> QED BY <1>2, <2>1, RowKept DEF output_char, lineVars
<1> QED BY <1>1, <1>2

LEMMA NextRow ==
  ASSUME ~TypeAhead, ~InvalidReads, Prompting, TEXT_ROWS >= 2
  PROVE  RowInv /\ ShortPrompts /\ ShortPrompts' /\ [Next]_vars => RowInv'
<1> SUFFICES ASSUME RowInv, ShortPrompts, ShortPrompts', [Next]_vars PROVE RowInv'
  OBVIOUS
<1>a. FitInv /\ FitInv'
  BY NextFit DEF RowInv
<1>b. /\ bytes_read \in Nat /\ row_index \in Int /\ bytes_written \in 0 .. NUM_COLS
      /\ irq # "none" => pc # "writing"
      /\ pc # "writing" => bytes_written <= bytes_read
  BY <1>a DEF FitInv, LineInv, LoopInv, LineBounds, TerminalTypeOK, LineTypes, Cells
<1>c. ASSUME Key PROVE KeyAccepted /\ pc # "writing"
  BY <1>c DEF Key, PrintableKey, BackspaceKey, TabKey, ClearKey, EnterKey, LeftKey, RightKey,
              UpKey, DownKey, KeyAccepted
<1>1. CASE EnterKey
  <2>1. pc = "waiting" /\ ~LineComplete
    BY <1>1, <1>a DEF EnterKey, KeyAccepted, FitInv
  <2>2. bytes_read > 0
    BY <1>b, <2>1 DEF RowInv
  <2>3. row_index' <= TEXT_ROWS /\ bytes_read' = 0
    BY <1>1, <1>b, <2>1, <2>2 DEF EnterKey, RowInv, RowAfter
  <2>4. pc' = "waiting" /\ LineComplete'
    <3>1. bytes_read \in Cells
      BY <1>a DEF FitInv, LineInv, TerminalTypeOK, LineTypes
    <3>2. /\ live_buffer_store' = [i \in Cells |-> IF i < bytes_read THEN live_buffer[i]
                                               ELSE IF i = bytes_read THEN NL
                                               ELSE live_buffer_store[i]]
          /\ bytes_read_store' = bytes_read /\ pc' = pc
      BY <1>1 DEF EnterKey
    <3> QED BY <1>b, <2>1, <3>1, <3>2 DEF LineComplete
  <2> QED BY <1>a, <2>3, <2>4 DEF RowInv
<1>2. CASE Key /\ ~EnterKey
  <2>0. pc # "writing"
    BY <1>2, <1>c
  <2>1. ASSUME NEW c \in Printable, PrintableKey(c) PROVE RowInv'
    BY <1>a, <2>0, <2>1, OutputRow DEF PrintableKey
  <2>2. CASE BackspaceKey
    BY <1>a, <2>0, <2>2, BackspaceRow DEF BackspaceKey
  <2>3. CASE ClearKey
    <3>1. row_index' = 0 /\ bytes_read' = bytes_read /\ UNCHANGED <<bytes_written, storeVars, pc>>
      BY <2>3 DEF ClearKey
    <3> QED BY <1>a, <1>b, <2>0, <3>1 DEF RowInv, LineComplete, storeVars
  <2>4. CASE TabKey \/ LeftKey \/ RightKey \/ UpKey \/ DownKey
    <3>1. UNCHANGED <<bytes_read, row_index, bytes_written, storeVars, pc>>
      BY <2>4 DEF TabKey, LeftKey, RightKey, UpKey, DownKey, lineVars
    <3> QED BY <1>a, <1>b, <2>0, <3>1, RowKept
  <2> QED BY <1>2, <2>1, <2>2, <2>3, <2>4 DEF Key
<1>3. CASE Handler
  <2>0. pc # "writing"
    BY <1>3, <1>b DEF Handler, TabChar, RecallErase, RecallChar, RecallEnd
  <2>1. CASE TabChar
    BY <1>a, <2>0, <2>1, TypedRow DEF TabChar
  <2>2. CASE RecallErase
    BY <1>a, <2>0, <2>2, BackspaceRow DEF RecallErase
  <2>3. CASE RecallChar
    BY <1>a, <2>0, <2>3, OutputRow DEF RecallChar
  <2>4. CASE RecallEnd
    BY <1>a, <1>b, <2>0, <2>4, RowKept DEF RecallEnd, lineVars
  <2> QED BY <1>3, <2>1, <2>2, <2>3, <2>4 DEF Handler
<1>4. CASE ReadStart
  BY <1>a, <1>4 DEF ReadStart, RowInv, lineVars, storeVars
<1>5. CASE ReadPrompt
  BY <1>a, <1>5 DEF ReadPrompt, RowInv, lineVars, storeVars
<1>6. CASE ReadSee
  BY <1>a, <1>6 DEF ReadSee, RowInv, lineVars
<1>7. CASE ReadCollect
  BY <1>a, <1>7 DEF ReadCollect, RowInv, lineVars
<1>8. CASE WriteStart
  BY <1>a, <1>b, <1>8 DEF WriteStart, RowInv, lineVars
<1>9. ASSUME NEW c \in Printable \cup {NL}, WriteChar(c) PROVE RowInv'
  <2> DEFINE row == Scrolled(IF bytes_written >= NUM_COLS THEN row_index + 1 ELSE row_index, 0)
  <2>1. pc = "writing" /\ pc' = "writing"
    BY <1>9 DEF WriteChar
  <2>2. row < TEXT_ROWS /\ row \in Int
    BY <1>b, <2>1 DEF RowInv, Scrolled
  <2>3. IF c = NL THEN bytes_written' = 0 /\ row_index' = row + 1
                  ELSE row_index' = row
    BY <1>9 DEF WriteChar
  <2> HIDE DEF row
  <2> QED BY <1>a, <2>1, <2>2, <2>3 DEF RowInv
<1>10. CASE WriteEnd
  <2>1. /\ pc = "writing" /\ pc' = "run" /\ row_index' = row_index
        /\ bytes_read' = bytes_written % NUM_COLS
    BY <1>10 DEF WriteEnd
  <2>2. bytes_read' \in 0 .. NUM_COLS - 1 /\ (bytes_read' > 0 => bytes_written > 0)
    BY <1>b, <2>1
  <2> QED BY <1>a, <2>1, <2>2 DEF RowInv
<1>11. CASE UNCHANGED vars
  BY <1>a, <1>11 DEF vars, lineVars, storeVars, RowInv, LineComplete
<1>12. ~ReadInvalid
  BY DEF ReadInvalid
<1> QED
  BY <1>1, <1>2, <1>3, <1>4, <1>5, <1>6, <1>7, <1>8, <1>9, <1>10, <1>11, <1>12
  DEF Next, Program

\* The line that Enter stores ends inside history_buffer, if prompts are short,
\* every program writes one before it reads, no read is refused and no key is
\* taken between Enter and the reader.
THEOREM HistoryStaysInBounds ==
  ASSUME ~TypeAhead, ~InvalidReads, Prompting, TEXT_ROWS >= 2
  PROVE  Spec /\ []ShortPrompts => []HistoryInBounds
<1>1. RowInv /\ ShortPrompts => HistoryInBounds
  <2> SUFFICES ASSUME RowInv, ShortPrompts, pc # "writing", bytes_read > 0
               PROVE  NUM_COLS * row_index + bytes_read <= NUM_COLS * TEXT_ROWS
    BY DEF HistoryInBounds
  <2>1. bytes_read \in Nat /\ row_index \in Int /\ bytes_read <= 2 * NUM_COLS
    BY DEF RowInv, FitInv, LineInv, LineBounds, TerminalTypeOK, LineTypes, ShortPrompts, Cells
  <2>2. CASE bytes_read > NUM_COLS
    <3>1. row_index <= TEXT_ROWS - 2
      BY <2>1, <2>2 DEF RowInv
    <3>2. NUM_COLS * row_index <= NUM_COLS * (TEXT_ROWS - 2)
      BY <2>1, <3>1
    <3> QED BY <2>1, <3>2
  <2>3. CASE ~(bytes_read > NUM_COLS)
    <3>1. row_index <= TEXT_ROWS - 1
      BY <2>1 DEF RowInv
    <3>2. NUM_COLS * row_index <= NUM_COLS * (TEXT_ROWS - 1)
      BY <2>1, <3>1
    <3> QED BY <2>1, <2>3, <3>2
  <2> QED BY <2>2, <2>3
<1>2. RowInv /\ ShortPrompts /\ ShortPrompts' /\ [Next]_vars => RowInv'
  BY NextRow
<1> QED BY InitRow, <1>1, <1>2, PTL DEF Spec
=============================================================================
