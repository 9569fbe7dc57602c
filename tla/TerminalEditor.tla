--------------------------- MODULE TerminalEditor ---------------------------
(***************************************************************************)
(* The terminal implements LineEditor: the prompt and the text are the     *)
(* cells of live_buffer below and above bytes_written.                     *)
(***************************************************************************)
EXTENDS Terminal

CONSTANT NoLine

ASSUME NoLineAssumption == NoLine \notin Seq(Chars)

\* Cells first .. last - 1 of an array, as a sequence.
CellsOf(buf, first, last) == [i \in 1 .. last - first |-> buf[first + i - 1]]

Editor == INSTANCE LineEditor WITH
  Chars    <- Printable \cup {NUL},
  MaxText  <- CHAR_BUFFER_SIZE - 1,
  prompt   <- IF pc = "writing" THEN <<>> ELSE CellsOf(live_buffer, 0, bytes_written),
  text     <- IF pc = "writing" THEN <<>>
              ELSE CellsOf(live_buffer, bytes_written, bytes_read),
  cursor   <- IF pc = "writing" THEN 0 ELSE live_buffer_location - bytes_written,
  entered  <- IF pc \in {"waiting", "matched"} /\ LineComplete THEN EnteredLine
              ELSE NoLine,
  returned <- char_buffer

\* Every key, every step of a recall and every read and write is one step of
\* the line editor or none: no key reaches the prompt, insertion and erasure
\* in the middle of a line move exactly the rest of it, and a program gets
\* the text as it stood at Enter, once, without the prompt.
ImplementsLineEditor == Editor!Spec
=============================================================================
