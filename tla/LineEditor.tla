----------------------------- MODULE LineEditor -----------------------------
(***************************************************************************)
(* What a terminal promises to the person at the keyboard and to the       *)
(* program that reads: a text edited at a cursor behind a prompt that no   *)
(* key can touch, and lines handed over exactly as they stood when Enter   *)
(* was pressed, each one once.                                             *)
(***************************************************************************)
EXTENDS Integers, Sequences

CONSTANTS Chars, MaxText, NoLine

VARIABLES
  prompt,    \* what the program wrote last
  text,      \* what has been typed behind it
  cursor,    \* number of characters of text left of the cursor
  entered,   \* the line entered and not read yet, or NoLine
  returned   \* the line read last

vars == <<prompt, text, cursor, entered, returned>>

Before(n) == SubSeq(text, 1, n)
After(n)  == SubSeq(text, n + 1, Len(text))

Init ==
  /\ prompt = <<>> /\ text = <<>> /\ cursor = 0
  /\ entered = NoLine /\ returned = <<>>

Insert ==
  /\ Len(text) < MaxText
  /\ \E c \in Chars : text' = Before(cursor) \o <<c>> \o After(cursor)
  /\ cursor' = cursor + 1
  /\ UNCHANGED <<prompt, entered, returned>>

Delete ==
  /\ cursor > 0
  /\ text' = Before(cursor - 1) \o After(cursor)
  /\ cursor' = cursor - 1
  /\ UNCHANGED <<prompt, entered, returned>>

Move ==
  /\ cursor' \in {cursor - 1, cursor + 1, Len(text)} \cap (0 .. Len(text))
  /\ UNCHANGED <<prompt, text, entered, returned>>

Enter ==
  /\ entered = NoLine
  /\ entered' = text
  /\ prompt' = <<>> /\ text' = <<>> /\ cursor' = 0
  /\ UNCHANGED returned

Deliver ==
  /\ entered # NoLine
  /\ returned' = entered
  /\ entered' = NoLine
  /\ UNCHANGED <<prompt, text, cursor>>

\* The program writes: what was typed is given up, a new prompt appears.
Output ==
  /\ prompt' \in Seq(Chars)
  /\ text' = <<>> /\ cursor' = 0
  /\ UNCHANGED <<entered, returned>>

Next == Insert \/ Delete \/ Move \/ Enter \/ Deliver \/ Output

Spec == Init /\ [][Next]_vars
=============================================================================
