------------------------------- MODULE Files --------------------------------
(***************************************************************************)
(* What the file system promises: files are sequences of bytes that never  *)
(* shrink, found by name; a handle remembers a name and a position, and    *)
(* reads and writes go on from there.                                      *)
(***************************************************************************)
EXTENDS Integers, Sequences

CONSTANTS Procs, Fds, Names, Bytes, Lengths, Buffers, NONE

VARIABLES
  files,      \* name -> contents, for the files that exist
  handles,    \* process -> descriptor -> [name, position], or NoHandle
  returned    \* what the last step handed over, if it was a read

vars == <<files, handles, returned>>

NoHandle == [name |-> NONE, position |-> 0]

Init ==
  /\ files = [n \in DOMAIN files |-> files[n]] /\ DOMAIN files \subseteq Names
  /\ \A n \in DOMAIN files : files[n] \in Seq(Bytes)
  /\ handles = [p \in Procs |-> [fd \in Fds |-> NoHandle]]
  /\ returned = <<>>

WithFile(name) ==
  [n \in DOMAIN files \cup {name} |-> IF n \in DOMAIN files THEN files[n] ELSE <<>>]

\* A file is created when it is first opened, and is empty then.
Open(p, fd, name) ==
  /\ handles[p][fd] = NoHandle
  /\ files' = WithFile(name)
  /\ handles' = [handles EXCEPT ![p][fd] = [name |-> name, position |-> 0]]
  /\ returned' = <<>>

\* It is created even if the process has no descriptor left.
OpenFails(name) ==
  /\ files' = WithFile(name)
  /\ returned' = <<>>
  /\ UNCHANGED handles

Close(p, closing) ==
  /\ handles' = [handles EXCEPT ![p] = [fd \in Fds |-> IF fd \in closing THEN NoHandle ELSE @[fd]]]
  /\ returned' = <<>>
  /\ UNCHANGED files

At(p, fd) == handles[p][fd].position
Contents(p, fd) == files[handles[p][fd].name]
Usable(p, fd) == handles[p][fd] # NoHandle /\ At(p, fd) >= 0
Advanced(p, fd, n) == [handles EXCEPT ![p][fd].position = @ + n]

\* At most n bytes from the position on: fewer only at the end of the file.
Read(p, fd, n) ==
  /\ Usable(p, fd)
  /\ LET c == Contents(p, fd)
         end == IF At(p, fd) + n < Len(c) THEN At(p, fd) + n ELSE Len(c)
     IN returned' = SubSeq(c, At(p, fd) + 1, end)
  /\ handles' = Advanced(p, fd, Len(returned'))
  /\ UNCHANGED files

\* All of buf replaces or extends the contents at the position.
Write(p, fd, buf) ==
  /\ Usable(p, fd)
  /\ LET c == Contents(p, fd)
         from == At(p, fd)
         upto == from + Len(buf)
     IN files' = [files EXCEPT ![handles[p][fd].name] =
                    SubSeq(c, 1, from) \o buf \o SubSeq(c, upto + 1, Len(c))]
  /\ handles' = Advanced(p, fd, Len(buf))
  /\ returned' = <<>>

\* The disk is full: nothing is written, and the position moves back by one.
\* (Nothing is promised of a position of -1.)
WriteFails(p, fd) ==
  /\ Usable(p, fd)
  /\ handles' = Advanced(p, fd, -1)
  /\ returned' = <<>>
  /\ UNCHANGED files

\* Any other step of the system.
Other ==
  /\ returned' = <<>>
  /\ UNCHANGED <<files, handles>>

Next ==
  \/ Other
  \/ \E p \in Procs, fd \in Fds, name \in Names : Open(p, fd, name)
  \/ \E name \in Names : OpenFails(name)
  \/ \E p \in Procs, closing \in SUBSET Fds : Close(p, closing)
  \/ \E p \in Procs, fd \in Fds, n \in Lengths : Read(p, fd, n)
  \/ \E p \in Procs, fd \in Fds, buf \in Buffers : Write(p, fd, buf)
  \/ \E p \in Procs, fd \in Fds : WriteFails(p, fd)

Spec == Init /\ [][Next]_vars
=============================================================================
