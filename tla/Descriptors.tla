---------------------------- MODULE Descriptors -----------------------------
(***************************************************************************)
(* File descriptors: sys_open, sys_close, sys_read and sys_write of        *)
(* interrupts/syscalls.c on PCB[p]->file[], the operations of fs/file.c    *)
(* and fs/directory.c behind them, create_new_file, and the end of a       *)
(* program.  `p' is a PCB: the program in it may end and another one start *)
(* there.  Calls that are refused without an effect are left out.          *)
(*                                                                         *)
(* System calls run with interrupts enabled.  The creation of a file is    *)
(* cut where it checks and then changes what other processes use; all      *)
(* other calls are one step each.                                          *)
(***************************************************************************)
EXTENDS FileSystem

CONSTANTS
  Procs,
  FILE_DESCRIPTOR_SIZE,
  Buffers,         \* what programs write to files
  Workloads,       \* what programs open and write and which PCBs they run in, one per behaviour
  Lengths,         \* how many bytes they ask for
  DIR_BOUND,       \* the model's bound on the position in a directory
  LENGTH_BOUND,    \* the model's bound on the end of a write
  Preempt,         \* may another process make a call during the creation of a file?
  AnySize,         \* are transfers beyond the regime of Fits made?
  RTC_MAX_FREQ, DEFAULT_RTC_FREQ

FIRST_READABLE_FILE == 2
Fds == FIRST_READABLE_FILE..(FILE_DESCRIPTOR_SIZE - 1)

Mouse == "mouse"
Tables == {"rtc", "directories", "files", "mouse"}
NONE == "none"

ASSUME DescriptorsAssumption ==
  /\ FILE_DESCRIPTOR_SIZE \in Nat
  /\ Workloads \subseteq [opens : SUBSET (Names \cup {Mouse}), writes : SUBSET Buffers,
                           runs : SUBSET Procs]
  /\ Names \cap {Mouse, NONE, ""} = {}
  /\ Buffers \subseteq Seq(Bytes) \ {<<>>}
  /\ Lengths \subseteq Nat \ {0}
  /\ DIR_BOUND \in Nat /\ LENGTH_BOUND \in 0..(MAX_BLOCKS_IN_INODE * FS_BLK_SIZE)
  /\ Preempt \in BOOLEAN /\ AnySize \in BOOLEAN
  /\ RTC_MAX_FREQ \in Nat \ {0} /\ DEFAULT_RTC_FREQ \in 1..RTC_MAX_FREQ

VARIABLES
  file,       \* process -> descriptor -> [present, table, inode, file_position]
  pc,         \* process -> where it is in a call
  opening,    \* process -> name it is opening while it creates that file
  inode_idx, data_block_idx,   \* process -> locals of create_new_file
  new_dentry,
  workload,
  returned,   \* the bytes handed over by the last step, if it was a read (history)
  listed      \* process -> descriptor -> names it has listed, and whether to the end (history)

localVars == <<pc, opening, inode_idx, data_block_idx, new_dentry>>
fdVars    == <<file, localVars, workload, returned, listed>>

Closed == [present |-> FALSE, table |-> "files", inode |-> 0, file_position |-> 0]
Unlisted == [names |-> {}, ended |-> FALSE]

DescriptorsInit ==
  /\ FsInit
  /\ file = [p \in Procs |-> [fd \in Fds |-> Closed]]
  /\ pc = [p \in Procs |-> "user"]
  /\ opening = [p \in Procs |-> NONE]
  /\ inode_idx = [p \in Procs |-> -1]
  /\ data_block_idx = [p \in Procs |-> -1]
  /\ new_dentry = [p \in Procs |-> 0]
  /\ workload \in Workloads
  /\ returned = <<>>
  /\ listed = [p \in Procs |-> [fd \in Fds |-> Unlisted]]

-----------------------------------------------------------------------------
\* Process p makes a system call; unless Preempt, no call is made while
\* another process is creating a file, and none after an overrun.
Calls(p) ==
  /\ ~overrun
  /\ p \in workload.runs
  /\ pc[p] = "user"
  /\ Preempt \/ \A q \in Procs : pc[q] \notin {"inode", "block", "count"}

\* Process p has descriptor fd open on a file of that operations table.
Has(p, fd, table) == file[p][fd].present /\ file[p][fd].table = table

TableOf(type) == CASE type = FS_TYPE_RTC  -> "rtc"
                   [] type = FS_TYPE_DIR  -> "directories"
                   [] type = FS_TYPE_FILE -> "files"

\* Edits of the helpers below that a mistake could make (see PROJECT.json).
OpenedAt_KeepsPosition(f, table, inode) ==
  [present |-> TRUE, table |-> table, inode |-> inode, file_position |-> f.file_position]

\* What sys_open makes of a descriptor.  For the RTC the position is the period.
OpenedAt(f, table, inode) ==
  [present |-> TRUE, table |-> table, inode |-> inode,
   file_position |-> IF table = "rtc" THEN RTC_MAX_FREQ \div DEFAULT_RTC_FREQ ELSE 0]

\* What the end of a program leaves of a descriptor: its flag is cleared and
\* the close operation called, of which only rtc_close does anything.  Only
\* the position is kept of a descriptor that is not present: sys_open always
\* assigns the rest.
Ended(f) == [Closed EXCEPT !.file_position =
               IF f.present /\ f.table = "rtc" THEN 0 ELSE f.file_position]

FreeFds(p) == {fd \in Fds : ~file[p][fd].present}

\* The end of sys_open: the first free descriptor, or RETURN_FAIL.
Allocate(p, table, inode) ==
  IF FreeFds(p) = {} THEN UNCHANGED <<file, listed>>
  ELSE LET fd == Smallest(FreeFds(p))
       IN /\ file' = [file EXCEPT ![p][fd] = OpenedAt(@, table, inode)]
          /\ listed' = [listed EXCEPT ![p][fd] = Unlisted]

\* The call of p ends.
Return(p) ==
  /\ pc' = [pc EXCEPT ![p] = "user"]
  /\ opening' = [opening EXCEPT ![p] = NONE]
  /\ inode_idx' = [inode_idx EXCEPT ![p] = -1]
  /\ data_block_idx' = [data_block_idx EXCEPT ![p] = -1]
  /\ new_dentry' = [new_dentry EXCEPT ![p] = 0]

-----------------------------------------------------------------------------
\* sys_open of a name that is in the directory.
OpenFound(p, name) ==
  /\ Calls(p)
  /\ name \in workload.opens \cap Names
  /\ Matches(name) # {}
  /\ LET entry == ReadDentryByName(name)
     IN Allocate(p, TableOf(entry.file_type), entry.inode_num)
  /\ returned' = <<>>
  /\ UNCHANGED <<fsVars, localVars, workload>>

\* sys_open of another name: create_new_file finds room in the directory and
\* a free inode.
CreateFile(p, name) ==
  /\ Calls(p)
  /\ name \in workload.opens \cap Names
  /\ Matches(name) = {}
  /\ num_dir_entries < NUM_DENTRIES
  /\ ScanForInode # -1
  /\ inode_idx' = [inode_idx EXCEPT ![p] = ScanForInode]
  /\ opening' = [opening EXCEPT ![p] = name]
  /\ pc' = [pc EXCEPT ![p] = "inode"]
  /\ returned' = <<>>
  /\ UNCHANGED <<fsVars, file, data_block_idx, new_dentry, workload, listed>>

\* The inode is marked and a data block searched for.
ClaimInode(p) ==
  /\ pc[p] = "inode"
  /\ inode_bitmap' = [inode_bitmap EXCEPT ![inode_idx[p]] = TRUE]
  /\ data_block_idx' = [data_block_idx EXCEPT ![p] = ScanForBlock]
  /\ pc' = [pc EXCEPT ![p] = "block"]
  /\ returned' = <<>>
  /\ UNCHANGED <<directory_entries, num_dir_entries, inodes, data, data_block_bitmap, overrun,
                 file, opening, inode_idx, new_dentry, workload, listed>>

\* An edit of the next action that a mistake could make (see PROJECT.json).
ClaimFails_KeepsInode(p) ==
  /\ pc[p] = "block"
  /\ data_block_idx[p] = -1
  /\ Return(p)
  /\ returned' = <<>>
  /\ UNCHANGED <<fsVars, file, workload, listed>>

\* There is none: the inode is given back.
ClaimFails(p) ==
  /\ pc[p] = "block"
  /\ data_block_idx[p] = -1
  /\ inode_bitmap' = [inode_bitmap EXCEPT ![inode_idx[p]] = FALSE]
  /\ Return(p)
  /\ returned' = <<>>
  /\ UNCHANGED <<directory_entries, num_dir_entries, inodes, data, data_block_bitmap, overrun,
                 file, workload, listed>>

\* The data block is marked and the entry behind the last one written.  The
\* inode's length and block go to bytes of inode 0's block (GetInodeByIdx),
\* where nothing is read from: its length stays 0.
ClaimBlock(p) ==
  /\ pc[p] = "block"
  /\ data_block_idx[p] # -1
  /\ data_block_bitmap' = [data_block_bitmap EXCEPT ![data_block_idx[p]] = TRUE]
  /\ directory_entries' = [directory_entries EXCEPT ![num_dir_entries] =
       [file_name |-> opening[p], file_type |-> FS_TYPE_FILE, inode_num |-> inode_idx[p]]]
  /\ new_dentry' = [new_dentry EXCEPT ![p] = num_dir_entries]
  /\ pc' = [pc EXCEPT ![p] = "count"]
  /\ returned' = <<>>
  /\ UNCHANGED <<num_dir_entries, inodes, data, inode_bitmap, overrun, file, opening, inode_idx,
                 data_block_idx, workload, listed>>

\* num_dir_entries++, and the rest of sys_open.
OpenCreated(p) ==
  /\ pc[p] = "count"
  /\ num_dir_entries' = num_dir_entries + 1
  /\ Allocate(p, "files", directory_entries[new_dentry[p]].inode_num)
  /\ Return(p)
  /\ returned' = <<>>
  /\ UNCHANGED <<directory_entries, inodes, data, inode_bitmap, data_block_bitmap, overrun, workload>>

\* sys_close.
Close(p, fd) ==
  /\ Calls(p)
  /\ file[p][fd].present
  /\ file' = [file EXCEPT ![p][fd] = Closed]
  /\ listed' = [listed EXCEPT ![p][fd] = Unlisted]
  /\ returned' = <<>>
  /\ UNCHANGED <<fsVars, localVars, workload>>

\* The program in p ends (sys_halt) and another one is started there:
\* sys_execute resets nothing of its descriptors.
Exit(p) ==
  /\ Calls(p)
  /\ \E fd \in Fds : file[p][fd].present
  /\ file' = [file EXCEPT ![p] = [fd \in Fds |-> Ended(@[fd])]]
  /\ listed' = [listed EXCEPT ![p] = [fd \in Fds |-> Unlisted]]
  /\ returned' = <<>>
  /\ UNCHANGED <<fsVars, localVars, workload>>

-----------------------------------------------------------------------------
\* The transfers for which read_data and write_data find the right blocks:
\* those that start in the first block or stay in one, in blocks that no other
\* place of a file uses.  A position of -1 is not gone on from.
InOneRun(offset, n) ==
  offset < FS_BLK_SIZE \/ offset \div FS_BLK_SIZE = (offset + n - 1) \div FS_BLK_SIZE

Touched(offset, n) == (offset \div FS_BLK_SIZE)..((offset + n - 1) \div FS_BLK_SIZE)

OwnBlocks(i, inode, touched) ==
  \A j \in touched : \A u \in Used \cup ({i} \X touched) :
    LET holder == IF u[1] = i THEN inode ELSE inodes[u[1]]
    IN holder.data_blocks_idx[u[2]] = inode.data_blocks_idx[j] => u = <<i, j>>

Fits(i, offset, n) ==
  /\ InOneRun(offset, n)
  /\ offset < inodes[i].file_length => offset + n <= inodes[i].file_length
  /\ WriteSucceeds(i, offset, n) =>
       /\ BlockDiff(i, offset, n) <= 1
       /\ OwnBlocks(i, Extended(i, offset, n), Touched(offset, n))

\* sys_read of a file: file_read.
FileRead(p, fd, n) ==
  LET f == file[p][fd]
  IN /\ Calls(p)
     /\ Has(p, fd, "files")
     /\ f.file_position >= 0
     /\ AnySize \/ InOneRun(f.file_position, ReadLength(f.inode, f.file_position, n))
     /\ returned' = ReadData(f.inode, f.file_position, n)
     /\ file' = [file EXCEPT ![p][fd].file_position =
                   @ + ReadLength(f.inode, f.file_position, n)]
     /\ UNCHANGED <<fsVars, localVars, workload, listed>>

\* sys_write of a file: file_write.
FileWrite(p, fd, buf) ==
  LET f == file[p][fd]
  IN /\ Calls(p)
     /\ Has(p, fd, "files")
     /\ f.file_position >= 0
     /\ f.file_position + Len(buf) <= LENGTH_BOUND
     /\ AnySize \/ Fits(f.inode, f.file_position, Len(buf))
     /\ WriteData(f.inode, f.file_position, buf)
     /\ file' = [file EXCEPT ![p][fd].file_position = @ + Len(buf)]
     /\ returned' = <<>>
     /\ UNCHANGED <<directory_entries, num_dir_entries, inode_bitmap, localVars, workload, listed>>

\* The result -1 is added to the position like any other.
FileWriteFails(p, fd, buf) ==
  LET f == file[p][fd]
  IN /\ Calls(p)
     /\ Has(p, fd, "files")
     /\ f.file_position >= 0
     /\ f.file_position + Len(buf) <= LENGTH_BOUND
     /\ AnySize \/ Fits(f.inode, f.file_position, Len(buf))
     /\ WriteFails(f.inode, f.file_position, Len(buf))
     /\ file' = [file EXCEPT ![p][fd].file_position = @ - 1]
     /\ returned' = <<>>
     /\ UNCHANGED <<directory_entries, num_dir_entries, inode_bitmap, localVars, workload, listed>>

\* What a listing l holds after dir_read at position pos: the next name too, or
\* that there is none.
Nexted(l, pos) ==
  IF EntryAt(pos)
  THEN [l EXCEPT !.names = @ \cup {directory_entries[pos].file_name}]
  ELSE [l EXCEPT !.ended = TRUE]

\* sys_read of a directory: the position moves on in both cases.
DirRead(p, fd) ==
  LET f == file[p][fd]
  IN /\ Calls(p)
     /\ Has(p, fd, "directories")
     /\ f.file_position < DIR_BOUND
     /\ listed' = [listed EXCEPT ![p][fd] = Nexted(@, f.file_position)]
     /\ file' = [file EXCEPT ![p][fd].file_position = @ + 1]
     /\ returned' = <<>>
     /\ UNCHANGED <<fsVars, localVars, workload>>

FileStep(p) ==
  \/ \E name \in Names : OpenFound(p, name) \/ CreateFile(p, name)
  \/ ClaimInode(p) \/ ClaimFails(p) \/ ClaimBlock(p) \/ OpenCreated(p)
  \/ Exit(p)
  \/ \E fd \in Fds :
       \/ Close(p, fd) \/ DirRead(p, fd)
       \/ \E n \in Lengths : FileRead(p, fd, n)
       \/ \E buf \in workload.writes : FileWrite(p, fd, buf) \/ FileWriteFails(p, fd, buf)
=============================================================================
