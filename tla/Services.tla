------------------------------ MODULE Services ------------------------------
(***************************************************************************)
(* The system calls on descriptors with the file system, the RTC and the   *)
(* mouse behind them, and the interrupts of the two devices.               *)
(***************************************************************************)
EXTENDS Rtc, Mouse

vars == <<fsVars, fdVars, rtcVars, mouseVars>>

Init == DescriptorsInit /\ RtcInit /\ MouseInit

Next ==
  \/ \E p \in Procs :
       \/ FileStep(p) /\ RtcUnused /\ UNCHANGED mouseVars
       \/ RtcStep(p) /\ UNCHANGED mouseVars
       \/ MouseStep(p) /\ RtcUnused
  \/ RtcHandler /\ UNCHANGED mouseVars
  \/ \E packet \in Packets : MouseHandler(packet) /\ UNCHANGED rtcVars

Spec == Init /\ [][Next]_vars

\* The clock goes on ticking, and a process that waits or is inside a call is
\* scheduled again and again.
Fairness ==
  /\ WF_vars(RtcHandler /\ UNCHANGED mouseVars)
  /\ \A p \in Procs :
       /\ WF_vars(RtcReadEnds(p) /\ UNCHANGED mouseVars)
       /\ WF_vars((ClaimInode(p) \/ ClaimFails(p) \/ ClaimBlock(p) \/ OpenCreated(p))
                  /\ RtcUnused /\ UNCHANGED mouseVars)
       /\ WF_vars(MouseCall(p) /\ RtcUnused)

FairSpec == Spec /\ Fairness

-----------------------------------------------------------------------------
\* Types.  (Without preemption: with it a creation may count an entry
\* behind the last one.)
ServicesTypeOK ==
  /\ directory_entries \in [0..(NUM_DENTRIES - 1) -> Entries]
  /\ num_dir_entries \in 0..NUM_DENTRIES
  /\ inodes \in [Inodes -> InodeRecords]
  /\ data \in [Blocks -> [0..(FS_BLK_SIZE - 1) -> Bytes]]
  /\ inode_bitmap \in [Inodes -> BOOLEAN]
  /\ data_block_bitmap \in [Blocks -> BOOLEAN]
  /\ file \in [Procs -> [Fds -> [present : BOOLEAN, table : Tables,
                                 inode : Inodes, file_position : Int]]]
  /\ overrun \in BOOLEAN
  /\ pc \in [Procs -> {"user", "inode", "block", "count", "rtc",
                       "centre_y", "centre_fake_x", "centre_fake_y", "place_y"}]
  /\ opening \in [Procs -> Names \cup {NONE}]
  /\ inode_idx \in [Procs -> Inodes \cup {-1}]
  /\ data_block_idx \in [Procs -> Blocks \cup {-1}]
  /\ new_dentry \in [Procs -> 0..NUM_DENTRIES]
  /\ workload \in Workloads
  /\ global_count \in 0..(COUNT_MOD - 1)
  /\ entered_count \in [Procs -> 0..(COUNT_MOD - 1)]
  /\ since_update \in 0..RTC_MAX_FREQ
  /\ asked \in [Procs -> [Fds -> Int]]
  /\ ticks \in [Procs -> Nat]

\* The directory.
Dentries == 0..(num_dir_entries - 1)

NamesUnique ==
  \A i, j \in Dentries : i # j => directory_entries[i].file_name # directory_entries[j].file_name

\* "Creates a new directory entry and claims a free inode/data block"
\* (fs.c): no two files have one inode.  Claims of two processes that are both
\* past the scan of inode_bitmap break it.
InodesUnique ==
  \A i, j \in Dentries : (/\ i # j
                          /\ directory_entries[i].file_type = FS_TYPE_FILE
                          /\ directory_entries[j].file_type = FS_TYPE_FILE)
    => directory_entries[i].inode_num # directory_entries[j].inode_num

\* The inodes marked in use are those of the directory, and the one that a
\* creation has claimed and not yet entered: none is lost when a creation fails.
InodesAccounted ==
  {i \in Inodes : inode_bitmap[i]} =
    {0} \cup {directory_entries[i].inode_num : i \in Dentries}
        \cup {inode_idx[p] : p \in {q \in Procs : pc[q] \in {"block", "count"}}}

\* A descriptor of a file refers to a file of the directory.
DescriptorsListed ==
  \A p \in Procs, fd \in Fds :
    Has(p, fd, "files") => \E i \in Dentries :
      /\ directory_entries[i].file_type = FS_TYPE_FILE
      /\ directory_entries[i].inode_num = file[p][fd].inode

\* However creations by several processes follow each other, fail or run into
\* a full table, names and inodes stay unique, accounted for, and the ones
\* that descriptors refer to.
DirectoryConsistent ==
  NamesUnique /\ InodesUnique /\ InodesAccounted /\ DescriptorsListed

\* No data block belongs to two files: "Bitmaps for checking if a particular
\* inode/data block is in use" (fs.h).
BlocksExclusive ==
  \A u, v \in Used :
    u # v => inodes[u[1]].data_blocks_idx[u[2]] # inodes[v[1]].data_blocks_idx[v[2]]

\* A program that reads a directory to its end has then been given every name
\* in it, whatever was created meanwhile and whoever had the descriptor before.
ListingComplete ==
  [][\A p \in Procs, fd \in Fds :
       ~listed[p][fd].ended /\ listed'[p][fd].ended
         => listed[p][fd].names = {directory_entries[i].file_name : i \in Dentries}]_vars

-----------------------------------------------------------------------------
\* f is the frequency last asked for since the descriptor was opened, the
\* default one if none was: a read sees RTC_MAX_FREQ / f periods of the device
\* end, or one less, however reads, writes, updates of the date and periods
\* interleave.  (The handler counts an update like a period, and there is at
\* most one update in that time.  The first period seen may have begun long
\* before the read, so that the read lasts more than RTC_MAX_FREQ / f - 2 of
\* them.)
RtcPeriodKept ==
  [][\A p \in Procs :
       pc[p] = "rtc" /\ pc'[p] = "user"
         => LET f == asked[p][rtc_fd[p]]
            IN f > 0 => (ticks[p] + 1) * f >= RTC_MAX_FREQ]_vars

\* Every call ends: a read of the RTC does, the creation of a file, and an open
\* of and a write to the mouse.
CallsReturn == \A p \in Procs : (pc[p] # "user") ~> (pc[p] = "user")

\* The pointer is where its finer position says.
PointerAgrees ==
  /\ x_pos = Scaled(fake_mouse_pos_x, FAKE_MOUSE_RES_X, NUM_COLS)
  /\ y_pos = Scaled(fake_mouse_pos_y, FAKE_MOUSE_RES_Y, NUM_ROWS)

\* The pointer stays on the screen in the middle of every open, write and
\* packet.  When no open is in the middle of its stores the pointer is where its finer
\* position says, opens by several processes included, unless a program has
\* placed it since or a packet came between the stores of an open and none
\* after them.
MouseOnScreen ==
  /\ x_pos \in 0..(NUM_COLS - 1) /\ y_pos \in 0..(NUM_ROWS - 1)
  /\ fake_mouse_pos_x \in 0..(FAKE_MOUSE_RES_X - 1)
  /\ fake_mouse_pos_y \in 0..(FAKE_MOUSE_RES_Y - 1)
  /\ ~placed /\ ~torn /\ (\A p \in Procs : ~Centring(p)) => PointerAgrees
=============================================================================
