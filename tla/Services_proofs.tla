--------------------------- MODULE Services_proofs ---------------------------
(***************************************************************************)
(* Proofs about Services for every image, every number of processes and    *)
(* descriptors and whatever programs and devices do, provided no process   *)
(* makes a call while another one creates a file.                          *)
(***************************************************************************)
EXTENDS Services, WellFoundedInduction, TLAPS

USE SizesAssumption

-----------------------------------------------------------------------------
\* The results of scans.
LEMMA SmallestIn ==
  ASSUME NEW S, S \subseteq Nat, S # {}
  PROVE  Smallest(S) \in S
<1> DEFINE Less == OpToRel(<, Nat)
<1>1. IsWellFoundedOn(Less, Nat)
  BY NatLessThanWellFounded
<1>2. \A x, y \in Nat : <<y, x>> \in Less <=> y < x
  BY DEF OpToRel
<1> HIDE DEF Less
<1>3. PICK n \in S : \A m \in S : <<m, n>> \notin Less
  BY <1>1, WFMin
<1>4. \A m \in S : ~(m < n)
  BY <1>2, <1>3, Zenon
<1>5. \A m \in S : n <= m
  BY <1>4, SMT
<1> QED
  BY <1>5 DEF Smallest

LEMMA LargestIn ==
  ASSUME NEW n \in Nat, NEW S, S \subseteq 0..n, S # {}
  PROVE  Largest(S) \in S
<1> DEFINE Mirror == {n - i : i \in S}
<1>0. \A i \in S : n - i \in Nat /\ i \in Int
  OBVIOUS
<1>1. Mirror \subseteq Nat /\ Mirror # {}
  <2>1. PICK i \in S : TRUE
    OBVIOUS
  <2>2. n - i \in Mirror
    OBVIOUS
  <2> QED
    BY <1>0, <2>2
<1> DEFINE Less == OpToRel(<, Nat)
<1>2. IsWellFoundedOn(Less, Nat)
  BY NatLessThanWellFounded
<1>3. \A x, y \in Nat : <<y, x>> \in Less <=> y < x
  BY DEF OpToRel
<1> HIDE DEF Less, Mirror
<1>4. PICK k \in Mirror : \A m \in Mirror : <<m, k>> \notin Less
  BY <1>1, <1>2, WFMin
<1>5. \A m \in Mirror : ~(m < k)
  BY <1>1, <1>3, <1>4, Zenon
<1>6. PICK i \in S : k = n - i
  BY DEF Mirror
<1>7. \A j \in S : n - j \in Mirror
  BY DEF Mirror
<1>8. \A j \in S : i >= j
  BY <1>0, <1>5, <1>6, <1>7, SMT
<1> QED
  BY <1>8 DEF Largest

-----------------------------------------------------------------------------
\* The locals of create_new_file at the points where they are used: without
\* them the tables could be indexed with -1, or the directory overrun.
Creating(p) == pc[p] \in {"inode", "block", "count"}

\* Where a process is that creates nothing.
Placing == {"centre_y", "centre_fake_x", "centre_fake_y", "place_y"}
Aside   == {"user", "rtc"} \cup Placing

CreatorInv ==
  /\ \A p, q \in Procs : Creating(p) /\ Creating(q) => p = q
  /\ \A p \in Procs : Creating(p) =>
       /\ opening[p] \in Names
       /\ inode_idx[p] \in 0..(MAX_DATA_BLOCKS - 1)
       /\ num_dir_entries < NUM_DENTRIES
  /\ \A p \in Procs : pc[p] = "count" => new_dentry[p] = num_dir_entries

FileRecords == [present : BOOLEAN, table : Tables, inode : Inodes, file_position : Int]

DiskTypes ==
  /\ directory_entries \in [0..(NUM_DENTRIES - 1) -> Entries]
  /\ num_dir_entries \in 0..NUM_DENTRIES
  /\ inodes \in [Inodes -> InodeRecords]
  /\ data \in [Blocks -> [0..(FS_BLK_SIZE - 1) -> Bytes]]
  /\ inode_bitmap \in [Inodes -> BOOLEAN]
  /\ data_block_bitmap \in [Blocks -> BOOLEAN]
  /\ overrun \in BOOLEAN

FileTypes == file \in [Procs -> [Fds -> FileRecords]]

CallTypes ==
  /\ pc \in [Procs -> {"user", "inode", "block", "count", "rtc",
                       "centre_y", "centre_fake_x", "centre_fake_y", "place_y"}]
  /\ opening \in [Procs -> Names \cup {NONE}]
  /\ inode_idx \in [Procs -> Inodes \cup {-1}]
  /\ data_block_idx \in [Procs -> Blocks \cup {-1}]
  /\ new_dentry \in [Procs -> 0..NUM_DENTRIES]
  /\ workload \in Workloads

RtcTypes ==
  /\ global_count \in 0..(COUNT_MOD - 1)
  /\ entered_count \in [Procs -> 0..(COUNT_MOD - 1)]
  /\ since_update \in 0..RTC_MAX_FREQ
  /\ asked \in [Procs -> [Fds -> Int]]
  /\ ticks \in [Procs -> Nat]

TypeInv == DiskTypes /\ FileTypes /\ CallTypes /\ RtcTypes /\ CreatorInv

LEMMA Parts == ServicesTypeOK <=> DiskTypes /\ FileTypes /\ CallTypes /\ RtcTypes
BY DEF ServicesTypeOK, DiskTypes, FileTypes, CallTypes, RtcTypes, FileRecords

LEMMA ScanFacts ==
  ASSUME DiskTypes
  PROVE  /\ ScanForInode # -1 => /\ ScanForInode \in 0..(MAX_DATA_BLOCKS - 1)
                                 /\ ScanForInode \in Inodes
                                 /\ ~inode_bitmap[ScanForInode]
         /\ ScanForBlock # -1 => ScanForBlock \in Blocks
<1> DEFINE freeI == {i \in 0..(MAX_DATA_BLOCKS - 1) : ~inode_bitmap[i]}
           freeB == {b \in Blocks : ~data_block_bitmap[b]}
<1>1. freeI \subseteq Nat /\ freeB \subseteq Nat
  BY DEF Blocks
<1>2. freeI # {} => Smallest(freeI) \in freeI
  BY <1>1, SmallestIn
<1>3. freeB # {} => Smallest(freeB) \in freeB
  BY <1>1, SmallestIn
<1>4. ScanForInode # -1 => ScanForInode \in freeI
  BY <1>2 DEF ScanForInode
<1>5. ScanForBlock # -1 => ScanForBlock \in freeB
  BY <1>3 DEF ScanForBlock
<1> QED
  BY <1>4, <1>5 DEF Inodes

LEMMA FrequencyFacts ==
  RTC_MAX_FREQ \in Nat \ {0} /\ DEFAULT_RTC_FREQ \in 1..RTC_MAX_FREQ
BY DescriptorsAssumption, Zenon

LEMMA BufferFacts ==
  ASSUME NEW buf \in Buffers
  PROVE  buf \in Seq(Bytes) /\ Len(buf) \in Nat
<1>1. Buffers \subseteq Seq(Bytes) \ {<<>>}
  BY DescriptorsAssumption, Zenon
<1>2. buf \in Seq(Bytes)
  BY <1>1
<1> QED
  BY <1>2

LEMMA WrittenBuffers ==
  ASSUME CallTypes
  PROVE  workload.writes \subseteq Buffers
<1>1. Workloads \subseteq [opens : SUBSET (Names \cup {Mouse}), writes : SUBSET Buffers,
                         runs : SUBSET Procs]
  BY DescriptorsAssumption, Zenon
<1> QED
  BY <1>1 DEF CallTypes

\* What sys_open assigns.
LEMMA AllocateFacts ==
  ASSUME FileTypes, NEW p \in Procs, NEW table \in Tables, NEW i \in Inodes,
         Allocate(p, table, i)
  PROVE  /\ FileTypes'
         /\ \A q \in Procs, fd \in Fds :
              \/ file'[q][fd] = file[q][fd]
              \/ /\ q = p /\ ~file[q][fd].present
                 /\ file'[q][fd] = OpenedAt(file[q][fd], table, i)
<1>1. \A f : OpenedAt(f, table, i) \in FileRecords
  <2>1. RTC_MAX_FREQ \div DEFAULT_RTC_FREQ \in Int
    BY FrequencyFacts
  <2> QED
    BY <2>1 DEF OpenedAt, FileRecords
<1>2. CASE FreeFds(p) = {}
  BY <1>2 DEF Allocate, FileTypes
<1>3. CASE FreeFds(p) # {}
  <2> DEFINE fd0 == Smallest(FreeFds(p))
  <2>1. FreeFds(p) \subseteq Nat
    BY DEF FreeFds, Fds, FIRST_READABLE_FILE
  <2>2. fd0 \in FreeFds(p)
    BY <1>3, <2>1, SmallestIn
  <2>3. fd0 \in Fds /\ ~file[p][fd0].present
    BY <2>2 DEF FreeFds
  <2>4. file' = [file EXCEPT ![p][fd0] = OpenedAt(@, table, i)]
    BY <1>3 DEF Allocate
  <2> HIDE DEF fd0
  <2> QED
    BY <1>1, <2>3, <2>4 DEF FileTypes
<1> QED
  BY <1>2, <1>3

\* A transfer moves one descriptor's position.
LEMMA MoveFacts ==
  ASSUME FileTypes, NEW p \in Procs, NEW fd \in Fds, NEW to \in Int,
         file' = [file EXCEPT ![p][fd].file_position = to]
  PROVE  /\ FileTypes'
         /\ \A q \in Procs, g \in Fds :
              \/ file'[q][g] = file[q][g]
              \/ q = p /\ g = fd /\ file'[q][g] = [file[q][g] EXCEPT !.file_position = to]
<1>1. file[p][fd] \in FileRecords
  BY DEF FileTypes
<1>2. [file[p][fd] EXCEPT !.file_position = to] \in FileRecords
  BY <1>1 DEF FileRecords
<1>3. file' = [file EXCEPT ![p] = [file[p] EXCEPT ![fd] =
                 [file[p][fd] EXCEPT !.file_position = to]]]
  OBVIOUS
<1> QED
  BY <1>2, <1>3 DEF FileTypes

\* read_dentry_by_name gives an entry of the directory.
LEMMA DentryFacts ==
  ASSUME DiskTypes, NEW name, Matches(name) # {}
  PROVE  \E i \in Dentries : /\ ReadDentryByName(name) = directory_entries[i]
                            /\ directory_entries[i] \in Entries
                            /\ directory_entries[i].file_name = name
<1> DEFINE i == Smallest(Matches(name))
<1>1. Matches(name) \subseteq Nat
  BY DEF Matches, DiskTypes
<1>2. i \in Matches(name)
  BY <1>1, SmallestIn
<1>3. i \in Dentries /\ directory_entries[i].file_name = name
  BY <1>2 DEF Matches, Dentries
<1>4. directory_entries[i] \in Entries
  BY <1>3 DEF DiskTypes, Dentries
<1> QED
  BY <1>3, <1>4 DEF ReadDentryByName

\* Where write_data leaves the disk.
LEMMA WriteFacts ==
  ASSUME DiskTypes, NEW i \in Inodes, NEW offset \in Nat, NEW buf \in Buffers,
         UNCHANGED <<directory_entries, num_dir_entries, inode_bitmap>>,
         \/ WriteData(i, offset, buf)
         \/ WriteFails(i, offset, Len(buf))
  PROVE  DiskTypes'
<1> DEFINE n == Len(buf)
<1>1. n \in Nat /\ buf \in Seq(Bytes)
  BY BufferFacts
<1>2. \A claimed : claimed \subseteq Blocks => WithBlocks(i, claimed) \in InodeRecords
  <2> SUFFICES ASSUME NEW claimed, claimed \subseteq Blocks, claimed # {}
               PROVE  WithBlocks(i, claimed) \in InodeRecords
    BY DEF WithBlocks, DiskTypes
  <2>1. Largest(claimed) \in Blocks
    <3>1. MAX_DATA_BLOCKS - 1 \in Nat
      OBVIOUS
    <3> QED
      BY <3>1, LargestIn DEF Blocks
  <2> DEFINE at == BlocksClaimed(inodes[i].file_length)
  <2>2. WithBlocks(i, claimed) = [inodes[i] EXCEPT !.data_blocks_idx[at] = Largest(claimed)]
    BY DEF WithBlocks
  <2>3. inodes[i] \in InodeRecords
    BY DEF DiskTypes
  <2> HIDE DEF at
  <2> QED
    BY <2>1, <2>2, <2>3 DEF InodeRecords
<1>3. ASSUME WriteData(i, offset, buf)
      PROVE  DiskTypes'
  <2> DEFINE claimed == FirstBlocks(BlockDiff(i, offset, n))
             inode == Extended(i, offset, n)
  <2>1. claimed \subseteq Blocks
    BY DEF FirstBlocks, FreeBlocks
  <2>2. WithBlocks(i, claimed) \in InodeRecords
    BY <1>2, <2>1
  <2>3. inode \in InodeRecords
    <3> DEFINE w == WithBlocks(i, claimed)
    <3>1. inode = [w EXCEPT !.file_length = IF offset >= @ THEN offset + n ELSE @]
      BY DEF Extended
    <3> HIDE DEF w, inode, n
    <3> QED
      BY <1>1, <2>2, <3>1 DEF w, InodeRecords
  <2>4. data' \in [Blocks -> [0..(FS_BLK_SIZE - 1) -> Bytes]]
    <3> SUFFICES ASSUME NEW b \in Blocks, NEW c \in 0..(FS_BLK_SIZE - 1)
                 PROVE  LET here == {m \in 1..Len(buf) : Place(inode, offset, m - 1) = <<b, c>>}
                        IN (IF here = {} THEN data[b][c] ELSE buf[Largest(here)]) \in Bytes
      BY <1>3 DEF WriteData, Written
    <3> DEFINE here == {m \in 1..Len(buf) : Place(inode, offset, m - 1) = <<b, c>>}
    <3>1. data[b][c] \in Bytes
      BY DEF DiskTypes
    <3>2. here # {} => Largest(here) \in 1..Len(buf)
      <4>1. here \subseteq 0..n
        BY <1>1
      <4>2. here # {} => Largest(here) \in here
        BY <1>1, <4>1, LargestIn
      <4> QED
        BY <4>2
    <3> HIDE DEF here, inode
    <3>3. here # {} => buf[Largest(here)] \in Bytes
      BY <1>1, <3>2
    <3> QED
      BY <3>1, <3>3 DEF here
  <2>5. inodes' = [inodes EXCEPT ![i] = inode]
    BY <1>3 DEF WriteData
  <2>6. data_block_bitmap' \in [Blocks -> BOOLEAN] /\ UNCHANGED overrun
    BY <1>3 DEF WriteData, DiskTypes
  <2> HIDE DEF inode, claimed
  <2> QED
    BY <2>3, <2>4, <2>5, <2>6 DEF DiskTypes
<1>4. ASSUME WriteFails(i, offset, n)
      PROVE  DiskTypes'
  <2>1. WithBlocks(i, FreeBlocks) \in InodeRecords
    BY <1>2 DEF FreeBlocks
  <2> QED
    BY <1>4, <2>1 DEF WriteFails, DiskTypes
<1> QED
  BY <1>3, <1>4

-----------------------------------------------------------------------------
\* Calls are made when nothing is being created.
LEMMA NobodyCreates ==
  ASSUME ~Preempt, NEW p, Calls(p)
  PROVE  pc[p] = "user" /\ \A q \in Procs : ~Creating(q)
BY DEF Calls, Creating

LEMMA ClosedType == Closed \in FileRecords
<1>1. 0 \in Inodes /\ "files" \in Tables
  BY DEF Inodes, Tables
<1> QED
  BY <1>1 DEF Closed, FileRecords

LEMMA TableType ==
  ASSUME NEW type \in FS_TYPE_RTC..FS_TYPE_FILE
  PROVE  /\ TableOf(type) \in Tables
         /\ TableOf(type) = "files" <=> type = FS_TYPE_FILE
         /\ TableOf(type) = "rtc" <=> type = FS_TYPE_RTC
<1>1. type = 0 \/ type = 1 \/ type = 2
  BY DEF FS_TYPE_RTC, FS_TYPE_FILE
<1> QED
  BY <1>1 DEF TableOf, Tables, FS_TYPE_RTC, FS_TYPE_DIR, FS_TYPE_FILE

LEMMA InitTypes ==
  ASSUME Init
  PROVE  TypeInv
<1>1. DiskTypes
  <2>1. /\ ImageEntries \in Seq(Entries) /\ Len(ImageEntries) \in 1..NUM_DENTRIES
        /\ ImageInodes \in [Inodes -> InodeRecords]
        /\ ImageData \in [Blocks -> [0..(FS_BLK_SIZE - 1) -> Bytes]]
    BY ImageAssumption, Zenon
  <2>2. FsInit
    BY DEF Init, DescriptorsInit
  <2>3. Len(ImageEntries) \in Nat /\ \A i \in 1..Len(ImageEntries) : ImageEntries[i] \in Entries
    BY <2>1
  <2>4. [file_name |-> "", file_type |-> FS_TYPE_RTC, inode_num |-> 0] \in Entries
    <3>1. 0 \in Inodes /\ FS_TYPE_RTC \in FS_TYPE_RTC..FS_TYPE_FILE
      BY DEF Inodes, FS_TYPE_RTC, FS_TYPE_FILE
    <3> QED
      BY <3>1 DEF Entries
  <2>5. directory_entries \in [0..(NUM_DENTRIES - 1) -> Entries]
    <3>1. ASSUME NEW i \in 0..(NUM_DENTRIES - 1), i < Len(ImageEntries)
          PROVE  ImageEntries[i + 1] \in Entries
      <4>1. i + 1 \in 1..Len(ImageEntries)
        BY <2>3, <3>1
      <4> QED
        BY <2>3, <4>1
    <3> QED
      BY <2>2, <2>4, <3>1 DEF FsInit
  <2>6. num_dir_entries \in 0..NUM_DENTRIES
    <3>1. num_dir_entries = Len(ImageEntries)
      BY <2>2 DEF FsInit
    <3> QED
      BY <2>1, <2>3, <3>1
  <2>7. inode_bitmap \in [Inodes -> BOOLEAN] /\ data_block_bitmap \in [Blocks -> BOOLEAN]
    <3>1. \A i, S : (i \in S) \in BOOLEAN
      OBVIOUS
    <3>2. /\ inode_bitmap = [i \in Inodes |-> i \in InodesInUse]
          /\ data_block_bitmap = [b \in Blocks |-> b \in BlocksInUse]
      BY <2>2, Zenon DEF FsInit
    <3> QED
      BY <3>1, <3>2, Zenon
  <2> QED
    BY <2>1, <2>2, <2>5, <2>6, <2>7 DEF FsInit, DiskTypes
<1>2. FileTypes
  <2>1. Closed \in FileRecords
    BY ClosedType
  <2> QED
    BY <2>1 DEF Init, DescriptorsInit, FileTypes
<1>3. CallTypes
  <2>1. 0 \in 0..NUM_DENTRIES
    OBVIOUS
  <2> QED
    BY <2>1 DEF Init, DescriptorsInit, CallTypes
<1>4. RtcTypes
  <2>1. COUNT_MOD \in Nat /\ COUNT_MOD > RTC_MAX_FREQ
    BY RtcAssumption, Zenon
  <2>2. /\ 0 \in 0..(COUNT_MOD - 1) /\ DEFAULT_RTC_FREQ \in Int
        /\ RTC_MAX_FREQ \in 0..RTC_MAX_FREQ
    BY <2>1, FrequencyFacts
  <2> QED
    BY <2>2 DEF Init, RtcInit, RtcTypes
<1>5. CreatorInv
  BY DEF Init, DescriptorsInit, CreatorInv, Creating
<1> QED
  BY <1>1, <1>2, <1>3, <1>4, <1>5 DEF TypeInv

\* A call of another process or of another kind disturbs no creation.
LEMMA CreatorsKept ==
  ASSUME CreatorInv, UNCHANGED <<num_dir_entries, localVars>>
  PROVE  CreatorInv'
BY DEF CreatorInv, Creating, localVars

LEMMA CreatorsAside ==
  ASSUME CreatorInv, UNCHANGED <<num_dir_entries, opening, inode_idx, new_dentry>>,
         \A q \in Procs : pc'[q] = pc[q] \/ (pc[q] \in Aside /\ pc'[q] \in Aside)
  PROVE  CreatorInv'
<1>1. \A q \in Procs : /\ Creating(q)' <=> Creating(q)
                       /\ pc'[q] = "count" <=> pc[q] = "count"
  BY DEF Creating, Aside, Placing
<1> QED
  BY <1>1 DEF CreatorInv

\* A call on the mouse moves only its process, and stores nothing else but a
\* descriptor.
LEMMA MouseStepFacts ==
  ASSUME CallTypes, NEW p \in Procs, MouseStep(p)
  PROVE  /\ pc[p] \in {"user"} \cup Placing /\ pc'[p] \in {"user"} \cup Placing
         /\ pc' \in [Procs -> {"user", "inode", "block", "count", "rtc",
                               "centre_y", "centre_fake_x", "centre_fake_y", "place_y"}]
         /\ \A q \in Procs : q # p => pc'[q] = pc[q]
         /\ UNCHANGED <<fsVars, opening, inode_idx, data_block_idx, new_dentry, workload>>
         /\ UNCHANGED <<file, listed>> \/ Allocate(p, "mouse", 0)
         /\ returned' = <<>>
<1>1. \/ pc[p] = "user" /\ pc' = [pc EXCEPT ![p] = "centre_y"]
      \/ pc[p] = "centre_y" /\ pc' = [pc EXCEPT ![p] = "centre_fake_x"]
      \/ pc[p] = "centre_fake_x" /\ pc' = [pc EXCEPT ![p] = "centre_fake_y"]
      \/ pc[p] = "centre_fake_y" /\ pc' = [pc EXCEPT ![p] = "user"]
      \/ pc[p] = "user" /\ pc' = [pc EXCEPT ![p] = "place_y"]
      \/ pc[p] = "place_y" /\ pc' = [pc EXCEPT ![p] = "user"]
  BY DEF MouseStep, MouseCall, OpenMouse, CentreY, CentreFakeX, CentreFakeY, MouseWrite, PlaceY,
         Calls
<1>2. /\ UNCHANGED <<fsVars, opening, inode_idx, data_block_idx, new_dentry, workload>>
      /\ UNCHANGED <<file, listed>> \/ Allocate(p, "mouse", 0)
      /\ returned' = <<>>
  BY DEF MouseStep, MouseCall, OpenMouse, CentreY, CentreFakeX, CentreFakeY, MouseWrite, PlaceY,
         StoreOnly
<1> QED
  BY <1>1, <1>2 DEF CallTypes, Placing

LEMMA FileTypesStep ==
  ASSUME TypeInv, ~Preempt, NEW p \in Procs, FileStep(p)
  PROVE  DiskTypes' /\ FileTypes' /\ CallTypes' /\ CreatorInv'
<1> USE DEF TypeInv
<1>1. ASSUME NEW name \in Names, OpenFound(p, name)
      PROVE  DiskTypes' /\ FileTypes' /\ CallTypes' /\ CreatorInv'
  <2>1. PICK i \in Dentries : /\ ReadDentryByName(name) = directory_entries[i]
                              /\ directory_entries[i] \in Entries
    BY <1>1, DentryFacts DEF OpenFound
  <2>2. /\ TableOf(directory_entries[i].file_type) \in Tables
        /\ directory_entries[i].inode_num \in Inodes
    BY <2>1, TableType DEF Entries
  <2>3. Allocate(p, TableOf(directory_entries[i].file_type), directory_entries[i].inode_num)
    BY <1>1, <2>1 DEF OpenFound
  <2>4. FileTypes'
    BY <2>2, <2>3, AllocateFacts
  <2> QED
    BY <1>1, <2>4, CreatorsKept DEF OpenFound, fsVars, localVars, DiskTypes, CallTypes
<1>2. ASSUME NEW name \in Names, CreateFile(p, name)
      PROVE  DiskTypes' /\ FileTypes' /\ CallTypes' /\ CreatorInv'
  <2>1. ScanForInode \in 0..(MAX_DATA_BLOCKS - 1) /\ ScanForInode \in Inodes
    BY <1>2, ScanFacts DEF CreateFile
  <2>2. \A q \in Procs : ~Creating(q)
    BY <1>2, NobodyCreates DEF CreateFile
  <2> HIDE DEF ScanForInode
  <2>3. CreatorInv'
    BY <1>2, <2>1, <2>2 DEF CreateFile, fsVars, CallTypes, CreatorInv, Creating
  <2> QED
    BY <1>2, <2>1, <2>3 DEF CreateFile, fsVars, DiskTypes, FileTypes, CallTypes
<1>3. ASSUME ClaimInode(p)
      PROVE  DiskTypes' /\ FileTypes' /\ CallTypes' /\ CreatorInv'
  <2>1. ScanForBlock \in Blocks \cup {-1}
    BY ScanFacts
  <2>2. CreatorInv'
    BY <1>3 DEF ClaimInode, CallTypes, CreatorInv, Creating
  <2> QED
    BY <1>3, <2>1, <2>2 DEF ClaimInode, DiskTypes, FileTypes, CallTypes
<1>4. ASSUME ClaimFails(p)
      PROVE  DiskTypes' /\ FileTypes' /\ CallTypes' /\ CreatorInv'
  <2>1. CreatorInv'
    BY <1>4 DEF ClaimFails, Return, CallTypes, CreatorInv, Creating
  <2>2. DiskTypes' /\ FileTypes'
    BY <1>4 DEF ClaimFails, DiskTypes, FileTypes
  <2>3. CallTypes'
    BY <1>4 DEF ClaimFails, Return, CallTypes
  <2> QED
    BY <2>1, <2>2, <2>3
<1>5. ASSUME ClaimBlock(p)
      PROVE  DiskTypes' /\ FileTypes' /\ CallTypes' /\ CreatorInv'
  <2>1. /\ opening[p] \in Names /\ inode_idx[p] \in Inodes
        /\ num_dir_entries < NUM_DENTRIES
    BY <1>5 DEF ClaimBlock, CreatorInv, Creating, Inodes
  <2>2. [file_name |-> opening[p], file_type |-> FS_TYPE_FILE, inode_num |-> inode_idx[p]]
          \in Entries
    <3>1. FS_TYPE_FILE \in FS_TYPE_RTC..FS_TYPE_FILE
      BY DEF FS_TYPE_RTC, FS_TYPE_FILE
    <3> QED
      BY <2>1, <3>1 DEF Entries
  <2>3. CreatorInv'
    BY <1>5 DEF ClaimBlock, DiskTypes, CallTypes, CreatorInv, Creating
  <2> QED
    BY <1>5, <2>2, <2>3 DEF ClaimBlock, DiskTypes, FileTypes, CallTypes
<1>6. ASSUME OpenCreated(p)
      PROVE  DiskTypes' /\ FileTypes' /\ CallTypes' /\ CreatorInv'
  <2>1. num_dir_entries < NUM_DENTRIES /\ new_dentry[p] = num_dir_entries
    BY <1>6 DEF OpenCreated, CreatorInv, Creating
  <2>2. directory_entries[new_dentry[p]].inode_num \in Inodes
    <3>1. new_dentry[p] \in 0..(NUM_DENTRIES - 1)
      BY <2>1 DEF DiskTypes
    <3>2. directory_entries[new_dentry[p]] \in Entries
      BY <3>1 DEF DiskTypes
    <3> QED
      BY <3>2 DEF Entries
  <2>3. Allocate(p, "files", directory_entries[new_dentry[p]].inode_num)
    BY <1>6 DEF OpenCreated
  <2>4. FileTypes'
    BY <2>2, <2>3, AllocateFacts DEF Tables
  <2>5. CreatorInv'
    BY <1>6 DEF OpenCreated, Return, CallTypes, CreatorInv, Creating
  <2> QED
    BY <1>6, <2>1, <2>4, <2>5 DEF OpenCreated, Return, DiskTypes, CallTypes
<1>7. ASSUME Exit(p)
      PROVE  DiskTypes' /\ FileTypes' /\ CallTypes' /\ CreatorInv'
  <2>1. \A f \in FileRecords : Ended(f) \in FileRecords
    BY ClosedType DEF FileRecords, Ended
  <2>2. FileTypes'
    BY <1>7, <2>1 DEF Exit, FileTypes
  <2> QED
    BY <1>7, <2>2, CreatorsKept DEF Exit, fsVars, localVars, DiskTypes, CallTypes
<1>8. ASSUME NEW fd \in Fds, Close(p, fd)
      PROVE  DiskTypes' /\ FileTypes' /\ CallTypes' /\ CreatorInv'
  <2>2. FileTypes'
    BY <1>8, ClosedType DEF Close, FileTypes
  <2> QED
    BY <1>8, <2>2, CreatorsKept DEF Close, fsVars, localVars, DiskTypes, CallTypes
<1>9. ASSUME NEW fd \in Fds, DirRead(p, fd)
      PROVE  DiskTypes' /\ FileTypes' /\ CallTypes' /\ CreatorInv'
  <2>1. FileTypes'
    <3>1. file[p][fd] \in FileRecords
      BY DEF FileTypes
    <3>2. file' = [file EXCEPT ![p][fd].file_position = file[p][fd].file_position + 1]
      BY <1>9 DEF DirRead
    <3>3. file[p][fd].file_position + 1 \in Int
      BY <3>1 DEF FileRecords
    <3> QED
      BY <3>2, <3>3, MoveFacts
  <2> QED
    BY <1>9, <2>1, CreatorsKept DEF DirRead, fsVars, localVars, DiskTypes, CallTypes
<1>10. ASSUME NEW fd \in Fds, NEW n \in Lengths, FileRead(p, fd, n)
       PROVE  DiskTypes' /\ FileTypes' /\ CallTypes' /\ CreatorInv'
  <2> DEFINE f == file[p][fd]
             length == ReadLength(f.inode, f.file_position, n)
  <2>1. f \in FileRecords
    BY DEF FileTypes
  <2>2. n \in Nat
    BY DescriptorsAssumption, Zenon
  <2>3. inodes[f.inode].file_length \in Nat
    BY <2>1 DEF DiskTypes, InodeRecords, FileRecords
  <2>4. length \in Int
    BY <2>1, <2>2, <2>3 DEF ReadLength, FileRecords
  <2>5. file' = [file EXCEPT ![p][fd].file_position = f.file_position + length]
    BY <1>10 DEF FileRead
  <2>6. f.file_position + length \in Int
    BY <2>1, <2>4 DEF FileRecords
  <2>7. FileTypes'
    BY <2>5, <2>6, MoveFacts
  <2> QED
    BY <1>10, <2>7, CreatorsKept DEF FileRead, fsVars, localVars, DiskTypes, CallTypes
<1>11. ASSUME NEW fd \in Fds, NEW buf \in workload.writes,
              FileWrite(p, fd, buf) \/ FileWriteFails(p, fd, buf)
       PROVE  DiskTypes' /\ FileTypes' /\ CallTypes' /\ CreatorInv'
  <2> DEFINE f == file[p][fd]
  <2>1. buf \in Buffers
    BY WrittenBuffers
  <2>2. f \in FileRecords /\ f.file_position \in Nat /\ f.inode \in Inodes
    BY <1>11 DEF FileWrite, FileWriteFails, FileTypes, FileRecords
  <2>3. DiskTypes'
    <3>1. UNCHANGED <<directory_entries, num_dir_entries, inode_bitmap>>
      BY <1>11 DEF FileWrite, FileWriteFails
    <3>2. \/ WriteData(f.inode, f.file_position, buf)
          \/ WriteFails(f.inode, f.file_position, Len(buf))
      BY <1>11 DEF FileWrite, FileWriteFails
    <3> HIDE DEF f
    <3> QED
      BY <2>1, <2>2, <3>1, <3>2, WriteFacts
  <2>4. Len(buf) \in Nat
    BY <2>1, BufferFacts
  <2>5. FileTypes'
    <3>1. CASE FileWrite(p, fd, buf)
      <4>1. file' = [file EXCEPT ![p][fd].file_position = f.file_position + Len(buf)]
        BY <3>1 DEF FileWrite
      <4>2. f.file_position + Len(buf) \in Int
        BY <2>2, <2>4
      <4> QED
        BY <4>1, <4>2, MoveFacts
    <3>2. CASE FileWriteFails(p, fd, buf)
      <4>1. file' = [file EXCEPT ![p][fd].file_position = f.file_position - 1]
        BY <3>2 DEF FileWriteFails
      <4>2. f.file_position - 1 \in Int
        BY <2>2
      <4> QED
        BY <4>1, <4>2, MoveFacts
    <3> QED
      BY <1>11, <3>1, <3>2
  <2>6. CallTypes' /\ CreatorInv'
    BY <1>11, CreatorsKept DEF FileWrite, FileWriteFails, CallTypes, localVars
  <2> QED
    BY <2>3, <2>5, <2>6
<1> QED
  BY <1>1, <1>2, <1>3, <1>4, <1>5, <1>6, <1>7, <1>8, <1>9, <1>10, <1>11 DEF FileStep

LEMMA CountFacts ==
  COUNT_MOD \in Nat /\ COUNT_MOD > RTC_MAX_FREQ /\ RTC_MAX_FREQ \in Nat \ {0}
BY RtcAssumption, FrequencyFacts, Zenon

\* The period of every frequency that is accepted.
LEMMA PeriodFacts ==
  ASSUME NEW freq, Accepted(freq)
  PROVE  /\ freq \in Int
         /\ PeriodOf(freq) \in 0..RTC_MAX_FREQ
         /\ freq > 0 => PeriodOf(freq) * freq = RTC_MAX_FREQ
<1>1. INT_MIN \in Int /\ INT_MIN < -RTC_MAX_FREQ
  BY RtcAssumption, Zenon
<1>2. CASE freq = INT_MIN
  BY <1>1, <1>2, CountFacts DEF PeriodOf
<1>3. CASE freq \in 1..RTC_MAX_FREQ /\ \E k \in 0..30 : freq = 2^k
  <2>1. RTC_MAX_FREQ % freq = 0
    BY <1>3, RtcAssumption, Zenon
  <2>2. PeriodOf(freq) = RTC_MAX_FREQ \div freq
    BY <1>3 DEF PeriodOf
  <2>3. RTC_MAX_FREQ \div freq \in Nat /\ (RTC_MAX_FREQ \div freq) * freq = RTC_MAX_FREQ
    BY <1>3, <2>1, CountFacts
  <2>4. RTC_MAX_FREQ \div freq <= RTC_MAX_FREQ
    BY <1>3, <2>3, CountFacts
  <2> QED
    BY <1>3, <2>2, <2>3, <2>4, CountFacts
<1> QED
  BY <1>2, <1>3 DEF Accepted

LEMMA RtcUnusedTypes ==
  ASSUME RtcTypes, RtcUnused
  PROVE  RtcTypes'
<1>1. DEFAULT_RTC_FREQ \in Int
  BY FrequencyFacts
<1> QED
  BY <1>1 DEF RtcUnused, RtcTypes

\* What an interrupt of the device does to the model's clocks.
LEMMA DeviceFacts ==
  ASSUME RtcTypes, NEW signals \in Signals, Device(signals)
  PROVE  since_update' \in 0..RTC_MAX_FREQ /\ ticks' \in [Procs -> Nat]
<1>1. since_update \in Nat /\ since_update <= RTC_MAX_FREQ /\ RTC_MAX_FREQ \in Nat
  BY FrequencyFacts DEF RtcTypes
<1>2. PeriodsAfter(signals) \in Nat
  BY <1>1 DEF PeriodsAfter
<1>3. since_update' \in 0..RTC_MAX_FREQ
  <2> HIDE DEF PeriodsAfter
  <2> QED
    BY <1>1, <1>2 DEF Device
<1>4. ticks' \in [Procs -> Nat]
  BY DEF Device, RtcTypes
<1> QED
  BY <1>3, <1>4

LEMMA RtcTypesStep ==
  ASSUME TypeInv, NEW p \in Procs, RtcStep(p)
  PROVE  TypeInv'
<1> USE DEF TypeInv
<1>1. ASSUME RtcReadEnds(p)
      PROVE  TypeInv'
  <2>1. CreatorInv'
    BY <1>1 DEF RtcReadEnds, fsVars, CallTypes, CreatorInv, Creating
  <2>2. DiskTypes' /\ FileTypes'
    BY <1>1 DEF RtcReadEnds, fsVars, DiskTypes, FileTypes
  <2>3. CallTypes'
    BY <1>1 DEF RtcReadEnds, CallTypes
  <2>4. RtcTypes'
    BY <1>1, CountFacts DEF RtcReadEnds, RtcTypes
  <2> QED
    BY <2>1, <2>2, <2>3, <2>4
<1>2. ASSUME NEW fd \in Fds, RtcRead(p, fd)
      PROVE  TypeInv'
  <2>1. CreatorInv'
    BY <1>2 DEF RtcRead, Calls, fsVars, CallTypes, CreatorInv, Creating
  <2>2. DiskTypes' /\ FileTypes'
    BY <1>2 DEF RtcRead, fsVars, DiskTypes, FileTypes
  <2>3. CallTypes'
    BY <1>2 DEF RtcRead, CallTypes
  <2>4. RtcTypes'
    BY <1>2, CountFacts DEF RtcRead, RtcTypes
  <2> QED
    BY <2>1, <2>2, <2>3, <2>4
<1>3. ASSUME NEW fd \in Fds, NEW freq \in Frequencies, RtcWrite(p, fd, freq)
      PROVE  TypeInv'
  <2>1. PeriodOf(freq) \in Int /\ freq \in Int
    BY <1>3, PeriodFacts DEF RtcWrite
  <2>2. FileTypes'
    BY <1>3, <2>1, MoveFacts DEF RtcWrite
  <2>3. RtcTypes'
    BY <1>3, <2>1 DEF RtcWrite, RtcTypes
  <2> QED
    BY <1>3, <2>2, <2>3, CreatorsKept DEF RtcWrite, fsVars, localVars, DiskTypes, CallTypes
<1> QED
  BY <1>1, <1>2, <1>3 DEF RtcStep

LEMMA DeviceTypesStep ==
  ASSUME TypeInv,
         \/ RtcHandler
         \/ \E p \in Procs : MouseStep(p) /\ RtcUnused
         \/ \E packet \in Packets : MouseHandler(packet) /\ UNCHANGED rtcVars
  PROVE  TypeInv'
<1> USE DEF TypeInv
<1>1. CASE RtcHandler
  <2>1. global_count' \in 0..(COUNT_MOD - 1) /\ UNCHANGED <<entered_count, asked>>
    BY <1>1, CountFacts DEF RtcHandler, RtcTypes
  <2>2. since_update' \in 0..RTC_MAX_FREQ /\ ticks' \in [Procs -> Nat]
    BY <1>1, DeviceFacts DEF RtcHandler
  <2>3. RtcTypes'
    BY <2>1, <2>2 DEF RtcTypes
  <2> QED
    BY <1>1, <2>3, CreatorsKept DEF RtcHandler, fsVars, localVars, DiskTypes, FileTypes, CallTypes
<1>2. ASSUME NEW p \in Procs, MouseStep(p), RtcUnused
      PROVE  TypeInv'
  <2>1. /\ \A q \in Procs : pc'[q] = pc[q] \/ (pc[q] \in Aside /\ pc'[q] \in Aside)
        /\ UNCHANGED <<fsVars, opening, inode_idx, data_block_idx, new_dentry, workload>>
    <3>1. /\ pc[p] \in {"user"} \cup Placing /\ pc'[p] \in {"user"} \cup Placing
          /\ \A q \in Procs : q # p => pc'[q] = pc[q]
          /\ UNCHANGED <<fsVars, opening, inode_idx, data_block_idx, new_dentry, workload>>
      BY <1>2, MouseStepFacts
    <3> QED
      BY <3>1 DEF Aside
  <2>2. FileTypes'
    <3>1. "mouse" \in Tables /\ 0 \in Inodes
      BY DEF Tables, Inodes
    <3>2. Allocate(p, "mouse", 0) => FileTypes'
      BY <3>1, AllocateFacts
    <3>3. UNCHANGED file => FileTypes'
      BY DEF FileTypes
    <3> QED
      BY <1>2, <3>2, <3>3, MouseStepFacts
  <2>3. CallTypes'
    BY <1>2, <2>1, MouseStepFacts DEF CallTypes
  <2>4. DiskTypes' /\ CreatorInv'
    BY <2>1, CreatorsAside DEF fsVars, DiskTypes
  <2> QED
    BY <1>2, <2>2, <2>3, <2>4, RtcUnusedTypes
<1>3. ASSUME NEW packet \in Packets, MouseHandler(packet), UNCHANGED rtcVars
      PROVE  TypeInv'
  BY <1>3, CreatorsKept
     DEF MouseHandler, rtcVars, fsVars, localVars, DiskTypes, FileTypes, CallTypes, RtcTypes
<1> QED
  BY <1>1, <1>2, <1>3

LEMMA NextTypes ==
  ASSUME ~Preempt, TypeInv, [Next]_vars
  PROVE  TypeInv'
<1>1. CASE UNCHANGED vars
  BY <1>1 DEF vars, fsVars, fdVars, localVars, rtcVars, TypeInv, DiskTypes, FileTypes,
              CallTypes, RtcTypes, CreatorInv, Creating
<1>2. ASSUME NEW p \in Procs, FileStep(p), RtcUnused
      PROVE  TypeInv'
  BY <1>2, FileTypesStep, RtcUnusedTypes DEF TypeInv
<1> QED
  BY <1>1, <1>2, RtcTypesStep, DeviceTypesStep DEF Next

\* Creations, transfers of any length and closings, in any order and by any
\* number of processes, keep every table in its type, writes that run out of
\* blocks and release words before the inode's blocks included (after one that
\* clears a byte behind the bitmap no call follows, see Calls): in particular
\* create_new_file is never past a check that another one's entry has made void.
THEOREM ServicesTypeCorrect ==
  ASSUME ~Preempt
  PROVE  Spec => []ServicesTypeOK
<1>1. Init => TypeInv
  BY InitTypes
<1>2. TypeInv /\ [Next]_vars => TypeInv'
  BY NextTypes
<1>3. TypeInv => ServicesTypeOK
  BY Parts DEF TypeInv
<1> QED
  BY <1>1, <1>2, <1>3, PTL DEF Spec

-----------------------------------------------------------------------------
\* Arithmetic of the mouse.
LEMMA TimesGrows ==
  ASSUME NEW a \in Nat, NEW b \in Int, NEW c \in Int, b >= c
  PROVE  a * b >= a * c
OBVIOUS

LEMMA Quotient ==
  ASSUME NEW a \in Int, NEW b \in Nat \ {0}
  PROVE  /\ a \div b \in Int /\ a % b \in 0..(b - 1)
         /\ a = b * (a \div b) + (a % b)
OBVIOUS

LEMMA QuotientUnique ==
  ASSUME NEW a \in Int, NEW b \in Nat \ {0}, NEW q \in Int, NEW r \in 0..(b - 1), a = b * q + r
  PROVE  a \div b = q
<1> DEFINE d == a \div b
           m == a % b
<1>1. d \in Int /\ m \in 0..(b - 1) /\ b * d + m = b * q + r
  BY Quotient
<1> HIDE DEF d, m
<1>2. ~(d >= q + 1)
  <2>1. d >= q + 1 => b * d >= b * (q + 1)
    BY <1>1, TimesGrows
  <2>2. b * (q + 1) = b * q + b
    OBVIOUS
  <2> QED
    BY <1>1, <2>1, <2>2
<1>3. ~(q >= d + 1)
  <2>1. q >= d + 1 => b * q >= b * (d + 1)
    BY <1>1, TimesGrows
  <2>2. b * (d + 1) = b * d + b
    BY <1>1
  <2> QED
    BY <1>1, <2>1, <2>2
<1>4. d = q
  BY <1>1, <1>2, <1>3
<1> QED
  BY <1>4 DEF d

\* A position of the finer resolution is scaled onto the screen, and its
\* middle to the middle.
LEMMA ScaledFacts ==
  ASSUME NEW res \in Nat \ {0}, res % 2 = 0, NEW num \in Nat \ {0}
  PROVE  /\ \A pos \in 0..(res - 1) : Scaled(pos, res, num) \in 0..(num - 1)
         /\ res \div 2 \in 0..(res - 1)
         /\ Scaled(res \div 2, res, num) = num \div 2
<1>1. ASSUME NEW pos \in 0..(res - 1)
      PROVE  Scaled(pos, res, num) \in 0..(num - 1)
  <2> DEFINE a == pos * num
             d == a \div res
             m == a % res
             rd == res * d
             rn == res * num
  <2>1. a \in Int /\ rn \in Int /\ a >= 0
    OBVIOUS
  <2>2. a <= rn - num
    <3>1. num * (res - 1) >= num * pos
      BY TimesGrows
    <3>2. num * (res - 1) = rn - num
      OBVIOUS
    <3>3. num * pos = a
      OBVIOUS
    <3> QED
      BY <3>1, <3>2, <3>3
  <2>3. d \in Int /\ m \in 0..(res - 1) /\ a = rd + m
    <3> HIDE DEF a
    <3>1. d \in Int /\ m \in 0..(res - 1) /\ a = res * d + m
      BY <2>1, Quotient, Zenon
    <3> QED
      BY <3>1
  <2>4. rd \in Int
    BY <2>3
  <2>5. d >= num => rd >= rn
    <3> HIDE DEF d
    <3> QED
      BY <2>3, TimesGrows
  <2>6. d <= -1 => rd <= -res
    <3> HIDE DEF d
    <3>1. -1 >= d => res * (-1) >= res * d
      BY <2>3, TimesGrows
    <3>2. res * (-1) = -res
      OBVIOUS
    <3> QED
      BY <2>3, <3>1, <3>2
  <2>7. d = Scaled(pos, res, num)
    BY DEF Scaled
  <2> HIDE DEF a, d, m, rd, rn
  <2>8. d >= 0 /\ d <= num - 1
    BY <2>1, <2>2, <2>3, <2>4, <2>5, <2>6
  <2> QED
    BY <2>3, <2>7, <2>8
<1>2. PICK h \in Nat \ {0} : res = 2 * h /\ res \div 2 = h
  <2> DEFINE half == res \div 2
  <2>1. res = 2 * half /\ half \in Nat \ {0}
    OBVIOUS
  <2> QED
    BY <2>1, Zenon
<1>3. PICK k \in Nat : num \div 2 = k /\ (num = 2 * k \/ num = 2 * k + 1)
  <2> DEFINE half == num \div 2
  <2>1. half \in Nat /\ (num = 2 * half \/ num = 2 * half + 1)
    OBVIOUS
  <2> QED
    BY <2>1, Zenon
<1>4. (h * num) \div res = k
  <2> DEFINE a == h * num
  <2>1. a \in Int
    OBVIOUS
  <2>2. CASE num = 2 * k
    <3>1. a = res * k + 0
      BY <1>2, <2>2
    <3>2. 0 \in 0..(res - 1)
      OBVIOUS
    <3> HIDE DEF a
    <3>3. a \div res = k
      <4>1. k \in Int
        OBVIOUS
      <4> QED
        BY <2>1, <3>1, <3>2, <4>1, QuotientUnique, Zenon
    <3> QED
      BY <3>3 DEF a
  <2>3. CASE num = 2 * k + 1
    <3>1. a = res * k + h
      BY <1>2, <2>3
    <3>2. h \in 0..(res - 1)
      BY <1>2
    <3> HIDE DEF a
    <3>3. a \div res = k
      <4>1. k \in Int
        OBVIOUS
      <4> QED
        BY <2>1, <3>1, <3>2, <4>1, QuotientUnique, Zenon
    <3> QED
      BY <3>3 DEF a
  <2> QED
    BY <1>3, <2>2, <2>3
<1>5. Scaled(res \div 2, res, num) = num \div 2
  BY <1>2, <1>3, <1>4, Zenon DEF Scaled
<1>6. res \div 2 \in 0..(res - 1)
  BY <1>2
<1> QED
  BY <1>1, <1>5, <1>6, Zenon

LEMMA ScreenFacts ==
  /\ NUM_COLS \in Nat \ {0} /\ NUM_ROWS \in Nat \ {0}
  /\ FAKE_MOUSE_RES_X \in Nat \ {0} /\ FAKE_MOUSE_RES_X % 2 = 0
  /\ FAKE_MOUSE_RES_Y \in Nat \ {0} /\ FAKE_MOUSE_RES_Y % 2 = 0
BY ScreenAssumption

\* A coordinate of a screen fits a uint16_t.
LEMMA UInt16OnScreen ==
  ASSUME NEW res \in Nat \ {0}, res <= 32768, NEW m \in 0..(res - 1)
  PROVE  UInt16(m) \in 0..(res - 1)
<1>1. m \in Nat /\ m < 65536
  OBVIOUS
<1>2. m % 65536 = m
  BY <1>1
<1> QED
  BY <1>2 DEF UInt16

\* The clamp of a coordinate keeps it on a screen of res cells.
LEMMA ClampedOnScreen ==
  ASSUME NEW n \in Int, NEW res \in Nat \ {0}
  PROVE  Minimum(Maximum(n, 0), res - 1) \in 0..(res - 1)
BY DEF Maximum, Minimum

LEMMA MovedInRange ==
  ASSUME NEW pos \in Int, NEW v \in Int, NEW res \in Nat \ {0}, res <= 32768
  PROVE  Moved(pos, v, res) \in 0..(res - 1)
<1>1. pos + v \in Int
  OBVIOUS
<1>2. Minimum(Maximum(pos + v, 0), res - 1) \in 0..(res - 1)
  BY <1>1, ClampedOnScreen
<1>3. UInt16(Minimum(Maximum(pos + v, 0), res - 1)) \in 0..(res - 1)
  BY <1>2, UInt16OnScreen
<1> QED
  BY ONLY <1>3, Zenon DEF Moved

LEMMA MovedOnScreen ==
  ASSUME NEW pos \in Int, NEW v \in Int
  PROVE  /\ Moved(pos, v, FAKE_MOUSE_RES_X) \in 0..(FAKE_MOUSE_RES_X - 1)
         /\ Moved(pos, v, FAKE_MOUSE_RES_Y) \in 0..(FAKE_MOUSE_RES_Y - 1)
<1>1. /\ FAKE_MOUSE_RES_X \in Nat \ {0} /\ FAKE_MOUSE_RES_X <= 32768
      /\ FAKE_MOUSE_RES_Y \in Nat \ {0} /\ FAKE_MOUSE_RES_Y <= 32768
  BY ScreenAssumption
<1> QED
  BY <1>1, MovedInRange

\* The facts that every step uses.
LEMMA ScreenScaled ==
  /\ \A pos \in 0..(FAKE_MOUSE_RES_X - 1) : Scaled(pos, FAKE_MOUSE_RES_X, NUM_COLS) \in 0..(NUM_COLS - 1)
  /\ \A pos \in 0..(FAKE_MOUSE_RES_Y - 1) : Scaled(pos, FAKE_MOUSE_RES_Y, NUM_ROWS) \in 0..(NUM_ROWS - 1)
  /\ FAKE_MOUSE_RES_X \div 2 \in 0..(FAKE_MOUSE_RES_X - 1)
  /\ FAKE_MOUSE_RES_Y \div 2 \in 0..(FAKE_MOUSE_RES_Y - 1)
  /\ Scaled(FAKE_MOUSE_RES_X \div 2, FAKE_MOUSE_RES_X, NUM_COLS) = NUM_COLS \div 2
  /\ Scaled(FAKE_MOUSE_RES_Y \div 2, FAKE_MOUSE_RES_Y, NUM_ROWS) = NUM_ROWS \div 2
  /\ NUM_COLS \div 2 \in 0..(NUM_COLS - 1) /\ NUM_ROWS \div 2 \in 0..(NUM_ROWS - 1)
<1>1. NUM_COLS \div 2 \in 0..(NUM_COLS - 1) /\ NUM_ROWS \div 2 \in 0..(NUM_ROWS - 1)
  BY ScreenFacts
<1> QED
  BY <1>1, ScreenFacts, ScaledFacts, Zenon

\* The stores of an open that is under way are in place, whichever other opens
\* store between them.
Underway(p) ==
  /\ Centring(p)
  /\ x_pos = NUM_COLS \div 2
  /\ pc[p] # "centre_y" => y_pos = NUM_ROWS \div 2
  /\ pc[p] = "centre_fake_y" => fake_mouse_pos_x = FAKE_MOUSE_RES_X \div 2

AllCentred ==
  /\ x_pos = NUM_COLS \div 2 /\ fake_mouse_pos_x = FAKE_MOUSE_RES_X \div 2
  /\ y_pos = NUM_ROWS \div 2 /\ fake_mouse_pos_y = FAKE_MOUSE_RES_Y \div 2

Settled ==
  \/ (\A p \in Procs : ~Centring(p)) /\ PointerAgrees
  \/ \E p \in Procs : Underway(p)
  \/ AllCentred

PlaceTypes == pc \in [Procs -> {"inode", "block", "count"} \cup Aside]

ScreenTypes ==
  /\ x_pos \in 0..(NUM_COLS - 1) /\ y_pos \in 0..(NUM_ROWS - 1)
  /\ fake_mouse_pos_x \in 0..(FAKE_MOUSE_RES_X - 1)
  /\ fake_mouse_pos_y \in 0..(FAKE_MOUSE_RES_Y - 1)
  /\ temp_y \in [Procs -> 0..(NUM_ROWS - 1)]

MouseInv == PlaceTypes /\ ScreenTypes /\ (~placed /\ ~torn => Settled)

LEMMA InitMouse ==
  ASSUME Init
  PROVE  MouseInv
<1>1. PlaceTypes /\ \A p \in Procs : ~Centring(p)
  BY DEF Init, DescriptorsInit, PlaceTypes, Aside, Centring
<1>2. ScreenTypes
  <2>1. 0 \in 0..(NUM_ROWS - 1)
    BY ScreenFacts
  <2> QED
    BY <2>1, ScreenScaled, Zenon DEF Init, MouseInit, ScreenTypes
<1>3. PointerAgrees
  BY ScreenScaled, Zenon DEF Init, MouseInit, PointerAgrees
<1> QED
  BY <1>1, <1>2, <1>3 DEF MouseInv, Settled

\* Other calls neither begin nor end an open of the mouse.
LEMMA OthersKeepPlaces ==
  ASSUME PlaceTypes, NEW p \in Procs, FileStep(p) \/ RtcStep(p)
  PROVE  /\ PlaceTypes'
         /\ \A q \in Procs : pc'[q] = pc[q] \/ (~Centring(q) /\ ~Centring(q)')
<1>1. \/ pc' = pc
      \/ /\ pc[p] \in {"user", "rtc", "inode", "block", "count"}
         /\ \E to \in {"user", "rtc", "inode", "block", "count"} : pc' = [pc EXCEPT ![p] = to]
  <2>1. ASSUME FileStep(p)
        PROVE  \/ pc' = pc
               \/ /\ pc[p] \in {"user", "inode", "block", "count"}
                  /\ \E to \in {"user", "inode", "block", "count"} : pc' = [pc EXCEPT ![p] = to]
    BY <2>1 DEF FileStep, OpenFound, CreateFile, ClaimInode, ClaimFails, ClaimBlock, OpenCreated,
                Return, Exit, Close, DirRead, FileRead, FileWrite, FileWriteFails, Calls, localVars
  <2>2. ASSUME RtcStep(p)
        PROVE  \/ pc' = pc
               \/ /\ pc[p] \in {"user", "rtc"}
                  /\ \E to \in {"user", "rtc"} : pc' = [pc EXCEPT ![p] = to]
    BY <2>2 DEF RtcStep, RtcReadEnds, RtcRead, RtcWrite, Calls, localVars
  <2> QED
    BY <2>1, <2>2
<1>2. CASE pc' = pc
  BY <1>2 DEF PlaceTypes
<1>3. ASSUME pc[p] \in {"user", "rtc", "inode", "block", "count"},
             NEW to \in {"user", "rtc", "inode", "block", "count"}, pc' = [pc EXCEPT ![p] = to]
      PROVE  /\ PlaceTypes'
             /\ \A q \in Procs : pc'[q] = pc[q] \/ (~Centring(q) /\ ~Centring(q)')
  BY <1>3 DEF PlaceTypes, Aside, Centring
<1> QED
  BY <1>1, <1>2, <1>3

LEMMA MouseInvKept ==
  ASSUME MouseInv, UNCHANGED mouseVars, PlaceTypes',
         \A q \in Procs : pc'[q] = pc[q] \/ (~Centring(q) /\ ~Centring(q)')
  PROVE  MouseInv'
<1>1. ScreenTypes'
  BY DEF MouseInv, ScreenTypes, mouseVars
<1>2. ASSUME Settled
      PROVE  Settled'
  <2>1. CASE (\A p \in Procs : ~Centring(p)) /\ PointerAgrees
    BY <2>1 DEF Settled, PointerAgrees, mouseVars, Centring
  <2>2. ASSUME NEW p \in Procs, Underway(p)
        PROVE  Underway(p)'
    BY <2>2 DEF Underway, Centring, mouseVars
  <2>3. CASE AllCentred
    BY <2>3 DEF Settled, AllCentred, mouseVars
  <2> QED
    BY <1>2, <2>1, <2>2, <2>3 DEF Settled
<1> QED
  BY <1>1, <1>2 DEF MouseInv, mouseVars

\* The four stores of mouse_open.
LEMMA OpenMouseInv ==
  ASSUME MouseInv, NEW p \in Procs, OpenMouse(p)
  PROVE  MouseInv'
<1>1. /\ pc' = [pc EXCEPT ![p] = "centre_y"] /\ x_pos' = NUM_COLS \div 2
      /\ UNCHANGED <<y_pos, fake_mouse_pos_x, fake_mouse_pos_y, temp_y>>
  BY DEF OpenMouse
<1>2. PlaceTypes' /\ Underway(p)'
  BY <1>1 DEF MouseInv, PlaceTypes, Aside, Placing, Underway, Centring
<1>3. ScreenTypes'
  BY <1>1, ScreenScaled, Zenon DEF MouseInv, ScreenTypes
<1> QED
  BY <1>2, <1>3 DEF MouseInv, Settled

LEMMA CentreInv ==
  ASSUME MouseInv, NEW p \in Procs, CentreY(p) \/ CentreFakeX(p) \/ CentreFakeY(p)
  PROVE  MouseInv'
<1> USE DEF MouseInv
<1>1. \/ /\ pc[p] = "centre_y" /\ pc' = [pc EXCEPT ![p] = "centre_fake_x"]
         /\ y_pos' = NUM_ROWS \div 2
         /\ UNCHANGED <<x_pos, fake_mouse_pos_x, fake_mouse_pos_y, temp_y, placed, torn>>
      \/ /\ pc[p] = "centre_fake_x" /\ pc' = [pc EXCEPT ![p] = "centre_fake_y"]
         /\ fake_mouse_pos_x' = FAKE_MOUSE_RES_X \div 2
         /\ UNCHANGED <<x_pos, y_pos, fake_mouse_pos_y, temp_y, placed, torn>>
      \/ /\ pc[p] = "centre_fake_y" /\ pc' = [pc EXCEPT ![p] = "user"]
         /\ fake_mouse_pos_y' = FAKE_MOUSE_RES_Y \div 2
         /\ UNCHANGED <<x_pos, y_pos, fake_mouse_pos_x, temp_y, placed, torn>>
  BY DEF CentreY, CentreFakeX, CentreFakeY
<1>2. PlaceTypes' /\ \A q \in Procs : q # p => pc'[q] = pc[q]
  BY <1>1 DEF PlaceTypes, Aside, Placing
<1>3. ScreenTypes'
  <2>1. /\ NUM_ROWS \div 2 \in 0..(NUM_ROWS - 1)
        /\ FAKE_MOUSE_RES_X \div 2 \in 0..(FAKE_MOUSE_RES_X - 1)
        /\ FAKE_MOUSE_RES_Y \div 2 \in 0..(FAKE_MOUSE_RES_Y - 1)
    BY ScreenScaled, Zenon
  <2> QED
    BY <1>1, <2>1, Zenon DEF ScreenTypes
<1>4. ASSUME Settled
      PROVE  Settled'
  <2>1. CASE AllCentred
    <3>1. AllCentred'
      BY <1>1, <2>1, Zenon DEF AllCentred
    <3> QED
      BY <3>1 DEF Settled
  <2>2. ASSUME NEW q \in Procs, q # p, Underway(q)
        PROVE  Settled'
    <3>1. Underway(q)'
      BY <1>1, <1>2, <2>2 DEF Underway, Centring
    <3> QED
      BY <3>1 DEF Settled
  <2>3. CASE Underway(p)
    <3>1. Underway(p)' \/ AllCentred'
      BY <1>1, <2>3 DEF Underway, Centring, AllCentred, PlaceTypes
    <3> QED
      BY <3>1 DEF Settled
  <2>4. Centring(p)
    BY <1>1 DEF Centring
  <2> QED
    BY <1>4, <2>1, <2>2, <2>3, <2>4 DEF Settled
<1>5. UNCHANGED <<placed, torn>>
  BY <1>1
<1> QED
  BY <1>2, <1>3, <1>4, <1>5

\* The two stores of mouse_write.
LEMMA PlacedInv ==
  ASSUME MouseInv, NEW p \in Procs,
         PlaceY(p) \/ \E fd \in Fds : \E at \in Placements : MouseWrite(p, fd, at)
  PROVE  MouseInv'
<1> USE DEF MouseInv
<1>1. ASSUME NEW fd \in Fds, NEW at \in Placements, MouseWrite(p, fd, at)
      PROVE  MouseInv'
  <2>1. at[1] \in Int /\ at[2] \in Int
    <3>1. Placements \subseteq (-128..127) \X (-128..127)
      BY PacketAssumption, Zenon
    <3> QED
      BY <3>1
  <2>2. UInt16(at[1]) \in Nat /\ UInt16(at[2]) \in Nat
    BY <2>1 DEF UInt16
  <2> HIDE DEF UInt16
  <2>3. UInt16(at[1]) \in 0..(NUM_COLS - 1) /\ UInt16(at[2]) \in 0..(NUM_ROWS - 1)
    BY <1>1, <2>2, ScreenFacts DEF MouseWrite
  <2>4. ScreenTypes'
    BY <1>1, <2>3 DEF MouseWrite, ScreenTypes
  <2>5. PlaceTypes' /\ placed'
    BY <1>1 DEF MouseWrite, PlaceTypes, Aside, Placing
  <2> QED
    BY <2>4, <2>5
<1>2. ASSUME PlaceY(p)
      PROVE  MouseInv'
  <2>1. 0 \in 0..(NUM_ROWS - 1)
    BY ScreenFacts
  <2>2. ScreenTypes'
    BY <1>2, <2>1 DEF PlaceY, ScreenTypes
  <2>3. PlaceTypes' /\ placed'
    BY <1>2 DEF PlaceY, PlaceTypes, Aside
  <2> QED
    BY <2>2, <2>3
<1> QED
  BY <1>1, <1>2

LEMMA MouseHandlerInv ==
  ASSUME MouseInv, NEW packet \in Packets, MouseHandler(packet)
  PROVE  MouseInv'
<1> USE DEF MouseInv
<1>1. packet \in PacketRecords /\ MAX_MOVEMENT \in Nat
  BY PacketAssumption, Zenon
<1>2. /\ Velocity(packet.x_sign_bit, packet.x_movement) \in Int
      /\ -Velocity(packet.y_sign_bit, packet.y_movement) \in Int
  BY <1>1 DEF Velocity, PacketRecords
<1>3. /\ fake_mouse_pos_x' \in 0..(FAKE_MOUSE_RES_X - 1)
      /\ fake_mouse_pos_y' \in 0..(FAKE_MOUSE_RES_Y - 1)
  <2>1. fake_mouse_pos_x \in Int /\ fake_mouse_pos_y \in Int
    BY DEF ScreenTypes
  <2> QED
    BY <1>2, <2>1, MovedOnScreen, Zenon DEF MouseHandler
<1>4. /\ Scaled(fake_mouse_pos_x', FAKE_MOUSE_RES_X, NUM_COLS) \in 0..(NUM_COLS - 1)
      /\ Scaled(fake_mouse_pos_y', FAKE_MOUSE_RES_Y, NUM_ROWS) \in 0..(NUM_ROWS - 1)
  BY <1>3, ScreenScaled, Zenon
<1>5. ScreenTypes' /\ PointerAgrees'
  BY <1>3, <1>4 DEF MouseHandler, ScreenTypes, PointerAgrees
<1>6. UNCHANGED pc /\ (torn' <=> \E p \in Procs : Centring(p))
  BY DEF MouseHandler, localVars
<1>7. PlaceTypes' /\ (~torn' => Settled')
  BY <1>5, <1>6 DEF PlaceTypes, Settled, Centring
<1> QED
  BY <1>5, <1>7

\* Whatever packets arrive in the middle of opens and wherever programs place
\* it, the pointer stays on the screen, and it follows the finer position once
\* the opens of all processes are over, for every resolution.
THEOREM MouseStaysOnScreen == Spec => []MouseOnScreen
<1>1. Init => MouseInv
  BY InitMouse
<1>2. MouseInv /\ [Next]_vars => MouseInv'
  <2> SUFFICES ASSUME MouseInv, [Next]_vars PROVE MouseInv'
    OBVIOUS
  <2>1. CASE UNCHANGED mouseVars /\ UNCHANGED pc
    BY <2>1, MouseInvKept DEF MouseInv, PlaceTypes
  <2>2. ASSUME NEW p \in Procs, FileStep(p) \/ RtcStep(p), UNCHANGED mouseVars
        PROVE  MouseInv'
    BY <2>2, OthersKeepPlaces, MouseInvKept DEF MouseInv
  <2>3. ASSUME NEW p \in Procs, MouseStep(p)
        PROVE  MouseInv'
    BY <2>3, OpenMouseInv, CentreInv, PlacedInv, Zenon DEF MouseStep, MouseCall
  <2>4. CASE RtcHandler /\ UNCHANGED mouseVars
    BY <2>1, <2>4 DEF RtcHandler, localVars
  <2> QED
    BY <2>1, <2>2, <2>3, <2>4, MouseHandlerInv DEF Next, vars, fdVars, localVars
<1>3. MouseInv => MouseOnScreen
  <2> SUFFICES ASSUME MouseInv PROVE MouseOnScreen
    OBVIOUS
  <2>1. AllCentred => PointerAgrees
    BY ScreenScaled, Zenon DEF AllCentred, PointerAgrees
  <2>2. Settled /\ (\A p \in Procs : ~Centring(p)) => PointerAgrees
    BY <2>1, Zenon DEF Settled, Underway
  <2> QED
    BY <2>2 DEF MouseInv, ScreenTypes, MouseOnScreen
<1> QED
  BY <1>1, <1>2, <1>3, PTL DEF Spec

-----------------------------------------------------------------------------
\* A creation in progress: the name is not in the directory yet; the inode was
\* free, and once it is marked belongs to nothing else; before the count is
\* raised the entry is in place.
InProgress ==
  /\ \A p \in Procs : Creating(p) =>
       \A i \in Dentries : directory_entries[i].file_name # opening[p]
  /\ \A p \in Procs : pc[p] = "inode" => ~inode_bitmap[inode_idx[p]]
  /\ \A p \in Procs : pc[p] \in {"block", "count"} =>
       /\ inode_idx[p] # 0
       /\ \A i \in Dentries : directory_entries[i].inode_num # inode_idx[p]
  /\ \A p \in Procs : pc[p] = "count" =>
       directory_entries[num_dir_entries] =
         [file_name |-> opening[p], file_type |-> FS_TYPE_FILE, inode_num |-> inode_idx[p]]

\* InodesAccounted, inode by inode.
HasOwner(n) ==
  \/ n = 0
  \/ \E i \in Dentries : directory_entries[i].inode_num = n
  \/ \E p \in Procs : pc[p] \in {"block", "count"} /\ inode_idx[p] = n

Accounted == \A n \in Inodes : inode_bitmap[n] <=> HasOwner(n)

Listed(n) == \E i \in Dentries : /\ directory_entries[i].file_type = FS_TYPE_FILE
                                 /\ directory_entries[i].inode_num = n

ListedNext(n) == \E i \in 0..(num_dir_entries' - 1) :
                   /\ directory_entries'[i].file_type = FS_TYPE_FILE
                   /\ directory_entries'[i].inode_num = n

DirectoryInv == NamesUnique /\ InodesUnique /\ Accounted /\ DescriptorsListed /\ InProgress

LEMMA AccountedIff ==
  ASSUME TypeInv
  PROVE  Accounted <=> InodesAccounted
<1> DEFINE marked == {i \in Inodes : inode_bitmap[i]}
           owned == {0} \cup {directory_entries[i].inode_num : i \in Dentries}
                        \cup {inode_idx[p] : p \in {q \in Procs : pc[q] \in {"block", "count"}}}
<1>1. \A n : n \in owned <=> HasOwner(n)
  BY DEF HasOwner
<1>2. \A n : HasOwner(n) => n \in Inodes
  <2>1. 0 \in Inodes
    BY DEF Inodes
  <2>2. \A i \in Dentries : directory_entries[i].inode_num \in Inodes
    <3>1. \A i \in Dentries : directory_entries[i] \in Entries
      BY DEF TypeInv, DiskTypes, Dentries
    <3> QED
      BY <3>1 DEF Entries
  <2>3. \A p \in Procs : pc[p] \in {"block", "count"} => inode_idx[p] \in Inodes
    BY DEF TypeInv, CreatorInv, Creating, Inodes
  <2> QED
    BY <2>1, <2>2, <2>3 DEF HasOwner
<1>3. \A n : n \in marked <=> n \in Inodes /\ inode_bitmap[n]
  OBVIOUS
<1>4. InodesAccounted <=> marked = owned
  BY DEF InodesAccounted
<1> HIDE DEF marked, owned
<1>5. marked = owned <=> \A n : n \in marked <=> n \in owned
  OBVIOUS
<1> QED
  BY <1>1, <1>2, <1>3, <1>4, <1>5 DEF Accounted

\* What the calls on files and on the mouse do to a descriptor: leave it,
\* close it, move its position, or open it.
DescriptorStep(p, q, fd) ==
  \/ file'[q][fd] = file[q][fd]
  \/ q = p /\ ~file'[q][fd].present
  \/ /\ q = p /\ file[q][fd].table # "rtc"
     /\ \E to \in Int : file'[q][fd] = [file[q][fd] EXCEPT !.file_position = to]
  \/ /\ q = p /\ ~file[q][fd].present
     /\ \E table \in Tables, i \in Inodes :
          /\ file'[q][fd] = OpenedAt(file[q][fd], table, i)
          /\ table = "files" => ListedNext(i)

LEMMA OpenFoundDescriptors ==
  ASSUME TypeInv, NEW p \in Procs, NEW name, OpenFound(p, name)
  PROVE  \A q \in Procs, fd \in Fds : DescriptorStep(p, q, fd)
<1>1. PICK i \in Dentries : /\ ReadDentryByName(name) = directory_entries[i]
                            /\ directory_entries[i] \in Entries
  BY DentryFacts DEF OpenFound, TypeInv
<1> DEFINE table == TableOf(directory_entries[i].file_type)
           inode == directory_entries[i].inode_num
<1>2. /\ table \in Tables /\ inode \in Inodes
      /\ table = "files" => directory_entries[i].file_type = FS_TYPE_FILE
  BY <1>1, TableType DEF Entries
<1>3. table = "files" => ListedNext(inode)
  BY <1>2 DEF OpenFound, fsVars, ListedNext, Dentries
<1>4. Allocate(p, table, inode)
  BY <1>1 DEF OpenFound
<1> HIDE DEF table, inode
<1>5. \A q \in Procs, fd \in Fds :
        \/ file'[q][fd] = file[q][fd]
        \/ /\ q = p /\ ~file[q][fd].present
           /\ file'[q][fd] = OpenedAt(file[q][fd], table, inode)
  BY <1>2, <1>4, AllocateFacts DEF TypeInv
<1> QED
  BY <1>2, <1>3, <1>5 DEF DescriptorStep

LEMMA OpenCreatedDescriptors ==
  ASSUME TypeInv, InProgress, NEW p \in Procs, OpenCreated(p)
  PROVE  /\ \A q \in Procs, fd \in Fds : DescriptorStep(p, q, fd)
         /\ num_dir_entries < NUM_DENTRIES
         /\ directory_entries[num_dir_entries] =
              [file_name |-> opening[p], file_type |-> FS_TYPE_FILE, inode_num |-> inode_idx[p]]
<1>1. /\ num_dir_entries < NUM_DENTRIES /\ new_dentry[p] = num_dir_entries
      /\ inode_idx[p] \in Inodes
  BY DEF OpenCreated, TypeInv, CreatorInv, Creating, Inodes
<1>2. directory_entries[num_dir_entries] =
        [file_name |-> opening[p], file_type |-> FS_TYPE_FILE, inode_num |-> inode_idx[p]]
  BY DEF OpenCreated, InProgress
<1>3. Allocate(p, "files", inode_idx[p])
  BY <1>1, <1>2 DEF OpenCreated
<1>4. ListedNext(inode_idx[p])
  <2>1. num_dir_entries \in 0..(num_dir_entries' - 1)
    BY DEF OpenCreated, TypeInv, DiskTypes
  <2>2. /\ directory_entries'[num_dir_entries].file_type = FS_TYPE_FILE
        /\ directory_entries'[num_dir_entries].inode_num = inode_idx[p]
    BY <1>2 DEF OpenCreated
  <2> QED
    BY <2>1, <2>2 DEF ListedNext
<1>5. "files" \in Tables
  BY DEF Tables
<1>6. \A q \in Procs, fd \in Fds :
        \/ file'[q][fd] = file[q][fd]
        \/ /\ q = p /\ ~file[q][fd].present
           /\ file'[q][fd] = OpenedAt(file[q][fd], "files", inode_idx[p])
  BY <1>1, <1>3, <1>5, AllocateFacts DEF TypeInv
<1> QED
  BY <1>1, <1>2, <1>4, <1>5, <1>6 DEF DescriptorStep

LEMMA OtherDescriptors ==
  ASSUME TypeInv, NEW p \in Procs,
         \/ \E name \in Names : CreateFile(p, name)
         \/ ClaimInode(p) \/ ClaimFails(p) \/ ClaimBlock(p) \/ Exit(p) \/ MouseStep(p)
         \/ \E fd \in Fds :
              \/ Close(p, fd) \/ DirRead(p, fd)
              \/ \E n \in Lengths : FileRead(p, fd, n)
              \/ \E buf \in workload.writes : FileWrite(p, fd, buf) \/ FileWriteFails(p, fd, buf)
  PROVE  \A q \in Procs, fd \in Fds : DescriptorStep(p, q, fd)
<1>1. ASSUME UNCHANGED file
      PROVE  \A q \in Procs, fd \in Fds : DescriptorStep(p, q, fd)
  BY <1>1 DEF DescriptorStep
<1>2. ASSUME Exit(p)
      PROVE  \A q \in Procs, fd \in Fds : DescriptorStep(p, q, fd)
  <2>1. \A f : ~Ended(f).present
    BY DEF Ended, Closed
  <2> QED
    BY <1>2, <2>1 DEF Exit, DescriptorStep, TypeInv, FileTypes
<1>3. ASSUME NEW fd \in Fds, Close(p, fd)
      PROVE  \A q \in Procs, g \in Fds : DescriptorStep(p, q, g)
  BY <1>3 DEF Close, Closed, DescriptorStep, TypeInv, FileTypes
<1>4. ASSUME Allocate(p, "mouse", 0)
      PROVE  \A q \in Procs, fd \in Fds : DescriptorStep(p, q, fd)
  <2>1. "mouse" \in Tables /\ 0 \in Inodes
    BY DEF Tables, Inodes
  <2>2. \A q \in Procs, fd \in Fds :
          \/ file'[q][fd] = file[q][fd]
          \/ /\ q = p /\ ~file[q][fd].present
             /\ file'[q][fd] = OpenedAt(file[q][fd], "mouse", 0)
    BY <1>4, <2>1, AllocateFacts DEF TypeInv
  <2> QED
    BY <2>1, <2>2 DEF DescriptorStep
<1>5. ASSUME NEW fd \in Fds, NEW to \in Int, file[p][fd].table # "rtc",
             file' = [file EXCEPT ![p][fd].file_position = to]
      PROVE  \A q \in Procs, g \in Fds : DescriptorStep(p, q, g)
  <2>1. \A q \in Procs, g \in Fds :
          \/ file'[q][g] = file[q][g]
          \/ q = p /\ g = fd /\ file'[q][g] = [file[q][g] EXCEPT !.file_position = to]
    BY <1>5, MoveFacts DEF TypeInv
  <2> QED
    BY <1>5, <2>1, Zenon DEF DescriptorStep
<1>6. ASSUME NEW fd \in Fds, DirRead(p, fd)
      PROVE  \A q \in Procs, g \in Fds : DescriptorStep(p, q, g)
  <2>1. file[p][fd].table # "rtc" /\ file[p][fd].file_position + 1 \in Int
    BY <1>6 DEF DirRead, Has, TypeInv, FileTypes, FileRecords
  <2>2. file' = [file EXCEPT ![p][fd].file_position = file[p][fd].file_position + 1]
    BY <1>6 DEF DirRead
  <2> QED
    BY <1>5, <2>1, <2>2
<1>7. ASSUME NEW fd \in Fds, NEW n \in Lengths, FileRead(p, fd, n)
      PROVE  \A q \in Procs, g \in Fds : DescriptorStep(p, q, g)
  <2> DEFINE f == file[p][fd]
             to == f.file_position + ReadLength(f.inode, f.file_position, n)
  <2>1. f \in FileRecords /\ f.table # "rtc"
    BY <1>7 DEF FileRead, Has, TypeInv, FileTypes
  <2>2. n \in Nat
    BY DescriptorsAssumption, Zenon
  <2>3. inodes[f.inode].file_length \in Nat
    BY <2>1 DEF TypeInv, DiskTypes, InodeRecords, FileRecords
  <2>4. ReadLength(f.inode, f.file_position, n) \in Int
    BY <2>1, <2>2, <2>3 DEF ReadLength, FileRecords
  <2>5. to \in Int
    BY <2>1, <2>4 DEF FileRecords
  <2>6. file' = [file EXCEPT ![p][fd].file_position = to]
    BY <1>7 DEF FileRead
  <2> QED
    BY <1>5, <2>1, <2>5, <2>6
<1>8. ASSUME NEW fd \in Fds, NEW buf \in workload.writes, FileWrite(p, fd, buf)
      PROVE  \A q \in Procs, g \in Fds : DescriptorStep(p, q, g)
  <2>1. file[p][fd] \in FileRecords /\ file[p][fd].table # "rtc"
    BY <1>8 DEF FileWrite, Has, TypeInv, FileTypes
  <2>2. Len(buf) \in Nat
    BY WrittenBuffers, BufferFacts DEF TypeInv
  <2>3. file[p][fd].file_position + Len(buf) \in Int
    BY <2>1, <2>2 DEF FileRecords
  <2>4. file' = [file EXCEPT ![p][fd].file_position = file[p][fd].file_position + Len(buf)]
    BY <1>8 DEF FileWrite
  <2> QED
    BY <1>5, <2>1, <2>3, <2>4
<1>9. ASSUME NEW fd \in Fds, NEW buf \in workload.writes, FileWriteFails(p, fd, buf)
      PROVE  \A q \in Procs, g \in Fds : DescriptorStep(p, q, g)
  <2>1. file[p][fd] \in FileRecords /\ file[p][fd].table # "rtc"
    BY <1>9 DEF FileWriteFails, Has, TypeInv, FileTypes
  <2>2. file[p][fd].file_position - 1 \in Int
    BY <2>1 DEF FileRecords
  <2>3. file' = [file EXCEPT ![p][fd].file_position = file[p][fd].file_position - 1]
    BY <1>9 DEF FileWriteFails
  <2> QED
    BY <1>5, <2>1, <2>2, <2>3
<1>10. ASSUME MouseStep(p)
       PROVE  UNCHANGED file \/ Allocate(p, "mouse", 0)
  BY <1>10, MouseStepFacts DEF TypeInv
<1>11. ASSUME \/ \E name \in Names : CreateFile(p, name)
              \/ ClaimInode(p) \/ ClaimFails(p) \/ ClaimBlock(p)
       PROVE  UNCHANGED file
  BY <1>11 DEF CreateFile, ClaimInode, ClaimFails, ClaimBlock
<1> QED
  BY <1>1, <1>2, <1>3, <1>4, <1>6, <1>7, <1>8, <1>9, <1>10, <1>11

-----------------------------------------------------------------------------
LEMMA InitDirectory ==
  ASSUME Init
  PROVE  DirectoryInv
<1>1. /\ Len(ImageEntries) \in Nat /\ Len(ImageEntries) <= NUM_DENTRIES
      /\ \A i, j \in 1..Len(ImageEntries) : i # j =>
           /\ ImageEntries[i].file_name # ImageEntries[j].file_name
           /\ ImageEntries[i].file_type = FS_TYPE_FILE =>
                ImageEntries[i].inode_num # ImageEntries[j].inode_num
  <2>1. /\ ImageEntries \in Seq(Entries) /\ Len(ImageEntries) \in 1..NUM_DENTRIES
        /\ \A i, j \in 1..Len(ImageEntries) : i # j =>
             /\ ImageEntries[i].file_name # ImageEntries[j].file_name
             /\ ImageEntries[i].file_type = FS_TYPE_FILE =>
                  ImageEntries[i].inode_num # ImageEntries[j].inode_num
    BY ImageAssumption, Zenon
  <2> QED
    BY <2>1
<1>2. num_dir_entries = Len(ImageEntries)
  BY DEF Init, DescriptorsInit, FsInit
<1>3. \A i \in Dentries : i + 1 \in 1..Len(ImageEntries) /\ directory_entries[i] = ImageEntries[i + 1]
  <2>1. \A i \in 0..(NUM_DENTRIES - 1) : i < Len(ImageEntries) =>
          directory_entries[i] = ImageEntries[i + 1]
    BY DEF Init, DescriptorsInit, FsInit
  <2> QED
    BY <1>1, <1>2, <2>1 DEF Dentries
<1>4. \A i, j \in Dentries : i # j => i + 1 # j + 1
  BY <1>1, <1>2 DEF Dentries
<1>5. NamesUnique /\ InodesUnique
  BY <1>1, <1>3, <1>4 DEF NamesUnique, InodesUnique
<1>6. \A p \in Procs : pc[p] = "user"
  BY DEF Init, DescriptorsInit
<1>7. Accounted
  <2>1. inode_bitmap = [n \in Inodes |-> n \in InodesInUse]
    BY Zenon DEF Init, DescriptorsInit, FsInit
  <2>2. \A k \in 1..Len(ImageEntries) : k - 1 \in Dentries /\ directory_entries[k - 1] = ImageEntries[k]
    <3>1. \A k \in 1..Len(ImageEntries) : k - 1 \in Dentries /\ (k - 1) + 1 = k
      BY <1>1, <1>2 DEF Dentries
    <3> QED
      BY <1>3, <3>1
  <2>3. \A n : n \in InodesInUse <=> HasOwner(n)
    <3>1. \A n : n \in InodesInUse <=>
            n = 0 \/ \E k \in 1..Len(ImageEntries) : ImageEntries[k].inode_num = n
      BY Zenon DEF InodesInUse
    <3>2. \A n : HasOwner(n) <=> n = 0 \/ \E i \in Dentries : directory_entries[i].inode_num = n
      BY <1>6 DEF HasOwner
    <3>3. \A n : (\E k \in 1..Len(ImageEntries) : ImageEntries[k].inode_num = n)
                   <=> \E i \in Dentries : directory_entries[i].inode_num = n
      BY <1>3, <2>2, Zenon
    <3> QED
      BY <3>1, <3>2, <3>3, Zenon
  <2>4. \A n \in Inodes : inode_bitmap[n] = (n \in InodesInUse)
    BY <2>1, Zenon
  <2> QED
    BY <2>3, <2>4, Zenon DEF Accounted
<1>8. DescriptorsListed
  BY DEF Init, DescriptorsInit, DescriptorsListed, Has, Closed
<1>9. InProgress
  BY <1>6 DEF InProgress, Creating
<1> QED
  BY <1>5, <1>7, <1>8, <1>9 DEF DirectoryInv

\* A step that leaves directory, bitmap and creations alone.
LEMMA DirectoryKept ==
  ASSUME TypeInv, DirectoryInv,
         UNCHANGED <<directory_entries, num_dir_entries, inode_bitmap, opening, inode_idx>>,
         \A q \in Procs : pc'[q] = pc[q] \/ (pc[q] \in Aside /\ pc'[q] \in Aside)
  PROVE  NamesUnique' /\ InodesUnique' /\ Accounted' /\ InProgress'
<1> USE DEF DirectoryInv, Dentries
<1>1. NamesUnique' /\ InodesUnique'
  BY DEF NamesUnique, InodesUnique
<1>2. \A q \in Procs : /\ pc'[q] \in {"block", "count"} <=> pc[q] \in {"block", "count"}
                       /\ pc'[q] = "inode" <=> pc[q] = "inode"
                       /\ pc'[q] = "count" <=> pc[q] = "count"
  BY DEF Aside, Placing
<1>3. \A n : HasOwner(n)' <=> HasOwner(n)
  BY <1>2 DEF HasOwner
<1>4. Accounted'
  BY <1>3 DEF Accounted
<1>5. InProgress'
  BY <1>2 DEF InProgress, Creating
<1> QED
  BY <1>1, <1>4, <1>5

\* Descriptors of files keep referring to entries that stay.
LEMMA DescriptorsListedKept ==
  ASSUME TypeInv, DirectoryInv, NEW p \in Procs,
         \A q \in Procs, fd \in Fds : DescriptorStep(p, q, fd),
         \A n : Listed(n) => ListedNext(n)
  PROVE  DescriptorsListed'
<1> SUFFICES ASSUME NEW q \in Procs, NEW fd \in Fds, file'[q][fd].present, file'[q][fd].table = "files"
             PROVE  ListedNext(file'[q][fd].inode)
  BY DEF DescriptorsListed, Has, ListedNext, Dentries
<1>1. file[q][fd] \in FileRecords
  BY DEF TypeInv, FileTypes
<1>2. CASE file'[q][fd] = file[q][fd]
  BY <1>2 DEF DirectoryInv, DescriptorsListed, Has, Listed
<1>3. ASSUME NEW to \in Int, file'[q][fd] = [file[q][fd] EXCEPT !.file_position = to]
      PROVE  ListedNext(file'[q][fd].inode)
  <2>1. /\ file'[q][fd].present = file[q][fd].present
        /\ file'[q][fd].table = file[q][fd].table
        /\ file'[q][fd].inode = file[q][fd].inode
    BY <1>1, <1>3 DEF FileRecords
  <2> QED
    BY <2>1 DEF DirectoryInv, DescriptorsListed, Has, Listed
<1>4. ASSUME NEW table \in Tables, NEW i \in Inodes,
             file'[q][fd] = OpenedAt(file[q][fd], table, i), table = "files" => ListedNext(i)
      PROVE  ListedNext(file'[q][fd].inode)
  BY <1>4 DEF OpenedAt
<1>5. DescriptorStep(p, q, fd)
  OBVIOUS
<1> QED
  BY <1>2, <1>3, <1>4, <1>5, Zenon DEF DescriptorStep

\* The four steps of a creation.
LEMMA CreateFileDirectory ==
  ASSUME ~Preempt, TypeInv, DirectoryInv, NEW p \in Procs, NEW name \in Names, CreateFile(p, name)
  PROVE  NamesUnique' /\ InodesUnique' /\ Accounted' /\ InProgress'
<1> USE DEF DirectoryInv, Dentries
<1>1. /\ ScanForInode \in Inodes /\ ~inode_bitmap[ScanForInode]
  BY ScanFacts DEF CreateFile, TypeInv
<1>2. \A q \in Procs : ~Creating(q)
  BY NobodyCreates DEF CreateFile
<1>3. /\ pc' = [pc EXCEPT ![p] = "inode"] /\ opening' = [opening EXCEPT ![p] = name]
      /\ inode_idx' = [inode_idx EXCEPT ![p] = ScanForInode]
      /\ UNCHANGED <<directory_entries, num_dir_entries, inode_bitmap>>
      /\ \A i \in Dentries : directory_entries[i].file_name # name
  BY DEF CreateFile, fsVars, Matches
<1> HIDE DEF ScanForInode
<1>4. NamesUnique' /\ InodesUnique'
  BY <1>3 DEF NamesUnique, InodesUnique
<1>5. \A q \in Procs : pc[q] \notin {"block", "count"} /\ pc'[q] \notin {"block", "count"}
  BY <1>2, <1>3 DEF Creating, TypeInv, CallTypes
<1>6. \A n : HasOwner(n)' <=> HasOwner(n)
  BY <1>3, <1>5 DEF HasOwner
<1>7. Accounted'
  BY <1>3, <1>6 DEF Accounted
<1>8. InProgress'
  BY <1>1, <1>2, <1>3, <1>5 DEF InProgress, Creating, TypeInv, CallTypes
<1> QED
  BY <1>4, <1>7, <1>8

LEMMA ClaimInodeDirectory ==
  ASSUME TypeInv, DirectoryInv, NEW p \in Procs, ClaimInode(p)
  PROVE  NamesUnique' /\ InodesUnique' /\ Accounted' /\ InProgress'
<1> USE DEF DirectoryInv, Dentries
<1> DEFINE n0 == inode_idx[p]
<1>1. /\ pc[p] = "inode" /\ pc' = [pc EXCEPT ![p] = "block"]
      /\ inode_bitmap' = [inode_bitmap EXCEPT ![n0] = TRUE]
      /\ UNCHANGED <<directory_entries, num_dir_entries, opening, inode_idx>>
  BY DEF ClaimInode
<1>2. n0 \in Inodes /\ ~inode_bitmap[n0] /\ ~HasOwner(n0)
  BY <1>1 DEF TypeInv, CreatorInv, Creating, Inodes, InProgress, Accounted
<1>3. \A q \in Procs : q # p => ~Creating(q)
  BY <1>1 DEF TypeInv, CreatorInv, Creating
<1>4. \A q \in Procs : pc'[q] = IF q = p THEN "block" ELSE pc[q]
  BY <1>1 DEF TypeInv, CallTypes
<1>5. \A n \in Inodes : inode_bitmap'[n] <=> n = n0 \/ inode_bitmap[n]
  BY <1>1, <1>2 DEF TypeInv, DiskTypes
<1>6. NamesUnique' /\ InodesUnique'
  BY <1>1 DEF NamesUnique, InodesUnique
<1>7. \A n : HasOwner(n)' <=> n = n0 \/ HasOwner(n)
  BY <1>1, <1>3, <1>4 DEF HasOwner, Creating
<1>8. Accounted'
  BY <1>5, <1>7 DEF Accounted
<1>9. InProgress'
  BY <1>1, <1>2, <1>3, <1>4 DEF InProgress, Creating, HasOwner
<1> QED
  BY <1>6, <1>8, <1>9

LEMMA ClaimFailsDirectory ==
  ASSUME TypeInv, DirectoryInv, NEW p \in Procs, ClaimFails(p)
  PROVE  NamesUnique' /\ InodesUnique' /\ Accounted' /\ InProgress'
<1> USE DEF DirectoryInv, Dentries
<1> DEFINE n0 == inode_idx[p]
<1>1. /\ pc[p] = "block" /\ pc' = [pc EXCEPT ![p] = "user"]
      /\ inode_bitmap' = [inode_bitmap EXCEPT ![n0] = FALSE]
      /\ UNCHANGED <<directory_entries, num_dir_entries>>
  BY DEF ClaimFails, Return
<1>2. /\ n0 \in Inodes /\ n0 # 0
      /\ \A i \in Dentries : directory_entries[i].inode_num # n0
  BY <1>1 DEF TypeInv, CreatorInv, Creating, Inodes, InProgress
<1>3. \A n \in Inodes : inode_bitmap'[n] <=> inode_bitmap[n] /\ n # n0
  BY <1>1, <1>2 DEF TypeInv, DiskTypes
<1>4. \A q \in Procs : ~Creating(q)' /\ (q # p => ~Creating(q))
  BY <1>1 DEF TypeInv, CallTypes, CreatorInv, Creating
<1>5. NamesUnique' /\ InodesUnique'
  BY <1>1 DEF NamesUnique, InodesUnique
<1>6. \A n : HasOwner(n)' <=> HasOwner(n) /\ n # n0
  BY <1>1, <1>2, <1>4 DEF HasOwner, Creating
<1>7. Accounted'
  BY <1>3, <1>6 DEF Accounted
<1>8. InProgress'
  BY <1>4 DEF InProgress, Creating
<1> QED
  BY <1>5, <1>7, <1>8

LEMMA ClaimBlockDirectory ==
  ASSUME TypeInv, DirectoryInv, NEW p \in Procs, ClaimBlock(p)
  PROVE  /\ NamesUnique' /\ InodesUnique' /\ Accounted' /\ InProgress'
         /\ \A i \in Dentries : directory_entries'[i] = directory_entries[i]
<1> USE DEF DirectoryInv, Dentries
<1> DEFINE new == [file_name |-> opening[p], file_type |-> FS_TYPE_FILE, inode_num |-> inode_idx[p]]
<1>1. /\ pc[p] = "block" /\ pc' = [pc EXCEPT ![p] = "count"]
      /\ directory_entries' = [directory_entries EXCEPT ![num_dir_entries] = new]
      /\ UNCHANGED <<num_dir_entries, inode_bitmap, opening, inode_idx>>
  BY DEF ClaimBlock
<1> HIDE DEF new
<1>2. num_dir_entries \in 0..(NUM_DENTRIES - 1)
  BY <1>1 DEF TypeInv, DiskTypes, CreatorInv, Creating
<1>3. /\ \A i \in Dentries : directory_entries'[i] = directory_entries[i]
      /\ directory_entries'[num_dir_entries] = new
  BY <1>1, <1>2 DEF TypeInv, DiskTypes
<1>4. \A q \in Procs : q # p => ~Creating(q)
  BY <1>1 DEF TypeInv, CreatorInv, Creating
<1>5. \A q \in Procs : pc'[q] = IF q = p THEN "count" ELSE pc[q]
  BY <1>1 DEF TypeInv, CallTypes
<1>6. NamesUnique' /\ InodesUnique'
  BY <1>1, <1>3 DEF NamesUnique, InodesUnique
<1>7. \A n : HasOwner(n)' <=> HasOwner(n)
  BY <1>1, <1>3, <1>5 DEF HasOwner
<1>8. Accounted'
  BY <1>1, <1>7 DEF Accounted
<1>9. InProgress'
  BY <1>1, <1>3, <1>4, <1>5 DEF InProgress, Creating, new
<1> QED
  BY <1>3, <1>6, <1>8, <1>9

LEMMA OpenCreatedDirectory ==
  ASSUME TypeInv, DirectoryInv, NEW p \in Procs, OpenCreated(p)
  PROVE  NamesUnique' /\ InodesUnique' /\ Accounted' /\ InProgress'
<1> USE DEF DirectoryInv, Dentries
<1> DEFINE last == num_dir_entries
<1>1. /\ pc[p] = "count" /\ pc' = [pc EXCEPT ![p] = "user"]
      /\ num_dir_entries' = last + 1
      /\ UNCHANGED <<directory_entries, inode_bitmap>>
  BY DEF OpenCreated, Return
<1>2. /\ directory_entries[last].file_name = opening[p]
      /\ directory_entries[last].inode_num = inode_idx[p]
  <2>1. directory_entries[last] =
          [file_name |-> opening[p], file_type |-> FS_TYPE_FILE, inode_num |-> inode_idx[p]]
    BY <1>1, Zenon DEF InProgress
  <2> QED
    BY <2>1
<1>3. \A i : i \in Dentries' <=> i \in Dentries \/ i = last
  BY <1>1 DEF TypeInv, DiskTypes
<1>4. last \notin Dentries
  BY DEF TypeInv, DiskTypes
<1>5. \A q \in Procs : ~Creating(q)' /\ (q # p => ~Creating(q))
  BY <1>1 DEF TypeInv, CallTypes, CreatorInv, Creating
<1>6. \A i \in Dentries : /\ directory_entries[i].file_name # opening[p]
                          /\ directory_entries[i].inode_num # inode_idx[p]
  BY <1>1 DEF InProgress, Creating
<1> HIDE DEF last, Dentries
<1>7. NamesUnique'
  BY <1>1, <1>2, <1>3, <1>6 DEF NamesUnique
<1>8. InodesUnique'
  BY <1>1, <1>2, <1>3, <1>6 DEF InodesUnique
<1>9. \A n : HasOwner(n)' <=> HasOwner(n)
  BY <1>1, <1>2, <1>3, <1>5 DEF HasOwner, Creating
<1>10. Accounted'
  BY <1>1, <1>9 DEF Accounted
<1>11. InProgress'
  BY <1>5 DEF InProgress, Creating
<1> QED
  BY <1>7, <1>8, <1>10, <1>11

LEMMA NextDirectory ==
  ASSUME ~Preempt, TypeInv, DirectoryInv, [Next]_vars
  PROVE  DirectoryInv'
<1>1. ASSUME NEW p \in Procs,
             NamesUnique' /\ InodesUnique' /\ Accounted' /\ InProgress',
             \A i \in Dentries : /\ i \in 0..(num_dir_entries' - 1)
                                 /\ directory_entries'[i] = directory_entries[i],
             \A q \in Procs, fd \in Fds : DescriptorStep(p, q, fd)
      PROVE  DirectoryInv'
  <2>1. \A n : Listed(n) => ListedNext(n)
    BY <1>1 DEF Listed, ListedNext
  <2>2. DescriptorsListed'
    BY <1>1, <2>1, DescriptorsListedKept
  <2> QED
    BY <1>1, <2>2 DEF DirectoryInv
<1>2. ASSUME NEW p \in Procs,
             UNCHANGED <<directory_entries, num_dir_entries, inode_bitmap, opening, inode_idx>>,
             \A q \in Procs : pc'[q] = pc[q] \/ (pc[q] \in Aside /\ pc'[q] \in Aside),
             \A q \in Procs, fd \in Fds : DescriptorStep(p, q, fd)
      PROVE  DirectoryInv'
  <2>1. NamesUnique' /\ InodesUnique' /\ Accounted' /\ InProgress'
    <3>1. UNCHANGED <<directory_entries, num_dir_entries, inode_bitmap, opening, inode_idx>>
      BY <1>2
    <3>2. \A q \in Procs : pc'[q] = pc[q] \/ (pc[q] \in Aside /\ pc'[q] \in Aside)
      BY <1>2
    <3> QED
      BY <3>1, <3>2, DirectoryKept, Zenon
  <2>2. \A i \in Dentries : /\ i \in 0..(num_dir_entries' - 1)
                            /\ directory_entries'[i] = directory_entries[i]
    BY <1>2 DEF Dentries
  <2> QED
    BY <1>1, <1>2, <2>1, <2>2
<1>3. ASSUME UNCHANGED <<directory_entries, num_dir_entries, inode_bitmap, opening, inode_idx>>,
             \A q \in Procs, fd \in Fds : /\ file'[q][fd].present = file[q][fd].present
                                          /\ file'[q][fd].table = file[q][fd].table
                                          /\ file'[q][fd].inode = file[q][fd].inode,
             \A q \in Procs : pc'[q] = pc[q] \/ (pc[q] \in Aside /\ pc'[q] \in Aside)
      PROVE  DirectoryInv'
  <2>1. NamesUnique' /\ InodesUnique' /\ Accounted' /\ InProgress'
    BY <1>3, DirectoryKept, Zenon
  <2>2. DescriptorsListed'
    BY <1>3 DEF DirectoryInv, DescriptorsListed, Dentries, Has
  <2> QED
    BY <2>1, <2>2 DEF DirectoryInv
<1>4. CASE UNCHANGED vars
  BY <1>3, <1>4 DEF vars, fsVars, fdVars, localVars
<1>5. ASSUME NEW p \in Procs, FileStep(p)
      PROVE  DirectoryInv'
  <2>1. ASSUME NEW name \in Names, OpenFound(p, name)
        PROVE  DirectoryInv'
    BY <1>2, <2>1, OpenFoundDescriptors DEF OpenFound, fsVars, localVars
  <2>2. ASSUME NEW name \in Names, CreateFile(p, name)
        PROVE  DirectoryInv'
    <3>1. \A q \in Procs, fd \in Fds : DescriptorStep(p, q, fd)
      BY <2>2, OtherDescriptors
    <3>2. NamesUnique' /\ InodesUnique' /\ Accounted' /\ InProgress'
      BY <2>2, CreateFileDirectory
    <3>3. \A i \in Dentries : /\ i \in 0..(num_dir_entries' - 1)
                              /\ directory_entries'[i] = directory_entries[i]
      BY <2>2 DEF CreateFile, fsVars, Dentries
    <3> QED
      BY <1>1, <3>1, <3>2, <3>3
  <2>3. CASE ClaimInode(p)
    <3>1. \A q \in Procs, fd \in Fds : DescriptorStep(p, q, fd)
      BY <2>3, OtherDescriptors
    <3>2. NamesUnique' /\ InodesUnique' /\ Accounted' /\ InProgress'
      BY <2>3, ClaimInodeDirectory
    <3>3. \A i \in Dentries : /\ i \in 0..(num_dir_entries' - 1)
                              /\ directory_entries'[i] = directory_entries[i]
      BY <2>3 DEF ClaimInode, Dentries
    <3> QED
      BY <1>1, <3>1, <3>2, <3>3
  <2>4. CASE ClaimFails(p)
    <3>1. \A q \in Procs, fd \in Fds : DescriptorStep(p, q, fd)
      BY <2>4, OtherDescriptors
    <3>2. NamesUnique' /\ InodesUnique' /\ Accounted' /\ InProgress'
      BY <2>4, ClaimFailsDirectory
    <3>3. \A i \in Dentries : /\ i \in 0..(num_dir_entries' - 1)
                              /\ directory_entries'[i] = directory_entries[i]
      BY <2>4 DEF ClaimFails, Dentries
    <3> QED
      BY <1>1, <3>1, <3>2, <3>3
  <2>5. CASE ClaimBlock(p)
    <3>1. \A q \in Procs, fd \in Fds : DescriptorStep(p, q, fd)
      BY <2>5, OtherDescriptors
    <3>2. /\ NamesUnique' /\ InodesUnique' /\ Accounted' /\ InProgress'
          /\ \A i \in Dentries : directory_entries'[i] = directory_entries[i]
      BY <2>5, ClaimBlockDirectory
    <3>3. \A i \in Dentries : /\ i \in 0..(num_dir_entries' - 1)
                              /\ directory_entries'[i] = directory_entries[i]
      BY <2>5, <3>2 DEF ClaimBlock, Dentries
    <3> QED
      BY <1>1, <3>1, <3>2, <3>3
  <2>6. CASE OpenCreated(p)
    <3>1. \A q \in Procs, fd \in Fds : DescriptorStep(p, q, fd)
      BY <2>6, OpenCreatedDescriptors DEF DirectoryInv
    <3>2. NamesUnique' /\ InodesUnique' /\ Accounted' /\ InProgress'
      BY <2>6, OpenCreatedDirectory
    <3>3. \A i \in Dentries : /\ i \in 0..(num_dir_entries' - 1)
                              /\ directory_entries'[i] = directory_entries[i]
      BY <2>6 DEF OpenCreated, Dentries, TypeInv, DiskTypes
    <3> QED
      BY <1>1, <3>1, <3>2, <3>3
  <2>7. CASE Exit(p)
    BY <1>2, <2>7, OtherDescriptors DEF Exit, fsVars, localVars
  <2>8. ASSUME NEW fd \in Fds, Close(p, fd) \/ DirRead(p, fd)
        PROVE  DirectoryInv'
    BY <1>2, <2>8, OtherDescriptors DEF Close, DirRead, fsVars, localVars
  <2>9. ASSUME NEW fd \in Fds, NEW n \in Lengths, FileRead(p, fd, n)
        PROVE  DirectoryInv'
    BY <1>2, <2>9, OtherDescriptors DEF FileRead, fsVars, localVars
  <2>10. ASSUME NEW fd \in Fds, NEW buf \in workload.writes,
                FileWrite(p, fd, buf) \/ FileWriteFails(p, fd, buf)
         PROVE  DirectoryInv'
    BY <1>2, <2>10, OtherDescriptors DEF FileWrite, FileWriteFails, localVars
  <2> QED
    BY <1>5, <2>1, <2>2, <2>3, <2>4, <2>5, <2>6, <2>7, <2>8, <2>9, <2>10 DEF FileStep
<1>6. ASSUME NEW p \in Procs, RtcStep(p)
      PROVE  DirectoryInv'
  <2>1. CASE RtcReadEnds(p)
    BY <1>3, <2>1 DEF RtcReadEnds, fsVars, TypeInv, CallTypes, Aside
  <2>2. ASSUME NEW fd \in Fds, RtcRead(p, fd)
        PROVE  DirectoryInv'
    BY <1>3, <2>2 DEF RtcRead, Calls, fsVars, TypeInv, CallTypes, Aside
  <2>3. ASSUME NEW fd \in Fds, NEW freq \in Frequencies, RtcWrite(p, fd, freq)
        PROVE  DirectoryInv'
    <3>1. PeriodOf(freq) \in Int
      BY <2>3, PeriodFacts DEF RtcWrite
    <3>2. \A q \in Procs, g \in Fds :
            \/ file'[q][g] = file[q][g]
            \/ file'[q][g] = [file[q][g] EXCEPT !.file_position = PeriodOf(freq)]
      BY <2>3, <3>1, MoveFacts DEF RtcWrite, TypeInv
    <3>3. \A q \in Procs, g \in Fds : /\ file'[q][g].present = file[q][g].present
                                      /\ file'[q][g].table = file[q][g].table
                                      /\ file'[q][g].inode = file[q][g].inode
      <4> SUFFICES ASSUME NEW q \in Procs, NEW g \in Fds
                   PROVE  /\ file'[q][g].present = file[q][g].present
                          /\ file'[q][g].table = file[q][g].table
                          /\ file'[q][g].inode = file[q][g].inode
        OBVIOUS
      <4> DEFINE f == file[q][g]
      <4>1. f \in FileRecords
        BY DEF TypeInv, FileTypes
      <4>2. file'[q][g] = f \/ file'[q][g] = [f EXCEPT !.file_position = PeriodOf(freq)]
        BY <3>2
      <4> HIDE DEF f
      <4> QED
        BY <4>1, <4>2 DEF FileRecords, f
    <3> QED
      BY <1>3, <2>3, <3>3 DEF RtcWrite, fsVars, localVars
  <2> QED
    BY <1>6, <2>1, <2>2, <2>3 DEF RtcStep
<1>7. CASE RtcHandler
  BY <1>3, <1>7 DEF RtcHandler, fsVars, localVars
<1>8. ASSUME NEW p \in Procs, MouseStep(p)
      PROVE  DirectoryInv'
  <2>1. \A q \in Procs, fd \in Fds : DescriptorStep(p, q, fd)
    BY <1>8, OtherDescriptors
  <2>2. /\ pc[p] \in {"user"} \cup Placing /\ pc'[p] \in {"user"} \cup Placing
        /\ \A q \in Procs : q # p => pc'[q] = pc[q]
        /\ UNCHANGED <<fsVars, opening, inode_idx>>
    BY <1>8, MouseStepFacts DEF TypeInv
  <2>3. \A q \in Procs : pc'[q] = pc[q] \/ (pc[q] \in Aside /\ pc'[q] \in Aside)
    BY <2>2 DEF Aside
  <2> QED
    BY <1>2, <2>1, <2>2, <2>3 DEF fsVars
<1>9. ASSUME NEW packet \in Packets, MouseHandler(packet)
      PROVE  DirectoryInv'
  BY <1>3, <1>9 DEF MouseHandler, fsVars, localVars
<1> QED
  BY <1>4, <1>5, <1>6, <1>7, <1>8, <1>9 DEF Next

\* However creations by several processes follow each other, fail for want of
\* a block or find no free descriptor, names and inodes stay unique, the inode
\* bitmap is exactly what the directory and the creation in progress own, and
\* descriptors refer to files that exist.
THEOREM DirectoryStaysConsistent ==
  ASSUME ~Preempt
  PROVE  Spec => []DirectoryConsistent
<1>1. Init => TypeInv /\ DirectoryInv
  BY InitTypes, InitDirectory
<1>2. TypeInv /\ DirectoryInv /\ [Next]_vars => (TypeInv /\ DirectoryInv)'
  BY NextTypes, NextDirectory
<1>3. TypeInv /\ DirectoryInv => DirectoryConsistent
  BY AccountedIff DEF DirectoryInv, DirectoryConsistent
<1> QED
  BY <1>1, <1>2, <1>3, PTL DEF Spec

-----------------------------------------------------------------------------
\* The period of every descriptor of the RTC is that of the frequency asked
\* for, a new one starts with the default, and a read that waits does so on a
\* descriptor of the RTC whose period nobody changes meanwhile.
PeriodInv(p, fd) ==
  /\ ~file[p][fd].present => asked[p][fd] = DEFAULT_RTC_FREQ
  /\ Has(p, fd, "rtc") =>
       /\ file[p][fd].file_position \in 0..RTC_MAX_FREQ
       /\ asked[p][fd] > 0 => file[p][fd].file_position * asked[p][fd] = RTC_MAX_FREQ

WaitInv(p) ==
  pc[p] = "rtc" =>
    /\ rtc_fd[p] \in Fds
    /\ Has(p, rtc_fd[p], "rtc")
    /\ entered_count[p] <= global_count
    /\ entered_count[p] + file[p][rtc_fd[p]].file_position < COUNT_MOD

\* An interrupt that a read has counted and that ended no period came with the
\* last update.  Before a second one, RTC_MAX_FREQ periods have ended.
TicksInv(p) ==
  /\ pc[p] # "rtc" => ticks[p] = 0
  /\ pc[p] = "rtc" =>
       \/ global_count - entered_count[p] <= ticks[p]
       \/ global_count - entered_count[p] = ticks[p] + 1 /\ ticks[p] >= since_update
       \/ ticks[p] >= RTC_MAX_FREQ

RtcInv ==
  /\ rtc_fd \in [Procs -> Fds \cup {FIRST_READABLE_FILE}]
  /\ \A p \in Procs, fd \in Fds : PeriodInv(p, fd)
  /\ \A p \in Procs : WaitInv(p)
  /\ \A p \in Procs : TicksInv(p)

LEMMA DefaultPeriod ==
  /\ RTC_MAX_FREQ \div DEFAULT_RTC_FREQ \in 0..RTC_MAX_FREQ
  /\ (RTC_MAX_FREQ \div DEFAULT_RTC_FREQ) * DEFAULT_RTC_FREQ = RTC_MAX_FREQ
<1> DEFINE a == RTC_MAX_FREQ
           b == DEFAULT_RTC_FREQ
           d == a \div b
<1>1. a \in Nat /\ b \in Nat \ {0}
  BY FrequencyFacts
<1>2. a % b = 0
  BY RtcAssumption, Zenon
<1>3. d \in Int /\ a = b * d + (a % b)
  <2> HIDE DEF a, b
  <2> QED
    BY <1>1, Quotient
<1>4. a = b * d
  <2>1. b * d \in Int
    BY <1>1, <1>3
  <2> HIDE DEF a, b, d
  <2> QED
    BY <1>1, <1>2, <1>3, <2>1
<1> HIDE DEF a, b, d
<1>5. d >= 0
  <2>1. -1 >= d => b * (-1) >= b * d
    BY <1>1, <1>3, TimesGrows
  <2>2. b * (-1) = -b
    BY <1>1
  <2> QED
    BY <1>1, <1>3, <1>4, <2>1, <2>2
<1>6. d * b >= d * 1
  BY <1>1, <1>3, <1>5, TimesGrows
<1>7. d * b = b * d /\ d * 1 = d
  BY <1>1, <1>3
<1> QED
  BY <1>1, <1>3, <1>4, <1>5, <1>6, <1>7 DEF a, b, d

LEMMA InitRtc ==
  ASSUME Init
  PROVE  RtcInv
BY DEF Init, DescriptorsInit, RtcInit, RtcInv, PeriodInv, WaitInv, TicksInv, Has, Closed

\* Calls on other descriptors.
LEMMA RtcOtherStep ==
  ASSUME TypeInv, RtcInv, NEW p \in Procs, pc[p] # "rtc", RtcUnused,
         \A q \in Procs : pc'[q] = "rtc" <=> pc[q] = "rtc",
         \A q \in Procs, fd \in Fds : DescriptorStep(p, q, fd)
  PROVE  RtcInv'
<1>1. UNCHANGED <<global_count, entered_count, rtc_fd, since_update, ticks>>
  BY DEF RtcUnused
<1>2. \A q \in Procs, fd \in Fds :
        asked'[q][fd] = IF file'[q][fd].present THEN asked[q][fd] ELSE DEFAULT_RTC_FREQ
  BY DEF RtcUnused
<1>3. ASSUME NEW q \in Procs, NEW fd \in Fds
      PROVE  PeriodInv(q, fd)'
  <2>1. CASE ~file'[q][fd].present
    BY <1>2, <2>1 DEF PeriodInv, Has
  <2>2. CASE file'[q][fd].present /\ file'[q][fd].table # "rtc"
    BY <2>2 DEF PeriodInv, Has
  <2>3. CASE file'[q][fd].present /\ file'[q][fd].table = "rtc"
    <3>1. asked'[q][fd] = asked[q][fd]
      BY <1>2, <2>3
    <3>2. CASE file'[q][fd] = file[q][fd]
      BY <3>1, <3>2 DEF RtcInv, PeriodInv, Has
    <3>3. ASSUME NEW to \in Int, file[q][fd].table # "rtc",
                 file'[q][fd] = [file[q][fd] EXCEPT !.file_position = to]
          PROVE  FALSE
      <4>1. file[q][fd] \in FileRecords
        BY DEF TypeInv, FileTypes
      <4> QED
        BY <2>3, <3>3, <4>1 DEF FileRecords
    <3>4. ASSUME NEW table \in Tables, NEW i \in Inodes, ~file[q][fd].present,
                 file'[q][fd] = OpenedAt(file[q][fd], table, i)
          PROVE  PeriodInv(q, fd)'
      <4>1. file'[q][fd].file_position = RTC_MAX_FREQ \div DEFAULT_RTC_FREQ
        BY <2>3, <3>4 DEF OpenedAt
      <4>2. asked'[q][fd] = DEFAULT_RTC_FREQ
        BY <3>1, <3>4 DEF RtcInv, PeriodInv
      <4> QED
        BY <2>3, <4>1, <4>2, DefaultPeriod, Zenon DEF PeriodInv, Has
    <3>5. DescriptorStep(p, q, fd)
      OBVIOUS
    <3>6. \/ file'[q][fd] = file[q][fd]
          \/ \E to \in Int : /\ file[q][fd].table # "rtc"
                            /\ file'[q][fd] = [file[q][fd] EXCEPT !.file_position = to]
          \/ \E table \in Tables, i \in Inodes : /\ ~file[q][fd].present
                                                /\ file'[q][fd] = OpenedAt(file[q][fd], table, i)
      BY <2>3, <3>5 DEF DescriptorStep
    <3> QED
      BY <3>2, <3>3, <3>4, <3>6, Zenon
  <2> QED
    BY <2>1, <2>2, <2>3
<1>4. ASSUME NEW q \in Procs
      PROVE  WaitInv(q)'
  <2> SUFFICES ASSUME pc'[q] = "rtc" PROVE WaitInv(q)'
    BY DEF WaitInv
  <2>1. pc[q] = "rtc" /\ q # p
    OBVIOUS
  <2>2. rtc_fd[q] \in Fds
    BY <2>1 DEF RtcInv, WaitInv
  <2>3. file'[q][rtc_fd[q]] = file[q][rtc_fd[q]]
    BY <2>1, <2>2, Zenon DEF DescriptorStep
  <2> QED
    BY <1>1, <2>1, <2>2, <2>3 DEF RtcInv, WaitInv, Has
<1>5. \A q \in Procs : TicksInv(q)'
  BY <1>1 DEF RtcInv, TicksInv
<1> QED
  BY <1>1, <1>3, <1>4, <1>5 DEF RtcInv

LEMMA RtcReadInv ==
  ASSUME TypeInv, RtcInv, NEW p \in Procs, NEW fd \in Fds, RtcRead(p, fd)
  PROVE  RtcInv'
<1>1. /\ Has(p, fd, "rtc") /\ global_count + file[p][fd].file_position < COUNT_MOD
      /\ entered_count' = [entered_count EXCEPT ![p] = global_count]
      /\ rtc_fd' = [rtc_fd EXCEPT ![p] = fd]
      /\ pc[p] = "user" /\ pc' = [pc EXCEPT ![p] = "rtc"]
      /\ UNCHANGED <<file, global_count, since_update, asked, ticks>>
  BY DEF RtcRead, Calls
<1>2. rtc_fd' \in [Procs -> Fds \cup {FIRST_READABLE_FILE}]
  BY <1>1 DEF RtcInv
<1>3. \A q \in Procs, g \in Fds : PeriodInv(q, g)'
  BY <1>1 DEF RtcInv, PeriodInv, Has
<1>4. ASSUME NEW q \in Procs
      PROVE  WaitInv(q)'
  <2>1. CASE q = p
    BY <1>1, <2>1 DEF RtcInv, WaitInv, Has, TypeInv, RtcTypes
  <2>2. CASE q # p
    BY <1>1, <2>2 DEF RtcInv, WaitInv, Has, TypeInv, RtcTypes, CallTypes
  <2> QED
    BY <2>1, <2>2
<1>5. ASSUME NEW q \in Procs
      PROVE  TicksInv(q)'
  <2>1. CASE q = p
    <3>1. global_count \in Nat
      BY CountFacts DEF TypeInv, RtcTypes
    <3>2. ticks'[q] = 0 /\ pc'[q] = "rtc" /\ entered_count'[q] = global_count
      BY <1>1, <2>1 DEF RtcInv, TicksInv, TypeInv, RtcTypes, CallTypes
    <3> QED
      BY <1>1, <3>1, <3>2 DEF TicksInv
  <2>2. CASE q # p
    BY <1>1, <2>2 DEF RtcInv, TicksInv, TypeInv, RtcTypes, CallTypes
  <2> QED
    BY <2>1, <2>2
<1> QED
  BY <1>2, <1>3, <1>4, <1>5 DEF RtcInv

LEMMA RtcReadEndsInv ==
  ASSUME TypeInv, RtcInv, NEW p \in Procs, RtcReadEnds(p)
  PROVE  RtcInv'
<1>1. /\ entered_count' = [entered_count EXCEPT ![p] = 0]
      /\ rtc_fd' = [rtc_fd EXCEPT ![p] = FIRST_READABLE_FILE]
      /\ pc' = [pc EXCEPT ![p] = "user"]
      /\ ticks' = [ticks EXCEPT ![p] = 0]
      /\ UNCHANGED <<file, global_count, since_update, asked>>
  BY DEF RtcReadEnds
<1>2. rtc_fd' \in [Procs -> Fds \cup {FIRST_READABLE_FILE}]
  BY <1>1 DEF RtcInv
<1>3. \A q \in Procs, g \in Fds : PeriodInv(q, g)'
  BY <1>1 DEF RtcInv, PeriodInv, Has
<1>4. ASSUME NEW q \in Procs
      PROVE  WaitInv(q)'
  BY <1>1 DEF RtcInv, WaitInv, Has, TypeInv, RtcTypes, CallTypes
<1>5. \A q \in Procs : TicksInv(q)'
  BY <1>1 DEF RtcInv, TicksInv, TypeInv, RtcTypes, CallTypes
<1> QED
  BY <1>2, <1>3, <1>4, <1>5 DEF RtcInv

LEMMA RtcWriteInv ==
  ASSUME TypeInv, RtcInv, NEW p \in Procs, NEW fd \in Fds, NEW freq, RtcWrite(p, fd, freq)
  PROVE  RtcInv'
<1>1. /\ pc[p] # "rtc" /\ Has(p, fd, "rtc") /\ Accepted(freq)
      /\ file' = [file EXCEPT ![p][fd].file_position = PeriodOf(freq)]
      /\ asked' = [asked EXCEPT ![p][fd] = freq]
      /\ UNCHANGED <<pc, global_count, entered_count, rtc_fd, since_update, ticks>>
  BY DEF RtcWrite, Calls, localVars
<1>2. /\ freq \in Int /\ PeriodOf(freq) \in 0..RTC_MAX_FREQ
      /\ freq > 0 => PeriodOf(freq) * freq = RTC_MAX_FREQ
  BY <1>1, PeriodFacts
<1>3. PeriodOf(freq) \in Int
  BY <1>2, FrequencyFacts
<1>4. \A q \in Procs, g \in Fds :
        \/ file'[q][g] = file[q][g]
        \/ q = p /\ g = fd /\ file'[q][g] = [file[q][g] EXCEPT !.file_position = PeriodOf(freq)]
  BY <1>1, <1>3, MoveFacts DEF TypeInv
<1>5. /\ asked'[p][fd] = freq
      /\ file'[p][fd] = [file[p][fd] EXCEPT !.file_position = PeriodOf(freq)]
      /\ \A q \in Procs, g \in Fds : q # p \/ g # fd =>
           file'[q][g] = file[q][g] /\ asked'[q][g] = asked[q][g]
  BY <1>1, <1>4 DEF TypeInv, FileTypes, RtcTypes
<1>6. ASSUME NEW q \in Procs, NEW g \in Fds
      PROVE  PeriodInv(q, g)'
  <2>1. CASE q = p /\ g = fd
    <3>1. file[p][fd] \in FileRecords
      BY DEF TypeInv, FileTypes
    <3>2. file'[p][fd].present /\ file'[p][fd].file_position = PeriodOf(freq)
      BY <1>1, <1>5, <3>1 DEF FileRecords, Has
    <3> QED
      BY <1>2, <1>5, <2>1, <3>2, Zenon DEF PeriodInv
  <2>2. CASE q # p \/ g # fd
    BY <1>5, <2>2 DEF RtcInv, PeriodInv, Has
  <2> QED
    BY <2>1, <2>2
<1>7. ASSUME NEW q \in Procs
      PROVE  WaitInv(q)'
  BY <1>1, <1>5 DEF RtcInv, WaitInv, Has
<1>8. \A q \in Procs : TicksInv(q)'
  BY <1>1 DEF RtcInv, TicksInv
<1> QED
  BY <1>1, <1>6, <1>7, <1>8 DEF RtcInv

LEMMA RtcHandlerInv ==
  ASSUME TypeInv, RtcInv, RtcHandler
  PROVE  RtcInv'
<1>1. /\ global_count + 1 < COUNT_MOD \/ \A p \in Procs : pc[p] # "rtc"
      /\ global_count' = (global_count + 1) % COUNT_MOD
      /\ UNCHANGED <<file, pc, asked, entered_count, rtc_fd>>
  BY DEF RtcHandler, localVars
<1>2. \A q \in Procs, g \in Fds : PeriodInv(q, g)'
  BY <1>1 DEF RtcInv, PeriodInv, Has
<1>3. global_count \in Nat /\ COUNT_MOD \in Nat
  BY CountFacts DEF TypeInv, RtcTypes
<1>4. ASSUME NEW q \in Procs
      PROVE  WaitInv(q)'
  <2>1. CASE pc[q] = "rtc"
    <3>1. global_count' = global_count + 1
      BY <1>1, <1>3, <2>1
    <3> QED
      BY <1>1, <1>3, <2>1, <3>1 DEF RtcInv, WaitInv, Has, TypeInv, RtcTypes
  <2>2. CASE pc[q] # "rtc"
    BY <1>1, <2>2 DEF WaitInv
  <2> QED
    BY <2>1, <2>2
<1>5. PICK signals \in Signals : Device(signals)
  BY DEF RtcHandler
<1>6. ASSUME NEW q \in Procs
      PROVE  TicksInv(q)'
  <2>1. CASE pc[q] # "rtc"
    BY <1>1, <1>5, <2>1 DEF Device, RtcInv, TicksInv, TypeInv, RtcTypes
  <2>2. CASE pc[q] = "rtc"
    <3> DEFINE counted == global_count - entered_count[q]
    <3>1. /\ counted \in Int /\ ticks[q] \in Nat /\ RTC_MAX_FREQ \in Nat
          /\ since_update \in Nat /\ since_update <= RTC_MAX_FREQ
      BY <1>3, CountFacts DEF TypeInv, RtcTypes
    <3>2. global_count' - entered_count'[q] = counted + 1
      <4>1. global_count' = global_count + 1
        BY <1>1, <1>3, <2>2
      <4>2. entered_count[q] \in Nat
        BY CountFacts DEF TypeInv, RtcTypes
      <4> QED
        BY <1>1, <1>3, <4>1, <4>2
    <3>3. \/ counted <= ticks[q]
          \/ counted = ticks[q] + 1 /\ ticks[q] >= since_update
          \/ ticks[q] >= RTC_MAX_FREQ
      BY <2>2 DEF RtcInv, TicksInv
    <3> HIDE DEF counted
    <3>4. CASE "periodic" \in signals
      <4>1. ticks'[q] = ticks[q] + 1 /\ since_update' <= since_update + 1
        BY <1>5, <2>2, <3>1, <3>4 DEF Device, PeriodsAfter, TypeInv, RtcTypes
      <4>2. since_update' \in Nat
        BY <1>5, <3>1, <3>4 DEF Device, PeriodsAfter
      <4> QED
        BY <1>1, <2>2, <3>1, <3>2, <3>3, <4>1, <4>2 DEF TicksInv
    <3>5. CASE "periodic" \notin signals
      <4>1. "update" \in signals
        BY <3>5 DEF Signals
      <4>2. ticks'[q] = ticks[q] /\ since_update' = 0 /\ since_update >= RTC_MAX_FREQ
        BY <1>5, <3>5, <4>1 DEF Device, PeriodsAfter, TypeInv, RtcTypes
      <4> QED
        BY <1>1, <2>2, <3>1, <3>2, <3>3, <4>2 DEF TicksInv
    <3> QED
      BY <3>4, <3>5
  <2> QED
    BY <2>1, <2>2
<1> QED
  BY <1>1, <1>2, <1>4, <1>6 DEF RtcInv

LEMMA NextRtc ==
  ASSUME TypeInv, DirectoryInv, RtcInv, [Next]_vars
  PROVE  RtcInv'
<1>1. ASSUME UNCHANGED <<file, pc, rtcVars>>
      PROVE  RtcInv'
  BY <1>1 DEF rtcVars, RtcInv, PeriodInv, WaitInv, TicksInv, Has
<1>2. ASSUME NEW p \in Procs, FileStep(p), RtcUnused
      PROVE  RtcInv'
  <2>1. pc[p] # "rtc" /\ \A q \in Procs : pc'[q] = "rtc" <=> pc[q] = "rtc"
    BY <1>2 DEF FileStep, OpenFound, CreateFile, ClaimInode, ClaimFails, ClaimBlock, OpenCreated,
                Return, Exit, Close, DirRead, FileRead, FileWrite, FileWriteFails, Calls,
                localVars, TypeInv, CallTypes
  <2>2. \A q \in Procs, fd \in Fds : DescriptorStep(p, q, fd)
    BY <1>2, OpenFoundDescriptors, OpenCreatedDescriptors, OtherDescriptors, Zenon
       DEF FileStep, DirectoryInv
  <2> QED
    BY <1>2, <2>1, <2>2, RtcOtherStep
<1>3. ASSUME NEW p \in Procs, MouseStep(p), RtcUnused
      PROVE  RtcInv'
  <2>1. pc[p] # "rtc" /\ \A q \in Procs : pc'[q] = "rtc" <=> pc[q] = "rtc"
    BY <1>3, MouseStepFacts DEF Placing, TypeInv
  <2>2. \A q \in Procs, fd \in Fds : DescriptorStep(p, q, fd)
    BY <1>3, OtherDescriptors
  <2> QED
    BY <1>3, <2>1, <2>2, RtcOtherStep
<1>4. ASSUME NEW packet \in Packets, MouseHandler(packet), UNCHANGED rtcVars
      PROVE  RtcInv'
  BY <1>1, <1>4 DEF MouseHandler, localVars
<1>5. CASE UNCHANGED vars
  BY <1>1, <1>5 DEF vars, fdVars, localVars
<1>6. ASSUME NEW p \in Procs, RtcStep(p)
      PROVE  RtcInv'
  BY <1>6, RtcReadInv, RtcReadEndsInv, RtcWriteInv, Zenon DEF RtcStep
<1> QED
  BY <1>2, <1>3, <1>4, <1>5, <1>6, RtcHandlerInv DEF Next

\* The step that ends a wait.
LEMMA WaitEnds ==
  ASSUME TypeInv, [Next]_vars, NEW p \in Procs, pc[p] = "rtc", pc'[p] = "user"
  PROVE  WaitOver(p)
<1>1. ASSUME NEW q \in Procs, FileStep(q)
      PROVE  FALSE
  BY <1>1 DEF FileStep, OpenFound, CreateFile, ClaimInode, ClaimFails, ClaimBlock, OpenCreated,
              Return, Exit, Close, DirRead, FileRead, FileWrite, FileWriteFails, Calls,
              localVars, TypeInv, CallTypes
<1>2. ASSUME NEW q \in Procs, MouseStep(q)
      PROVE  FALSE
  BY <1>2, MouseStepFacts DEF Placing, TypeInv
<1>3. ASSUME NEW q \in Procs, RtcStep(q)
      PROVE  WaitOver(p)
  BY <1>3 DEF RtcStep, RtcReadEnds, RtcRead, RtcWrite, localVars, TypeInv, CallTypes
<1> QED
  BY <1>1, <1>2, <1>3 DEF Next, RtcHandler, MouseHandler, vars, fdVars, localVars

LEMMA PeriodOver ==
  ASSUME TypeInv, RtcInv, [Next]_vars, NEW p \in Procs, pc[p] = "rtc", pc'[p] = "user",
         asked[p][rtc_fd[p]] > 0
  PROVE  (ticks[p] + 1) * asked[p][rtc_fd[p]] >= RTC_MAX_FREQ
<1> DEFINE f == asked[p][rtc_fd[p]]
           period == file[p][rtc_fd[p]].file_position
           seen == ticks[p] + 1
<1>1. WaitOver(p)
  BY WaitEnds
<1>2. /\ rtc_fd[p] \in Fds /\ Has(p, rtc_fd[p], "rtc")
      /\ entered_count[p] <= global_count
      /\ entered_count[p] + period < COUNT_MOD
  BY DEF RtcInv, WaitInv
<1>3. period \in 0..RTC_MAX_FREQ /\ period * f = RTC_MAX_FREQ
  BY <1>2 DEF RtcInv, PeriodInv
<1>4. /\ f \in Int /\ entered_count[p] \in Nat /\ global_count \in Nat
      /\ ticks[p] \in Nat /\ since_update \in Nat
  BY <1>2, CountFacts DEF TypeInv, RtcTypes
<1>5. (entered_count[p] + period) % COUNT_MOD <= global_count
  BY <1>1 DEF WaitOver
<1> HIDE DEF period
<1>6. entered_count[p] + period <= global_count
  BY <1>2, <1>3, <1>4, <1>5, CountFacts
<1>7. seen \in Int /\ seen >= period
  BY <1>3, <1>4, <1>6, CountFacts DEF RtcInv, TicksInv
<1> HIDE DEF f, seen
<1>8. f \in Nat
  BY <1>4 DEF f
<1>9. f * seen >= f * period
  BY <1>3, <1>7, <1>8, TimesGrows, CountFacts
<1>10. f * seen = seen * f /\ f * period = period * f
  BY <1>3, <1>7, <1>8, CountFacts
<1> QED
  BY <1>3, <1>9, <1>10 DEF f, seen

\* If f is the last frequency that was accepted on this descriptor, or else the
\* default, a read of the RTC sees at least RTC_MAX_FREQ / f - 1 periods of the
\* device end, although updates of the date are counted like periods:
\* whatever other processes open, close and write, and whoever had the
\* descriptor before.
THEOREM PeriodIsKept ==
  ASSUME ~Preempt
  PROVE  Spec => RtcPeriodKept
<1> DEFINE Inv == TypeInv /\ DirectoryInv /\ RtcInv
           Kept == \A p \in Procs :
                     pc[p] = "rtc" /\ pc'[p] = "user"
                       => LET f == asked[p][rtc_fd[p]]
                          IN f > 0 => (ticks[p] + 1) * f >= RTC_MAX_FREQ
<1>1. Init => Inv
  BY InitTypes, InitDirectory, InitRtc
<1>2. Inv /\ [Next]_vars => Inv'
  BY NextTypes, NextDirectory, NextRtc
<1>3. Inv /\ [Next]_vars => [Kept]_vars
  BY PeriodOver
<1>4. RtcPeriodKept <=> [][Kept]_vars
  BY PTL DEF RtcPeriodKept
<1> QED
  BY <1>1, <1>2, <1>3, <1>4, PTL DEF Spec

-----------------------------------------------------------------------------
\* Listings of the directory.

\* The names of the first n entries of a directory.
FirstNames(entries, n) == {entries[i].file_name : i \in 0..(n - 1)}

ListRecords == [names : SUBSET (Names \cup {""}), ended : BOOLEAN]

\* Until its end a listing has given the names of the entries before its
\* position, which is not behind the last one.
ListedSoFar(p, fd) ==
  Has(p, fd, "directories") =>
    /\ file[p][fd].file_position \in Nat
    /\ ~listed[p][fd].ended =>
         /\ file[p][fd].file_position <= num_dir_entries
         /\ listed[p][fd].names = FirstNames(directory_entries, file[p][fd].file_position)

ListingInv ==
  /\ listed \in [Procs -> [Fds -> ListRecords]]
  /\ \A p \in Procs, fd \in Fds : ListedSoFar(p, fd)

\* What a step does to a descriptor and its listing.
NothingListed(p, fd) ==
  /\ listed'[p][fd] = listed[p][fd]
  /\ file'[p][fd] = file[p][fd] \/ file'[p][fd].table # "directories"

Restarted(p, fd) ==
  /\ listed'[p][fd] = Unlisted
  /\ \/ file'[p][fd].table # "directories" \/ ~file'[p][fd].present
     \/ file'[p][fd].file_position = 0

NameListed(p, fd) ==
  /\ Has(p, fd, "directories")
  /\ listed'[p][fd] = Nexted(listed[p][fd], file[p][fd].file_position)
  /\ file'[p][fd] = [file[p][fd] EXCEPT !.file_position = file[p][fd].file_position + 1]

ListingStep(p, fd) == NothingListed(p, fd) \/ Restarted(p, fd) \/ NameListed(p, fd)

-----------------------------------------------------------------------------
LEMMA UnlistedType == Unlisted \in ListRecords
BY DEF Unlisted, ListRecords

LEMMA NextedType ==
  ASSUME TypeInv, NEW l \in ListRecords, NEW pos \in Nat
  PROVE  Nexted(l, pos) \in ListRecords
<1>1. CASE EntryAt(pos)
  <2>1. pos \in 0..(NUM_DENTRIES - 1)
    BY <1>1 DEF EntryAt, TypeInv, DiskTypes
  <2>2. directory_entries[pos].file_name \in Names \cup {""}
    BY <2>1 DEF TypeInv, DiskTypes, Entries
  <2> QED
    BY <1>1, <2>2 DEF Nexted, ListRecords
<1>2. CASE ~EntryAt(pos)
  BY <1>2 DEF Nexted, ListRecords
<1> QED
  BY <1>1, <1>2

LEMMA InitListing ==
  ASSUME Init
  PROVE  ListingInv
BY UnlistedType DEF Init, DescriptorsInit, ListingInv, ListedSoFar, Has, Closed

\* Entries are only ever added behind the last one.
LEMMA DirectoryGrows ==
  ASSUME TypeInv, [Next]_vars
  PROVE  /\ num_dir_entries' \in Nat /\ num_dir_entries' >= num_dir_entries
         /\ \A i \in Dentries : directory_entries'[i] = directory_entries[i]
<1>1. num_dir_entries \in 0..NUM_DENTRIES
  BY DEF TypeInv, DiskTypes
<1>2. ASSUME UNCHANGED <<directory_entries, num_dir_entries>>
      PROVE  /\ num_dir_entries' \in Nat /\ num_dir_entries' >= num_dir_entries
             /\ \A i \in Dentries : directory_entries'[i] = directory_entries[i]
  BY <1>1, <1>2
<1>3. ASSUME NEW p \in Procs, FileStep(p)
      PROVE  /\ num_dir_entries' \in Nat /\ num_dir_entries' >= num_dir_entries
             /\ \A i \in Dentries : directory_entries'[i] = directory_entries[i]
  <2>1. CASE ClaimBlock(p)
    <3>1. /\ num_dir_entries' = num_dir_entries
          /\ \E e : directory_entries' = [directory_entries EXCEPT ![num_dir_entries] = e]
      BY <2>1 DEF ClaimBlock
    <3>2. PICK e : directory_entries' = [directory_entries EXCEPT ![num_dir_entries] = e]
      BY <3>1
    <3>3. \A i \in Dentries : i # num_dir_entries /\ i \in 0..(NUM_DENTRIES - 1)
      BY <1>1 DEF Dentries
    <3> QED
      BY <1>1, <3>1, <3>2, <3>3 DEF TypeInv, DiskTypes
  <2>2. CASE OpenCreated(p)
    BY <1>1, <2>2 DEF OpenCreated
  <2>3. CASE ~ClaimBlock(p) /\ ~OpenCreated(p)
    BY <1>2, <1>3, <2>3 DEF FileStep, OpenFound, CreateFile, ClaimInode, ClaimFails, Exit, Close,
      DirRead, FileRead, FileWrite, FileWriteFails, fsVars
  <2> QED
    BY <2>1, <2>2, <2>3
<1>4. ASSUME NEW p \in Procs, RtcStep(p) \/ MouseStep(p)
      PROVE  UNCHANGED <<directory_entries, num_dir_entries>>
  BY <1>4, MouseStepFacts DEF RtcStep, RtcReadEnds, RtcRead, RtcWrite, fsVars, TypeInv
<1> QED
  BY <1>2, <1>3, <1>4 DEF Next, RtcHandler, MouseHandler, vars, fsVars

LEMMA FirstNamesKept ==
  ASSUME TypeInv, [Next]_vars, NEW n \in 0..num_dir_entries
  PROVE  FirstNames(directory_entries', n) = FirstNames(directory_entries, n)
<1>1. \A i \in 0..(n - 1) : directory_entries'[i] = directory_entries[i]
  BY DirectoryGrows DEF Dentries, TypeInv, DiskTypes
<1> QED
  BY <1>1 DEF FirstNames

-----------------------------------------------------------------------------
LEMMA AllocateListing ==
  ASSUME TypeInv, ListingInv, NEW p \in Procs, NEW table \in Tables, NEW i \in Inodes,
         Allocate(p, table, i)
  PROVE  \A q \in Procs, fd \in Fds : ListingStep(q, fd)
<1>1. CASE FreeFds(p) = {}
  BY <1>1 DEF Allocate, ListingStep, NothingListed
<1>2. CASE FreeFds(p) # {}
  <2> DEFINE fd0 == Smallest(FreeFds(p))
  <2>1. FreeFds(p) \subseteq Nat
    BY DEF FreeFds, Fds, FIRST_READABLE_FILE
  <2>2. fd0 \in Fds
    BY <1>2, <2>1, SmallestIn DEF FreeFds
  <2>3. /\ file' = [file EXCEPT ![p][fd0] = OpenedAt(file[p][fd0], table, i)]
        /\ listed' = [listed EXCEPT ![p][fd0] = Unlisted]
    BY <1>2 DEF Allocate
  <2> HIDE DEF fd0
  <2>4. \A q \in Procs, fd \in Fds : q # p \/ fd # fd0 =>
          file'[q][fd] = file[q][fd] /\ listed'[q][fd] = listed[q][fd]
    BY <2>2, <2>3 DEF TypeInv, FileTypes, ListingInv
  <2>5. /\ file'[p][fd0] = OpenedAt(file[p][fd0], table, i)
        /\ listed'[p][fd0] = Unlisted
    BY <2>2, <2>3 DEF TypeInv, FileTypes, ListingInv
  <2>6. Restarted(p, fd0)
    BY <2>5 DEF Restarted, OpenedAt
  <2> QED
    BY <2>4, <2>6 DEF ListingStep, NothingListed
<1> QED
  BY <1>1, <1>2

LEMMA DirReadListed ==
  ASSUME NEW p, NEW fd, DirRead(p, fd)
  PROVE  listed' = [listed EXCEPT ![p][fd] =
                      Nexted(listed[p][fd], file[p][fd].file_position)]
BY DEF DirRead

LEMMA FileStepListing ==
  ASSUME TypeInv, ~Preempt, ListingInv, NEW p \in Procs, FileStep(p)
  PROVE  \A q \in Procs, fd \in Fds : ListingStep(q, fd)
<1> USE DEF TypeInv, ListingInv
<1>1. ASSUME UNCHANGED <<file, listed>>
      PROVE  \A q \in Procs, fd \in Fds : ListingStep(q, fd)
  BY <1>1 DEF ListingStep, NothingListed
<1>2. ASSUME NEW name \in Names, OpenFound(p, name)
      PROVE  \A q \in Procs, fd \in Fds : ListingStep(q, fd)
  <2>1. PICK i \in Dentries : /\ ReadDentryByName(name) = directory_entries[i]
                              /\ directory_entries[i] \in Entries
    BY <1>2, DentryFacts DEF OpenFound
  <2>2. /\ TableOf(directory_entries[i].file_type) \in Tables
        /\ directory_entries[i].inode_num \in Inodes
    BY <2>1, TableType DEF Entries
  <2>3. Allocate(p, TableOf(directory_entries[i].file_type), directory_entries[i].inode_num)
    BY <1>2, <2>1 DEF OpenFound
  <2> QED
    BY <2>2, <2>3, AllocateListing
<1>3. ASSUME OpenCreated(p)
      PROVE  \A q \in Procs, fd \in Fds : ListingStep(q, fd)
  <2>1. new_dentry[p] \in 0..(NUM_DENTRIES - 1)
    BY <1>3 DEF OpenCreated, CreatorInv, Creating, DiskTypes
  <2>2. directory_entries[new_dentry[p]].inode_num \in Inodes
    BY <2>1 DEF DiskTypes, Entries
  <2>3. Allocate(p, "files", directory_entries[new_dentry[p]].inode_num)
    BY <1>3 DEF OpenCreated
  <2> QED
    BY <2>2, <2>3, AllocateListing DEF Tables
<1>4. ASSUME Exit(p)
      PROVE  \A q \in Procs, fd \in Fds : ListingStep(q, fd)
  <2>1. \A f : ~Ended(f).present
    BY DEF Ended, Closed
  <2>2. \A fd \in Fds : Restarted(p, fd)
    BY <1>4, <2>1 DEF Exit, Restarted, FileTypes
  <2>3. \A q \in Procs \ {p}, fd \in Fds : NothingListed(q, fd)
    BY <1>4 DEF Exit, NothingListed, FileTypes
  <2> QED
    BY <2>2, <2>3 DEF ListingStep
<1>5. ASSUME NEW g \in Fds, Close(p, g)
      PROVE  \A q \in Procs, fd \in Fds : ListingStep(q, fd)
  <2>1. Restarted(p, g)
    BY <1>5 DEF Close, Restarted, Closed, FileTypes
  <2>2. \A q \in Procs, fd \in Fds : q # p \/ fd # g => NothingListed(q, fd)
    BY <1>5 DEF Close, NothingListed, FileTypes
  <2> QED
    BY <2>1, <2>2 DEF ListingStep
<1>6. ASSUME NEW g \in Fds, DirRead(p, g)
      PROVE  \A q \in Procs, fd \in Fds : ListingStep(q, fd)
  <2> DEFINE pos == file[p][g].file_position
             next == Nexted(listed[p][g], pos)
  <2>1. file[p][g] \in FileRecords
    BY DEF FileTypes
  <2>2. /\ Has(p, g, "directories")
        /\ file' = [file EXCEPT ![p][g].file_position = pos + 1]
        /\ listed' = [listed EXCEPT ![p][g] = next]
    BY <1>6, DirReadListed DEF DirRead
  <2>3. pos + 1 \in Int
    BY <2>1 DEF FileRecords
  <2> HIDE DEF pos, next
  <2>4. NameListed(p, g)
    BY <2>1, <2>2, <2>3 DEF NameListed, FileTypes, pos, next
  <2>5. \A q \in Procs, fd \in Fds : q # p \/ fd # g => NothingListed(q, fd)
    BY <2>2 DEF NothingListed, FileTypes
  <2> QED
    BY <2>4, <2>5 DEF ListingStep
<1>7. ASSUME NEW g \in Fds, NEW to, Has(p, g, "files"), UNCHANGED listed,
             file' = [file EXCEPT ![p][g].file_position = to]
      PROVE  \A q \in Procs, fd \in Fds : ListingStep(q, fd)
  <2>1. file[p][g] \in FileRecords
    BY DEF FileTypes
  <2>2. file'[p][g].table = "files"
    BY <1>7, <2>1 DEF FileTypes, FileRecords, Has
  <2>3. \A q \in Procs, fd \in Fds : q # p \/ fd # g => file'[q][fd] = file[q][fd]
    BY <1>7 DEF FileTypes
  <2> QED
    BY <1>7, <2>2, <2>3 DEF ListingStep, NothingListed
<1>8. ASSUME NEW g \in Fds, NEW n \in Lengths, FileRead(p, g, n)
      PROVE  \A q \in Procs, fd \in Fds : ListingStep(q, fd)
  BY <1>7, <1>8 DEF FileRead
<1>9. ASSUME NEW g \in Fds, NEW buf \in workload.writes,
             FileWrite(p, g, buf) \/ FileWriteFails(p, g, buf)
      PROVE  \A q \in Procs, fd \in Fds : ListingStep(q, fd)
  BY <1>7, <1>9 DEF FileWrite, FileWriteFails
<1>10. ASSUME \/ \E name \in Names : CreateFile(p, name)
              \/ ClaimInode(p) \/ ClaimFails(p) \/ ClaimBlock(p)
       PROVE  \A q \in Procs, fd \in Fds : ListingStep(q, fd)
  BY <1>1, <1>10 DEF CreateFile, ClaimInode, ClaimFails, ClaimBlock
<1> QED
  BY <1>2, <1>3, <1>4, <1>5, <1>6, <1>8, <1>9, <1>10 DEF FileStep

LEMMA NextListing ==
  ASSUME TypeInv, ~Preempt, ListingInv, [Next]_vars
  PROVE  \A q \in Procs, fd \in Fds : ListingStep(q, fd)
<1>1. ASSUME UNCHANGED <<file, listed>>
      PROVE  \A q \in Procs, fd \in Fds : ListingStep(q, fd)
  BY <1>1 DEF ListingStep, NothingListed
<1>2. ASSUME NEW p \in Procs, RtcStep(p)
      PROVE  \A q \in Procs, fd \in Fds : ListingStep(q, fd)
  <2>1. ASSUME RtcReadEnds(p) \/ \E fd \in Fds : RtcRead(p, fd)
        PROVE  UNCHANGED <<file, listed>>
    BY <2>1 DEF RtcReadEnds, RtcRead
  <2>2. ASSUME NEW g \in Fds, NEW freq \in Frequencies, RtcWrite(p, g, freq)
        PROVE  \A q \in Procs, fd \in Fds : ListingStep(q, fd)
    <3>1. file[p][g] \in FileRecords
      BY DEF TypeInv, FileTypes
    <3>2. /\ Has(p, g, "rtc") /\ UNCHANGED listed
          /\ file' = [file EXCEPT ![p][g].file_position = PeriodOf(freq)]
      BY <2>2 DEF RtcWrite
    <3>3. file'[p][g].table = "rtc"
      BY <3>1, <3>2 DEF TypeInv, FileTypes, FileRecords, Has
    <3>4. \A q \in Procs, fd \in Fds : q # p \/ fd # g => file'[q][fd] = file[q][fd]
      BY <3>2 DEF TypeInv, FileTypes
    <3> QED
      BY <3>2, <3>3, <3>4 DEF ListingStep, NothingListed
  <2> QED
    BY <1>1, <1>2, <2>1, <2>2 DEF RtcStep
<1>3. ASSUME NEW p \in Procs, MouseStep(p)
      PROVE  \A q \in Procs, fd \in Fds : ListingStep(q, fd)
  <2>1. CASE Allocate(p, "mouse", 0)
    <3>1. "mouse" \in Tables /\ 0 \in Inodes
      BY DEF Tables, Inodes
    <3> QED
      BY <2>1, <3>1, AllocateListing
  <2>2. UNCHANGED <<file, listed>> \/ Allocate(p, "mouse", 0)
    BY <1>3, MouseStepFacts DEF TypeInv
  <2> QED
    BY <1>1, <2>1, <2>2
<1> QED
  BY <1>1, <1>2, <1>3, FileStepListing DEF Next, RtcHandler, MouseHandler, vars, fdVars

LEMMA ListingKept ==
  ASSUME TypeInv, TypeInv', ListingInv, [Next]_vars, NEW p \in Procs, NEW fd \in Fds,
         ListingStep(p, fd)
  PROVE  ListedSoFar(p, fd)'
<1> DEFINE f == file[p][fd]
           l == listed[p][fd]
           pos == f.file_position
<1>0. f \in FileRecords /\ l \in ListRecords /\ num_dir_entries \in Nat
  BY DEF TypeInv, FileTypes, ListingInv, DiskTypes
<1>1. CASE NothingListed(p, fd)
  <2>1. l \in ListRecords /\ listed'[p][fd] = l
    BY <1>0, <1>1 DEF NothingListed
  <2>2. CASE file'[p][fd].table # "directories"
    BY <2>1, <2>2 DEF ListedSoFar, Has
  <2>3. CASE file'[p][fd] = f
    <3> SUFFICES ASSUME Has(p, fd, "directories")
                 PROVE  /\ pos \in Nat
                        /\ ~l.ended => /\ pos <= num_dir_entries'
                                       /\ l.names = FirstNames(directory_entries', pos)
      BY <2>1, <2>3 DEF ListedSoFar, Has
    <3>1. /\ pos \in Nat
          /\ ~l.ended => /\ pos <= num_dir_entries
                         /\ l.names = FirstNames(directory_entries, pos)
      BY DEF ListingInv, ListedSoFar
    <3>2. pos \in 0..num_dir_entries =>
            FirstNames(directory_entries', pos) = FirstNames(directory_entries, pos)
      BY FirstNamesKept
    <3> HIDE DEF l, pos
    <3> QED
      BY <1>0, <3>1, <3>2, DirectoryGrows
  <2> QED
    BY <1>1, <2>2, <2>3 DEF NothingListed
<1>2. CASE Restarted(p, fd)
  <2>1. listed'[p][fd] = Unlisted
    BY <1>2 DEF Restarted
  <2>2. FirstNames(directory_entries', 0) = {}
    BY DEF FirstNames
  <2>3. num_dir_entries' \in Nat
    BY DEF TypeInv, DiskTypes
  <2> QED
    BY <1>2, <2>1, <2>2, <2>3, UnlistedType DEF Restarted, ListedSoFar, Has, Unlisted
<1>3. CASE NameListed(p, fd)
  <2>1. /\ Has(p, fd, "directories")
        /\ listed'[p][fd] = Nexted(l, pos)
        /\ file'[p][fd] = [f EXCEPT !.file_position = pos + 1]
    BY <1>3 DEF NameListed
  <2>2. pos \in Nat /\ (~l.ended => /\ pos <= num_dir_entries
                                    /\ l.names = FirstNames(directory_entries, pos))
    BY <2>1 DEF ListingInv, ListedSoFar
  <2>3. file'[p][fd].file_position = pos + 1
    BY <1>0, <2>1 DEF FileRecords
  <2> HIDE DEF pos
  <2>5. CASE l.ended
    <3>1. listed'[p][fd].ended
      BY <1>0, <2>1, <2>5 DEF Nexted, ListRecords
    <3> QED
      BY <2>2, <2>3, <3>1 DEF ListedSoFar
  <2>6. CASE ~EntryAt(pos)
    <3>1. listed'[p][fd].ended
      BY <1>0, <2>1, <2>6 DEF Nexted, ListRecords
    <3> QED
      BY <2>2, <2>3, <3>1 DEF ListedSoFar
  <2>7. CASE ~l.ended /\ EntryAt(pos)
    <3>1. pos + 1 \in 0..num_dir_entries
      BY <1>0, <2>2, <2>7 DEF EntryAt
    <3>2. listed'[p][fd].names = l.names \cup {directory_entries[pos].file_name}
      BY <1>0, <2>1, <2>7 DEF Nexted, ListRecords
    <3>3. FirstNames(directory_entries, pos + 1) =
            FirstNames(directory_entries, pos) \cup {directory_entries[pos].file_name}
      <4>1. 0..pos = (0..(pos - 1)) \cup {pos}
        BY <2>2
      <4>2. (pos + 1) - 1 = pos
        BY <2>2
      <4> QED
        BY <4>1, <4>2 DEF FirstNames
    <3>4. FirstNames(directory_entries', pos + 1) = FirstNames(directory_entries, pos + 1)
      BY <3>1, FirstNamesKept
    <3>5. pos + 1 <= num_dir_entries'
      BY <1>0, <3>1, DirectoryGrows
    <3>6. listed'[p][fd].names = FirstNames(directory_entries', pos + 1)
      BY <2>2, <2>7, <3>2, <3>3, <3>4
    <3> QED
      BY <2>2, <2>3, <3>5, <3>6 DEF ListedSoFar
  <2> QED
    BY <2>5, <2>6, <2>7
<1> QED
  BY <1>1, <1>2, <1>3 DEF ListingStep

LEMMA AllocateListed ==
  ASSUME ListingInv, NEW p, NEW table, NEW i, Allocate(p, table, i)
  PROVE  listed' \in [Procs -> [Fds -> ListRecords]]
BY UnlistedType DEF Allocate, ListingInv

LEMMA NextListed ==
  ASSUME TypeInv, ListingInv, [Next]_vars
  PROVE  listed' \in [Procs -> [Fds -> ListRecords]]
<1>1. ASSUME UNCHANGED listed
      PROVE  listed' \in [Procs -> [Fds -> ListRecords]]
  BY <1>1 DEF ListingInv
<1>2. ASSUME NEW p \in Procs, NEW fd \in Fds, DirRead(p, fd)
      PROVE  listed' \in [Procs -> [Fds -> ListRecords]]
  <2> DEFINE pos == file[p][fd].file_position
  <2>1. pos \in Nat
    BY <1>2 DEF DirRead, ListingInv, ListedSoFar
  <2>2. Nexted(listed[p][fd], pos) \in ListRecords
    BY <2>1, NextedType DEF ListingInv
  <2>3. listed' = [listed EXCEPT ![p][fd] = Nexted(listed[p][fd], pos)]
    BY <1>2, DirReadListed
  <2> QED
    BY <2>2, <2>3 DEF ListingInv
<1>3. ASSUME NEW p \in Procs, FileStep(p)
      PROVE  listed' \in [Procs -> [Fds -> ListRecords]]
  <2>1. CASE Exit(p) \/ \E fd \in Fds : Close(p, fd)
    BY <2>1, UnlistedType DEF Exit, Close, ListingInv
  <2>2. CASE OpenCreated(p) \/ \E name \in Names : OpenFound(p, name)
    BY <2>2, AllocateListed DEF OpenCreated, OpenFound
  <2> QED
    BY <1>1, <1>2, <1>3, <2>1, <2>2
       DEF FileStep, CreateFile, ClaimInode, ClaimFails, ClaimBlock, FileRead, FileWrite,
           FileWriteFails
<1>4. ASSUME NEW p \in Procs, RtcStep(p) \/ MouseStep(p)
      PROVE  listed' \in [Procs -> [Fds -> ListRecords]]
  BY <1>1, <1>4, AllocateListed, MouseStepFacts
     DEF RtcStep, RtcReadEnds, RtcRead, RtcWrite, TypeInv
<1> QED
  BY <1>1, <1>3, <1>4 DEF Next, RtcHandler, MouseHandler, vars, fdVars

LEMMA NextListingInv ==
  ASSUME ~Preempt, TypeInv, ListingInv, [Next]_vars
  PROVE  ListingInv'
<1>1. TypeInv'
  BY NextTypes
<1>2. \A p \in Procs, fd \in Fds : ListedSoFar(p, fd)'
  BY <1>1, NextListing, ListingKept
<1> QED
  BY <1>2, NextListed DEF ListingInv

\* The step at which a listing comes to its end.
LEMMA CompleteAtEnd ==
  ASSUME ~Preempt, TypeInv, ListingInv, [Next]_vars, NEW p \in Procs, NEW fd \in Fds,
         ~listed[p][fd].ended, listed'[p][fd].ended
  PROVE  listed[p][fd].names = {directory_entries[i].file_name : i \in Dentries}
<1> DEFINE pos == file[p][fd].file_position
<1>1. /\ Has(p, fd, "directories")
      /\ listed'[p][fd] = Nexted(listed[p][fd], pos)
  <2>1. ~NothingListed(p, fd) /\ ~Restarted(p, fd)
    BY DEF NothingListed, Restarted, Unlisted
  <2> QED
    BY <2>1, NextListing DEF ListingStep, NameListed
<1>2. listed[p][fd] \in ListRecords
  BY DEF ListingInv
<1>3. ~EntryAt(pos)
  BY <1>1, <1>2 DEF Nexted, ListRecords
<1>4. /\ pos \in Nat /\ pos <= num_dir_entries
      /\ listed[p][fd].names = FirstNames(directory_entries, pos)
  BY <1>1 DEF ListingInv, ListedSoFar
<1>5. pos = num_dir_entries
  <2>1. num_dir_entries \in Nat
    BY DEF TypeInv, DiskTypes
  <2> HIDE DEF pos
  <2> QED
    BY <1>3, <1>4, <2>1 DEF EntryAt
<1> QED
  BY <1>4, <1>5 DEF FirstNames, Dentries

\* A program that reads a directory until there is nothing left has been given
\* the name of every entry, also of those created since it began: dir_read
\* skips none and stops at the last one, on descriptors that were opened,
\* closed or left behind by another program in any way.
THEOREM ListingIsComplete ==
  ASSUME ~Preempt
  PROVE  Spec => ListingComplete
<1> DEFINE Inv == TypeInv /\ ListingInv
           Complete == \A p \in Procs, fd \in Fds :
                         ~listed[p][fd].ended /\ listed'[p][fd].ended
                           => listed[p][fd].names = {directory_entries[i].file_name : i \in Dentries}
<1>1. Init => Inv
  BY InitTypes, InitListing
<1>2. Inv /\ [Next]_vars => Inv'
  BY NextTypes, NextListingInv
<1>3. Inv /\ [Next]_vars => [Complete]_vars
  BY CompleteAtEnd
<1>4. ListingComplete <=> [][Complete]_vars
  BY PTL DEF ListingComplete
<1> QED
  BY <1>1, <1>2, <1>3, <1>4, PTL DEF Spec
=============================================================================
