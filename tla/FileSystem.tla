----------------------------- MODULE FileSystem -----------------------------
(***************************************************************************)
(* The RAM file system, fs/fs.c: the boot block's directory, the inodes,   *)
(* the data blocks and the two bitmaps, with what each function reads and  *)
(* changes.  Nothing here is an action: the system calls of Descriptors    *)
(* call these operators.                                                   *)
(*                                                                         *)
(* A block holds FS_BLK_SIZE bytes of a small alphabet, a name has at most *)
(* MAX_FILENAME_LENGTH characters, so that it is compared and stored as a  *)
(* whole.  The image is the one the boot loader hands over.                *)
(***************************************************************************)
EXTENDS Integers, Sequences, FiniteSets

CONSTANTS
  FS_BLK_SIZE, NUM_DENTRIES, MAX_INODES, MAX_DATA_BLOCKS, MAX_BLOCKS_IN_INODE,
  Names,           \* file names
  Bytes,           \* what a cell of a block may hold
  ImageEntries,    \* the directory of the image: a sequence of entries
  ImageInodes,     \* its inodes
  ImageData        \* its data blocks

FS_TYPE_RTC  == 0
FS_TYPE_DIR  == 1
FS_TYPE_FILE == 2

Inodes  == 0..(MAX_INODES - 1)
Blocks  == 0..(MAX_DATA_BLOCKS - 1)
Entries == [file_name : Names \cup {""}, file_type : FS_TYPE_RTC..FS_TYPE_FILE, inode_num : Inodes]
InodeRecords == [file_length : Nat, data_blocks_idx : [0..(MAX_BLOCKS_IN_INODE - 1) -> Blocks]]

ASSUME SizesAssumption ==
  /\ FS_BLK_SIZE \in Nat \ {0}
  /\ NUM_DENTRIES \in Nat
  /\ MAX_INODES \in Nat \ {0}
  /\ MAX_DATA_BLOCKS \in 1..MAX_INODES
  /\ MAX_BLOCKS_IN_INODE \in Nat \ {0}
  /\ MAX_DATA_BLOCKS <= MAX_BLOCKS_IN_INODE + 1

\* The image: names and the inodes of its files are unique, "." and "rtc"
\* have inode 0, which is empty.
ASSUME ImageAssumption ==
  /\ ImageEntries \in Seq(Entries) /\ Len(ImageEntries) \in 1..NUM_DENTRIES
  /\ ImageInodes \in [Inodes -> InodeRecords]
  /\ ImageData \in [Blocks -> [0..(FS_BLK_SIZE - 1) -> Bytes]]
  /\ \A i, j \in 1..Len(ImageEntries) : i # j =>
       /\ ImageEntries[i].file_name # ImageEntries[j].file_name
       /\ ImageEntries[i].file_type = FS_TYPE_FILE =>
            ImageEntries[i].inode_num # ImageEntries[j].inode_num
  /\ \A i \in 1..Len(ImageEntries) :
       (ImageEntries[i].file_type = FS_TYPE_FILE) <=> (ImageEntries[i].inode_num # 0)
  /\ ImageInodes[0] = [file_length |-> 0,
                       data_blocks_idx |-> [j \in 0..(MAX_BLOCKS_IN_INODE - 1) |-> 0]]

VARIABLES
  directory_entries,   \* the first num_dir_entries entries, and what lies behind them
  num_dir_entries,
  inodes, data,
  inode_bitmap, data_block_bitmap,  \* index -> in use?
  overrun    \* has a byte behind data_block_bitmap been cleared?

fsVars == <<directory_entries, num_dir_entries, inodes, data, inode_bitmap, data_block_bitmap,
            overrun>>

Smallest(S) == CHOOSE i \in S : \A j \in S : i <= j
Largest(S)  == CHOOSE i \in S : \A j \in S : i >= j

-----------------------------------------------------------------------------
\* Edits of the definitions below that a mistake could make (see PROJECT.json).
InodesInUse_Reserved == {0}
ScanForBlock_OffByOne ==
  LET free == {b \in 0..MAX_DATA_BLOCKS : b = MAX_DATA_BLOCKS \/ ~data_block_bitmap[b]}
  IN IF free = {} THEN -1 ELSE Smallest(free)
ReadLength_Unclamped(i, offset, n) == IF offset >= inodes[i].file_length THEN 0 ELSE n

\* get_inode_by_idx adds the index as bytes, not as blocks: for every index
\* the result points into the block of inode 0.
GetInodeByIdx(idx) == 0

\* The inodes and blocks that fs_init marks: those of the entries it walks,
\* as far as it finds them, and the two that are reserved.
InodesInUse == {0} \cup {ImageEntries[i].inode_num : i \in 1..Len(ImageEntries)}
BlocksInUse ==
  {0} \cup UNION {LET list == ImageInodes[GetInodeByIdx(i)].data_blocks_idx
                      end == {j \in DOMAIN list : list[j] = 0}
                  IN {list[j] : j \in {k \in DOMAIN list : \A e \in end : k < e}} :
                  i \in InodesInUse \ {0}}

FsInit ==
  /\ directory_entries = [i \in 0..(NUM_DENTRIES - 1) |->
                            IF i < Len(ImageEntries) THEN ImageEntries[i + 1]
                            ELSE [file_name |-> "", file_type |-> FS_TYPE_RTC, inode_num |-> 0]]
  /\ num_dir_entries = Len(ImageEntries)
  /\ inodes = ImageInodes
  /\ data = ImageData
  /\ inode_bitmap = [i \in Inodes |-> i \in InodesInUse]
  /\ data_block_bitmap = [b \in Blocks |-> b \in BlocksInUse]
  /\ overrun = FALSE

-----------------------------------------------------------------------------
\* read_dentry_by_name: the first entry of that name, if there is one.
Matches(fname) == {i \in 0..(num_dir_entries - 1) : directory_entries[i].file_name = fname}
ReadDentryByName(fname) == directory_entries[Smallest(Matches(fname))]

\* read_dentry_by_index succeeds.
EntryAt(index) == index <= num_dir_entries - 1

\* The scans of claim_free_inode_block (which stops at the number of data
\* blocks) and claim_free_data_block; -1 if there is none.
ScanForInode == LET free == {i \in 0..(MAX_DATA_BLOCKS - 1) : ~inode_bitmap[i]}
                IN IF free = {} THEN -1 ELSE Smallest(free)
ScanForBlock == LET free == {b \in Blocks : ~data_block_bitmap[b]}
                IN IF free = {} THEN -1 ELSE Smallest(free)

-----------------------------------------------------------------------------
\* read_data and write_data start in the block of the offset; the k-th block
\* after it is the inode's k-th block, wherever the transfer started.
BlockOf(offset, k) == IF k = 0 THEN offset \div FS_BLK_SIZE ELSE k

\* The block and the cell in it of byte m of a transfer.
Place(inode, offset, m) ==
  LET cell == (offset % FS_BLK_SIZE) + m
  IN <<inode.data_blocks_idx[BlockOf(offset, cell \div FS_BLK_SIZE)], cell % FS_BLK_SIZE>>

ReadLength(i, offset, n) ==
  IF offset >= inodes[i].file_length THEN 0
  ELSE IF inodes[i].file_length < n + offset THEN inodes[i].file_length - offset ELSE n

\* The bytes read_data copies to the caller; their number is its result.
ReadData(i, offset, n) ==
  [m \in 1..ReadLength(i, offset, n) |->
     LET at == Place(inodes[i], offset, m - 1) IN data[at[1]][at[2]]]

\* The blocks write_data asks for: a file that ends at a block's end has
\* already claimed the next one.
BlocksClaimed(length) == length \div FS_BLK_SIZE + 1
BlockDiff(i, offset, n) ==
  LET length == inodes[i].file_length
  IN IF offset >= length /\ BlocksClaimed(length) < MAX_BLOCKS_IN_INODE
     THEN BlocksClaimed(offset + n) - BlocksClaimed(length) ELSE 0

\* The first n free blocks, as n calls of claim_free_data_block return them.
FreeBlocks == {b \in Blocks : ~data_block_bitmap[b]}
FirstBlocks(n) == {b \in FreeBlocks : Cardinality({c \in FreeBlocks : c < b}) < n}

\* Every block claimed is stored at the same index of the inode: the last
\* one stays there.
WithBlocks(i, claimed) ==
  LET inode == inodes[i]
  IN IF claimed = {} THEN inode
     ELSE [inode EXCEPT !.data_blocks_idx[BlocksClaimed(inode.file_length)] = Largest(claimed)]

\* The inode after a write has got its blocks.
Extended(i, offset, n) ==
  [WithBlocks(i, FirstBlocks(BlockDiff(i, offset, n))) EXCEPT
     !.file_length = IF offset >= @ THEN offset + n ELSE @]

\* data_blocks_idx[j] of inode i, for a negative j too: before the array lies
\* the inode's length, before that the end of the array of the inode before it.
Word(i, j) ==
  CASE j >= 0 -> inodes[i].data_blocks_idx[j]
    [] j = -1 -> inodes[i].file_length
    [] j < -1 -> inodes[i - 1].data_blocks_idx[MAX_BLOCKS_IN_INODE + 1 + j]

\* What is released when the claim of a further block fails: not the new
\* blocks, but as many words before them.
Unclaimed(i) ==
  {Word(i, BlocksClaimed(inodes[i].file_length) - r) : r \in 1..Cardinality(FreeBlocks)}

\* The data after a write of buf: of two bytes that go to one cell the later one stays.
Written(inode, offset, buf) ==
  [b \in Blocks |-> [c \in 0..(FS_BLK_SIZE - 1) |->
     LET here == {m \in 1..Len(buf) : Place(inode, offset, m - 1) = <<b, c>>}
     IN IF here = {} THEN data[b][c] ELSE buf[Largest(here)]]]

WriteSucceeds(i, offset, n) == BlockDiff(i, offset, n) <= Cardinality(FreeBlocks)

\* write_data with enough free blocks: Len(buf) is its result.
WriteData(i, offset, buf) ==
  LET n == Len(buf)
      inode == Extended(i, offset, n)
  IN /\ WriteSucceeds(i, offset, n)
     /\ inodes' = [inodes EXCEPT ![i] = inode]
     /\ data_block_bitmap' = [b \in Blocks |->
          data_block_bitmap[b] \/ b \in FirstBlocks(BlockDiff(i, offset, n))]
     /\ data' = Written(inode, offset, buf)
     /\ UNCHANGED overrun

\* write_data without: -1 is its result.  A word released that is no block's
\* number clears a byte of another variable; what the kernel does from then on
\* is not modelled (see Calls of Descriptors).
WriteFails(i, offset, n) ==
  /\ ~WriteSucceeds(i, offset, n)
  /\ inodes' = [inodes EXCEPT ![i] = WithBlocks(i, FreeBlocks)]
  /\ data_block_bitmap' = [b \in Blocks |-> b \notin Unclaimed(i)]
  /\ overrun' = ~(Unclaimed(i) \subseteq Blocks)
  /\ data' = data

-----------------------------------------------------------------------------
\* What a program would call the contents of inode i.
Contents(i) ==
  [m \in 1..inodes[i].file_length |->
     data[inodes[i].data_blocks_idx[(m - 1) \div FS_BLK_SIZE]][(m - 1) % FS_BLK_SIZE]]

\* The pairs of a file's inode and a block index below the end of that file.
FileInodes == {directory_entries[i].inode_num : i \in
                 {j \in 0..(num_dir_entries - 1) : directory_entries[j].file_type = FS_TYPE_FILE}}
Used == {u \in FileInodes \X (0..(MAX_BLOCKS_IN_INODE - 1)) :
           u[2] * FS_BLK_SIZE < inodes[u[1]].file_length}
=============================================================================
