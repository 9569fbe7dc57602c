--------------------------- MODULE ServicesFiles ----------------------------
(***************************************************************************)
(* Services implements Files.  A file's contents are what the blocks of    *)
(* its inode hold below its length; a handle is a descriptor that is       *)
(* present and has the operations of files.                                *)
(***************************************************************************)
EXTENDS Services

\* What a file holds from the start on depends on the image too: creating a
\* file writes no length to its inode (ClaimBlock), so that the inodes without
\* an entry have to be empty, as they are in filesys_img.
ASSUME FilesAssumption ==
  /\ \A k \in 1..Len(ImageEntries) : ImageEntries[k].file_name \in Names
  /\ \A n \in Inodes :
       /\ ImageInodes[n].file_length <= MAX_BLOCKS_IN_INODE * FS_BLK_SIZE
       /\ (\A k \in 1..Len(ImageEntries) : ImageEntries[k].inode_num # n)
            => ImageInodes[n].file_length = 0

FileEntries == {directory_entries[i] : i \in
                  {j \in Dentries : directory_entries[j].file_type = FS_TYPE_FILE}}

AbstractFiles ==
  [n \in {e.file_name : e \in FileEntries} |->
     Contents((CHOOSE e \in FileEntries : e.file_name = n).inode_num)]

NameOf(inode) == (CHOOSE e \in FileEntries : e.inode_num = inode).file_name

AbstractHandles ==
  [p \in Procs |-> [fd \in Fds |->
     IF Has(p, fd, "files")
     THEN [name |-> NameOf(file[p][fd].inode), position |-> file[p][fd].file_position]
     ELSE [name |-> NONE, position |-> 0]]]

Promised == INSTANCE Files WITH files <- AbstractFiles, handles <- AbstractHandles

\* What is written to a file is what is read from it, through every descriptor
\* of every process, and nothing else changes it.
ImplementsFiles == Promised!Spec
=============================================================================
