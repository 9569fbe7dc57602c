----------------------------- MODULE MCServices -----------------------------
(***************************************************************************)
(* The instances of Services: a disk image with a directory, the RTC and   *)
(* one file of two blocks, and what programs and devices do with it.       *)
(***************************************************************************)
EXTENDS ServicesFiles

MCNames == {".", "rtc", "a", "b", "c", "d"}

MCImageEntries ==
  << [file_name |-> ".",   file_type |-> FS_TYPE_DIR,  inode_num |-> 0],
     [file_name |-> "rtc", file_type |-> FS_TYPE_RTC,  inode_num |-> 0],
     [file_name |-> "a",   file_type |-> FS_TYPE_FILE, inode_num |-> 2] >>

\* "a" is 3 bytes long, in blocks 1 and 4.
MCImageInodes ==
  [i \in Inodes |->
     [file_length |-> IF i = 2 THEN 3 ELSE 0,
      data_blocks_idx |-> [j \in 0..(MAX_BLOCKS_IN_INODE - 1) |->
                             IF i # 2 THEN 0 ELSE IF j = 0 THEN 1 ELSE IF j = 1 THEN 4 ELSE 0]]]
MCImageData ==
  [b \in Blocks |-> [c \in 0..(FS_BLK_SIZE - 1) |-> IF b \in {1, 4} /\ c < 2 THEN c + 1 ELSE 0]]

MCBuffers == {<<1>>, <<2>>, <<2, 1>>, <<1, 2, 1>>, <<2, 2, 2, 1, 1, 1>>}
Work(opens, writes, runs) == [opens |-> opens, writes |-> writes, runs |-> runs]

\* Files, two of which leave too few blocks for the longest buffer.
FileWorkloads ==
  { Work({"a"}, {<<2, 1>>}, {1, 2, 3}),
    Work({"a"}, {<<1, 2, 1>>, <<2>>}, {1, 2}),
    Work({"a", "b"}, {<<1>>}, {1, 2}),
    Work({"b"}, {<<2, 1>>}, {1, 2, 3}),
    Work({"b"}, {<<1, 2, 1>>, <<2>>}, {1, 2}),
    Work({"b", "c"}, {<<1>>, <<2, 2, 2, 1, 1, 1>>}, {1, 2}),
    Work({"b", "c", "d"}, {}, {1, 2, 3}),
    Work({"b", "c", "d"}, {<<2, 1>>}, {1, 2}),
    Work({".", "b"}, {}, {1, 2, 3}) }

\* The devices.
DeviceWorkloads == {Work({"rtc"}, {}, {1, 2}), Work({"mouse"}, {}, {1, 2})}

MCWorkloads == FileWorkloads \cup DeviceWorkloads

\* Two processes that create a file each.
TwoFiles == {Work({"b", "c"}, {<<1>>}, {1, 2})}

MCIntMin == -8
MCFrequencies == {MCIntMin, -4, 0, 1, 3, 8}

MCPacket(xs, xm, ys, ym) ==
  [val |-> TRUE, x_overflow |-> FALSE, y_overflow |-> FALSE,
   x_sign_bit |-> xs, y_sign_bit |-> ys, x_movement |-> xm, y_movement |-> ym]
MCPackets ==
  {MCPacket(xs, xm, ys, ym) : xs \in BOOLEAN, xm \in {0, 3, 7}, ys \in BOOLEAN, ym \in {0, 2}}
    \cup {[MCPacket(FALSE, 7, FALSE, 2) EXCEPT !.val = FALSE],
          [MCPacket(TRUE, 0, FALSE, 2) EXCEPT !.x_overflow = TRUE]}
MCPlacements == {<<0, 1>>, <<3, 0>>, <<-1, 0>>, <<4, 1>>}
=============================================================================
