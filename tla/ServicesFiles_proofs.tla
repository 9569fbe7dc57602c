------------------------ MODULE ServicesFiles_proofs ------------------------
(***************************************************************************)
(* Proof that Services implements Files: a step of the system, seen        *)
(* through names and contents, is a step of Files or none.  It holds for   *)
(* every image, every number of processes and descriptors, whatever        *)
(* programs and devices do, provided no process makes a call while another *)
(* one creates a file and transfers are those that read_data and           *)
(* write_data find the right blocks for (Fits, InOneRun).                  *)
(*                                                                         *)
(* The proof goes from bytes to contents to handles: which cell of the     *)
(* disk a byte of a file is in; what a write makes of every byte of every  *)
(* file, and so of contents; what each system call makes of the directory, *)
(* the contents and the handles that Files has.                            *)
(***************************************************************************)
EXTENDS ServicesFiles, Services_proofs, SequenceTheorems, FiniteSetTheorems

USE SizesAssumption

-----------------------------------------------------------------------------
\* Where the bytes of a file are.

\* The byte x of a file whose inode is given.
ByteAt(inode, d, x) == d[inode.data_blocks_idx[x \div FS_BLK_SIZE]][x % FS_BLK_SIZE]

\* Two places in a file are the same if they are the same cell of the same block.
LEMMA SamePlace ==
  ASSUME NEW x \in Nat, NEW y \in Nat, x \div FS_BLK_SIZE = y \div FS_BLK_SIZE,
         x % FS_BLK_SIZE = y % FS_BLK_SIZE
  PROVE  x = y
<1> DEFINE b == FS_BLK_SIZE
<1>1. x = b * (x \div b) + (x % b) /\ y = b * (y \div b) + (y % b)
  BY Quotient
<1> QED
  BY <1>1

\* A later byte lies in the same block of its file or in a later one.
LEMMA BlockGrows ==
  ASSUME NEW x \in Nat, NEW y \in Nat, x <= y
  PROVE  /\ x \div FS_BLK_SIZE \in Nat /\ y \div FS_BLK_SIZE \in Nat
         /\ x \div FS_BLK_SIZE <= y \div FS_BLK_SIZE
<1> DEFINE b == FS_BLK_SIZE
           d == x \div b
           e == y \div b
           r == x % b
           s == y % b
<1>1. /\ d \in Int /\ e \in Int /\ r \in 0..(b - 1) /\ s \in 0..(b - 1)
      /\ x = b * d + r /\ y = b * e + s
  BY Quotient
<1> HIDE DEF d, e, r, s
<1>2. x = b * d + r /\ y = b * e + s
  BY <1>1
<1>3. ASSUME NEW c \in Int, NEW f \in Int, NEW t \in 0..(b - 1), c <= -1, f = b * c + t
      PROVE  f < 0
  <2>1. b * (-1) >= b * c
    BY <1>3, TimesGrows
  <2> QED
    BY <1>3, <2>1
<1>4. d >= 0 /\ e >= 0
  BY <1>1, <1>2, <1>3
<1>5. ~(d >= e + 1)
  <2>1. d >= e + 1 => b * d >= b * (e + 1)
    BY <1>1, TimesGrows
  <2>2. b * (e + 1) = b * e + b
    BY <1>1
  <2>3. b * d \in Int /\ b * e \in Int
    BY <1>1
  <2> QED
    BY <1>1, <2>1, <2>2, <2>3
<1>6. d \in Nat /\ e \in Nat /\ d <= e
  BY <1>1, <1>4, <1>5
<1> QED
  BY <1>6 DEF d, e

\* The blocks of what lies within an inode's reach.
LEMMA BlockInInode ==
  ASSUME NEW x \in Nat, x < MAX_BLOCKS_IN_INODE * FS_BLK_SIZE
  PROVE  x \div FS_BLK_SIZE \in 0..(MAX_BLOCKS_IN_INODE - 1)
<1> DEFINE b == FS_BLK_SIZE
           m == MAX_BLOCKS_IN_INODE
           d == x \div b
           r == x % b
<1>1. d \in Nat
  BY BlockGrows
<1>2. r \in 0..(b - 1) /\ x = b * d + r
  BY Quotient
<1> HIDE DEF d, r
<1>3. ~(d >= m)
  <2>1. d >= m => b * d >= b * m
    BY <1>1, TimesGrows
  <2>2. b * m = m * b
    OBVIOUS
  <2>3. x >= b * d
    BY <1>1, <1>2
  <2>4. b * d \in Int /\ b * m \in Int
    BY <1>1
  <2> QED
    BY <2>1, <2>2, <2>3, <2>4
<1> QED
  BY <1>1, <1>3 DEF d

\* A transfer in the regime of InOneRun goes where the bytes of the file are.
LEMMA PlaceInRun ==
  ASSUME NEW inode, NEW offset \in Nat, NEW n \in Nat, NEW m \in 0..(n - 1), InOneRun(offset, n)
  PROVE  Place(inode, offset, m) = <<inode.data_blocks_idx[(offset + m) \div FS_BLK_SIZE],
                                     (offset + m) % FS_BLK_SIZE>>
<1> DEFINE b == FS_BLK_SIZE
           q == offset \div b
           cell == (offset % b) + m
           k == cell \div b
           c == cell % b
<1>1. /\ q \in Nat /\ offset % b \in 0..(b - 1) /\ offset = b * q + (offset % b)
  BY Quotient, BlockGrows
<1>2. cell \in Nat /\ offset + m = b * q + cell
  <2>1. b * q \in Nat /\ offset % b \in Nat
    BY <1>1
  <2>2. \A s, r \in Nat : offset = s + r => r + m \in Nat /\ offset + m = s + (r + m)
    OBVIOUS
  <2> HIDE DEF b, q
  <2> QED
    BY <1>1, <2>1, <2>2, Zenon
<1>a. offset % b <= cell
  BY <1>1
<1> HIDE DEF cell
<1>3. /\ k \in Nat /\ c \in 0..(b - 1) /\ cell = b * k + c
  <2>1. cell \in Nat /\ cell \in Int /\ cell <= cell
    BY <1>2
  <2>2. k \in Nat
    BY <2>1, BlockGrows
  <2>3. c \in 0..(b - 1) /\ cell = b * k + c
    BY <2>1, Quotient
  <2> QED
    BY <2>2, <2>3
<1> HIDE DEF k, c
<1>4. offset + m = b * (q + k) + c
  <2>1. b * (q + k) = b * q + b * k
    BY <1>1, <1>3
  <2>2. b * q \in Nat /\ b * k \in Nat
    BY <1>1, <1>3
  <2> HIDE DEF q
  <2> QED
    BY <1>2, <1>3, <2>1, <2>2
<1>5. (offset + m) \div b = q + k
  <2> DEFINE x == offset + m
             s == q + k
  <2>1. x \in Int /\ s \in Int /\ b \in Nat \ {0}
    BY <1>1, <1>3
  <2>2. x = b * s + c
    BY <1>4
  <2> HIDE DEF q, x, s
  <2>3. x \div b = s
    BY <1>3, <2>1, <2>2, QuotientUnique, Zenon
  <2> QED
    BY <2>3 DEF x, s
<1>6. (offset + m) % b = c
  <2> DEFINE x == offset + m
             r == x % b
  <2>1. x \in Int
    OBVIOUS
  <2>2. r \in Int /\ x = b * (x \div b) + r
    BY <2>1, Quotient
  <2>3. x = b * (q + k) + r
    BY <1>5, <2>2
  <2>4. b * (q + k) \in Int
    BY <1>1, <1>3
  <2> HIDE DEF q, r
  <2> QED
    BY <1>3, <1>4, <2>2, <2>3, <2>4 DEF r
<1>7. k # 0 => q = 0
  <2>1. CASE offset < b
    <3>1. offset = b * 0 + offset /\ offset \in 0..(b - 1)
      BY <2>1
    <3> QED
      BY <3>1, QuotientUnique
  <2>2. CASE q = (offset + n - 1) \div b
    <3> DEFINE e == (offset + n) - 1
    <3>1. e \in Nat /\ offset + m <= e /\ (offset + n - 1) = e
      OBVIOUS
    <3>2. (offset + m) \div b <= e \div b /\ e \div b = q
      BY <2>2, <3>1, BlockGrows
    <3> HIDE DEF q
    <3>3. q + k <= q
      BY <1>5, <3>2
    <3> QED
      BY <1>1, <1>3, <3>3
  <2> QED
    BY <2>1, <2>2 DEF InOneRun
<1>8. BlockOf(offset, k) = q + k
  <2>1. CASE k = 0
    <3> HIDE DEF q
    <3>1. q + k = q
      BY <1>1, <2>1
    <3> QED
      BY <2>1, <3>1 DEF BlockOf, q
  <2>2. CASE k # 0
    <3>1. q = 0
      BY <1>7, <2>2
    <3> HIDE DEF q
    <3>2. q + k = k
      BY <1>3, <3>1
    <3> QED
      BY <2>2, <3>2 DEF BlockOf
  <2> QED
    BY <2>1, <2>2
<1>9. Place(inode, offset, m) = <<inode.data_blocks_idx[BlockOf(offset, k)], c>>
  BY DEF Place, k, c, cell
<1> QED
  BY <1>5, <1>6, <1>8, <1>9

-----------------------------------------------------------------------------
\* The bytes of an inode, and what a write does to each.

DataBlocks == [Blocks -> [0..(FS_BLK_SIZE - 1) -> Bytes]]
Reach == MAX_BLOCKS_IN_INODE * FS_BLK_SIZE

\* The contents of an inode with blocks d.
Content(inode, d) == [m \in 1..inode.file_length |-> ByteAt(inode, d, m - 1)]

\* Contents as a function of the inode and the blocks, before and after a step.
LEMMA ContentsOf ==
  ASSUME NEW i
  PROVE  Contents(i) = Content(inodes[i], data) /\ Contents(i)' = Content(inodes'[i], data')
BY DEF Contents, Content, ByteAt

\* A byte within reach has a block and a cell.
LEMMA ByteType ==
  ASSUME NEW inode \in InodeRecords, NEW d \in DataBlocks, NEW x \in Nat, x < Reach
  PROVE  /\ x \div FS_BLK_SIZE \in 0..(MAX_BLOCKS_IN_INODE - 1)
         /\ x % FS_BLK_SIZE \in 0..(FS_BLK_SIZE - 1)
         /\ inode.data_blocks_idx[x \div FS_BLK_SIZE] \in Blocks
         /\ ByteAt(inode, d, x) \in Bytes
<1>1. x \div FS_BLK_SIZE \in 0..(MAX_BLOCKS_IN_INODE - 1)
  BY BlockInInode DEF Reach
<1>2. x % FS_BLK_SIZE \in 0..(FS_BLK_SIZE - 1)
  BY Quotient
<1> DEFINE j == x \div FS_BLK_SIZE
           c == x % FS_BLK_SIZE
<1> HIDE DEF j, c
<1>3. j \in 0..(MAX_BLOCKS_IN_INODE - 1) /\ c \in 0..(FS_BLK_SIZE - 1)
  BY <1>1, <1>2 DEF j, c
<1>4. inode.data_blocks_idx[j] \in Blocks
  BY <1>3 DEF InodeRecords
<1>5. d[inode.data_blocks_idx[j]][c] \in Bytes
  BY <1>3, <1>4 DEF DataBlocks
<1> QED
  BY <1>1, <1>2, <1>4, <1>5 DEF ByteAt, j, c

\* What an inode holds is as many bytes as it is long.
LEMMA ContentType ==
  ASSUME NEW inode \in InodeRecords, NEW d \in DataBlocks, inode.file_length <= Reach
  PROVE  /\ Content(inode, d) \in Seq(Bytes)
         /\ Len(Content(inode, d)) = inode.file_length
         /\ \A x \in 1..inode.file_length : Content(inode, d)[x] = ByteAt(inode, d, x - 1)
<1>1. inode.file_length \in Nat
  BY DEF InodeRecords
<1>2. Reach \in Nat
  BY DEF Reach
<1>3. ASSUME NEW m \in 1..inode.file_length PROVE ByteAt(inode, d, m - 1) \in Bytes
  <2>1. m - 1 \in Nat /\ m - 1 < Reach
    BY <1>1, <1>2
  <2> QED
    BY <2>1, ByteType
<1>4. Content(inode, d) \in [1..inode.file_length -> Bytes]
  BY <1>3 DEF Content
<1>5. Content(inode, d) \in Seq(Bytes)
  BY <1>1, <1>4
<1>6. Len(Content(inode, d)) = inode.file_length
  BY <1>1, <1>5 DEF Content
<1> QED
  BY <1>5, <1>6 DEF Content

\* Contents are equal if they are byte by byte.
LEMMA ContentSame ==
  ASSUME NEW a \in InodeRecords, NEW b, NEW d, NEW e, a.file_length = b.file_length,
         \A x \in Nat : x < a.file_length => ByteAt(a, d, x) = ByteAt(b, e, x)
  PROVE  Content(a, d) = Content(b, e)
<1>1. a.file_length \in Nat
  BY DEF InodeRecords
<1>2. ASSUME NEW m \in 1..a.file_length PROVE ByteAt(a, d, m - 1) = ByteAt(b, e, m - 1)
  <2>1. m - 1 \in Nat /\ m - 1 < a.file_length
    BY <1>1
  <2> QED
    BY <2>1, Zenon
<1> QED
  BY <1>2 DEF Content

\* The places that a write may disturb: those of files, and its own.
Disturbed(i, offset, n) == Used \cup ({i} \X Touched(offset, n))

\* The byte x of inode k, which now is h, after n bytes of buf have been
\* written to inode i, which now is ext, from offset on.
IsWritten(h, k, x, i, ext, offset, buf, n) ==
  ByteAt(h, Written(ext, offset, buf), x) =
    IF k = i /\ offset <= x /\ x < offset + n THEN buf[x - offset + 1] ELSE ByteAt(h, data, x)

\* What write_data does to the byte x of inode k when it writes buf to inode i,
\* which then is ext, in blocks of its own.
LEMMA WrittenByte ==
  ASSUME data \in DataBlocks, inodes \in [Inodes -> InodeRecords],
         NEW i \in Inodes, NEW ext \in InodeRecords, NEW offset \in Nat,
         NEW buf \in Seq(Bytes), NEW n \in Nat, n = Len(buf),
         InOneRun(offset, n), OwnBlocks(i, ext, Touched(offset, n)),
         NEW k \in Inodes, NEW x \in Nat, x < Reach,
         <<k, x \div FS_BLK_SIZE>> \in Disturbed(i, offset, n),
         NEW h, h = IF k = i THEN ext ELSE inodes[k]
  PROVE  IsWritten(h, k, x, i, ext, offset, buf, n)
<1> DEFINE b == FS_BLK_SIZE
           J(m) == (offset + (m - 1)) \div b
           blk == h.data_blocks_idx[x \div b]
           c == x % b
           here == {m \in 1..Len(buf) : Place(ext, offset, m - 1) = <<blk, c>>}
<1>1. h \in InodeRecords
  OBVIOUS
<1>2. blk \in Blocks /\ c \in 0..(b - 1)
  BY <1>1, ByteType
<1>3. ByteAt(h, Written(ext, offset, buf), x) = IF here = {} THEN data[blk][c] ELSE buf[Largest(here)]
  <2>1. ByteAt(h, Written(ext, offset, buf), x) = Written(ext, offset, buf)[blk][c]
    BY DEF ByteAt
  <2> HIDE DEF blk, c
  <2> QED
    BY <1>2, <2>1 DEF Written
<1>4. \A m \in 1..n : /\ J(m) \in Touched(offset, n)
                      /\ Place(ext, offset, m - 1) =
                           <<ext.data_blocks_idx[J(m)], (offset + (m - 1)) % b>>
  <2> SUFFICES ASSUME NEW m \in 1..n
               PROVE  /\ J(m) \in Touched(offset, n)
                      /\ Place(ext, offset, m - 1) =
                           <<ext.data_blocks_idx[J(m)], (offset + (m - 1)) % b>>
    OBVIOUS
  <2>1. m - 1 \in 0..(n - 1)
    OBVIOUS
  <2>2. Place(ext, offset, m - 1) = <<ext.data_blocks_idx[J(m)], (offset + (m - 1)) % b>>
    BY <2>1, PlaceInRun
  <2> DEFINE y == offset + (m - 1)
             z == offset + n - 1
  <2>3. y \in Nat /\ z \in Nat /\ offset <= y /\ y <= z
    OBVIOUS
  <2>4. /\ offset \div b \in Nat /\ y \div b \in Nat /\ z \div b \in Nat
        /\ offset \div b <= y \div b /\ y \div b <= z \div b
    BY <2>3, BlockGrows
  <2>5. Touched(offset, n) = (offset \div b)..(z \div b)
    BY DEF Touched
  <2> HIDE DEF y, z
  <2>6. y \div b \in Touched(offset, n)
    BY <2>4, <2>5
  <2> QED
    BY <2>2, <2>6 DEF y
<1>5. \A m \in 1..n : m \in here <=> k = i /\ x = offset + (m - 1)
  <2> SUFFICES ASSUME NEW m \in 1..n
               PROVE  m \in here <=> k = i /\ x = offset + (m - 1)
    OBVIOUS
  <2>1. m \in here <=> ext.data_blocks_idx[J(m)] = blk /\ (offset + (m - 1)) % b = c
    BY <1>4
  <2>2. ASSUME ext.data_blocks_idx[J(m)] = blk, (offset + (m - 1)) % b = c
        PROVE  k = i /\ x = offset + (m - 1)
    <3> DEFINE u == <<k, x \div b>>
               j == J(m)
    <3>1. u \in Used \cup ({i} \X Touched(offset, n)) /\ j \in Touched(offset, n)
      BY <1>4 DEF Disturbed
    <3>2. LET holder == IF u[1] = i THEN ext ELSE inodes[u[1]]
          IN holder.data_blocks_idx[u[2]] = ext.data_blocks_idx[j] => u = <<i, j>>
      <4> HIDE DEF u, j
      <4> QED
        BY <3>1 DEF OwnBlocks
    <3>3. u[1] = k /\ u[2] = x \div b
      OBVIOUS
    <3>4. u = <<i, j>>
      <4> HIDE DEF j
      <4> QED
        BY <2>2, <3>2, <3>3 DEF j
    <3>5. k = i /\ x \div b = J(m)
      BY <3>4
    <3>6. offset + (m - 1) \in Nat
      OBVIOUS
    <3> QED
      BY <2>2, <3>5, <3>6, SamePlace
  <2>3. ASSUME k = i, x = offset + (m - 1)
        PROVE  ext.data_blocks_idx[J(m)] = blk /\ (offset + (m - 1)) % b = c
    BY <2>3
  <2> QED
    BY <2>1, <2>2, <2>3
<1>6. here \subseteq 1..n
  OBVIOUS
<1>7. CASE k = i /\ offset <= x /\ x < offset + n
  <2> DEFINE a == x - offset + 1
  <2>1. a \in 1..n /\ \A m \in 1..n : x = offset + (m - 1) <=> m = a
    BY <1>7
  <2>2. here = {a}
    <3> HIDE DEF here, a
    <3> QED
      BY <1>5, <1>6, <1>7, <2>1
  <2> HIDE DEF here, a
  <2>3. Largest({a}) = a
    BY <2>1 DEF Largest
  <2> QED
    BY <1>3, <1>7, <2>2, <2>3 DEF a, IsWritten
<1>8. CASE ~(k = i /\ offset <= x /\ x < offset + n)
  <2>1. ~(k = i /\ \E m \in 1..n : x = offset + (m - 1))
    BY <1>8
  <2>2. here = {}
    <3> HIDE DEF here
    <3> QED
      BY <1>5, <1>6, <2>1
  <2>3. ByteAt(h, data, x) = data[blk][c]
    BY DEF ByteAt
  <2> HIDE DEF here, blk, c
  <2> QED
    BY <1>3, <1>8, <2>2, <2>3 DEF IsWritten
<1> QED
  BY <1>7, <1>8

-----------------------------------------------------------------------------
\* Sequences in a row, and an inode that is extended.

\* Three sequences in a row, of lengths p, n and k.
IsJoined(r, S, a, b, z, p, n, k) ==
  /\ r \in Seq(S)
  /\ Len(r) = p + n + k
  /\ \A x \in 1..(p + n + k) :
       r[x] = IF x <= p THEN a[x] ELSE IF x <= p + n THEN b[x - p] ELSE z[x - (p + n)]

\* What is in three sequences in a row.
LEMMA Joined ==
  ASSUME NEW S, NEW a \in Seq(S), NEW b \in Seq(S), NEW z \in Seq(S),
         NEW p \in Nat, p = Len(a), NEW n \in Nat, n = Len(b), NEW k \in Nat, k = Len(z),
         NEW r, r = a \o b \o z
  PROVE  IsJoined(r, S, a, b, z, p, n, k)
<1> DEFINE ab == a \o b
<1>1. /\ ab \in Seq(S) /\ Len(ab) = p + n
      /\ \A x \in 1..(p + n) : ab[x] = IF x <= p THEN a[x] ELSE b[x - p]
  BY ConcatProperties
<1> HIDE DEF ab
<1>2. /\ ab \o z \in Seq(S) /\ Len(ab \o z) = Len(ab) + Len(z)
      /\ \A x \in 1..(Len(ab) + Len(z)) :
           (ab \o z)[x] = IF x <= Len(ab) THEN ab[x] ELSE z[x - Len(ab)]
  BY <1>1, ConcatProperties
<1>r. r = ab \o z
  BY DEF ab
<1>3. /\ r \in Seq(S) /\ Len(r) = (p + n) + k
      /\ \A x \in 1..((p + n) + k) : r[x] = IF x <= p + n THEN ab[x] ELSE z[x - (p + n)]
  BY <1>1, <1>2, <1>r
<1>4. ASSUME NEW x \in 1..(p + n + k)
      PROVE  r[x] = IF x <= p THEN a[x] ELSE IF x <= p + n THEN b[x - p] ELSE z[x - (p + n)]
  <2>1. x <= p + n => x \in 1..(p + n)
    OBVIOUS
  <2>2. r[x] = IF x <= p + n THEN ab[x] ELSE z[x - (p + n)]
    BY <1>3
  <2>3. x <= p => x <= p + n
    OBVIOUS
  <2> QED
    BY <1>1, <2>1, <2>2, <2>3
<1> QED
  BY <1>3, <1>4 DEF IsJoined

\* r is c, of length l, with the n bytes of buf put in at position from.
IsSplice(r, S, c, l, buf, n, from) ==
  /\ r \in Seq(S)
  /\ Len(r) = IF from >= l THEN from + n ELSE l
  /\ \A x \in 1..Len(r) : r[x] = IF from < x /\ x <= from + n THEN buf[x - from] ELSE c[x]

\* The sequence that Files writes, element by element.
LEMMA Splice ==
  ASSUME NEW S, NEW c \in Seq(S), NEW buf \in Seq(S), NEW from \in Nat, NEW l \in Nat,
         NEW n \in Nat, l = Len(c), n = Len(buf), from <= l, from < l => from + n <= l,
         NEW r, r = SubSeq(c, 1, from) \o buf \o SubSeq(c, from + n + 1, l)
  PROVE  IsSplice(r, S, c, l, buf, n, from)
<1> DEFINE a == SubSeq(c, 1, from)
           z == SubSeq(c, from + n + 1, l)
           k == IF from + n + 1 <= l THEN l - (from + n) ELSE 0
<1>1. a \in Seq(S) /\ Len(a) = from /\ \A x \in 1..from : a[x] = c[x]
  <2>1. \A x \in 1..from : c[x] \in S
    OBVIOUS
  <2>2. /\ Len(a) = IF 1 <= from THEN from - 1 + 1 ELSE 0
        /\ \A x \in 1..from : a[x] = c[1 + x - 1]
    OBVIOUS
  <2>3. a \in Seq(S)
    BY <2>1, SubSeqProperties
  <2> QED
    BY <2>2, <2>3
<1>2. z \in Seq(S) /\ Len(z) = k /\ \A x \in 1..k : z[x] = c[from + n + x]
  <2>1. \A x \in from + n + 1 .. l : c[x] \in S
    OBVIOUS
  <2>2. z \in Seq(S)
    BY <2>1, SubSeqProperties
  <2>3. /\ Len(z) = k
        /\ \A x \in 1..k : z[x] = c[from + n + x]
    OBVIOUS
  <2> QED
    BY <2>2, <2>3
<1>3. k \in Nat /\ from + n + k = IF from >= l THEN from + n ELSE l
  BY ONLY l \in Nat, from \in Nat, n \in Nat, from <= l, from < l => from + n <= l
<1>r. r = a \o buf \o z
  OBVIOUS
<1> HIDE DEF a, z, k
<1>4. /\ r \in Seq(S) /\ Len(r) = from + n + k
      /\ \A x \in 1..(from + n + k) :
           r[x] = IF x <= from THEN a[x] ELSE IF x <= from + n THEN buf[x - from]
                  ELSE z[x - (from + n)]
  <2>1. from = Len(a) /\ k = Len(z)
    BY <1>1, <1>2
  <2>2. IsJoined(r, S, a, buf, z, from, n, k)
    BY <1>1, <1>2, <1>3, <1>r, <2>1, Joined, Zenon
  <2> QED
    BY ONLY <2>2 DEF IsJoined
<1>5. ASSUME NEW x \in 1..(from + n + k)
      PROVE  r[x] = IF from < x /\ x <= from + n THEN buf[x - from] ELSE c[x]
  <2>0. r[x] = IF x <= from THEN a[x] ELSE IF x <= from + n THEN buf[x - from]
               ELSE z[x - (from + n)]
    BY <1>4
  <2>1. x <= from => a[x] = c[x]
    BY <1>1
  <2>2. ASSUME ~(x <= from + n)
        PROVE  z[x - (from + n)] = c[x]
    <3> DEFINE y == x - (from + n)
    <3>1. y \in 1..k /\ from + n + y = x
      BY <1>3, <2>2
    <3> HIDE DEF y
    <3>2. z[y] = c[x]
      BY <1>2, <3>1
    <3> QED
      BY <3>2 DEF y
  <2>3. x <= from => x <= from + n
    OBVIOUS
  <2>4. x <= from <=> ~(from < x)
    OBVIOUS
  <2> QED
    BY ONLY <2>0, <2>1, <2>2, <2>3, <2>4, Zenon
<1> QED
  BY ONLY <1>3, <1>4, <1>5 DEF IsSplice

\* Claiming blocks leaves those that hold the file.
LEMMA WithBlocksFacts ==
  ASSUME DiskTypes, NEW i \in Inodes, NEW claimed, inodes[i].file_length <= Reach
  PROVE  /\ WithBlocks(i, claimed).file_length = inodes[i].file_length
         /\ \A x \in Nat : x < inodes[i].file_length =>
              WithBlocks(i, claimed).data_blocks_idx[x \div FS_BLK_SIZE] =
                inodes[i].data_blocks_idx[x \div FS_BLK_SIZE]
<1> DEFINE inode == inodes[i]
           len == inode.file_length
           at == BlocksClaimed(len)
           w == WithBlocks(i, claimed)
<1>1. inode \in InodeRecords /\ len \in Nat
  BY DEF DiskTypes, InodeRecords
<1>2. CASE claimed = {}
  BY <1>2 DEF WithBlocks
<1>3. CASE claimed # {}
  <2>1. w = [inode EXCEPT !.data_blocks_idx[at] = Largest(claimed)]
    BY <1>3 DEF WithBlocks
  <2>2. ASSUME NEW x \in Nat, x < len
        PROVE  /\ x \div FS_BLK_SIZE \in 0..(MAX_BLOCKS_IN_INODE - 1)
               /\ x \div FS_BLK_SIZE # at
    <3>1. x < Reach /\ x <= len
      BY <1>1, <2>2 DEF Reach
    <3>2. x \div FS_BLK_SIZE \in 0..(MAX_BLOCKS_IN_INODE - 1)
      BY <3>1, BlockInInode DEF Reach
    <3>3. x \div FS_BLK_SIZE <= len \div FS_BLK_SIZE /\ len \div FS_BLK_SIZE \in Nat
      BY <1>1, <3>1, BlockGrows
    <3> QED
      BY <3>2, <3>3 DEF BlocksClaimed
  <2> HIDE DEF at, w, inode
  <2>3. w.file_length = len
    BY <1>1, <2>1 DEF InodeRecords
  <2>4. w.data_blocks_idx = [inode.data_blocks_idx EXCEPT ![at] = Largest(claimed)]
    BY <1>1, <2>1 DEF InodeRecords
  <2>5. inode.data_blocks_idx \in [0..(MAX_BLOCKS_IN_INODE - 1) -> Blocks]
    BY <1>1 DEF InodeRecords
  <2>6. ASSUME NEW x \in Nat, x < len
        PROVE  w.data_blocks_idx[x \div FS_BLK_SIZE] = inode.data_blocks_idx[x \div FS_BLK_SIZE]
    BY <2>2, <2>4, <2>5, <2>6
  <2> QED
    BY <2>3, <2>6 DEF w, inode
<1> QED
  BY <1>2, <1>3

\* What becomes of inode i when it is extended: only its length and a block
\* behind its end may change.
IsExtended(i, offset, n) ==
  /\ Extended(i, offset, n).file_length =
       IF offset >= inodes[i].file_length THEN offset + n ELSE inodes[i].file_length
  /\ \A x \in Nat : x < inodes[i].file_length =>
       Extended(i, offset, n).data_blocks_idx[x \div FS_BLK_SIZE] =
         inodes[i].data_blocks_idx[x \div FS_BLK_SIZE]

\* The inode that write_data leaves.
LEMMA ExtendedFacts ==
  ASSUME DiskTypes, NEW i \in Inodes, NEW offset \in Nat, NEW n \in Nat,
         inodes[i].file_length <= Reach
  PROVE  IsExtended(i, offset, n)
<1> DEFINE claimed == FirstBlocks(BlockDiff(i, offset, n))
           w == WithBlocks(i, claimed)
<1>1. /\ w.file_length = inodes[i].file_length
      /\ \A x \in Nat : x < inodes[i].file_length =>
           w.data_blocks_idx[x \div FS_BLK_SIZE] = inodes[i].data_blocks_idx[x \div FS_BLK_SIZE]
  BY WithBlocksFacts
<1>2. Extended(i, offset, n) = [w EXCEPT !.file_length = IF offset >= @ THEN offset + n ELSE @]
  BY DEF Extended
<1>3. \E f : w = [inodes[i] EXCEPT !.data_blocks_idx = f]
  <2>1. inodes[i] \in InodeRecords
    BY DEF DiskTypes
  <2> HIDE DEF claimed
  <2>2. CASE claimed = {}
    <3>1. w = inodes[i]
      BY <2>2 DEF WithBlocks
    <3>2. inodes[i] = [inodes[i] EXCEPT !.data_blocks_idx = inodes[i].data_blocks_idx]
      BY <2>1 DEF InodeRecords
    <3> QED
      BY <3>1, <3>2
  <2>3. CASE claimed # {}
    <3> DEFINE at == BlocksClaimed(inodes[i].file_length)
    <3>1. w = [inodes[i] EXCEPT !.data_blocks_idx[at] = Largest(claimed)]
      BY <2>3 DEF WithBlocks
    <3> HIDE DEF at
    <3>2. w = [inodes[i] EXCEPT !.data_blocks_idx =
                 [inodes[i].data_blocks_idx EXCEPT ![at] = Largest(claimed)]]
      BY <3>1
    <3> QED
      BY <3>2
  <2> QED
    BY <2>2, <2>3
<1>4. PICK f : w = [inodes[i] EXCEPT !.data_blocks_idx = f]
  BY <1>3
<1>5. inodes[i] \in InodeRecords
  BY DEF DiskTypes
<1> HIDE DEF w
<1>6. /\ Extended(i, offset, n).file_length =
           IF offset >= w.file_length THEN offset + n ELSE w.file_length
      /\ Extended(i, offset, n).data_blocks_idx = w.data_blocks_idx
  BY <1>2, <1>4, <1>5 DEF InodeRecords
<1> QED
  BY <1>1, <1>6 DEF IsExtended

-----------------------------------------------------------------------------
\* What write_data and read_data do to contents.

\* The block of a byte of a file is one that the file uses.
LEMMA UsedByte ==
  ASSUME DiskTypes, NEW k \in FileInodes, k \in Inodes, inodes[k].file_length <= Reach,
         NEW x \in Nat, x < inodes[k].file_length
  PROVE  x < Reach /\ <<k, x \div FS_BLK_SIZE>> \in Used
<1>1. inodes[k].file_length \in Nat /\ Reach \in Nat
  BY DEF DiskTypes, InodeRecords, Reach
<1>2. x < Reach
  BY <1>1
<1> DEFINE j == x \div FS_BLK_SIZE
           r == x % FS_BLK_SIZE
<1>3. j \in 0..(MAX_BLOCKS_IN_INODE - 1)
  BY <1>2, BlockInInode DEF Reach
<1>4. r \in 0..(FS_BLK_SIZE - 1) /\ x = FS_BLK_SIZE * j + r
  BY Quotient
<1> HIDE DEF j, r
<1>5. j * FS_BLK_SIZE < inodes[k].file_length
  <2>1. j * FS_BLK_SIZE = FS_BLK_SIZE * j /\ FS_BLK_SIZE * j \in Int
    BY <1>3
  <2> QED
    BY <1>1, <1>4, <2>1
<1>6. <<k, j>> \in Used
  BY <1>3, <1>5 DEF Used
<1> QED
  BY <1>2, <1>6 DEF j

\* A write puts its bytes where the position is, and into no other file.
LEMMA WriteContents ==
  ASSUME DiskTypes, DiskTypes', FileInodes \subseteq Inodes, NEW i \in FileInodes,
         \A k \in Inodes : inodes[k].file_length <= Reach,
         NEW offset \in Nat, offset <= inodes[i].file_length,
         NEW buf \in Seq(Bytes), NEW n \in Nat \ {0}, n = Len(buf), offset + n <= Reach,
         Fits(i, offset, n), WriteData(i, offset, buf)
  PROVE  /\ \A k \in FileInodes : k # i => Contents(k)' = Contents(k)
         /\ Contents(i)' = SubSeq(Contents(i), 1, offset) \o buf
                             \o SubSeq(Contents(i), offset + n + 1, inodes[i].file_length)
         /\ inodes'[i].file_length =
              IF offset >= inodes[i].file_length THEN offset + n ELSE inodes[i].file_length
<1> DEFINE len == inodes[i].file_length
           ext == Extended(i, offset, n)
           H(k) == IF k = i THEN ext ELSE inodes[k]
<1>1. /\ inodes' = [inodes EXCEPT ![i] = ext] /\ data' = Written(ext, offset, buf)
      /\ WriteSucceeds(i, offset, n)
  BY DEF WriteData
<1>2. /\ data \in DataBlocks /\ data' \in DataBlocks
      /\ inodes \in [Inodes -> InodeRecords] /\ inodes' \in [Inodes -> InodeRecords]
      /\ i \in Inodes /\ len \in Nat /\ Reach \in Nat /\ len <= Reach
  BY DEF DiskTypes, DataBlocks, InodeRecords, Reach
<1>3. /\ ext.file_length = IF offset >= len THEN offset + n ELSE len
      /\ \A x \in Nat : x < len =>
           ext.data_blocks_idx[x \div FS_BLK_SIZE] = inodes[i].data_blocks_idx[x \div FS_BLK_SIZE]
  <2>1. n \in Nat /\ i \in Inodes /\ inodes[i].file_length <= Reach
    BY <1>2
  <2>2. IsExtended(i, offset, n)
    BY <2>1, ExtendedFacts, Zenon
  <2> QED
    BY <2>2 DEF IsExtended
<1>4. InOneRun(offset, n) /\ OwnBlocks(i, ext, Touched(offset, n))
      /\ (offset < len => offset + n <= len)
  BY <1>1 DEF Fits
<1> HIDE DEF ext
<1>5. /\ inodes'[i] = ext /\ ext \in InodeRecords
      /\ \A k \in Inodes : inodes'[k] = H(k)
  BY <1>1, <1>2
<1>6. ext.file_length \in Nat /\ ext.file_length <= Reach
  <2>1. offset + n \in Nat /\ offset + n <= Reach
    OBVIOUS
  <2>2. ext.file_length = offset + n \/ ext.file_length = len
    BY <1>3
  <2> QED
    BY <1>2, <2>1, <2>2
<1>a. /\ offset <= len /\ ext.file_length = IF offset >= len THEN offset + n ELSE len
  BY <1>3
<1> HIDE DEF len
\* The bytes of the files.
<1>7. ASSUME NEW k \in FileInodes, NEW x \in Nat, x < H(k).file_length
      PROVE  ByteAt(inodes'[k], data', x) =
               IF k = i /\ offset <= x /\ x < offset + n THEN buf[x - offset + 1]
               ELSE ByteAt(inodes[k], data, x)
  <2> DEFINE h == H(k)
  <2>1. k \in Inodes /\ inodes'[k] = h
    BY <1>5
  <2>2. x < Reach
    <3>1. CASE k = i
      BY <1>2, <1>6, <1>7, <3>1
    <3>2. CASE k # i
      BY <1>7, <2>1, <3>2, UsedByte
    <3> QED
      BY <3>1, <3>2
  <2>3. <<k, x \div FS_BLK_SIZE>> \in Disturbed(i, offset, n)
    <3>1. CASE k = i /\ offset <= x /\ x < offset + n
      <4> DEFINE z == offset + n - 1
      <4>1. z \in Nat /\ x <= z /\ offset <= x
        BY <3>1
      <4>2. /\ offset \div FS_BLK_SIZE \in Nat /\ x \div FS_BLK_SIZE \in Nat
            /\ z \div FS_BLK_SIZE \in Nat
            /\ offset \div FS_BLK_SIZE <= x \div FS_BLK_SIZE
            /\ x \div FS_BLK_SIZE <= z \div FS_BLK_SIZE
        BY <4>1, BlockGrows
      <4>3. x \div FS_BLK_SIZE \in Touched(offset, n)
        BY <4>2 DEF Touched
      <4> QED
        BY <3>1, <4>3 DEF Disturbed
    <3>2. CASE ~(k = i /\ offset <= x /\ x < offset + n)
      <4>1. x < inodes[k].file_length
        <5>1. CASE k = i
          <6>1. x < ext.file_length /\ ~(offset <= x /\ x < offset + n)
            BY <1>7, <3>2, <5>1
          <6>2. x < len
            BY <1>2, <1>a, <6>1
          <6> QED
            BY <5>1, <6>2 DEF len
        <5>2. CASE k # i
          BY <1>7, <5>2
        <5> QED
          BY <5>1, <5>2
      <4>2. <<k, x \div FS_BLK_SIZE>> \in Used
        BY <2>1, <4>1, UsedByte
      <4> QED
        BY <4>2 DEF Disturbed
    <3> QED
      BY <3>1, <3>2
  <2>4. ByteAt(h, data', x) =
          IF k = i /\ offset <= x /\ x < offset + n THEN buf[x - offset + 1]
          ELSE ByteAt(h, data, x)
    <3>1. h = IF k = i THEN ext ELSE inodes[k]
      OBVIOUS
    <3> HIDE DEF h
    <3>2. IsWritten(h, k, x, i, ext, offset, buf, n)
      <4>1. /\ data \in DataBlocks /\ inodes \in [Inodes -> InodeRecords]
            /\ i \in Inodes /\ ext \in InodeRecords /\ k \in Inodes /\ n \in Nat
        BY <1>2, <1>5, <2>1
      <4> QED
        BY <1>4, <2>2, <2>3, <3>1, <4>1, WrittenByte, Zenon
    <3> QED
      BY <1>1, <3>2 DEF IsWritten
  <2>5. ~(k = i /\ offset <= x /\ x < offset + n) => ByteAt(h, data, x) = ByteAt(inodes[k], data, x)
    <3>1. ASSUME k = i, ~(offset <= x /\ x < offset + n)
          PROVE  ByteAt(h, data, x) = ByteAt(inodes[k], data, x)
      <4>1. x < len
        <5>1. x < ext.file_length
          BY <1>7, <3>1
        <5> QED
          BY <1>2, <1>a, <3>1, <5>1
      <4>2. ext.data_blocks_idx[x \div FS_BLK_SIZE] = inodes[i].data_blocks_idx[x \div FS_BLK_SIZE]
        BY <1>3, <4>1
      <4> QED
        BY <3>1, <4>2 DEF ByteAt
    <3>2. k # i => ByteAt(h, data, x) = ByteAt(inodes[k], data, x)
      OBVIOUS
    <3> QED
      BY <3>1, <3>2
  <2> HIDE DEF h
  <2> QED
    BY <2>1, <2>4, <2>5
<1>8. ASSUME NEW k \in FileInodes, k # i
      PROVE  Contents(k)' = Contents(k)
  <2>1. /\ k \in Inodes /\ inodes'[k] = inodes[k] /\ H(k) = inodes[k]
        /\ inodes[k] \in InodeRecords
    BY <1>2, <1>5, <1>8
  <2>2. \A x \in Nat : x < inodes[k].file_length =>
          ByteAt(inodes[k], data', x) = ByteAt(inodes[k], data, x)
    BY <1>7, <1>8, <2>1
  <2>3. Content(inodes[k], data') = Content(inodes[k], data)
    BY <2>1, <2>2, ContentSame
  <2> QED
    BY <2>1, <2>3, ContentsOf
<1>9. Contents(i)' = SubSeq(Contents(i), 1, offset) \o buf
                       \o SubSeq(Contents(i), offset + n + 1, len)
  <2> DEFINE c == Contents(i)
             r == SubSeq(c, 1, offset) \o buf \o SubSeq(c, offset + n + 1, len)
             s == Content(ext, data')
  <2>1. /\ c \in Seq(Bytes) /\ Len(c) = len
        /\ \A x \in 1..len : c[x] = ByteAt(inodes[i], data, x - 1)
    BY <1>2, ContentsOf, ContentType DEF len
  <2>2. /\ s \in Seq(Bytes) /\ Len(s) = ext.file_length
        /\ \A x \in 1..ext.file_length : s[x] = ByteAt(ext, data', x - 1)
    BY <1>2, <1>5, <1>6, ContentType
  <2>3. Contents(i)' = s
    BY <1>5, ContentsOf
  <2> HIDE DEF c, s
  <2>4. /\ r \in Seq(Bytes)
        /\ Len(r) = IF offset >= len THEN offset + n ELSE len
        /\ \A x \in 1..Len(r) : r[x] = IF offset < x /\ x <= offset + n THEN buf[x - offset] ELSE c[x]
    <3>1. len = Len(c) /\ offset <= len
      BY <2>1 DEF len
    <3> HIDE DEF r
    <3>2. r = SubSeq(c, 1, offset) \o buf \o SubSeq(c, offset + n + 1, len)
      BY DEF r
    <3>3. len \in Nat /\ n \in Nat
      BY <1>2 DEF len
    <3>4. IsSplice(r, Bytes, c, len, buf, n, offset)
      BY <1>4, <2>1, <3>1, <3>2, <3>3, Splice, Zenon
    <3> QED
      BY ONLY <3>4 DEF IsSplice
  <2> HIDE DEF r
  <2>5. Len(s) = Len(r) /\ Len(r) \in Nat
    BY <1>3, <1>6, <2>2, <2>4
  <2>6. ASSUME NEW x \in 1..Len(s) PROVE s[x] = r[x]
    <3> DEFINE y == x - 1
    <3>1. /\ y \in Nat /\ y < ext.file_length /\ x \in 1..ext.file_length /\ x \in 1..Len(r)
          /\ (offset <= y <=> offset < x) /\ (y < offset + n <=> x <= offset + n)
          /\ y - offset + 1 = x - offset
      BY <1>6, <2>2, <2>5
    <3>2. s[x] = ByteAt(ext, data', y)
      BY <2>2, <3>1
    <3>3. r[x] = IF offset < x /\ x <= offset + n THEN buf[x - offset] ELSE c[x]
      BY <2>4, <3>1
    <3> HIDE DEF y
    <3>4. ByteAt(ext, data', y) =
            IF offset <= y /\ y < offset + n THEN buf[y - offset + 1] ELSE ByteAt(inodes[i], data, y)
      BY <1>5, <1>7, <3>1
    <3>5. CASE offset < x /\ x <= offset + n
      BY <3>1, <3>2, <3>3, <3>4, <3>5
    <3>6. CASE ~(offset < x /\ x <= offset + n)
      <4>1. x \in 1..len
        <5>1. x <= ext.file_length
          BY <1>6, <3>1
        <5> QED
          BY <1>2, <1>a, <3>6, <5>1
      <4>2. c[x] = ByteAt(inodes[i], data, y)
        BY <2>1, <4>1 DEF y
      <4> QED
        BY <3>1, <3>2, <3>3, <3>4, <3>6, <4>2
    <3> QED
      BY <3>5, <3>6
  <2>7. s = r
    BY <2>2, <2>4, <2>5, <2>6, SeqEqual
  <2> QED
    BY <2>3, <2>7 DEF r, c
<1> QED
  BY <1>3, <1>5, <1>8, <1>9 DEF len

\* A write that fails for lack of blocks leaves what the files hold.
LEMMA FailContents ==
  ASSUME DiskTypes, DiskTypes', NEW i \in Inodes, NEW offset, NEW n,
         \A k \in Inodes : inodes[k].file_length <= Reach,
         WriteFails(i, offset, n)
  PROVE  \A k \in Inodes : /\ inodes'[k].file_length = inodes[k].file_length
                           /\ Contents(k)' = Contents(k)
<1> DEFINE w == WithBlocks(i, FreeBlocks)
<1>1. inodes' = [inodes EXCEPT ![i] = w] /\ data' = data
  BY DEF WriteFails
<1>2. /\ inodes \in [Inodes -> InodeRecords] /\ inodes' \in [Inodes -> InodeRecords]
  BY DEF DiskTypes
<1>3. /\ w.file_length = inodes[i].file_length
      /\ \A x \in Nat : x < inodes[i].file_length =>
           w.data_blocks_idx[x \div FS_BLK_SIZE] = inodes[i].data_blocks_idx[x \div FS_BLK_SIZE]
  BY WithBlocksFacts
<1> HIDE DEF w
<1>4. ASSUME NEW k \in Inodes
      PROVE  /\ inodes'[k].file_length = inodes[k].file_length
             /\ Contents(k)' = Contents(k)
  <2>1. CASE k # i
    <3>1. inodes'[k] = inodes[k]
      BY <1>1, <1>2, <2>1
    <3> QED
      BY <1>1, <3>1, ContentsOf
  <2>2. CASE k = i
    <3>1. inodes'[k] = w /\ w \in InodeRecords
      BY <1>1, <1>2, <2>2
    <3>2. \A x \in Nat : x < w.file_length => ByteAt(w, data, x) = ByteAt(inodes[i], data, x)
      BY <1>3 DEF ByteAt
    <3>3. Content(w, data) = Content(inodes[i], data)
      BY <1>3, <3>1, <3>2, ContentSame
    <3> QED
      BY <1>1, <1>3, <2>2, <3>1, <3>3, ContentsOf
  <2> QED
    BY <2>1, <2>2
<1> QED
  BY <1>4

\* What is read of c, of length l, from position from on, when n bytes are asked for.
IsRead(r, len, c, l, from, n) ==
  /\ len \in Nat /\ len = Len(r) /\ from + len <= l
  /\ r = SubSeq(c, from + 1, IF from + n < l THEN from + n ELSE l)

\* A read returns what the file holds from the position on.
LEMMA ReadContents ==
  ASSUME DiskTypes, NEW i \in Inodes, inodes[i].file_length <= Reach,
         NEW offset \in Nat, offset <= inodes[i].file_length, NEW n \in Nat,
         InOneRun(offset, ReadLength(i, offset, n))
  PROVE  IsRead(ReadData(i, offset, n), ReadLength(i, offset, n),
                Contents(i), inodes[i].file_length, offset, n)
<1> DEFINE l == inodes[i].file_length
           len == ReadLength(i, offset, n)
           c == Contents(i)
           r == ReadData(i, offset, n)
           end == IF offset + n < l THEN offset + n ELSE l
           s == SubSeq(c, offset + 1, end)
<1>1. /\ data \in DataBlocks /\ inodes[i] \in InodeRecords /\ l \in Nat /\ Reach \in Nat
  BY DEF DiskTypes, DataBlocks, InodeRecords, Reach
<1>2. c \in Seq(Bytes) /\ Len(c) = l /\ \A x \in 1..l : c[x] = ByteAt(inodes[i], data, x - 1)
  BY <1>1, ContentsOf, ContentType
<1>3. len = IF offset >= l THEN 0 ELSE IF l < n + offset THEN l - offset ELSE n
  BY DEF ReadLength
<1>a. offset <= l
  OBVIOUS
<1>r. r = [m \in 1..len |-> LET at == Place(inodes[i], offset, m - 1) IN data[at[1]][at[2]]]
  BY DEF ReadData
<1> HIDE DEF l, len, c, r
<1>4. len \in Nat /\ offset + len <= l /\ end = offset + len
  BY <1>1, <1>3, <1>a
<1>5. ASSUME NEW m \in 1..len PROVE r[m] = c[offset + m] /\ r[m] \in Bytes
  <2> DEFINE y == offset + (m - 1)
  <2>1. m - 1 \in 0..(len - 1) /\ y \in Nat /\ y < l /\ y < Reach /\ offset + m \in 1..l
        /\ offset + m - 1 = y
    BY <1>1, <1>4 DEF l
  <2>2. Place(inodes[i], offset, m - 1) =
          <<inodes[i].data_blocks_idx[y \div FS_BLK_SIZE], y % FS_BLK_SIZE>>
    BY <1>4, <2>1, PlaceInRun DEF len
  <2>3. r[m] = ByteAt(inodes[i], data, y)
    BY <1>r, <2>2 DEF ByteAt
  <2>4. c[offset + m] = ByteAt(inodes[i], data, offset + m - 1)
    BY <1>2, <2>1
  <2> HIDE DEF y
  <2>5. ByteAt(inodes[i], data, y) \in Bytes
    BY <1>1, <2>1, ByteType
  <2> QED
    BY <2>1, <2>3, <2>4, <2>5
<1>6. r \in Seq(Bytes) /\ Len(r) = len
  <2>1. r \in [1..len -> Bytes]
    BY <1>5, <1>r
  <2>2. r \in Seq(Bytes)
    BY <1>4, <2>1
  <2> QED
    BY <1>4, <1>r, <2>2
<1>7. s \in Seq(Bytes) /\ Len(s) = len /\ \A m \in 1..len : s[m] = c[offset + m]
  <2> HIDE DEF end
  <2>1. \A x \in offset + 1 .. end : c[x] \in Bytes
    BY <1>2, <1>4
  <2>2. s \in Seq(Bytes)
    BY <1>4, <2>1, SubSeqProperties
  <2>3. Len(s) = len /\ \A m \in 1..len : s[m] = c[offset + 1 + m - 1]
    BY <1>2, <1>4
  <2>4. \A m \in 1..len : offset + 1 + m - 1 = offset + m
    OBVIOUS
  <2> QED
    BY <2>2, <2>3, <2>4
<1> HIDE DEF s
<1>8. r = s
  BY <1>5, <1>6, <1>7, SeqEqual
<1> QED
  BY <1>4, <1>6, <1>8 DEF s, end, l, c, len, r, IsRead

-----------------------------------------------------------------------------
\* The directory, the contents and the handles that Files has.

\* The entries of a set are files' entries, each with a name and an inode of its own.
Consistent(S) ==
  /\ S \subseteq Entries
  /\ \A e \in S : e.file_name \in Names
  /\ \A d, e \in S : d.file_name = e.file_name \/ d.inode_num = e.inode_num => d = e

\* No inode is longer than its blocks, and those of no entry of a set are empty.
Sized(S, nodes) ==
  \A n \in Inodes :
    /\ nodes[n].file_length <= Reach
    /\ (\A e \in S : e.inode_num # n) => nodes[n].file_length = 0

\* A descriptor of a file does not point behind the file's end.
IsFile(f) == f.present /\ f.table = "files"
InFile(f, nodes) == IsFile(f) => f.file_position <= nodes[f.inode].file_length

FilesInv ==
  /\ Consistent(FileEntries)
  /\ Sized(FileEntries, inodes)
  /\ \A p \in Procs, fd \in Fds : InFile(file[p][fd], inodes)

\* The name that the entries of a set give an inode, and the handle that a
\* descriptor stands for.
NameIn(S, n) == (CHOOSE e \in S : e.inode_num = n).file_name
HandleOf(S, f) ==
  IF IsFile(f) THEN [name |-> NameIn(S, f.inode), position |-> f.file_position]
  ELSE Promised!NoHandle

\* A name and an inode determine their entry.
LEMMA ChosenEntry ==
  ASSUME NEW S, Consistent(S), NEW e \in S
  PROVE  /\ (CHOOSE d \in S : d.file_name = e.file_name) = e
         /\ (CHOOSE d \in S : d.inode_num = e.inode_num) = e
BY DEF Consistent

\* The name of the inode of an entry is that of the entry.
LEMMA NamesGiven ==
  ASSUME NEW S, Consistent(S), NEW e \in S
  PROVE  NameIn(S, e.inode_num) = e.file_name
BY ChosenEntry DEF NameIn

\* The files there are, and what each holds.
LEMMA AbstractedNow ==
  ASSUME Consistent(FileEntries)
  PROVE  /\ DOMAIN AbstractFiles = {e.file_name : e \in FileEntries}
         /\ \A e \in FileEntries : AbstractFiles[e.file_name] = Contents(e.inode_num)
<1>1. ASSUME NEW e \in FileEntries
      PROVE  AbstractFiles[e.file_name] = Contents(e.inode_num)
  <2>1. (CHOOSE d \in FileEntries : d.file_name = e.file_name) = e
    BY ChosenEntry
  <2>2. e.file_name \in {d.file_name : d \in FileEntries}
    OBVIOUS
  <2> QED
    BY <2>1, <2>2 DEF AbstractFiles
<1> QED
  BY <1>1 DEF AbstractFiles

\* The same of the state that a step leads to.
LEMMA AbstractedNext ==
  ASSUME Consistent(FileEntries')
  PROVE  /\ DOMAIN AbstractFiles' = {e.file_name : e \in FileEntries'}
         /\ \A e \in FileEntries' : AbstractFiles'[e.file_name] = Contents(e.inode_num)'
<1>1. ASSUME NEW e \in FileEntries'
      PROVE  AbstractFiles'[e.file_name] = Contents(e.inode_num)'
  <2>1. (CHOOSE d \in FileEntries' : d.file_name = e.file_name) = e
    BY ChosenEntry
  <2>2. e.file_name \in {d.file_name : d \in FileEntries'}
    OBVIOUS
  <2> QED
    BY <2>1, <2>2 DEF AbstractFiles
<1> QED
  BY <1>1 DEF AbstractFiles

\* The inodes of files are those of the entries.
LEMMA ListedInodes ==
  /\ FileInodes = {e.inode_num : e \in FileEntries}
  /\ FileInodes' = {e.inode_num : e \in FileEntries'}
BY DEF FileInodes, FileEntries, Dentries

\* A descriptor of a file has an entry in the directory.
LEMMA EntryOf ==
  ASSUME DescriptorsListed, NEW p \in Procs, NEW fd \in Fds, IsFile(file[p][fd])
  PROVE  \E e \in FileEntries : e.inode_num = file[p][fd].inode
BY DEF DescriptorsListed, FileEntries, Has, IsFile

\* A table of handles.
IsTable(H) == H = [p \in Procs |-> [fd \in Fds |-> H[p][fd]]]

\* The handle of a descriptor, before and after a step.
LEMMA Handles ==
  /\ IsTable(AbstractHandles) /\ IsTable(AbstractHandles')
  /\ \A p \in Procs, fd \in Fds :
       /\ AbstractHandles[p][fd] = HandleOf(FileEntries, file[p][fd])
       /\ AbstractHandles'[p][fd] = HandleOf(FileEntries', file'[p][fd])
BY DEF AbstractHandles, IsTable, Promised!NoHandle, HandleOf, IsFile, NameIn, NameOf, Has

\* Tables of handles are equal if every handle is.
LEMMA SameTable ==
  ASSUME NEW A, NEW B, IsTable(A), IsTable(B), \A p \in Procs, fd \in Fds : A[p][fd] = B[p][fd]
  PROVE  A = B
BY DEF IsTable

\* A table of which one handle has changed.
LEMMA ChangedTable ==
  ASSUME NEW A, NEW B, IsTable(A), IsTable(B), NEW p \in Procs, NEW fd \in Fds, NEW v, B[p][fd] = v,
         \A q \in Procs, g \in Fds : B[q][g] = A[q][g] \/ (q = p /\ g = fd)
  PROVE  B = [A EXCEPT ![p][fd] = v]
<1> DEFINE C == [A EXCEPT ![p][fd] = v]
<1>1. C = [q \in Procs |-> [g \in Fds |-> IF q = p /\ g = fd THEN v ELSE A[q][g]]]
  BY DEF IsTable
<1> HIDE DEF C
<1>2. IsTable(C) /\ \A q \in Procs, g \in Fds : C[q][g] = B[q][g]
  BY <1>1 DEF IsTable
<1>3. C = B
  BY <1>2, SameTable
<1> QED
  BY <1>3 DEF C

\* A table of which handles of one process have changed to one value.
LEMMA ClosedTable ==
  ASSUME NEW A, NEW B, IsTable(A), IsTable(B), NEW p \in Procs, NEW closing \in SUBSET Fds, NEW v,
         \A q \in Procs, g \in Fds : B[q][g] = IF q = p /\ g \in closing THEN v ELSE A[q][g]
  PROVE  B = [A EXCEPT ![p] = [g \in Fds |-> IF g \in closing THEN v ELSE @[g]]]
<1> DEFINE C == [A EXCEPT ![p] = [g \in Fds |-> IF g \in closing THEN v ELSE @[g]]]
<1>1. C = [q \in Procs |-> [g \in Fds |-> IF q = p /\ g \in closing THEN v ELSE A[q][g]]]
  BY DEF IsTable
<1> HIDE DEF C
<1>2. IsTable(C) /\ \A q \in Procs, g \in Fds : C[q][g] = B[q][g]
  BY <1>1 DEF IsTable
<1>3. C = B
  BY <1>2, SameTable
<1> QED
  BY <1>3 DEF C

-----------------------------------------------------------------------------
\* Steps that leave the disk alone: closing, opening a file there is.

\* A step leaves directory, inodes and data; it leaves a handle.
DiskSame == UNCHANGED <<inodes, data>> /\ FileEntries' = FileEntries

Alike(f, g) == f = g \/ (~IsFile(f) /\ ~IsFile(g))

\* A step that leaves the disk leaves the files.
LEMMA DiskKept ==
  ASSUME DiskSame, FilesInv
  PROVE  /\ AbstractFiles' = AbstractFiles
         /\ Consistent(FileEntries') /\ Sized(FileEntries', inodes')
<1>1. \A n : Contents(n)' = Contents(n)
  BY DEF DiskSame, Contents
<1>2. AbstractFiles' = AbstractFiles
  BY <1>1 DEF DiskSame, AbstractFiles
<1> QED
  BY <1>2 DEF DiskSame, FilesInv

\* Descriptors that are alike stand for the same handle.
LEMMA AlikeHandle ==
  ASSUME NEW f, NEW g, Alike(f, g), NEW S, NEW nodes, InFile(f, nodes)
  PROVE  InFile(g, nodes) /\ HandleOf(S, g) = HandleOf(S, f)
BY DEF Alike, InFile, HandleOf

\* So does one that a step leaves alike.
LEMMA AlikeKept ==
  ASSUME DiskSame, FilesInv, NEW q \in Procs, NEW g \in Fds, Alike(file[q][g], file'[q][g])
  PROVE  InFile(file'[q][g], inodes') /\ AbstractHandles'[q][g] = AbstractHandles[q][g]
<1>1. InFile(file[q][g], inodes)
  BY DEF FilesInv
<1>2. /\ InFile(file'[q][g], inodes)
      /\ HandleOf(FileEntries, file'[q][g]) = HandleOf(FileEntries, file[q][g])
  BY <1>1, AlikeHandle
<1> QED
  BY <1>2, Handles DEF DiskSame

\* A step that leaves disk and handles is none of Files.
LEMMA OtherStep ==
  ASSUME FilesInv, DiskSame, \A q \in Procs, g \in Fds : Alike(file[q][g], file'[q][g])
  PROVE  FilesInv' /\ UNCHANGED <<AbstractFiles, AbstractHandles>>
<1>1. \A q \in Procs, g \in Fds :
        InFile(file'[q][g], inodes') /\ AbstractHandles'[q][g] = AbstractHandles[q][g]
  BY AlikeKept
<1>2. AbstractHandles' = AbstractHandles
  BY <1>1, Handles, SameTable
<1> QED
  BY <1>1, <1>2, DiskKept DEF FilesInv

\* Descriptors that stop referring to files are closed handles.
LEMMA CloseStep ==
  ASSUME FilesInv, DiskSame, NEW p \in Procs, NEW closing \in SUBSET Fds, returned' = <<>>,
         \A q \in Procs, g \in Fds :
           IF q = p /\ g \in closing THEN ~IsFile(file'[q][g]) ELSE Alike(file[q][g], file'[q][g])
  PROVE  FilesInv' /\ Promised!Close(p, closing)
<1>1. ASSUME NEW q \in Procs, NEW g \in Fds
      PROVE  /\ InFile(file'[q][g], inodes')
             /\ AbstractHandles'[q][g] = IF q = p /\ g \in closing THEN Promised!NoHandle
                                         ELSE AbstractHandles[q][g]
  <2>1. CASE q = p /\ g \in closing
    BY <2>1, Handles DEF InFile, HandleOf
  <2>2. CASE ~(q = p /\ g \in closing)
    BY <2>2, AlikeKept
  <2> QED
    BY <2>1, <2>2
<1>2. AbstractHandles' = [AbstractHandles EXCEPT ![p] =
                            [g \in Fds |-> IF g \in closing THEN Promised!NoHandle ELSE @[g]]]
  <2>1. \A q \in Procs, g \in Fds :
          AbstractHandles'[q][g] = IF q = p /\ g \in closing THEN Promised!NoHandle
                                   ELSE AbstractHandles[q][g]
    BY <1>1
  <2>2. IsTable(AbstractHandles) /\ IsTable(AbstractHandles')
    BY Handles
  <2>3. p \in Procs /\ closing \in SUBSET Fds
    OBVIOUS
  <2> QED
    BY ONLY <2>1, <2>2, <2>3, ClosedTable
<1> QED
  BY <1>1, <1>2, DiskKept DEF FilesInv, Promised!Close

\* A descriptor for an entry that there is: a handle on its name, at position 0.
LEMMA OpenStep ==
  ASSUME DiskTypes, FilesInv, DiskSame, NEW p \in Procs, NEW fd \in Fds, NEW e \in FileEntries,
         returned' = <<>>, ~IsFile(file[p][fd]),
         file'[p][fd] = OpenedAt(file[p][fd], "files", e.inode_num),
         \A q \in Procs, g \in Fds : Alike(file[q][g], file'[q][g]) \/ (q = p /\ g = fd)
  PROVE  FilesInv' /\ Promised!Open(p, fd, e.file_name)
<1>1. AbstractHandles[p][fd] = Promised!NoHandle
  BY Handles DEF HandleOf
<1>2. /\ IsFile(file'[p][fd]) /\ file'[p][fd].inode = e.inode_num
      /\ file'[p][fd].file_position = 0
  BY DEF OpenedAt, IsFile
<1>3. /\ NameIn(FileEntries, e.inode_num) = e.file_name /\ e.file_name \in DOMAIN AbstractFiles
      /\ e.inode_num \in Inodes /\ e.file_name \in Names
  BY AbstractedNow, NamesGiven DEF FilesInv, Consistent, Entries
<1>4. AbstractHandles'[p][fd] = [name |-> e.file_name, position |-> 0]
  BY <1>2, <1>3, Handles DEF DiskSame, HandleOf
<1>5. InFile(file'[p][fd], inodes')
  BY <1>2, <1>3 DEF InFile, DiskTypes, InodeRecords, DiskSame
<1>6. \A q \in Procs, g \in Fds :
        /\ InFile(file'[q][g], inodes')
        /\ AbstractHandles'[q][g] = AbstractHandles[q][g] \/ (q = p /\ g = fd)
  BY <1>5, AlikeKept
<1>7. AbstractHandles' = [AbstractHandles EXCEPT ![p][fd] = [name |-> e.file_name, position |-> 0]]
  BY <1>4, <1>6, Handles, ChangedTable
<1>8. Promised!WithFile(e.file_name) = AbstractFiles
  <2>1. AbstractFiles = [n \in DOMAIN AbstractFiles |-> AbstractFiles[n]]
    BY DEF AbstractFiles
  <2>2. DOMAIN AbstractFiles \cup {e.file_name} = DOMAIN AbstractFiles
    BY <1>3
  <2> QED
    BY <2>1, <2>2 DEF Promised!WithFile
<1> QED
  BY <1>1, <1>6, <1>7, <1>8, DiskKept DEF FilesInv, Promised!Open

-----------------------------------------------------------------------------
\* The creation of a file.

\* The entry of a new file: its name and its inode are in no other.
Fresh(e, S) ==
  /\ e \in Entries /\ e.file_name \in Names
  /\ \A d \in S : d.file_name # e.file_name /\ d.inode_num # e.inode_num

\* A fresh entry can be added: its inode is empty, the other names stay.
LEMMA FreshConsistent ==
  ASSUME NEW S, NEW e, Consistent(S), Fresh(e, S), NEW nodes, Sized(S, nodes)
  PROVE  /\ Consistent(S \cup {e}) /\ Sized(S \cup {e}, nodes)
         /\ \A d \in S : NameIn(S \cup {e}, d.inode_num) = NameIn(S, d.inode_num)
         /\ NameIn(S \cup {e}, e.inode_num) = e.file_name
         /\ nodes[e.inode_num].file_length = 0
<1>1. Consistent(S \cup {e})
  BY DEF Consistent, Fresh
<1>2. Sized(S \cup {e}, nodes)
  BY DEF Sized
<1>3. e.inode_num \in Inodes
  BY DEF Fresh, Entries
<1>4. nodes[e.inode_num].file_length = 0
  BY <1>3 DEF Sized, Fresh
<1>5. \A d \in S : NameIn(S \cup {e}, d.inode_num) = NameIn(S, d.inode_num)
  BY <1>1, NamesGiven
<1>6. NameIn(S \cup {e}, e.inode_num) = e.file_name
  BY <1>1, NamesGiven
<1> QED
  BY <1>1, <1>2, <1>4, <1>5, <1>6

\* It adds an empty file of its name.
LEMMA CreatedFile ==
  ASSUME FilesInv, NEW e, Fresh(e, FileEntries), FileEntries' = FileEntries \cup {e},
         UNCHANGED <<inodes, data>>
  PROVE  AbstractFiles' = Promised!WithFile(e.file_name)
<1>1. Consistent(FileEntries') /\ inodes[e.inode_num].file_length = 0
  BY FreshConsistent DEF FilesInv
<1>2. \A n : Contents(n)' = Contents(n)
  BY DEF Contents
<1>3. Contents(e.inode_num) = <<>>
  BY <1>1 DEF Contents
<1>4. /\ DOMAIN AbstractFiles = {d.file_name : d \in FileEntries}
      /\ \A d \in FileEntries : AbstractFiles[d.file_name] = Contents(d.inode_num)
  BY AbstractedNow DEF FilesInv
<1>5. /\ DOMAIN AbstractFiles' = {d.file_name : d \in FileEntries'}
      /\ \A d \in FileEntries' : AbstractFiles'[d.file_name] = Contents(d.inode_num)'
  BY <1>1, AbstractedNext
<1>6. DOMAIN AbstractFiles' = DOMAIN AbstractFiles \cup {e.file_name}
  BY <1>4, <1>5
<1>7. e.file_name \notin DOMAIN AbstractFiles
  BY <1>4 DEF Fresh
<1>8. ASSUME NEW n \in DOMAIN AbstractFiles'
      PROVE  AbstractFiles'[n] = IF n \in DOMAIN AbstractFiles THEN AbstractFiles[n] ELSE <<>>
  <2>1. CASE n = e.file_name
    <3>1. AbstractFiles'[e.file_name] = Contents(e.inode_num)'
      BY <1>5
    <3> QED
      BY <1>2, <1>3, <1>7, <2>1, <3>1
  <2>2. ASSUME NEW d \in FileEntries, n = d.file_name
        PROVE  AbstractFiles'[n] = AbstractFiles[n] /\ n \in DOMAIN AbstractFiles
    <3>1. AbstractFiles'[d.file_name] = Contents(d.inode_num)'
      BY <1>5
    <3> QED
      BY <1>2, <1>4, <2>2, <3>1
  <2> QED
    BY <1>5, <2>1, <2>2
<1>9. AbstractFiles' = [n \in DOMAIN AbstractFiles' |-> AbstractFiles'[n]]
  BY DEF AbstractFiles
<1>10. AbstractFiles' = [n \in DOMAIN AbstractFiles \cup {e.file_name} |->
                           IF n \in DOMAIN AbstractFiles THEN AbstractFiles[n] ELSE <<>>]
  BY <1>6, <1>8, <1>9
<1> QED
  BY <1>10 DEF Promised!WithFile

\* It leaves the handles there are.
LEMMA CreatedHandle ==
  ASSUME FilesInv, DescriptorsListed, NEW e, Fresh(e, FileEntries),
         FileEntries' = FileEntries \cup {e}, UNCHANGED inodes,
         NEW q \in Procs, NEW g \in Fds, Alike(file[q][g], file'[q][g])
  PROVE  InFile(file'[q][g], inodes') /\ AbstractHandles'[q][g] = AbstractHandles[q][g]
<1>1. InFile(file[q][g], inodes)
  BY DEF FilesInv
<1>2. /\ InFile(file'[q][g], inodes)
      /\ HandleOf(FileEntries', file'[q][g]) = HandleOf(FileEntries', file[q][g])
  BY <1>1, AlikeHandle
<1>3. HandleOf(FileEntries', file[q][g]) = HandleOf(FileEntries, file[q][g])
  <2>1. CASE IsFile(file[q][g])
    <3>1. PICK d \in FileEntries : d.inode_num = file[q][g].inode
      BY <2>1, EntryOf
    <3>2. NameIn(FileEntries', d.inode_num) = NameIn(FileEntries, d.inode_num)
      BY FreshConsistent DEF FilesInv
    <3> QED
      BY <3>1, <3>2 DEF HandleOf
  <2>2. CASE ~IsFile(file[q][g])
    BY <2>2 DEF HandleOf
  <2> QED
    BY <2>1, <2>2
<1> QED
  BY <1>2, <1>3, Handles

\* A file is created for which there is no descriptor left.
LEMMA CreateFailsStep ==
  ASSUME FilesInv, DescriptorsListed, NEW e, Fresh(e, FileEntries),
         FileEntries' = FileEntries \cup {e}, UNCHANGED <<inodes, data>>, returned' = <<>>,
         \A q \in Procs, g \in Fds : Alike(file[q][g], file'[q][g])
  PROVE  FilesInv' /\ Promised!OpenFails(e.file_name)
<1>1. \A q \in Procs, g \in Fds :
        InFile(file'[q][g], inodes') /\ AbstractHandles'[q][g] = AbstractHandles[q][g]
  BY CreatedHandle
<1>2. AbstractHandles' = AbstractHandles
  BY <1>1, Handles, SameTable
<1>3. AbstractFiles' = Promised!WithFile(e.file_name)
  BY CreatedFile
<1>4. Consistent(FileEntries') /\ Sized(FileEntries', inodes')
  BY FreshConsistent DEF FilesInv
<1> QED
  BY <1>1, <1>2, <1>3, <1>4 DEF FilesInv, Promised!OpenFails

\* A file is created and opened.
LEMMA CreateStep ==
  ASSUME FilesInv, DescriptorsListed, NEW e, Fresh(e, FileEntries),
         FileEntries' = FileEntries \cup {e}, UNCHANGED <<inodes, data>>, returned' = <<>>,
         NEW p \in Procs, NEW fd \in Fds, ~IsFile(file[p][fd]),
         file'[p][fd] = OpenedAt(file[p][fd], "files", e.inode_num),
         \A q \in Procs, g \in Fds : Alike(file[q][g], file'[q][g]) \/ (q = p /\ g = fd)
  PROVE  FilesInv' /\ Promised!Open(p, fd, e.file_name)
<1>1. AbstractHandles[p][fd] = Promised!NoHandle
  BY Handles DEF HandleOf
<1>2. /\ IsFile(file'[p][fd]) /\ file'[p][fd].inode = e.inode_num
      /\ file'[p][fd].file_position = 0
  BY DEF OpenedAt, IsFile
<1>3. /\ Consistent(FileEntries') /\ Sized(FileEntries', inodes')
      /\ NameIn(FileEntries', e.inode_num) = e.file_name
      /\ inodes'[e.inode_num].file_length = 0
  BY FreshConsistent DEF FilesInv
<1>4. AbstractHandles'[p][fd] = [name |-> e.file_name, position |-> 0]
  BY <1>2, <1>3, Handles DEF HandleOf
<1>5. InFile(file'[p][fd], inodes')
  BY <1>2, <1>3 DEF InFile
<1>6. \A q \in Procs, g \in Fds :
        /\ InFile(file'[q][g], inodes')
        /\ AbstractHandles'[q][g] = AbstractHandles[q][g] \/ (q = p /\ g = fd)
  BY <1>5, CreatedHandle
<1>7. AbstractHandles' = [AbstractHandles EXCEPT ![p][fd] = [name |-> e.file_name, position |-> 0]]
  BY <1>4, <1>6, Handles, ChangedTable
<1>8. AbstractFiles' = Promised!WithFile(e.file_name)
  BY CreatedFile
<1> QED
  BY <1>1, <1>3, <1>6, <1>7, <1>8 DEF FilesInv, Promised!Open

-----------------------------------------------------------------------------
\* Transfers.

\* One descriptor of a file has been moved.
OnlyMoved(p, fd, to) ==
  \A q \in Procs, g \in Fds :
    \/ file'[q][g] = file[q][g]
    \/ /\ q = p /\ g = fd /\ IsFile(file'[q][g])
       /\ file'[q][g].inode = file[q][g].inode /\ file'[q][g].file_position = to

\* A descriptor that is moved is a handle whose position advances.
LEMMA MovedHandle ==
  ASSUME FileTypes, FileEntries' = FileEntries, NEW p \in Procs, NEW fd \in Fds, IsFile(file[p][fd]),
         NEW to \in Int, file' = [file EXCEPT ![p][fd].file_position = to],
         NEW n, to = file[p][fd].file_position + n
  PROVE  AbstractHandles' = Promised!Advanced(p, fd, n) /\ OnlyMoved(p, fd, to)
<1> DEFINE f == file[p][fd]
<1>1. f \in FileRecords
  BY DEF FileTypes
<1>2. \A q \in Procs, g \in Fds :
        \/ file'[q][g] = file[q][g]
        \/ q = p /\ g = fd /\ file'[q][g] = [file[q][g] EXCEPT !.file_position = to]
  BY MoveFacts
<1>3. file'[p][fd] = [f EXCEPT !.file_position = to]
  <2>1. f.file_position = to => f = [f EXCEPT !.file_position = to]
    BY <1>1 DEF FileRecords
  <2>2. file'[p][fd].file_position = to
    BY <1>1 DEF FileTypes, FileRecords
  <2> QED
    BY <1>2, <2>1, <2>2
<1> HIDE DEF f
<1>4. /\ IsFile(file'[p][fd]) /\ file'[p][fd].inode = f.inode /\ file'[p][fd].file_position = to
  <2>1. IsFile(f)
    BY DEF f
  <2> QED
    BY <1>1, <1>3, <2>1 DEF FileRecords, IsFile
<1>5. OnlyMoved(p, fd, to)
  BY <1>2, <1>4 DEF f, OnlyMoved
<1> DEFINE h == [name |-> NameIn(FileEntries, f.inode), position |-> f.file_position]
<1>6. AbstractHandles[p][fd] = h
  BY Handles DEF HandleOf, f
<1>7. AbstractHandles'[p][fd] = [h EXCEPT !.position = h.position + n]
  BY <1>4, Handles DEF HandleOf, f
<1> HIDE DEF h
<1>8. \A q \in Procs, g \in Fds : AbstractHandles'[q][g] = AbstractHandles[q][g] \/ (q = p /\ g = fd)
  BY <1>2, Handles
<1>9. AbstractHandles' = [AbstractHandles EXCEPT ![p][fd] = [h EXCEPT !.position = h.position + n]]
  BY <1>7, <1>8, Handles, ChangedTable
<1>10. AbstractHandles' = [AbstractHandles EXCEPT ![p][fd].position = @ + n]
  BY <1>6, <1>9
<1> QED
  BY <1>5, <1>10 DEF Promised!Advanced

\* A handle that is in use: its name, its position and the contents it finds.
LEMMA UsedHandle ==
  ASSUME FilesInv, DescriptorsListed, TypeInv, NEW p \in Procs, NEW fd \in Fds,
         Has(p, fd, "files"), file[p][fd].file_position >= 0
  PROVE  /\ Promised!Usable(p, fd)
         /\ Promised!At(p, fd) = file[p][fd].file_position
         /\ Promised!Contents(p, fd) = Contents(file[p][fd].inode)
         /\ AbstractHandles[p][fd].name \in DOMAIN AbstractFiles
         /\ \E e \in FileEntries : /\ e.inode_num = file[p][fd].inode
                                   /\ e.file_name = AbstractHandles[p][fd].name
         /\ file[p][fd].inode \in FileInodes /\ file[p][fd].inode \in Inodes
         /\ file[p][fd].file_position \in Nat
         /\ file[p][fd].file_position <= inodes[file[p][fd].inode].file_length
<1> DEFINE f == file[p][fd]
<1>1. IsFile(f)
  BY DEF Has, IsFile
<1>2. f \in FileRecords
  BY DEF TypeInv, FileTypes
<1>3. PICK e \in FileEntries : e.inode_num = f.inode
  BY <1>1, EntryOf
<1>4. /\ AbstractHandles[p][fd] = [name |-> e.file_name, position |-> f.file_position]
  <2>1. NameIn(FileEntries, e.inode_num) = e.file_name
    BY NamesGiven DEF FilesInv
  <2>2. AbstractHandles[p][fd] = HandleOf(FileEntries, f)
    BY Handles
  <2> QED
    BY <1>1, <1>3, <2>1, <2>2 DEF HandleOf
<1>5. /\ e.file_name \in DOMAIN AbstractFiles /\ AbstractFiles[e.file_name] = Contents(f.inode)
  BY <1>3, AbstractedNow DEF FilesInv
<1>6. e.file_name \in Names /\ e.file_name # NONE
  <2>1. Names \cap {Mouse, NONE, ""} = {}
    BY DescriptorsAssumption, Zenon
  <2>2. e.file_name \in Names
    BY DEF FilesInv, Consistent
  <2> QED
    BY <2>1, <2>2
<1>7. f.file_position <= inodes[f.inode].file_length
  BY <1>1 DEF FilesInv, InFile
<1>8. f.inode \in FileInodes
  BY <1>3, ListedInodes
<1>9. f.inode \in Inodes /\ f.file_position \in Nat
  BY <1>2 DEF FileRecords
<1>10. AbstractHandles[p][fd] # Promised!NoHandle
  BY <1>4, <1>6 DEF Promised!NoHandle
<1>11. Promised!At(p, fd) = f.file_position
  BY <1>4 DEF Promised!At
<1> HIDE DEF f
<1> QED
  BY <1>3, <1>4, <1>5, <1>7, <1>8, <1>9, <1>10, <1>11
     DEF Promised!Usable, Promised!Contents, f

\* Positions stay in their files when no file becomes shorter.
LEMMA StaysInFile ==
  ASSUME NEW f, NEW g, NEW nodes, NEW nodes2, f \in FileRecords,
         nodes \in [Inodes -> InodeRecords], nodes2 \in [Inodes -> InodeRecords],
         \A n \in Inodes : nodes[n].file_length <= nodes2[n].file_length,
         InFile(f, nodes),
         \/ g = f
         \/ g.inode = f.inode /\ g.file_position <= nodes2[g.inode].file_length
  PROVE  InFile(g, nodes2)
<1>1. f.inode \in Inodes /\ f.file_position \in Int
  BY DEF FileRecords
<1>2. /\ nodes[f.inode].file_length \in Nat /\ nodes2[f.inode].file_length \in Nat
  BY <1>1 DEF InodeRecords
<1> QED
  BY <1>1, <1>2 DEF InFile

\* file_read is a read of the named file at the handle's position.
LEMMA ReadStep ==
  ASSUME ~AnySize, FilesInv, DescriptorsListed, TypeInv, NEW p \in Procs, NEW fd \in Fds,
         NEW n \in Lengths, FileRead(p, fd, n)
  PROVE  FilesInv' /\ Promised!Read(p, fd, n)
<1> DEFINE f == file[p][fd]
           len == ReadLength(f.inode, f.file_position, n)
           l == inodes[f.inode].file_length
           c == Contents(f.inode)
<1>1. /\ Promised!Usable(p, fd) /\ Promised!At(p, fd) = f.file_position
      /\ Promised!Contents(p, fd) = c
      /\ f.inode \in Inodes /\ f.file_position \in Nat /\ f.file_position <= l
      /\ IsFile(f)
  BY UsedHandle DEF FileRead, Has, IsFile
<1>2. n \in Nat
  <2>1. Lengths \subseteq Nat \ {0}
    BY DescriptorsAssumption, Zenon
  <2> QED
    BY <2>1
<1>3. IsRead(ReadData(f.inode, f.file_position, n), len, c, l, f.file_position, n)
  <2>1. InOneRun(f.file_position, len)
    BY DEF FileRead
  <2>2. l <= Reach
    BY <1>1 DEF FilesInv, Sized
  <2>3. DiskTypes
    BY DEF TypeInv
  <2> QED
    BY <1>1, <1>2, <2>1, <2>2, <2>3, ReadContents
<1>4. Len(c) = l
  <2>1. /\ inodes[f.inode] \in InodeRecords /\ data \in DataBlocks /\ l <= Reach
    BY <1>1 DEF FilesInv, Sized, TypeInv, DiskTypes, DataBlocks
  <2> QED
    BY <2>1, ContentsOf, ContentType
<1>5. /\ returned' = ReadData(f.inode, f.file_position, n)
      /\ file' = [file EXCEPT ![p][fd].file_position = f.file_position + len]
      /\ DiskSame
  BY DEF FileRead, DiskSame, fsVars, FileEntries, Dentries
<1>6. /\ len \in Nat /\ len = Len(returned') /\ f.file_position + len <= l
      /\ returned' = SubSeq(c, f.file_position + 1,
                            IF f.file_position + n < l THEN f.file_position + n ELSE l)
  BY <1>3, <1>5 DEF IsRead
<1> HIDE DEF f, len, l, c
<1>7. AbstractHandles' = Promised!Advanced(p, fd, len) /\ OnlyMoved(p, fd, f.file_position + len)
  <2>0. f.file_position \in Nat /\ len \in Nat
    BY <1>1, <1>6, Zenon
  <2>1. f.file_position + len \in Int
    BY ONLY <2>0
  <2>2. FileEntries' = FileEntries
    BY <1>5 DEF DiskSame
  <2>3. FileTypes
    BY DEF TypeInv
  <2>4. IsFile(file[p][fd]) /\ f.file_position + len = file[p][fd].file_position + len
    BY <1>1 DEF f
  <2>5. file' = [file EXCEPT ![p][fd].file_position = f.file_position + len]
    BY <1>5
  <2> QED
    BY <2>1, <2>2, <2>3, <2>4, <2>5, MovedHandle
<1>8. \A q \in Procs, g \in Fds : InFile(file'[q][g], inodes')
  <2>1. inodes' = inodes
    BY <1>5 DEF DiskSame
  <2>2. f.file_position + len <= inodes[file[p][fd].inode].file_length
    BY <1>6 DEF f, l
  <2>3. \A q \in Procs, g \in Fds : InFile(file[q][g], inodes)
    BY DEF FilesInv
  <2> QED
    BY <1>7, <2>1, <2>2, <2>3 DEF InFile, OnlyMoved
<1>9. AbstractFiles' = AbstractFiles /\ Consistent(FileEntries') /\ Sized(FileEntries', inodes')
  BY <1>5, DiskKept
<1> QED
  BY <1>1, <1>4, <1>6, <1>7, <1>8, <1>9 DEF FilesInv, Promised!Read

\* No file becomes shorter, none longer than its blocks, and only files change.
Grown(nodes, nodes2, S) ==
  \A n \in Inodes : /\ nodes[n].file_length <= nodes2[n].file_length
                    /\ nodes2[n].file_length <= Reach
                    /\ (\A e \in S : e.inode_num # n) => nodes2[n].file_length = nodes[n].file_length

\* After a transfer no descriptor points behind the end of its file.
LEMMA GrownFiles ==
  ASSUME FilesInv, TypeInv, DiskTypes', FileEntries' = FileEntries, Grown(inodes, inodes', FileEntries),
         NEW p \in Procs, NEW fd \in Fds, NEW to, OnlyMoved(p, fd, to),
         to <= inodes'[file[p][fd].inode].file_length
  PROVE  FilesInv'
<1>1. /\ inodes \in [Inodes -> InodeRecords] /\ inodes' \in [Inodes -> InodeRecords]
      /\ \A n \in Inodes : inodes[n].file_length <= inodes'[n].file_length
  BY DEF Grown, TypeInv, DiskTypes
<1>2. Sized(FileEntries, inodes')
  BY DEF FilesInv, Sized, Grown
<1>3. ASSUME NEW q \in Procs, NEW g \in Fds
      PROVE  InFile(file'[q][g], inodes')
  <2>1. file[q][g] \in FileRecords /\ InFile(file[q][g], inodes)
    BY DEF TypeInv, FileTypes, FilesInv
  <2>2. \/ file'[q][g] = file[q][g]
        \/ /\ file'[q][g].inode = file[q][g].inode
           /\ file'[q][g].file_position <= inodes'[file'[q][g].inode].file_length
    BY DEF OnlyMoved
  <2> QED
    BY <1>1, <2>1, <2>2, StaysInFile
<1> QED
  BY <1>2, <1>3 DEF FilesInv

\* If the contents of one entry's inode change, that name's do.
LEMMA FilesWritten ==
  ASSUME FilesInv, FileEntries' = FileEntries, NEW e \in FileEntries, NEW c,
         Contents(e.inode_num)' = c,
         \A d \in FileEntries : d.inode_num # e.inode_num =>
           Contents(d.inode_num)' = Contents(d.inode_num)
  PROVE  AbstractFiles' = [AbstractFiles EXCEPT ![e.file_name] = c]
<1>1. /\ DOMAIN AbstractFiles = {d.file_name : d \in FileEntries}
      /\ \A d \in FileEntries : AbstractFiles[d.file_name] = Contents(d.inode_num)
  BY AbstractedNow DEF FilesInv
<1>2. /\ DOMAIN AbstractFiles' = {d.file_name : d \in FileEntries}
      /\ \A d \in FileEntries : AbstractFiles'[d.file_name] = Contents(d.inode_num)'
  <2>1. Consistent(FileEntries')
    BY DEF FilesInv
  <2> QED
    BY <2>1, AbstractedNext
<1>3. \A d \in FileEntries : d.inode_num = e.inode_num \/ d.file_name = e.file_name => d = e
  BY DEF FilesInv, Consistent
<1>4. ASSUME NEW n \in DOMAIN AbstractFiles'
      PROVE  AbstractFiles'[n] = IF n = e.file_name THEN c ELSE AbstractFiles[n]
  <2>1. PICK d \in FileEntries : n = d.file_name
    BY <1>2
  <2>2. CASE d = e
    BY <1>2, <2>1, <2>2
  <2>3. CASE d # e
    <3>1. d.inode_num # e.inode_num /\ n # e.file_name
      BY <1>3, <2>1, <2>3
    <3>2. Contents(d.inode_num)' = Contents(d.inode_num)
      BY <3>1
    <3> QED
      BY <1>1, <1>2, <2>1, <3>1, <3>2
  <2> QED
    BY <2>2, <2>3
<1>5. /\ AbstractFiles' = [n \in DOMAIN AbstractFiles' |-> AbstractFiles'[n]]
      /\ AbstractFiles = [n \in DOMAIN AbstractFiles |-> AbstractFiles[n]]
  BY DEF AbstractFiles
<1>6. DOMAIN AbstractFiles' = DOMAIN AbstractFiles
  BY <1>1, <1>2
<1> QED
  BY <1>4, <1>5, <1>6

\* What is written fits into the blocks of an inode.
LEMMA WrittenLength ==
  ASSUME TypeInv, NEW buf \in workload.writes, NEW offset \in Nat, offset + Len(buf) <= LENGTH_BOUND
  PROVE  /\ buf \in Buffers /\ buf \in Seq(Bytes) /\ Len(buf) \in Nat \ {0}
         /\ offset + Len(buf) <= Reach
<1>1. buf \in Buffers
  BY WrittenBuffers DEF TypeInv
<1>2. /\ Buffers \subseteq Seq(Bytes) \ {<<>>}
      /\ LENGTH_BOUND \in 0..Reach
  BY DescriptorsAssumption, Zenon DEF Reach
<1>3. buf \in Seq(Bytes) /\ Len(buf) \in Nat \ {0}
  BY <1>1, <1>2
<1>4. Reach \in Nat
  BY DEF Reach
<1> QED
  BY <1>1, <1>2, <1>3, <1>4

\* file_write is a write to the named file at the handle's position.
LEMMA WriteStep ==
  ASSUME ~AnySize, FilesInv, DescriptorsListed, TypeInv, NEW p \in Procs, NEW fd \in Fds,
         NEW buf \in workload.writes, FileWrite(p, fd, buf)
  PROVE  FilesInv' /\ Promised!Write(p, fd, buf)
<1>0. PICK i \in Inodes, offset \in Nat, n \in Nat \ {0} :
        i = file[p][fd].inode /\ offset = file[p][fd].file_position /\ n = Len(buf)
  <2>1. file[p][fd].inode \in Inodes /\ file[p][fd].file_position \in Nat
    BY UsedHandle DEF FileWrite
  <2>2. Len(buf) \in Nat \ {0}
    BY <2>1, WrittenLength DEF FileWrite
  <2> QED
    BY <2>1, <2>2
<1> DEFINE l == inodes[i].file_length
           c == Contents(i)
           w == SubSeq(c, 1, offset) \o buf \o SubSeq(c, offset + n + 1, l)
<1>1. /\ Promised!Usable(p, fd) /\ Promised!At(p, fd) = offset
      /\ Promised!Contents(p, fd) = c
      /\ i \in FileInodes /\ offset <= l
      /\ IsFile(file[p][fd])
  BY <1>0, UsedHandle DEF FileWrite, Has, IsFile
<1>2. PICK e \in FileEntries : e.inode_num = i /\ e.file_name = AbstractHandles[p][fd].name
  BY <1>0, UsedHandle DEF FileWrite
<1>3. /\ buf \in Buffers /\ buf \in Seq(Bytes) /\ offset + n <= Reach
  BY <1>0, WrittenLength DEF FileWrite
<1>4. /\ Fits(i, offset, n) /\ WriteData(i, offset, buf)
      /\ file' = [file EXCEPT ![p][fd].file_position = offset + n]
      /\ returned' = <<>> /\ FileEntries' = FileEntries
      /\ UNCHANGED <<directory_entries, num_dir_entries, inode_bitmap>>
  BY <1>0 DEF FileWrite, FileEntries, Dentries
<1>5. DiskTypes /\ DiskTypes'
  <2>1. DiskTypes
    BY DEF TypeInv
  <2> QED
    BY <1>3, <1>4, <2>1, WriteFacts
<1>6. FileInodes \subseteq Inodes /\ \A k \in Inodes : inodes[k].file_length <= Reach
  <2>1. \A d \in FileEntries : d.inode_num \in Inodes
    BY DEF FilesInv, Consistent, Entries
  <2>2. FileInodes \subseteq Inodes
    BY <2>1, ListedInodes
  <2> QED
    BY <2>2 DEF FilesInv, Sized
<1>7. /\ \A k \in FileInodes : k # i => Contents(k)' = Contents(k)
      /\ Contents(i)' = w
      /\ inodes'[i].file_length = IF offset >= l THEN offset + n ELSE l
  <2>1. /\ DiskTypes /\ DiskTypes' /\ FileInodes \subseteq Inodes
        /\ \A k \in Inodes : inodes[k].file_length <= Reach
    BY <1>5, <1>6
  <2>2. i \in FileInodes /\ offset \in Nat /\ offset <= inodes[i].file_length
    BY <1>1
  <2>3. buf \in Seq(Bytes) /\ n \in Nat \ {0} /\ n = Len(buf) /\ offset + n <= Reach
    BY <1>0, <1>3
  <2>4. Fits(i, offset, n) /\ WriteData(i, offset, buf)
    BY <1>0, <1>4
  <2> QED
    BY ONLY <2>1, <2>2, <2>3, <2>4, WriteContents
<1>8. \A k \in Inodes : k # i => inodes'[k] = inodes[k]
  BY <1>4, <1>5 DEF WriteData, DiskTypes
<1>9. Len(c) = l /\ l \in Nat
  <2>1. /\ inodes[i] \in InodeRecords /\ data \in DataBlocks /\ l <= Reach
    BY <1>1, <1>5, <1>6 DEF DiskTypes, DataBlocks
  <2> QED
    BY <2>1, ContentsOf, ContentType DEF InodeRecords
<1> HIDE DEF c, w
<1>10. AbstractHandles' = Promised!Advanced(p, fd, n) /\ OnlyMoved(p, fd, offset + n)
  <2>2. offset + n \in Int
    OBVIOUS
  <2>3. FileTypes
    BY DEF TypeInv
  <2>4. IsFile(file[p][fd]) /\ offset + n = file[p][fd].file_position + n
    BY <1>0, <1>1
  <2> QED
    BY <1>4, <2>2, <2>3, <2>4, MovedHandle
<1>11. Grown(inodes, inodes', FileEntries)
  <2> SUFFICES ASSUME NEW k \in Inodes
               PROVE  /\ inodes[k].file_length <= inodes'[k].file_length
                      /\ inodes'[k].file_length <= Reach
                      /\ (\A d \in FileEntries : d.inode_num # k) =>
                           inodes'[k].file_length = inodes[k].file_length
    BY DEF Grown
  <2>1. CASE k # i
    <3>1. inodes[k].file_length \in Nat
      BY <1>5 DEF DiskTypes, InodeRecords
    <3> QED
      BY <1>6, <1>8, <2>1, <3>1
  <2>2. CASE k = i
    <3>1. inodes'[i].file_length = (IF offset >= l THEN offset + n ELSE l) /\ l <= Reach
      BY <1>1, <1>6, <1>7
    <3>2. offset + n <= Reach /\ Reach \in Nat /\ offset <= l
      BY <1>1, <1>3 DEF Reach
    <3>3. l <= inodes'[i].file_length /\ inodes'[i].file_length <= Reach
      BY <1>9, <3>1, <3>2
    <3> QED
      BY <1>2, <2>2, <3>3
  <2> QED
    BY <2>1, <2>2
<1>12. offset + n <= inodes'[file[p][fd].inode].file_length
  <2>1. offset < l => offset + n <= l
    BY <1>4 DEF Fits, l
  <2> HIDE DEF l
  <2>2. offset <= l
    BY <1>1
  <2>3. offset + n <= inodes'[i].file_length
    BY <1>7, <1>9, <2>1, <2>2
  <2> QED
    BY <1>0, <2>3
<1>13. FilesInv'
  BY <1>4, <1>5, <1>10, <1>11, <1>12, GrownFiles
<1>14. AbstractFiles' = [AbstractFiles EXCEPT ![e.file_name] = w]
  <2>1. \A d \in FileEntries : d.inode_num # e.inode_num =>
           Contents(d.inode_num)' = Contents(d.inode_num)
    BY <1>2, <1>7, ListedInodes
  <2>2. Contents(e.inode_num)' = w
    BY <1>2, <1>7
  <2> QED
    BY <1>4, <2>1, <2>2, FilesWritten
<1> QED
  BY <1>0, <1>1, <1>2, <1>4, <1>9, <1>10, <1>13, <1>14 DEF Promised!Write, w

\* A file_write without free blocks leaves the files, and moves the position back.
LEMMA WriteFailsStep ==
  ASSUME FilesInv, DescriptorsListed, TypeInv, NEW p \in Procs, NEW fd \in Fds,
         NEW buf \in workload.writes, FileWriteFails(p, fd, buf)
  PROVE  FilesInv' /\ Promised!WriteFails(p, fd)
<1> DEFINE f == file[p][fd]
           i == f.inode
           offset == f.file_position
<1>1. /\ Promised!Usable(p, fd) /\ i \in Inodes /\ offset \in Nat
      /\ offset <= inodes[i].file_length /\ IsFile(f)
  BY UsedHandle DEF FileWriteFails, Has, IsFile
<1>2. buf \in Buffers
  BY WrittenBuffers DEF TypeInv
<1>3. /\ WriteFails(i, offset, Len(buf))
      /\ file' = [file EXCEPT ![p][fd].file_position = offset - 1]
      /\ returned' = <<>> /\ FileEntries' = FileEntries
      /\ UNCHANGED <<directory_entries, num_dir_entries, inode_bitmap>>
  BY DEF FileWriteFails, FileEntries, Dentries
<1>4. DiskTypes /\ DiskTypes'
  <2>1. DiskTypes
    BY DEF TypeInv
  <2> QED
    BY <1>1, <1>2, <1>3, <2>1, WriteFacts
<1>5. \A k \in Inodes : inodes[k].file_length <= Reach
  BY DEF FilesInv, Sized
<1>6. \A k \in Inodes : /\ inodes'[k].file_length = inodes[k].file_length
                        /\ Contents(k)' = Contents(k)
  BY <1>1, <1>3, <1>4, <1>5, FailContents
<1> HIDE DEF f, i, offset
<1>7. AbstractHandles' = Promised!Advanced(p, fd, -1) /\ OnlyMoved(p, fd, offset - 1)
  <2>1. offset - 1 \in Int
    BY <1>1
  <2>2. offset - 1 = file[p][fd].file_position + (-1) /\ IsFile(file[p][fd])
    BY <1>1 DEF f, offset
  <2>3. FileTypes
    BY DEF TypeInv
  <2> QED
    BY <1>3, <2>1, <2>2, <2>3, MovedHandle
<1>8. /\ \A k \in Inodes : inodes[k].file_length \in Nat
  BY <1>4 DEF DiskTypes, InodeRecords
<1>9. Grown(inodes, inodes', FileEntries)
  BY <1>5, <1>6, <1>8 DEF Grown
<1>10. offset - 1 <= inodes'[file[p][fd].inode].file_length
  <2>1. inodes'[i].file_length = inodes[i].file_length /\ inodes[i].file_length \in Nat
    BY <1>1, <1>6, <1>8
  <2>2. offset - 1 <= inodes'[i].file_length
    BY <1>1, <2>1
  <2> QED
    BY <2>2 DEF f, i
<1>11. FilesInv'
  BY <1>3, <1>4, <1>7, <1>9, <1>10, GrownFiles
<1>12. AbstractFiles' = AbstractFiles
  <2>1. Consistent(FileEntries)
    BY DEF FilesInv
  <2>2. \A d \in FileEntries : Contents(d.inode_num)' = Contents(d.inode_num)
    BY <1>6, <2>1 DEF Consistent, Entries
  <2>3. /\ DOMAIN AbstractFiles = {d.file_name : d \in FileEntries}
        /\ \A d \in FileEntries : AbstractFiles[d.file_name] = Contents(d.inode_num)
    BY <2>1, AbstractedNow
  <2>4. /\ DOMAIN AbstractFiles' = {d.file_name : d \in FileEntries}
        /\ \A d \in FileEntries : AbstractFiles'[d.file_name] = Contents(d.inode_num)'
    BY <1>3, <2>1, AbstractedNext
  <2>5. /\ AbstractFiles' = [n \in DOMAIN AbstractFiles' |-> AbstractFiles'[n]]
        /\ AbstractFiles = [n \in DOMAIN AbstractFiles |-> AbstractFiles[n]]
    BY DEF AbstractFiles
  <2>6. \A n \in DOMAIN AbstractFiles : AbstractFiles'[n] = AbstractFiles[n]
    BY <2>2, <2>3, <2>4
  <2> QED
    BY <2>3, <2>4, <2>5, <2>6
<1> QED
  BY <1>1, <1>3, <1>7, <1>11, <1>12 DEF Promised!WriteFails

-----------------------------------------------------------------------------
\* The initial states, and each system call.

\* The image holds files of the names of its entries, and no handle is open.
LEMMA InitFiles ==
  ASSUME Init
  PROVE  FilesInv /\ Promised!Init
<1> DEFINE last == Len(ImageEntries)
<1>1. /\ DiskTypes /\ NamesUnique /\ InodesUnique
  BY InitTypes, InitDirectory DEF DirectoryInv, TypeInv
<1>2. /\ num_dir_entries = last /\ last \in Nat
      /\ inodes = ImageInodes /\ returned = <<>>
      /\ \A p \in Procs, fd \in Fds : file[p][fd] = Closed
      /\ \A j \in 0..(NUM_DENTRIES - 1) : j < last => directory_entries[j] = ImageEntries[j + 1]
  <2>1. ImageEntries \in Seq(Entries)
    BY ImageAssumption, Zenon
  <2>2. last \in Nat
    BY <2>1
  <2>3. num_dir_entries = last /\ inodes = ImageInodes /\ returned = <<>>
    BY DEF Init, DescriptorsInit, FsInit
  <2>4. \A p \in Procs, fd \in Fds : file[p][fd] = Closed
    BY DEF Init, DescriptorsInit
  <2>5. \A j \in 0..(NUM_DENTRIES - 1) : j < last => directory_entries[j] = ImageEntries[j + 1]
    BY DEF Init, DescriptorsInit, FsInit
  <2> QED
    BY <2>2, <2>3, <2>4, <2>5
<1>3. \A j \in Dentries : j + 1 \in 1..last /\ directory_entries[j] = ImageEntries[j + 1]
  BY <1>1, <1>2 DEF Dentries, DiskTypes
<1>4. \A k \in 1..last : k - 1 \in Dentries /\ directory_entries[k - 1] = ImageEntries[k]
  <2>1. \A k \in 1..last : k - 1 \in Dentries /\ (k - 1) + 1 = k
    BY <1>2 DEF Dentries
  <2> QED
    BY <1>3, <2>1
<1>5. /\ \A k \in 1..last : ImageEntries[k].file_name \in Names
      /\ \A n \in Inodes :
           /\ ImageInodes[n].file_length <= Reach
           /\ (\A k \in 1..last : ImageEntries[k].inode_num # n) => ImageInodes[n].file_length = 0
  BY FilesAssumption, Zenon DEF Reach
<1>6. /\ \A k \in 1..last : (ImageEntries[k].file_type = FS_TYPE_FILE) <=> (ImageEntries[k].inode_num # 0)
      /\ ImageInodes[0].file_length = 0
  <2>1. /\ \A k \in 1..last : (ImageEntries[k].file_type = FS_TYPE_FILE) <=> (ImageEntries[k].inode_num # 0)
        /\ ImageInodes[0] = [file_length |-> 0,
                             data_blocks_idx |-> [j \in 0..(MAX_BLOCKS_IN_INODE - 1) |-> 0]]
    BY ImageAssumption, Zenon
  <2> QED
    BY <2>1
<1> HIDE DEF last
<1>7. Consistent(FileEntries)
  <2>1. FileEntries \subseteq Entries
    BY <1>1 DEF FileEntries, DiskTypes, Dentries
  <2>2. \A e \in FileEntries : e.file_name \in Names
    BY <1>3, <1>5 DEF FileEntries
  <2>3. ASSUME NEW d \in FileEntries, NEW e \in FileEntries,
               d.file_name = e.file_name \/ d.inode_num = e.inode_num
        PROVE  d = e
    BY <1>1, <2>3 DEF FileEntries, NamesUnique, InodesUnique
  <2> QED
    BY <2>1, <2>2, <2>3 DEF Consistent
<1>8. Sized(FileEntries, inodes)
  <2> SUFFICES ASSUME NEW n \in Inodes, \A e \in FileEntries : e.inode_num # n
               PROVE  ImageInodes[n].file_length = 0
    BY <1>2, <1>5 DEF Sized
  <2>1. ASSUME NEW k \in 1..last, ImageEntries[k].inode_num = n
        PROVE  n = 0
    <3>1. ImageEntries[k].file_type # FS_TYPE_FILE
      BY <1>4, <2>1 DEF FileEntries
    <3> QED
      BY <1>6, <2>1, <3>1
  <2> QED
    BY <1>5, <1>6, <2>1
<1>9. FilesInv
  BY <1>2, <1>7, <1>8 DEF FilesInv, InFile, IsFile, Closed
<1>10. ASSUME NEW n \in DOMAIN AbstractFiles
       PROVE  n \in Names /\ AbstractFiles[n] \in Seq(Bytes)
  <2>1. /\ DOMAIN AbstractFiles = {e.file_name : e \in FileEntries}
        /\ \A e \in FileEntries : AbstractFiles[e.file_name] = Contents(e.inode_num)
    BY <1>7, AbstractedNow
  <2>2. PICK e \in FileEntries : n = e.file_name
    BY <2>1
  <2>3. e.inode_num \in Inodes /\ e.file_name \in Names
    BY <1>7 DEF Consistent, Entries
  <2>4. /\ inodes[e.inode_num] \in InodeRecords /\ data \in DataBlocks
        /\ inodes[e.inode_num].file_length <= Reach
    BY <1>1, <1>8, <2>3 DEF DiskTypes, DataBlocks, Sized
  <2>5. Contents(e.inode_num) \in Seq(Bytes)
    BY <2>4, ContentsOf, ContentType
  <2> QED
    BY <2>1, <2>2, <2>3, <2>5
<1>11. AbstractHandles = [p \in Procs |-> [fd \in Fds |-> Promised!NoHandle]]
  <2>1. HandleOf(FileEntries, Closed) = Promised!NoHandle
    BY DEF HandleOf, IsFile, Closed
  <2>2. \A p \in Procs, fd \in Fds : AbstractHandles[p][fd] = Promised!NoHandle
    BY <1>2, <2>1, Handles
  <2> QED
    BY <2>2, Handles DEF IsTable
<1>12. AbstractFiles = [n \in DOMAIN AbstractFiles |-> AbstractFiles[n]]
  BY DEF AbstractFiles
<1> QED
  BY <1>2, <1>9, <1>10, <1>11, <1>12 DEF Promised!Init

\* What a step is for Files.
Mapped == FilesInv' /\ [Promised!Next]_(Promised!vars)

\* Steps that are none of Files.
LEMMA QuietStep ==
  ASSUME FilesInv, DiskSame, returned' = <<>>,
         \A q \in Procs, g \in Fds : Alike(file[q][g], file'[q][g])
  PROVE  Mapped
<1>1. FilesInv' /\ UNCHANGED <<AbstractFiles, AbstractHandles>>
  BY OtherStep
<1>2. Promised!Next
  BY <1>1 DEF Promised!Next, Promised!Other
<1> QED
  BY <1>1, <1>2 DEF Mapped

\* Steps that leave the descriptors too.
LEMMA QuietFiles ==
  ASSUME FilesInv, DiskSame, returned' = <<>>, UNCHANGED file
  PROVE  Mapped
<1>1. \A q \in Procs, g \in Fds : Alike(file[q][g], file'[q][g])
  BY DEF Alike
<1> QED
  BY <1>1, QuietStep

\* Steps that close handles.
LEMMA ClosesMapped ==
  ASSUME FilesInv, DiskSame, NEW p \in Procs, NEW closing \in SUBSET Fds, returned' = <<>>,
         \A q \in Procs, g \in Fds :
           IF q = p /\ g \in closing THEN ~IsFile(file'[q][g]) ELSE Alike(file[q][g], file'[q][g])
  PROVE  Mapped
<1>1. FilesInv' /\ Promised!Close(p, closing)
  BY CloseStep
<1> QED
  BY <1>1 DEF Mapped, Promised!Next

\* A step that leaves the file system leaves the disk.
LEMMA SameDisk ==
  ASSUME UNCHANGED fsVars
  PROVE  DiskSame
BY DEF fsVars, DiskSame, FileEntries, Dentries

\* A position of something else than a file.
LEMMA MovedOther ==
  ASSUME FileTypes, NEW p \in Procs, NEW fd \in Fds, file[p][fd].table # "files",
         NEW to \in Int, file' = [file EXCEPT ![p][fd].file_position = to]
  PROVE  \A q \in Procs, g \in Fds : Alike(file[q][g], file'[q][g])
<1> SUFFICES ASSUME NEW q \in Procs, NEW g \in Fds
             PROVE  Alike(file[q][g], file'[q][g])
  OBVIOUS
<1> DEFINE f == file[q][g]
<1>1. f \in FileRecords
  BY DEF FileTypes
<1>2. \/ file'[q][g] = f
      \/ q = p /\ g = fd /\ file'[q][g] = [f EXCEPT !.file_position = to]
  BY MoveFacts
<1>3. q = p /\ g = fd => f.table # "files"
  OBVIOUS
<1> HIDE DEF f
<1>4. Alike(f, file'[q][g])
  BY <1>1, <1>2, <1>3 DEF Alike, IsFile, FileRecords
<1> QED
  BY <1>4 DEF f

\* sys_open gives at most one descriptor.
LEMMA AllocatedOne ==
  ASSUME FileTypes, NEW p \in Procs, NEW table, NEW i, Allocate(p, table, i)
  PROVE  \/ UNCHANGED file
         \/ \E fd \in Fds :
              /\ ~file[p][fd].present
              /\ file'[p][fd] = OpenedAt(file[p][fd], table, i)
              /\ \A q \in Procs, g \in Fds : file'[q][g] = file[q][g] \/ (q = p /\ g = fd)
<1>1. CASE FreeFds(p) = {}
  BY <1>1 DEF Allocate
<1>2. CASE FreeFds(p) # {}
  <2>1. FreeFds(p) \subseteq Nat
    BY DEF FreeFds, Fds, FIRST_READABLE_FILE
  <2>2. PICK fd \in FreeFds(p) : fd = Smallest(FreeFds(p))
    BY <1>2, <2>1, SmallestIn
  <2>3. fd \in Fds /\ ~file[p][fd].present
    BY DEF FreeFds
  <2>4. file' = [file EXCEPT ![p][fd] = OpenedAt(file[p][fd], table, i)]
    BY <1>2, <2>2 DEF Allocate
  <2>5. /\ file'[p][fd] = OpenedAt(file[p][fd], table, i)
        /\ \A q \in Procs, g \in Fds : file'[q][g] = file[q][g] \/ (q = p /\ g = fd)
    BY <2>3, <2>4 DEF FileTypes
  <2> QED
    BY <2>3, <2>5
<1> QED
  BY <1>1, <1>2

\* sys_open of a name there is opens it if it is a file's.
LEMMA OpenFoundMapped ==
  ASSUME TypeInv, FilesInv, NEW p \in Procs, NEW name \in Names, OpenFound(p, name)
  PROVE  Mapped
<1>1. DiskSame /\ returned' = <<>>
  BY SameDisk DEF OpenFound
<1>2. PICK j \in Dentries : /\ ReadDentryByName(name) = directory_entries[j]
                            /\ directory_entries[j] \in Entries
                            /\ directory_entries[j].file_name = name
  BY DentryFacts DEF OpenFound, TypeInv
<1>3. PICK e \in Entries : e = directory_entries[j]
  BY <1>2
<1>4. Allocate(p, TableOf(e.file_type), e.inode_num)
  BY <1>2, <1>3 DEF OpenFound
<1>5. TableOf(e.file_type) = "files" <=> e.file_type = FS_TYPE_FILE
  BY TableType DEF Entries
<1>6. CASE UNCHANGED file
  BY <1>1, <1>6, QuietFiles
<1>7. ASSUME NEW fd \in Fds, ~file[p][fd].present,
             file'[p][fd] = OpenedAt(file[p][fd], TableOf(e.file_type), e.inode_num),
             \A q \in Procs, g \in Fds : file'[q][g] = file[q][g] \/ (q = p /\ g = fd)
      PROVE  Mapped
  <2>1. CASE e.file_type = FS_TYPE_FILE
    <3>1. e \in FileEntries
      BY <1>3, <2>1 DEF FileEntries
    <3>2. /\ ~IsFile(file[p][fd]) /\ DiskTypes
          /\ file'[p][fd] = OpenedAt(file[p][fd], "files", e.inode_num)
          /\ \A q \in Procs, g \in Fds : Alike(file[q][g], file'[q][g]) \/ (q = p /\ g = fd)
      BY <1>5, <1>7, <2>1 DEF IsFile, Alike, TypeInv
    <3>3. FilesInv' /\ Promised!Open(p, fd, e.file_name)
      BY <1>1, <3>1, <3>2, OpenStep
    <3>4. e.file_name \in Names
      BY <1>2, <1>3
    <3> QED
      BY <3>3, <3>4 DEF Mapped, Promised!Next
  <2>2. CASE e.file_type # FS_TYPE_FILE
    <3>1. ~IsFile(file'[p][fd])
      BY <1>5, <1>7, <2>2 DEF OpenedAt, IsFile
    <3>2. \A q \in Procs, g \in Fds : Alike(file[q][g], file'[q][g])
      BY <1>7, <3>1 DEF Alike, IsFile
    <3> QED
      BY <1>1, <3>2, QuietStep
  <2> QED
    BY <2>1, <2>2
<1>8. FileTypes
  BY DEF TypeInv
<1> QED
  BY <1>4, <1>6, <1>7, <1>8, AllocatedOne

\* The last step of a creation: the entry counts now, and only now there is the file.
LEMMA OpenCreatedMapped ==
  ASSUME TypeInv, DirectoryInv, FilesInv, NEW p \in Procs, OpenCreated(p)
  PROVE  Mapped
<1>1. /\ num_dir_entries < NUM_DENTRIES /\ new_dentry[p] = num_dir_entries
      /\ directory_entries[num_dir_entries] =
           [file_name |-> opening[p], file_type |-> FS_TYPE_FILE, inode_num |-> inode_idx[p]]
      /\ opening[p] \in Names /\ inode_idx[p] \in Inodes
  <2>1. pc[p] = "count" /\ Creating(p)
    BY DEF OpenCreated, Creating
  <2>2. /\ num_dir_entries < NUM_DENTRIES /\ new_dentry[p] = num_dir_entries
        /\ opening[p] \in Names /\ inode_idx[p] \in Inodes
    BY <2>1 DEF TypeInv, CreatorInv, Inodes
  <2>3. directory_entries[num_dir_entries] =
           [file_name |-> opening[p], file_type |-> FS_TYPE_FILE, inode_num |-> inode_idx[p]]
    BY <2>1 DEF DirectoryInv, InProgress
  <2> QED
    BY <2>2, <2>3
<1>2. PICK e \in Entries : /\ e = directory_entries[num_dir_entries]
                           /\ e.file_name = opening[p] /\ e.inode_num = inode_idx[p]
                           /\ e.file_type = FS_TYPE_FILE /\ e.file_name \in Names
  <2>1. [file_name |-> opening[p], file_type |-> FS_TYPE_FILE, inode_num |-> inode_idx[p]] \in Entries
    <3>1. FS_TYPE_FILE \in FS_TYPE_RTC..FS_TYPE_FILE
      BY DEF FS_TYPE_FILE, FS_TYPE_RTC
    <3> QED
      BY <1>1, <3>1 DEF Entries
  <2> QED
    BY <1>1, <2>1
<1>3. Fresh(e, FileEntries)
  <2>1. \A i \in Dentries : /\ directory_entries[i].file_name # opening[p]
                            /\ directory_entries[i].inode_num # inode_idx[p]
    BY DEF OpenCreated, Creating, DirectoryInv, InProgress
  <2> QED
    BY <1>2, <2>1 DEF Fresh, FileEntries
<1>4. FileEntries' = FileEntries \cup {e}
  <2>1. /\ num_dir_entries' = num_dir_entries + 1 /\ directory_entries' = directory_entries
        /\ num_dir_entries \in Nat
    BY DEF OpenCreated, TypeInv, DiskTypes
  <2>2. \A i : i \in Dentries' <=> i \in Dentries \/ i = num_dir_entries
    BY <2>1 DEF Dentries
  <2> QED
    BY <1>2, <2>1, <2>2 DEF FileEntries
<1>5. UNCHANGED <<inodes, data>> /\ returned' = <<>> /\ DescriptorsListed
  BY DEF OpenCreated, DirectoryInv
<1>6. Allocate(p, "files", e.inode_num)
  BY <1>1, <1>2 DEF OpenCreated
<1>7. CASE UNCHANGED file
  <2>1. \A q \in Procs, g \in Fds : Alike(file[q][g], file'[q][g])
    BY <1>7 DEF Alike
  <2>2. FilesInv' /\ Promised!OpenFails(e.file_name)
    BY <1>3, <1>4, <1>5, <2>1, CreateFailsStep
  <2> QED
    BY <1>2, <2>2 DEF Mapped, Promised!Next
<1>8. ASSUME NEW fd \in Fds, ~file[p][fd].present,
             file'[p][fd] = OpenedAt(file[p][fd], "files", e.inode_num),
             \A q \in Procs, g \in Fds : file'[q][g] = file[q][g] \/ (q = p /\ g = fd)
      PROVE  Mapped
  <2>1. /\ ~IsFile(file[p][fd])
        /\ \A q \in Procs, g \in Fds : Alike(file[q][g], file'[q][g]) \/ (q = p /\ g = fd)
    BY <1>8 DEF IsFile, Alike
  <2>2. FilesInv' /\ Promised!Open(p, fd, e.file_name)
    BY <1>3, <1>4, <1>5, <1>8, <2>1, CreateStep
  <2> QED
    BY <1>2, <2>2 DEF Mapped, Promised!Next
<1>9. FileTypes
  BY DEF TypeInv
<1> QED
  BY <1>6, <1>7, <1>8, <1>9, AllocatedOne

\* Every system call on files and directories.
LEMMA FileStepMapped ==
  ASSUME ~AnySize, TypeInv, DirectoryInv, FilesInv, NEW p \in Procs, FileStep(p)
  PROVE  Mapped
<1>0. FileTypes /\ DescriptorsListed
  BY DEF TypeInv, DirectoryInv
<1>1. ASSUME NEW name \in Names, OpenFound(p, name)
      PROVE  Mapped
  BY <1>1, OpenFoundMapped
<1>2. ASSUME NEW name \in Names, CreateFile(p, name)
      PROVE  Mapped
  BY <1>2, SameDisk, QuietFiles DEF CreateFile
<1>3. CASE ClaimInode(p) \/ ClaimFails(p)
  <2>1. DiskSame
    BY <1>3 DEF ClaimInode, ClaimFails, DiskSame, FileEntries, Dentries
  <2> QED
    BY <1>3, <2>1, QuietFiles DEF ClaimInode, ClaimFails
<1>4. CASE ClaimBlock(p)
  <2>1. \A i \in Dentries : directory_entries'[i] = directory_entries[i]
    BY <1>4, ClaimBlockDirectory
  <2>2. DiskSame
    BY <1>4, <2>1 DEF ClaimBlock, DiskSame, FileEntries, Dentries
  <2> QED
    BY <1>4, <2>2, QuietFiles DEF ClaimBlock
<1>5. CASE OpenCreated(p)
  BY <1>5, OpenCreatedMapped
<1>6. CASE Exit(p)
  <2>1. DiskSame /\ returned' = <<>>
    BY <1>6, SameDisk DEF Exit
  <2>2. \A f : ~IsFile(Ended(f))
    BY DEF Ended, Closed, IsFile
  <2>3. \A q \in Procs, g \in Fds :
          IF q = p /\ g \in Fds THEN ~IsFile(file'[q][g]) ELSE Alike(file[q][g], file'[q][g])
    BY <1>0, <1>6, <2>2 DEF Exit, FileTypes, Alike
  <2> QED
    BY <2>1, <2>3, ClosesMapped
<1>7. ASSUME NEW fd \in Fds, Close(p, fd)
      PROVE  Mapped
  <2>1. DiskSame /\ returned' = <<>>
    BY <1>7, SameDisk DEF Close
  <2>2. ~IsFile(Closed)
    BY DEF Closed, IsFile
  <2>3. \A q \in Procs, g \in Fds :
          IF q = p /\ g \in {fd} THEN ~IsFile(file'[q][g]) ELSE Alike(file[q][g], file'[q][g])
    BY <1>0, <1>7, <2>2 DEF Close, FileTypes, Alike
  <2>4. {fd} \in SUBSET Fds
    OBVIOUS
  <2> QED
    BY <2>1, <2>3, <2>4, ClosesMapped
<1>8. ASSUME NEW fd \in Fds, DirRead(p, fd)
      PROVE  Mapped
  <2>1. DiskSame /\ returned' = <<>>
    BY <1>8, SameDisk DEF DirRead
  <2>2. /\ file[p][fd].table # "files" /\ file[p][fd] \in FileRecords
        /\ file' = [file EXCEPT ![p][fd].file_position = file[p][fd].file_position + 1]
    BY <1>0, <1>8 DEF DirRead, Has, FileTypes
  <2>3. file[p][fd].file_position + 1 \in Int
    BY <2>2 DEF FileRecords
  <2>4. \A q \in Procs, g \in Fds : Alike(file[q][g], file'[q][g])
    BY <1>0, <2>2, <2>3, MovedOther
  <2> QED
    BY <2>1, <2>4, QuietStep
<1>9. ASSUME NEW fd \in Fds, NEW n \in Lengths, FileRead(p, fd, n)
      PROVE  Mapped
  <2>1. FilesInv' /\ Promised!Read(p, fd, n)
    BY <1>0, <1>9, ReadStep
  <2> QED
    BY <2>1 DEF Mapped, Promised!Next
<1>10. ASSUME NEW fd \in Fds, NEW buf \in workload.writes, FileWrite(p, fd, buf)
       PROVE  Mapped
  <2>1. FilesInv' /\ Promised!Write(p, fd, buf)
    BY <1>0, <1>10, WriteStep
  <2>2. buf \in Buffers
    BY WrittenBuffers DEF TypeInv
  <2> QED
    BY <2>1, <2>2 DEF Mapped, Promised!Next
<1>11. ASSUME NEW fd \in Fds, NEW buf \in workload.writes, FileWriteFails(p, fd, buf)
       PROVE  Mapped
  <2>1. FilesInv' /\ Promised!WriteFails(p, fd)
    BY <1>0, <1>11, WriteFailsStep
  <2> QED
    BY <2>1 DEF Mapped, Promised!Next
<1> QED
  BY <1>1, <1>2, <1>3, <1>4, <1>5, <1>6, <1>7, <1>8, <1>9, <1>10, <1>11 DEF FileStep

\* The devices share nothing with the files but the table of descriptors.
LEMMA DeviceStepMapped ==
  ASSUME TypeInv, FilesInv, NEW p \in Procs, RtcStep(p) \/ MouseStep(p)
  PROVE  Mapped
<1>0. FileTypes
  BY DEF TypeInv
<1>1. ASSUME UNCHANGED fsVars, UNCHANGED file, returned' = <<>>
      PROVE  Mapped
  BY <1>1, SameDisk, QuietFiles
<1>2. ASSUME NEW fd \in Fds, NEW freq \in Frequencies, RtcWrite(p, fd, freq)
      PROVE  Mapped
  <2>1. DiskSame /\ returned' = <<>>
    BY <1>2, SameDisk DEF RtcWrite
  <2>2. /\ file[p][fd].table # "files" /\ PeriodOf(freq) \in Int
        /\ file' = [file EXCEPT ![p][fd].file_position = PeriodOf(freq)]
    BY <1>2, PeriodFacts DEF RtcWrite, Has
  <2>3. \A q \in Procs, g \in Fds : Alike(file[q][g], file'[q][g])
    BY <1>0, <2>2, MovedOther
  <2> QED
    BY <2>1, <2>3, QuietStep
<1>3. CASE RtcStep(p)
  <2>1. CASE RtcReadEnds(p)
    BY <1>1, <2>1 DEF RtcReadEnds
  <2>2. ASSUME NEW fd \in Fds, RtcRead(p, fd)
        PROVE  Mapped
    BY <1>1, <2>2 DEF RtcRead
  <2> QED
    BY <1>2, <1>3, <2>1, <2>2 DEF RtcStep
<1>4. CASE MouseStep(p)
  <2>1. UNCHANGED fsVars /\ returned' = <<>> /\ (UNCHANGED file \/ Allocate(p, "mouse", 0))
    BY <1>4, MouseStepFacts DEF TypeInv
  <2>2. ASSUME NEW fd \in Fds, ~file[p][fd].present,
               file'[p][fd] = OpenedAt(file[p][fd], "mouse", 0),
               \A q \in Procs, g \in Fds : file'[q][g] = file[q][g] \/ (q = p /\ g = fd)
        PROVE  Mapped
    <3>1. \A q \in Procs, g \in Fds : Alike(file[q][g], file'[q][g])
      BY <2>2 DEF Alike, IsFile, OpenedAt
    <3>2. DiskSame
      BY <2>1, SameDisk
    <3> QED
      BY <2>1, <3>1, <3>2, QuietStep
  <2>3. CASE UNCHANGED file
    BY <1>1, <2>1, <2>3
  <2> QED
    BY <1>0, <2>1, <2>2, <2>3, AllocatedOne
<1> QED
  BY <1>3, <1>4

\* Interrupts do not touch files.
LEMMA InterruptMapped ==
  ASSUME FilesInv, RtcHandler \/ \E packet \in Packets : MouseHandler(packet)
  PROVE  Mapped
<1>1. UNCHANGED fsVars /\ UNCHANGED file /\ returned' = <<>>
  BY DEF RtcHandler, MouseHandler
<1> QED
  BY <1>1, SameDisk, QuietFiles

\* Every step of the system.
LEMMA NextFiles ==
  ASSUME ~AnySize, TypeInv, DirectoryInv, FilesInv, [Next]_vars
  PROVE  Mapped
<1>1. CASE UNCHANGED vars
  <2>1. UNCHANGED fsVars /\ UNCHANGED file /\ UNCHANGED returned
    BY <1>1 DEF vars, fdVars
  <2>2. DiskSame /\ \A q \in Procs, g \in Fds : Alike(file[q][g], file'[q][g])
    BY <2>1, SameDisk DEF Alike
  <2>3. FilesInv' /\ UNCHANGED <<AbstractFiles, AbstractHandles>>
    BY <2>2, OtherStep
  <2> QED
    BY <2>1, <2>3 DEF Mapped, Promised!vars
<1>2. CASE Next
  BY <1>2, FileStepMapped, DeviceStepMapped, InterruptMapped DEF Next
<1> QED
  BY <1>1, <1>2

\* The system calls on files, by any number of processes, do what Files says:
\* the blocks, the bitmaps and the directory of fs.c hold sequences of bytes by
\* name, and what has been written to one is what is read from it.
THEOREM FilesImplemented ==
  ASSUME ~Preempt, ~AnySize
  PROVE  Spec => ImplementsFiles
<1> DEFINE Inv == TypeInv /\ DirectoryInv /\ FilesInv
<1>1. Init => Inv /\ Promised!Init
  BY InitTypes, InitDirectory, InitFiles
<1>2. Inv /\ [Next]_vars => Inv'
  BY NextTypes, NextDirectory, NextFiles DEF Mapped
<1>3. Inv /\ [Next]_vars => [Promised!Next]_(Promised!vars)
  BY NextFiles DEF Mapped
<1> HIDE DEF Inv
<1> QED
  BY <1>1, <1>2, <1>3, PTL DEF Spec, ImplementsFiles, Promised!Spec
=============================================================================
