----------------------- MODULE TerminalEditor_proofs -----------------------
(***************************************************************************)
(* Proof that a terminal implements LineEditor, for every size of its      *)
(* buffers, when programs prompt and no key slips in between Enter and the *)
(* reader.                                                                 *)
(***************************************************************************)
EXTENDS Reads_proofs, TerminalEditor, SequenceTheorems

\* The characters of a text: no newline is among them.
TextChars == Printable \cup {NUL}

\* The cells of live_buffer that are in use.
InUse == IF pc = "writing" THEN bytes_written ELSE bytes_read

\* The first n cells of an array hold no newline.
IsClean(buf, n) == \A i \in Cells : i < n => buf[i] \in TextChars

LineClean == IsClean(live_buffer, InUse)

StoreClean ==
  /\ pc \in {"waiting", "matched"} /\ LineComplete =>
       IsClean(live_buffer_store, bytes_read_store)
  /\ pc = "waiting" /\ ~LineComplete => bytes_read_store = 0

CommandsClean ==
  /\ command_buffer \in [Commands -> [RowCells -> TextChars]]
  /\ temp_command \in TextChars

\* A newline only ever ends a line: none is in the prompt or in what is typed
\* behind it, in a line that was entered, in a row of command_buffer, nor in
\* the line that the arrow keys put aside, which is always empty because a
\* key finds no line that waits for its reader.
CleanInv == WaitInv /\ LineClean /\ StoreClean /\ CommandsClean

-----------------------------------------------------------------------------
\* The first n cells of an array as a sequence.
CellsBelow(buf, n) == CellsOf(buf, 0, n)

\* Cells first .. last - 1 of an array are members of S.
AreIn(buf, first, last, S) == \A i \in first .. last - 1 : buf[i] \in S

\* What is to be known of the sequence of those cells.
IsStretch(s, buf, first, last, S) ==
  /\ s \in Seq(S)
  /\ Len(s) = last - first
  /\ \A k \in 1 .. last - first : s[k] = buf[first + k - 1]

\* A stretch of an array as a sequence.
LEMMA CellsOfProperties ==
  ASSUME NEW S, NEW buf, NEW first \in Nat, NEW last \in Nat, first <= last,
         AreIn(buf, first, last, S)
  PROVE  IsStretch(CellsOf(buf, first, last), buf, first, last, S)
<1> DEFINE n == last - first
           s == [i \in 1 .. n |-> buf[first + i - 1]]
<1>1. n \in Nat /\ CellsOf(buf, first, last) = s
  BY DEF CellsOf
<1>2. \A i \in 1 .. n : buf[first + i - 1] \in S
  <2> SUFFICES ASSUME NEW i \in 1 .. n PROVE buf[first + i - 1] \in S
    OBVIOUS
  <2>1. first + i - 1 \in first .. last - 1
    BY <1>1
  <2> QED BY <2>1 DEF AreIn
<1> HIDE DEF n
<1>3. s \in Seq(S) /\ Len(s) = n
  BY <1>1, <1>2
<1> QED BY <1>1, <1>3 DEF n, IsStretch

\* Two stretches with the same cells.
LEMMA SameCells ==
  ASSUME NEW buf, NEW buf2, NEW first \in Nat, NEW last \in Nat,
         \A i \in first .. last - 1 : buf2[i] = buf[i]
  PROVE  CellsOf(buf2, first, last) = CellsOf(buf, first, last)
<1>1. \A i \in 1 .. last - first : buf2[first + i - 1] = buf[first + i - 1]
  <2> SUFFICES ASSUME NEW i \in 1 .. last - first PROVE buf2[first + i - 1] = buf[first + i - 1]
    OBVIOUS
  <2>1. first + i - 1 \in first .. last - 1
    OBVIOUS
  <2> QED BY <2>1
<1> QED BY <1>1 DEF CellsOf

LEMMA SameCellsBelow ==
  ASSUME NEW buf, NEW buf2, NEW n \in Nat, \A i \in 0 .. n - 1 : buf2[i] = buf[i]
  PROVE  CellsBelow(buf2, n) = CellsBelow(buf, n)
<1>1. 0 \in Nat
  OBVIOUS
<1> QED BY <1>1, SameCells DEF CellsBelow

\* An empty stretch.
LEMMA NoCells ==
  ASSUME NEW buf, NEW first \in Nat
  PROVE  CellsOf(buf, first, first) = <<>>
<1>1. first - first = 0 /\ first <= first /\ AreIn(buf, first, first, {})
  BY DEF AreIn
<1>2. CellsOf(buf, first, first) \in Seq({}) /\ Len(CellsOf(buf, first, first)) = 0
  <2>1. IsStretch(CellsOf(buf, first, first), buf, first, first, {})
    BY <1>1, CellsOfProperties, Zenon
  <2> QED BY <1>1, <2>1 DEF IsStretch
<1> QED BY <1>2, EmptySeq

\* The beginning of a sequence, and the rest of it.
LEMMA Beginning ==
  ASSUME NEW S, NEW t \in Seq(S), NEW n \in Nat, n <= Len(t)
  PROVE  /\ SubSeq(t, 1, n) \in Seq(S) /\ Len(SubSeq(t, 1, n)) = n
         /\ \A k \in 1 .. n : SubSeq(t, 1, n)[k] = t[k]
<1> DEFINE b == SubSeq(t, 1, n)
<1>1. \A i \in 1 .. n : t[i] \in S
  OBVIOUS
<1>2. /\ b \in Seq(S) /\ Len(b) = IF 1 <= n THEN n - 1 + 1 ELSE 0
      /\ \A i \in 1 .. n - 1 + 1 : b[i] = t[1 + i - 1]
  BY <1>1, SubSeqProperties
<1> HIDE DEF b
<1>3. b \in Seq(S) /\ Len(b) = n /\ \A k \in 1 .. n : b[k] = t[k]
  BY <1>2
<1> QED BY <1>3 DEF b

LEMMA Remainder ==
  ASSUME NEW S, NEW t \in Seq(S), NEW n \in Nat, n <= Len(t)
  PROVE  /\ SubSeq(t, n + 1, Len(t)) \in Seq(S)
         /\ Len(SubSeq(t, n + 1, Len(t))) = Len(t) - n
         /\ \A k \in 1 .. Len(t) - n : SubSeq(t, n + 1, Len(t))[k] = t[n + k]
<1> DEFINE a == SubSeq(t, n + 1, Len(t))
<1>0. Len(t) \in Nat
  OBVIOUS
<1>1. \A i \in n + 1 .. Len(t) : t[i] \in S
  OBVIOUS
<1>2. /\ a \in Seq(S)
      /\ Len(a) = IF n + 1 <= Len(t) THEN Len(t) - (n + 1) + 1 ELSE 0
      /\ \A i \in 1 .. Len(t) - (n + 1) + 1 : a[i] = t[n + 1 + i - 1]
  BY <1>0, <1>1, SubSeqProperties
<1> HIDE DEF a
<1>3. Len(a) = Len(t) - n /\ Len(t) - (n + 1) + 1 = Len(t) - n
  BY <1>0, <1>2
<1>4. ASSUME NEW k \in 1 .. Len(t) - n PROVE a[k] = t[n + k]
  <2>1. k \in 1 .. Len(t) - (n + 1) + 1 /\ n + 1 + k - 1 = n + k
    BY <1>0, <1>3
  <2> QED BY <1>2, <2>1
<1> QED BY <1>2, <1>3, <1>4 DEF a

\* What Inserted does to the stretch it inserts into.
LEMMA InsertedCells ==
  ASSUME NEW buf \in [Cells -> Chars], NEW first \in Nat, NEW at \in Nat, NEW last \in Nat,
         first <= at, at <= last, last + 1 \in Cells, NEW c \in TextChars,
         IsClean(buf, last)
  PROVE  LET t == CellsOf(buf, first, last)
             n == at - first
         IN  /\ IsClean(Inserted(buf, at, last, c), last + 1)
             /\ CellsOf(Inserted(buf, at, last, c), first, last + 1) =
                  SubSeq(t, 1, n) \o <<c>> \o SubSeq(t, n + 1, Len(t))
             /\ CellsBelow(Inserted(buf, at, last, c), first) = CellsBelow(buf, first)
<1> DEFINE new == Inserted(buf, at, last, c)
           t == CellsOf(buf, first, last)
           u == CellsOf(new, first, last + 1)
           n == at - first
           b == SubSeq(t, 1, n)
           a == SubSeq(t, n + 1, Len(t))
<1>0. /\ n \in Nat /\ last \in Cells /\ \A i \in Nat : i <= last + 1 => i \in Cells
      /\ Cells \subseteq Nat
  BY TerminalSizes DEF Cells
<1>1. \A i \in Cells : new[i] = IF i = at THEN c
                                ELSE IF at < i /\ i <= last THEN buf[i - 1] ELSE buf[i]
  BY DEF Inserted
<1>2. IsClean(new, last + 1)
  <2> SUFFICES ASSUME NEW i \in Cells, i < last + 1 PROVE new[i] \in TextChars
    BY DEF IsClean
  <2>1. CASE at < i /\ i <= last
    <3>1. i - 1 \in Cells /\ i - 1 < last
      BY <1>0, <2>1
    <3> QED BY <1>1, <2>1, <3>1 DEF IsClean
  <2>2. CASE ~(at < i /\ i <= last)
    <3>1. i # at => i < last
      BY <2>2 DEF Cells
    <3> QED BY <1>1, <2>2, <3>1 DEF IsClean
  <2> QED BY <2>1, <2>2
<1> HIDE DEF new
<1>3. /\ t \in Seq(TextChars) /\ Len(t) = last - first
      /\ \A k \in 1 .. last - first : t[k] = buf[first + k - 1]
  <2>1. first <= last /\ AreIn(buf, first, last, TextChars)
    BY <1>0 DEF AreIn, IsClean
  <2>2. IsStretch(CellsOf(buf, first, last), buf, first, last, TextChars)
    BY <2>1, CellsOfProperties, Zenon
  <2> QED BY <2>2, Zenon DEF IsStretch
<1>4. /\ u \in Seq(TextChars) /\ Len(u) = last + 1 - first
      /\ \A k \in 1 .. last + 1 - first : u[k] = new[first + k - 1]
  <2>1. AreIn(new, first, last + 1, TextChars)
    BY <1>0, <1>2 DEF AreIn, IsClean
  <2>2. last + 1 \in Nat /\ first <= last + 1
    OBVIOUS
  <2>3. IsStretch(CellsOf(new, first, last + 1), new, first, last + 1, TextChars)
    BY <2>1, <2>2, CellsOfProperties, Zenon
  <2>4. IsStretch(u, new, first, last + 1, TextChars)
    BY <2>3
  <2> HIDE DEF u
  <2> QED BY <2>4 DEF IsStretch
<1> HIDE DEF t, u
<1>b. Len(t) \in Nat /\ n <= Len(t)
  BY <1>0, <1>3
<1>5. /\ b \in Seq(TextChars) /\ Len(b) = n
      /\ \A k \in 1 .. n : b[k] = t[k]
  <2> HIDE DEF n
  <2> QED BY <1>0, <1>3, <1>b, Beginning
<1>6. /\ a \in Seq(TextChars) /\ Len(a) = Len(t) - n
      /\ \A k \in 1 .. Len(t) - n : a[k] = t[n + k]
  <2> HIDE DEF n
  <2> QED BY <1>0, <1>3, <1>b, Remainder
<1>7. /\ b \o <<c>> \o a \in Seq(TextChars) /\ Len(b \o <<c>> \o a) = Len(t) + 1
      /\ \A k \in 1 .. Len(t) + 1 :
           (b \o <<c>> \o a)[k] = IF k <= n THEN b[k] ELSE IF k = n + 1 THEN c ELSE a[k - (n + 1)]
  <2>1. <<c>> \in Seq(TextChars) /\ Len(<<c>>) = 1 /\ <<c>>[1] = c
    OBVIOUS
  <2>2. /\ b \o <<c>> \in Seq(TextChars) /\ Len(b \o <<c>>) = n + 1
        /\ \A i \in 1 .. n + 1 : (b \o <<c>>)[i] = IF i <= n THEN b[i] ELSE <<c>>[i - n]
    BY <1>5, <2>1, ConcatProperties
  <2>3. /\ (b \o <<c>>) \o a \in Seq(TextChars)
        /\ Len((b \o <<c>>) \o a) = Len(b \o <<c>>) + Len(a)
        /\ \A i \in 1 .. Len(b \o <<c>>) + Len(a) :
             ((b \o <<c>>) \o a)[i] = IF i <= Len(b \o <<c>>) THEN (b \o <<c>>)[i]
                                      ELSE a[i - Len(b \o <<c>>)]
    BY <1>6, <2>2, ConcatProperties
  <2>4. Len(t) \in Nat /\ n <= Len(t)
    BY <1>3
  <2> HIDE DEF n, a, b
  <2>5. \A i \in 1 .. n + 1 : ~(i <= n) => i = n + 1 /\ i - n = 1
    BY <1>0
  <2> QED BY <1>0, <1>6, <2>1, <2>2, <2>3, <2>4, <2>5
<1>8. u = b \o <<c>> \o a
  <2> DEFINE v == b \o <<c>> \o a
  <2>1. Len(u) = Len(v)
    BY <1>3, <1>4, <1>7
  <2>2. ASSUME NEW k \in 1 .. Len(u) PROVE u[k] = v[k]
    <3> DEFINE i == first + k - 1
    <3>1. /\ k \in Nat /\ k >= 1 /\ k <= last + 1 - first /\ k <= Len(t) + 1
          /\ i \in Cells /\ u[k] = new[i]
      BY <1>0, <1>3, <1>4
    <3>2. v[k] = IF k <= n THEN b[k] ELSE IF k = n + 1 THEN c ELSE a[k - (n + 1)]
      BY <1>3, <1>7, <3>1
    <3> HIDE DEF v
    <3>3. CASE k <= n
      <4>1. i < at /\ k <= last - first
        BY <3>1, <3>3
      <4>2. new[i] = buf[i] /\ b[k] = t[k] /\ t[k] = buf[i]
        BY <1>0, <1>1, <1>3, <1>5, <3>1, <3>3, <4>1
      <4> QED BY <3>1, <3>2, <3>3, <4>2
    <3>4. CASE k = n + 1
      <4>1. i = at /\ ~(k <= n)
        BY <1>0, <3>1, <3>4
      <4> QED BY <1>1, <3>1, <3>2, <3>4, <4>1
    <3>5. CASE k > n + 1
      <4>1. at < i /\ i <= last /\ ~(k <= n) /\ k # n + 1
        BY <1>0, <3>1, <3>5
      <4>2. k - (n + 1) \in 1 .. Len(t) - n /\ k - 1 \in 1 .. last - first
        <5>1. /\ n \in Int /\ k \in Int /\ Len(t) \in Int /\ Len(t) = last - first
              /\ n <= Len(t) /\ k <= Len(t) + 1
          BY <1>0, <1>3, <3>1
        <5>2. n >= 0
          BY <1>0
        <5> HIDE DEF n
        <5>3. k - (n + 1) \in 1 .. Len(t) - n
          BY <3>5, <5>1
        <5>4. k - 1 \in 1 .. Len(t)
          BY <3>5, <5>1, <5>2
        <5> QED BY <5>1, <5>3, <5>4
      <4>4. n + (k - (n + 1)) = k - 1 /\ first + (k - 1) - 1 = i - 1
        <5>1. n \in Int /\ k \in Int
          BY <1>0, <3>1
        <5> HIDE DEF n
        <5> QED BY <5>1
      <4>3. a[k - (n + 1)] = t[k - 1] /\ t[k - 1] = buf[i - 1]
        <5> HIDE DEF a, n, i
        <5> QED BY <1>3, <1>6, <4>2, <4>4
      <4> QED BY <1>1, <3>1, <3>2, <4>1, <4>3
    <3> QED BY <1>0, <3>1, <3>3, <3>4, <3>5
  <2> HIDE DEF v
  <2> QED BY <1>4, <1>7, <2>1, <2>2, SeqEqual DEF v
<1>9. CellsBelow(new, first) = CellsBelow(buf, first)
  <2>1. \A i \in 0 .. first - 1 : new[i] = buf[i]
    <3> SUFFICES ASSUME NEW i \in 0 .. first - 1 PROVE new[i] = buf[i]
      OBVIOUS
    <3>1. i \in Cells /\ i # at /\ ~(at < i /\ i <= last)
      BY <1>0
    <3> QED BY <1>1, <3>1, Zenon
  <2> QED BY <2>1, SameCellsBelow
<1> QED BY <1>2, <1>8, <1>9 DEF new, t, u
\* What Erased does to the stretch it erases from.
LEMMA ErasedCells ==
  ASSUME NEW buf \in [Cells -> Chars], NEW first \in Nat, NEW at \in Nat, NEW last \in Nat,
         first <= at, at <= last, last + 1 \in Cells,
         IsClean(buf, last + 1)
  PROVE  LET t == CellsOf(buf, first, last + 1)
             n == at - first
         IN  /\ IsClean(Erased(buf, at, last), last)
             /\ CellsOf(Erased(buf, at, last), first, last) =
                  SubSeq(t, 1, n) \o SubSeq(t, n + 2, Len(t))
             /\ CellsBelow(Erased(buf, at, last), first) = CellsBelow(buf, first)
<1> DEFINE new == Erased(buf, at, last)
           t == CellsOf(buf, first, last + 1)
           u == CellsOf(new, first, last)
           n == at - first
           b == SubSeq(t, 1, n)
           a == SubSeq(t, n + 1 + 1, Len(t))
<1>0. /\ n \in Nat /\ last \in Cells /\ \A i \in Nat : i <= last + 1 => i \in Cells
      /\ Cells \subseteq Nat
  BY TerminalSizes DEF Cells
<1>1. \A i \in Cells : i < last => new[i] = IF at <= i THEN buf[i + 1] ELSE buf[i]
  <2> SUFFICES ASSUME NEW i \in Cells, i < last
               PROVE  new[i] = IF at <= i THEN buf[i + 1] ELSE buf[i]
    OBVIOUS
  <2>1. i \in Nat
    BY <1>0
  <2>2. new[i] = IF at < last /\ at <= i /\ i <= last THEN buf[i + 1]
                 ELSE IF i = (IF at < last THEN last + 1 ELSE at) THEN NUL
                 ELSE buf[i]
    BY DEF Erased
  <2> HIDE DEF new
  <2> QED BY <2>1, <2>2
<1>2. IsClean(new, last)
  <2> SUFFICES ASSUME NEW i \in Cells, i < last PROVE new[i] \in TextChars
    BY DEF IsClean
  <2>1. i \in Nat /\ i + 1 \in Cells /\ i + 1 < last + 1 /\ i < last + 1
    BY <1>0
  <2> HIDE DEF new
  <2> QED BY <1>1, <2>1 DEF IsClean
<1>9. CellsBelow(new, first) = CellsBelow(buf, first)
  <2>1. \A i \in 0 .. first - 1 : new[i] = buf[i]
    <3> SUFFICES ASSUME NEW i \in 0 .. first - 1 PROVE new[i] = buf[i]
      OBVIOUS
    <3>1. i \in Cells /\ i < last /\ ~(at <= i)
      BY <1>0
    <3>2. new[i] = IF at <= i THEN buf[i + 1] ELSE buf[i]
      BY <1>1, <3>1, Zenon
    <3> HIDE DEF new
    <3> QED BY <3>1, <3>2
  <2> HIDE DEF new
  <2> QED BY <2>1, SameCellsBelow
<1> HIDE DEF new
<1>3. /\ t \in Seq(TextChars) /\ Len(t) = last + 1 - first
      /\ \A k \in 1 .. last + 1 - first : t[k] = buf[first + k - 1]
  <2>1. AreIn(buf, first, last + 1, TextChars)
    BY <1>0 DEF AreIn, IsClean
  <2>2. last + 1 \in Nat /\ first <= last + 1
    OBVIOUS
  <2>3. IsStretch(CellsOf(buf, first, last + 1), buf, first, last + 1, TextChars)
    BY <2>1, <2>2, CellsOfProperties, Zenon
  <2> QED BY <2>3 DEF IsStretch
<1>4. /\ u \in Seq(TextChars) /\ Len(u) = last - first
      /\ \A k \in 1 .. last - first : u[k] = new[first + k - 1]
  <2>1. first <= last /\ AreIn(new, first, last, TextChars)
    BY <1>0, <1>2 DEF AreIn, IsClean
  <2>2. IsStretch(CellsOf(new, first, last), new, first, last, TextChars)
    BY <2>1, CellsOfProperties, Zenon
  <2> QED BY <2>2 DEF IsStretch
<1> HIDE DEF t, u
<1>b. Len(t) \in Nat /\ n <= Len(t) /\ n + 1 <= Len(t) /\ n + 1 \in Nat
  BY <1>0, <1>3
<1>5. /\ b \in Seq(TextChars) /\ Len(b) = n
      /\ \A k \in 1 .. n : b[k] = t[k]
  <2> HIDE DEF n
  <2> QED BY <1>0, <1>3, <1>b, Beginning
<1>6. /\ a \in Seq(TextChars) /\ Len(a) = Len(t) - (n + 1)
      /\ \A k \in 1 .. Len(t) - (n + 1) : a[k] = t[n + 1 + k]
  <2> HIDE DEF n
  <2> QED BY <1>0, <1>3, <1>b, Remainder
<1> HIDE DEF a, b
<1>7. /\ b \o a \in Seq(TextChars) /\ Len(b \o a) = n + Len(a)
      /\ \A k \in 1 .. n + Len(a) :
           (b \o a)[k] = IF k <= n THEN b[k] ELSE a[k - n]
  <2>1. /\ b \o a \in Seq(TextChars) /\ Len(b \o a) = Len(b) + Len(a)
        /\ \A i \in 1 .. Len(b) + Len(a) :
             (b \o a)[i] = IF i <= Len(b) THEN b[i] ELSE a[i - Len(b)]
    BY <1>5, <1>6, ConcatProperties
  <2> HIDE DEF n
  <2> QED BY <1>5, <2>1
<1>8. u = b \o a
  <2> DEFINE v == b \o a
  <2>1. Len(u) = Len(v) /\ Len(u) = n + Len(a)
    BY <1>0, <1>3, <1>4, <1>6, <1>7
  <2>2. ASSUME NEW k \in 1 .. Len(u) PROVE u[k] = v[k]
    <3> DEFINE i == first + k - 1
    <3>1. /\ k \in Nat /\ k >= 1 /\ k <= last - first /\ k <= n + Len(a)
          /\ i \in Cells /\ i < last /\ u[k] = new[i]
      <4> HIDE DEF n, v
      <4>1. Len(u) = last - first /\ last \in Nat
        BY <1>0, <1>4
      <4>2. k \in Nat /\ k >= 1 /\ k <= last - first /\ k \in 1 .. last - first
        BY <4>1
      <4>3. i \in Nat /\ i < last
        BY <4>1, <4>2
      <4>4. i \in Cells
        BY <1>0, <4>1, <4>3
      <4>5. u[k] = new[i]
        BY <1>4, <4>2
      <4>6. k <= n + Len(a)
        BY <2>1, <4>1, <4>2
      <4> QED BY <4>2, <4>3, <4>4, <4>5, <4>6
    <3>2. v[k] = IF k <= n THEN b[k] ELSE a[k - n]
      BY <1>3, <1>7, <2>1, <3>1
    <3>0. n \in Int /\ k \in Int /\ i \in Int
      BY <1>0, <3>1
    <3> HIDE DEF v
    <3>3. CASE k <= n
      <4>1. ~(at <= i) /\ k \in 1 .. last + 1 - first
        BY <3>1, <3>3
      <4>2. new[i] = buf[i] /\ b[k] = t[k] /\ t[k] = buf[i]
        BY <1>0, <1>1, <1>3, <1>5, <3>1, <3>3, <4>1
      <4> QED BY <3>1, <3>2, <3>3, <4>2
    <3>4. CASE k > n
      <4>1. at <= i /\ ~(k <= n)
        BY <1>0, <3>1, <3>4
      <4>2. k - n \in 1 .. Len(t) - (n + 1) /\ k + 1 \in 1 .. last + 1 - first
        BY <1>0, <1>3, <3>1, <3>4
      <4>3. n + 1 + (k - n) = k + 1 /\ first + (k + 1) - 1 = i + 1
        <5> HIDE DEF n
        <5> QED BY <3>0
      <4>4. a[k - n] = t[k + 1] /\ t[k + 1] = buf[i + 1]
        <5> HIDE DEF n, i
        <5> QED BY <1>3, <1>6, <4>2, <4>3
      <4> QED BY <1>1, <3>1, <3>2, <4>1, <4>4
    <3> QED BY <3>0, <3>3, <3>4
  <2> HIDE DEF v
  <2> QED BY <1>4, <1>7, <2>1, <2>2, SeqEqual DEF v
<1>10. n + 1 + 1 = n + 2
  BY <1>0
<1> QED BY <1>2, <1>8, <1>9, <1>10 DEF new, t, u, a, b

-----------------------------------------------------------------------------
\* The variables of LineEditor.
ShownPrompt == IF pc = "writing" THEN <<>> ELSE CellsBelow(live_buffer, bytes_written)
ShownText   == IF pc = "writing" THEN <<>>
               ELSE CellsOf(live_buffer, bytes_written, bytes_read)
ShownCursor == IF pc = "writing" THEN 0 ELSE live_buffer_location - bytes_written
HeldLine    == IF pc \in {"waiting", "matched"} /\ LineComplete THEN EnteredLine
               ELSE NoLine

\* What FitInv says of the line while no program writes.
LEMMA LineFacts ==
  ASSUME FitInv, pc # "writing"
  PROVE  /\ live_buffer \in [Cells -> Chars]
         /\ bytes_written \in Nat /\ live_buffer_location \in Nat /\ bytes_read \in Nat
         /\ bytes_written < NUM_COLS
         /\ bytes_written <= live_buffer_location /\ live_buffer_location <= bytes_read
         /\ bytes_read <= CHAR_BUFFER_SIZE - 1 + bytes_written
         /\ \A n \in Nat : n < CHAR_BUFFER_SIZE + bytes_written => n \in Cells
  BY TerminalSizes
  DEF FitInv, LineInv, LineBounds, LoopInv, TerminalTypeOK, LineTypes, Cells

\* The text as long as no program writes.
LEMMA TextFacts ==
  ASSUME CleanInv, pc # "writing"
  PROVE  /\ ShownText \in Seq(TextChars)
         /\ Len(ShownText) = bytes_read - bytes_written
<1>1. bytes_written \in Nat /\ bytes_read \in Nat /\ bytes_written <= bytes_read
  BY LineFacts DEF CleanInv, WaitInv
<1>2. AreIn(live_buffer, bytes_written, bytes_read, TextChars)
  <2> SUFFICES ASSUME NEW i \in bytes_written .. bytes_read - 1
               PROVE  live_buffer[i] \in TextChars
    BY DEF AreIn
  <2>1. i \in Nat /\ i < bytes_read
    BY <1>1
  <2>2. i \in Cells
    <3>1. i < CHAR_BUFFER_SIZE + bytes_written
      BY <1>1, <2>1, LineFacts, TerminalSizes DEF CleanInv, WaitInv
    <3> QED BY <2>1, <3>1, LineFacts DEF CleanInv, WaitInv
  <2> QED BY <2>1, <2>2 DEF CleanInv, LineClean, IsClean, InUse
<1>3. IsStretch(CellsOf(live_buffer, bytes_written, bytes_read), live_buffer, bytes_written,
                bytes_read, TextChars)
  BY <1>1, <1>2, CellsOfProperties, Zenon
<1>4. ShownText = CellsOf(live_buffer, bytes_written, bytes_read)
  BY DEF ShownText
<1> QED BY <1>3, <1>4 DEF IsStretch

\* What no step of the keyboard handler but Enter touches.
LEMMA HeldKept ==
  ASSUME UNCHANGED <<storeVars, pc, local_bytes_written>>
  PROVE  HeldLine' = HeldLine
BY DEF HeldLine, EnteredLine, LineComplete, storeVars

\* A character is typed: the editor inserts it.
LEMMA TypedStep ==
  ASSUME CleanInv, pc # "writing", HasRoom(0), NEW c \in TextChars, TypeChar(c),
         UNCHANGED <<bytes_written, storeVars, pc, local_bytes_written, char_buffer>>
  PROVE  LineClean' /\ Editor!Insert
<1>0. /\ live_buffer \in [Cells -> Chars]
      /\ bytes_written \in Nat /\ live_buffer_location \in Nat /\ bytes_read \in Nat
      /\ bytes_written <= live_buffer_location /\ live_buffer_location <= bytes_read
      /\ \A n \in Nat : n < CHAR_BUFFER_SIZE + bytes_written => n \in Cells
  BY LineFacts DEF CleanInv, WaitInv
<1>1. bytes_read < CHAR_BUFFER_SIZE - 1 + bytes_written
  BY <1>0 DEF HasRoom
<1>2. bytes_read + 1 \in Cells /\ IsClean(live_buffer, bytes_read)
  BY <1>0, <1>1, TerminalSizes DEF CleanInv, LineClean, InUse
<1>3. /\ live_buffer' = Inserted(live_buffer, live_buffer_location, bytes_read, c)
      /\ bytes_read' = bytes_read + 1 /\ live_buffer_location' = live_buffer_location + 1
      /\ bytes_written' = bytes_written /\ pc' = pc /\ char_buffer' = char_buffer
  BY DEF TypeChar
<1> DEFINE t == CellsOf(live_buffer, bytes_written, bytes_read)
           n == live_buffer_location - bytes_written
           new == Inserted(live_buffer, live_buffer_location, bytes_read, c)
<1>4. /\ IsClean(new, bytes_read + 1)
      /\ CellsOf(new, bytes_written, bytes_read + 1) =
           SubSeq(t, 1, n) \o <<c>> \o SubSeq(t, n + 1, Len(t))
      /\ CellsBelow(new, bytes_written) = CellsBelow(live_buffer, bytes_written)
  BY <1>0, <1>2, InsertedCells, Zenon
<1>5. LineClean'
  BY <1>3, <1>4 DEF LineClean, InUse
<1>6. /\ ShownText = t /\ ShownText' = CellsOf(new, bytes_written, bytes_read + 1)
      /\ ShownPrompt' = ShownPrompt /\ ShownCursor = n
      /\ ShownCursor' = live_buffer_location + 1 - bytes_written
  <2>1. live_buffer' = new /\ pc' # "writing"
    BY <1>3
  <2> HIDE DEF new
  <2>2. ShownText = t /\ ShownCursor = n /\ ShownPrompt = CellsBelow(live_buffer, bytes_written)
    BY DEF ShownText, ShownCursor, ShownPrompt
  <2>3. ShownText' = CellsOf(new, bytes_written, bytes_read + 1)
    BY <1>3, <2>1 DEF ShownText
  <2>4. ShownPrompt' = CellsBelow(new, bytes_written)
    BY <1>3, <2>1 DEF ShownPrompt
  <2>5. ShownCursor' = live_buffer_location + 1 - bytes_written
    BY <1>0, <1>3, <2>1 DEF ShownCursor
  <2> QED BY <1>4, <2>2, <2>3, <2>4, <2>5
<1>9. HeldLine' = HeldLine
  BY HeldKept
<1>7. ShownCursor' = n + 1 /\ Len(ShownText) < CHAR_BUFFER_SIZE - 1
  BY <1>0, <1>1, <1>6, TextFacts, TerminalSizes
<1> HIDE DEF t, n, new
<1>8. Editor!Insert
  BY <1>3, <1>4, <1>6, <1>7, <1>9
  DEF Editor!Insert, Editor!Before, Editor!After, TextChars, ShownText, ShownPrompt, CellsBelow,
      ShownCursor, HeldLine
<1> QED BY <1>5, <1>8

\* A character is erased: the editor deletes it.
LEMMA ErasedStep ==
  ASSUME CleanInv, pc # "writing", live_buffer_location > bytes_written, backspace,
         UNCHANGED <<bytes_written, storeVars, pc, local_bytes_written, char_buffer>>
  PROVE  LineClean' /\ Editor!Delete
<1>0. /\ live_buffer \in [Cells -> Chars]
      /\ bytes_written \in Nat /\ live_buffer_location \in Nat /\ bytes_read \in Nat
      /\ bytes_written <= live_buffer_location /\ live_buffer_location <= bytes_read
      /\ bytes_read <= CHAR_BUFFER_SIZE - 1 + bytes_written
      /\ \A n \in Nat : n < CHAR_BUFFER_SIZE + bytes_written => n \in Cells
  BY LineFacts DEF CleanInv, WaitInv
<1> DEFINE at == live_buffer_location - 1
           last == bytes_read - 1
           t == CellsOf(live_buffer, bytes_written, last + 1)
           n == at - bytes_written
           new == Erased(live_buffer, at, last)
<1>1. /\ at \in Nat /\ last \in Nat /\ bytes_written <= at /\ at <= last
      /\ bytes_read = last + 1
  BY <1>0
<1>2. last + 1 \in Cells /\ IsClean(live_buffer, last + 1)
  <2>1. bytes_read \in Cells
    BY <1>0, TerminalSizes
  <2>2. IsClean(live_buffer, bytes_read)
    BY DEF CleanInv, LineClean, InUse
  <2> HIDE DEF last
  <2> QED BY <1>1, <2>1, <2>2
<1>3. /\ live_buffer' = new
      /\ bytes_read' = last /\ live_buffer_location' = at
      /\ bytes_written' = bytes_written /\ pc' = pc /\ char_buffer' = char_buffer
  <2>1. bytes_read > 0
    BY <1>0
  <2> QED BY <2>1 DEF backspace
<1> HIDE DEF at, last
<1>4. /\ IsClean(new, last)
      /\ CellsOf(new, bytes_written, last) = SubSeq(t, 1, n) \o SubSeq(t, n + 2, Len(t))
      /\ CellsBelow(new, bytes_written) = CellsBelow(live_buffer, bytes_written)
  BY <1>0, <1>1, <1>2, ErasedCells, Zenon
<1>5. LineClean'
  BY <1>3, <1>4 DEF LineClean, InUse
<1>6. /\ ShownText = t /\ ShownText' = CellsOf(new, bytes_written, last)
      /\ ShownPrompt' = ShownPrompt
      /\ ShownCursor = n + 1 /\ ShownCursor' = n
  <2>1. live_buffer' = new /\ pc' # "writing"
    BY <1>3
  <2> HIDE DEF new
  <2>2. ShownText = t /\ ShownPrompt = CellsBelow(live_buffer, bytes_written)
    BY <1>1 DEF ShownText, ShownPrompt
  <2>3. ShownText' = CellsOf(new, bytes_written, last)
    BY <1>3, <2>1 DEF ShownText
  <2>4. ShownPrompt' = CellsBelow(new, bytes_written)
    BY <1>3, <2>1 DEF ShownPrompt
  <2>5. ShownCursor = n + 1
    BY <1>0 DEF ShownCursor, at
  <2>6. ShownCursor' = n
    BY <1>0, <1>1, <1>3, <2>1 DEF ShownCursor
  <2> QED BY <1>4, <2>2, <2>3, <2>4, <2>5, <2>6
<1>7. HeldLine' = HeldLine
  BY HeldKept
<1>8. n \in Nat
  BY <1>0, <1>1
<1> HIDE DEF t, n, new
<1>9. n + 1 > 0 /\ n + 1 - 1 = n /\ n + 1 + 1 = n + 2
  BY <1>8
<1>10. /\ ShownCursor > 0
       /\ ShownText' = SubSeq(ShownText, 1, ShownCursor - 1)
                         \o SubSeq(ShownText, ShownCursor + 1, Len(ShownText))
       /\ ShownCursor' = ShownCursor - 1
  <2>1. ShownCursor > 0 /\ ShownCursor - 1 = n /\ ShownCursor + 1 = n + 2
    BY <1>6, <1>8, <1>9
  <2>2. ShownText' = SubSeq(ShownText, 1, n) \o SubSeq(ShownText, n + 2, Len(ShownText))
    BY <1>4, <1>6, Zenon
  <2> QED BY <1>6, <2>1, <2>2
<1>11. Editor!Delete
  BY <1>3, <1>6, <1>7, <1>10
  DEF Editor!Delete, Editor!Before, Editor!After, ShownText, ShownPrompt, CellsBelow,
      ShownCursor, HeldLine
<1> QED BY <1>5, <1>11

\* output_char and backspace: one step of the editor, or none.
LEMMA OutputStep ==
  ASSUME CleanInv, pc # "writing", NEW c \in TextChars, output_char(c),
         UNCHANGED <<bytes_written, storeVars, pc, local_bytes_written, char_buffer>>
  PROVE  LineClean' /\ (Editor!Insert \/ UNCHANGED Editor!vars)
<1>1. CASE HasRoom(0)
  BY <1>1, TypedStep DEF output_char
<1>2. CASE ~HasRoom(0)
  <2>1. UNCHANGED lineVars
    BY <1>2 DEF output_char
  <2>2. HeldLine' = HeldLine
    BY HeldKept
  <2>3. UNCHANGED Editor!vars
    BY <2>1, <2>2 DEF Editor!vars, lineVars, HeldLine
  <2> QED BY <2>1, <2>3 DEF CleanInv, LineClean, InUse, lineVars
<1> QED BY <1>1, <1>2

LEMMA BackspacedStep ==
  ASSUME CleanInv, pc # "writing", backspace,
         UNCHANGED <<bytes_written, storeVars, pc, local_bytes_written, char_buffer>>
  PROVE  LineClean' /\ (Editor!Delete \/ UNCHANGED Editor!vars)
<1>1. CASE live_buffer_location > bytes_written
  BY <1>1, ErasedStep
<1>2. CASE ~(live_buffer_location > bytes_written)
  <2>1. UNCHANGED lineVars
    BY <1>2 DEF backspace
  <2>2. HeldLine' = HeldLine
    BY HeldKept
  <2>3. UNCHANGED Editor!vars
    BY <2>1, <2>2 DEF Editor!vars, lineVars, HeldLine
  <2> QED BY <2>1, <2>3 DEF CleanInv, LineClean, InUse, lineVars
<1> QED BY <1>1, <1>2

-----------------------------------------------------------------------------
\* One step of the line editor, or none.
EditorStep == Editor!Next \/ UNCHANGED Editor!vars

\* Steps that only move the cursor.
LEMMA MovedStep ==
  ASSUME CleanInv, pc # "writing",
         live_buffer_location' \in {live_buffer_location - 1, live_buffer_location + 1, bytes_read},
         bytes_written <= live_buffer_location', live_buffer_location' <= bytes_read,
         UNCHANGED <<live_buffer, bytes_read, bytes_written, storeVars, pc,
                     local_bytes_written, char_buffer>>
  PROVE  LineClean' /\ EditorStep
<1>1. /\ bytes_written \in Nat /\ live_buffer_location \in Nat /\ bytes_read \in Nat
  BY LineFacts DEF CleanInv, WaitInv
<1>2. /\ ShownText' = ShownText /\ ShownPrompt' = ShownPrompt /\ pc' # "writing"
      /\ Len(ShownText) = bytes_read - bytes_written
  BY TextFacts DEF ShownText, ShownPrompt, CellsBelow
<1>3. HeldLine' = HeldLine
  BY HeldKept
<1>4. /\ ShownCursor = live_buffer_location - bytes_written
      /\ ShownCursor' = live_buffer_location' - bytes_written
  BY <1>2 DEF ShownCursor
<1>5. ShownCursor' \in {ShownCursor - 1, ShownCursor + 1, Len(ShownText)}
                         \cap (0 .. Len(ShownText))
  <2> DEFINE x == live_buffer_location'
             length == Len(ShownText)
  <2>1. x \in {live_buffer_location - 1, live_buffer_location + 1, bytes_read}
    OBVIOUS
  <2>2. x \in Int /\ bytes_written <= x /\ x <= bytes_read
    BY <1>1
  <2>3. length = bytes_read - bytes_written
    BY <1>2
  <2> HIDE DEF x, length
  <2>4. x - bytes_written \in {live_buffer_location - bytes_written - 1,
                                live_buffer_location - bytes_written + 1, length}
    BY <1>1, <2>1, <2>2, <2>3
  <2>5. x - bytes_written \in 0 .. length
    BY <1>1, <2>2, <2>3
  <2> QED BY <1>4, <2>4, <2>5 DEF x, length
<1>6. Editor!Move
  BY <1>2, <1>3, <1>5 DEF Editor!Move, ShownText, ShownPrompt, CellsBelow, ShownCursor, HeldLine
<1>7. LineClean'
  BY DEF CleanInv, LineClean, IsClean, InUse
<1> QED BY <1>6, <1>7 DEF EditorStep, Editor!Next

\* Steps that the editor does not see.
LEMMA UnseenStep ==
  ASSUME CleanInv, UNCHANGED <<lineVars, bytes_written, storeVars, pc, local_bytes_written,
                               char_buffer>>
  PROVE  LineClean' /\ EditorStep
<1>1. HeldLine' = HeldLine
  BY HeldKept
<1>2. UNCHANGED Editor!vars
  BY <1>1 DEF Editor!vars, lineVars, HeldLine
<1> QED BY <1>2 DEF CleanInv, LineClean, IsClean, InUse, lineVars, EditorStep

\* What most steps leave alone.
LEMMA StoreKept ==
  ASSUME CleanInv, UNCHANGED <<storeVars, pc>>
  PROVE  StoreClean'
BY DEF CleanInv, StoreClean, IsClean, LineComplete, storeVars

LEMMA CommandsKept ==
  ASSUME CleanInv, UNCHANGED commandVars
  PROVE  CommandsClean'
BY DEF CleanInv, CommandsClean, commandVars

\* Enter: the line waits for the reader as it stands, and without the prompt.
LEMMA EnteredStep ==
  ASSUME CleanInv, WaitInv', EnterKey, pc = "waiting", ~LineComplete
  PROVE  LineClean' /\ StoreClean' /\ EditorStep
<1>0. /\ live_buffer \in [Cells -> Chars]
      /\ bytes_written \in Nat /\ bytes_read \in Nat /\ bytes_written <= bytes_read
      /\ \A n \in Nat : n < CHAR_BUFFER_SIZE + bytes_written => n \in Cells
      /\ bytes_read <= CHAR_BUFFER_SIZE - 1 + bytes_written
  BY LineFacts DEF CleanInv, WaitInv
<1>1. bytes_read \in Cells /\ Cells \subseteq Nat /\ 0 \in Nat
  BY <1>0, TerminalSizes DEF Cells
<1>2. /\ live_buffer_store' = [i \in Cells |-> IF i < bytes_read THEN live_buffer[i]
                                               ELSE IF i = bytes_read THEN NL
                                               ELSE live_buffer_store[i]]
      /\ bytes_read_store' = bytes_read
      /\ bytes_read' = 0 /\ live_buffer_location' = 0 /\ bytes_written' = 0
      /\ pc' = pc /\ local_bytes_written' = local_bytes_written /\ char_buffer' = char_buffer
  BY DEF EnterKey, readVars
<1>3. /\ \A i \in Cells : i < bytes_read => live_buffer_store'[i] = live_buffer[i]
      /\ LineComplete'
  BY <1>0, <1>1, <1>2 DEF LineComplete
<1>4. StoreClean'
  <2>1. IsClean(live_buffer, bytes_read)
    BY DEF CleanInv, LineClean, InUse
  <2>2. IsClean(live_buffer_store', bytes_read)
    BY <1>3, <2>1 DEF IsClean
  <2> QED BY <1>2, <1>3, <2>2 DEF StoreClean
<1>5. LineClean'
  BY <1>1, <1>2 DEF LineClean, IsClean, InUse
<1>6. local_bytes_written = bytes_written
  BY DEF CleanInv, WaitInv, FitInv
<1> DEFINE n == bytes_read - bytes_written
<1>7. n \in Nat /\ n = IF bytes_read > bytes_written THEN bytes_read - bytes_written ELSE 0
  BY <1>0
<1>8. \A i \in 1 .. n : live_buffer_store'[bytes_written + i - 1] = live_buffer[bytes_written + i - 1]
  <2> SUFFICES ASSUME NEW i \in 1 .. n
               PROVE  live_buffer_store'[bytes_written + i - 1] = live_buffer[bytes_written + i - 1]
    OBVIOUS
  <2> DEFINE k == bytes_written + i - 1
  <2>1. k \in Nat /\ k < bytes_read /\ k < CHAR_BUFFER_SIZE + bytes_written
    BY <1>0, TerminalSizes
  <2> HIDE DEF k
  <2>2. k \in Cells
    BY <1>0, <2>1
  <2>3. live_buffer_store'[k] = live_buffer[k]
    BY <1>3, <2>1, <2>2
  <2> QED BY <2>3 DEF k
<1>9. EnteredLine' = CellsOf(live_buffer, bytes_written, bytes_read)
  <2>1. EnteredLine' = [i \in 1 .. n |-> live_buffer_store'[bytes_written + i - 1]]
    BY <1>2, <1>6, <1>7 DEF EnteredLine
  <2> QED BY <1>8, <2>1 DEF CellsOf
<1>10. /\ HeldLine = NoLine /\ HeldLine' = ShownText
       /\ ShownPrompt' = <<>> /\ ShownText' = <<>> /\ ShownCursor' = 0
  <2>1. HeldLine = NoLine /\ HeldLine' = EnteredLine'
    BY <1>2, <1>3 DEF HeldLine
  <2>2. ShownText = CellsOf(live_buffer, bytes_written, bytes_read)
    BY DEF ShownText
  <2>3. ShownPrompt' = CellsOf(live_buffer', 0, 0) /\ ShownText' = CellsOf(live_buffer', 0, 0)
    BY <1>2 DEF ShownPrompt, ShownText, CellsBelow
  <2>4. CellsOf(live_buffer', 0, 0) = <<>>
    BY <1>1, NoCells
  <2>5. ShownCursor' = 0
    BY <1>2 DEF ShownCursor
  <2> QED BY <1>9, <2>1, <2>2, <2>3, <2>4, <2>5
<1>11. Editor!Enter
  BY <1>2, <1>10 DEF Editor!Enter, ShownText, ShownPrompt, CellsBelow, ShownCursor, HeldLine
<1> QED BY <1>4, <1>5, <1>11 DEF EditorStep, Editor!Next

LEMMA KeyStep ==
  ASSUME ~TypeAhead, CleanInv, WaitInv', Key
  PROVE  CleanInv' /\ EditorStep
<1>0. /\ KeyAccepted /\ pc # "writing" /\ irq = "none"
      /\ pc = "run" \/ (pc = "waiting" /\ ~LineComplete)
  BY DEF Key, PrintableKey, BackspaceKey, TabKey, ClearKey, EnterKey, LeftKey, RightKey,
         UpKey, DownKey, KeyAccepted
<1>1. ASSUME NEW c \in Printable, PrintableKey(c) PROVE CleanInv' /\ EditorStep
  <2>1. c \in TextChars
    BY DEF TextChars
  <2>2. LineClean' /\ (Editor!Insert \/ UNCHANGED Editor!vars)
    BY <1>0, <1>1, <2>1, OutputStep DEF PrintableKey, readVars
  <2>3. StoreClean' /\ CommandsClean'
    BY <1>1, StoreKept, CommandsKept DEF PrintableKey
  <2> QED BY <2>2, <2>3 DEF CleanInv, EditorStep, Editor!Next
<1>2. CASE BackspaceKey
  <2>1. LineClean' /\ (Editor!Delete \/ UNCHANGED Editor!vars)
    BY <1>0, <1>2, BackspacedStep DEF BackspaceKey, readVars
  <2>2. StoreClean' /\ CommandsClean'
    BY <1>2, StoreKept, CommandsKept DEF BackspaceKey
  <2> QED BY <2>1, <2>2 DEF CleanInv, EditorStep, Editor!Next
<1>3. CASE TabKey
  BY <1>3, UnseenStep, StoreKept, CommandsKept DEF TabKey, readVars, CleanInv
<1>4. CASE ClearKey \/ LeftKey \/ RightKey
  <2>1. /\ bytes_written \in Nat /\ live_buffer_location \in Nat /\ bytes_read \in Nat
        /\ bytes_written <= live_buffer_location /\ live_buffer_location <= bytes_read
    BY <1>0, LineFacts DEF CleanInv, WaitInv
  <2>2. /\ live_buffer_location' \in {live_buffer_location - 1, live_buffer_location + 1, bytes_read}
        /\ bytes_written <= live_buffer_location' /\ live_buffer_location' <= bytes_read
    BY <1>4, <2>1 DEF ClearKey, LeftKey, RightKey
  <2>3. UNCHANGED <<live_buffer, bytes_read, bytes_written, storeVars, commandVars, pc,
                    local_bytes_written, char_buffer>>
    BY <1>4 DEF ClearKey, LeftKey, RightKey, readVars
  <2>4. LineClean' /\ EditorStep
    BY <1>0, <2>2, <2>3, MovedStep
  <2> QED BY <2>3, <2>4, StoreKept, CommandsKept DEF CleanInv
<1>5. CASE EnterKey
  <2>1. pc = "waiting" /\ ~LineComplete
    BY <1>0, <1>5 DEF EnterKey, CleanInv, WaitInv, FitInv
  <2>2. LineClean' /\ StoreClean' /\ EditorStep
    BY <1>5, <2>1, EnteredStep
  <2>3. CommandsClean'
    BY <1>5, CommandsKept DEF EnterKey
  <2> QED BY <2>2, <2>3 DEF CleanInv
<1>6. CASE UpKey \/ DownKey
  <2>1. /\ UNCHANGED <<lineVars, bytes_written, storeVars, pc, local_bytes_written, char_buffer>>
        /\ command_buffer' = command_buffer /\ temp_command' = SavedCommand
    BY <1>6 DEF UpKey, DownKey, readVars
  <2>2. bytes_read_store = 0
    BY <1>0 DEF CleanInv, WaitInv, FitInv, StoreClean
  <2>3. SavedCommand \in TextChars
    BY <2>2 DEF SavedCommand, CleanInv, CommandsClean, TextChars
  <2>4. CommandsClean'
    BY <2>1, <2>3 DEF CleanInv, CommandsClean
  <2> QED BY <2>1, <2>4, UnseenStep, StoreKept DEF CleanInv
<1> QED BY <1>1, <1>2, <1>3, <1>4, <1>5, <1>6 DEF Key

\* The loops of the handler: tab() and the recall of an older line.
LEMMA HandlerStep ==
  ASSUME CleanInv, WaitInv', Handler
  PROVE  CleanInv' /\ EditorStep
<1>0. irq # "none" /\ pc # "writing"
  BY DEF CleanInv, WaitInv, FitInv, LineInv, LoopInv, Handler, TabChar, RecallErase,
         RecallChar, RecallEnd
<1>1. CASE TabChar
  <2>1. HasRoom(0)
    <3>1. /\ count < TAB_WIDTH
          /\ bytes_read + (TAB_WIDTH - count) <= CHAR_BUFFER_SIZE - 1 + bytes_written
      BY <1>1 DEF TabChar, CleanInv, WaitInv, FitInv, LineInv, LoopInv
    <3>2. count \in Nat /\ bytes_read \in Nat /\ bytes_written \in Nat
      BY <1>0, LineFacts
      DEF CleanInv, WaitInv, FitInv, LineInv, TerminalTypeOK, ControlTypes
    <3> QED BY <3>1, <3>2, TerminalSizes DEF HasRoom
  <2>2. Space \in TextChars
    BY TerminalChars DEF TextChars
  <2>3. LineClean' /\ Editor!Insert
    BY <1>0, <1>1, <2>1, <2>2, TypedStep DEF TabChar, readVars
  <2>4. StoreClean' /\ CommandsClean'
    BY <1>1, StoreKept, CommandsKept DEF TabChar
  <2> QED BY <2>3, <2>4 DEF CleanInv, EditorStep, Editor!Next
<1>2. CASE RecallErase
  <2>1. LineClean' /\ (Editor!Delete \/ UNCHANGED Editor!vars)
    BY <1>0, <1>2, BackspacedStep DEF RecallErase, readVars
  <2>2. StoreClean' /\ CommandsClean'
    BY <1>2, StoreKept, CommandsKept DEF RecallErase
  <2> QED BY <2>1, <2>2 DEF CleanInv, EditorStep, Editor!Next
<1>3. CASE RecallChar
  <2> DEFINE k == count - CHAR_BUFFER_SIZE
  <2>1. k \in RowCells
    <3>1. count \in Nat
      BY DEF CleanInv, WaitInv, FitInv, LineInv, TerminalTypeOK, ControlTypes
    <3> QED BY <1>3, <3>1, TerminalSizes DEF RecallChar, RecallOver, RowCells
  <2>2. view_command_row \in Nat
    BY TerminalSizes DEF CleanInv, WaitInv, FitInv, LineInv, TerminalTypeOK, CommandTypes
  <2> HIDE DEF k
  <2>3. Stored(k) \in TextChars
    BY <2>1, <2>2, TerminalChars, TerminalSizes
    DEF Stored, CleanInv, CommandsClean, Commands, TextChars
  <2>4. Shown(k) \in TextChars
    BY <2>3 DEF Shown, CleanInv, CommandsClean
  <2>5. output_char(Shown(k))
    BY <1>3 DEF RecallChar, k
  <2>6. LineClean' /\ (Editor!Insert \/ UNCHANGED Editor!vars)
    BY <1>0, <1>3, <2>4, <2>5, OutputStep DEF RecallChar, readVars
  <2>7. StoreClean' /\ CommandsClean'
    BY <1>3, StoreKept, CommandsKept DEF RecallChar
  <2> QED BY <2>6, <2>7 DEF CleanInv, EditorStep, Editor!Next
<1>4. CASE RecallEnd
  BY <1>4, UnseenStep, StoreKept, CommandsKept DEF RecallEnd, readVars, CleanInv
<1> QED BY <1>1, <1>2, <1>3, <1>4 DEF Handler

\* A line that waits is a text.
LEMMA EnteredText ==
  ASSUME CleanInv, pc \in {"waiting", "matched"}, LineComplete
  PROVE  EnteredLine \in Seq(TextChars)
<1> DEFINE n == IF bytes_read_store > local_bytes_written
                THEN bytes_read_store - local_bytes_written ELSE 0
<1>1. bytes_read_store \in Cells /\ local_bytes_written \in Nat /\ Cells \subseteq Nat
  BY TerminalSizes
  DEF CleanInv, WaitInv, FitInv, LineInv, TerminalTypeOK, LineTypes, ControlTypes, Cells
<1>2. n \in Nat
  BY <1>1
<1>3. ASSUME NEW i \in 1 .. n
      PROVE  live_buffer_store[local_bytes_written + i - 1] \in TextChars
  <2> DEFINE k == local_bytes_written + i - 1
  <2>0. bytes_read_store \in 0 .. SCREEN_SIZE - 1
    BY <1>1 DEF Cells
  <2>1. k \in Nat /\ k < bytes_read_store
    BY <1>1, <1>3, <2>0, TerminalSizes
  <2>3. k \in Cells
    <3> HIDE DEF k
    <3> QED BY <2>0, <2>1, TerminalSizes DEF Cells
  <2> HIDE DEF k
  <2>2. live_buffer_store[k] \in TextChars
    BY <2>1, <2>3 DEF CleanInv, StoreClean, IsClean
  <2> QED BY <2>2 DEF k
<1>4. EnteredLine = [i \in 1 .. n |-> live_buffer_store[local_bytes_written + i - 1]]
  BY DEF EnteredLine
<1> HIDE DEF n
<1> QED BY <1>2, <1>3, <1>4

\* The reader takes the line that waits, and copies it to the history.
LEMMA CollectedStep ==
  ASSUME CleanInv, WaitInv', ReadCollect
  PROVE  CleanInv' /\ EditorStep
<1>1. pc = "matched" /\ LineComplete /\ pc' = "run"
      /\ UNCHANGED <<lineVars, bytes_written, temp_command>> /\ char_buffer' = EnteredLine
  BY DEF ReadCollect, CleanInv, WaitInv, FitInv
<1>2. EnteredLine \in Seq(TextChars)
  BY <1>1, EnteredText
<1>3. HeldLine = EnteredLine /\ HeldLine' = NoLine /\ EnteredLine # NoLine
  <2>1. EnteredLine \in Seq(Chars)
    BY EnteredLineType DEF CleanInv, WaitInv, FitInv, LineInv
  <2> QED BY <1>1, <2>1, NoLineAssumption DEF HeldLine
<1>4. Editor!Deliver
  BY <1>1, <1>3 DEF Editor!Deliver, lineVars, HeldLine
<1>5. LineClean' /\ StoreClean'
  BY <1>1 DEF CleanInv, LineClean, IsClean, InUse, lineVars, StoreClean
<1>6. CommandsClean'
  <2> DEFINE rows == IF CommandsFull THEN CommandsScrolled ELSE command_buffer
             loc  == IF CommandsFull THEN MAX_COMMAND_STORE - 1 ELSE write_command_row
             line == EnteredLine
             row  == [i \in RowCells |-> IF i < Len(line) THEN line[i + 1] ELSE rows[loc][i]]
  <2>1. rows \in [Commands -> [RowCells -> TextChars]]
    BY DEF CommandsScrolled, CleanInv, CommandsClean, TextChars
  <2>2. loc \in Commands
    BY TerminalSizes
    DEF CommandsFull, Commands, CleanInv, WaitInv, FitInv, LineInv, TerminalTypeOK, CommandTypes
  <2>3. \A i \in RowCells : i < Len(line) => line[i + 1] \in TextChars
    BY <1>2, TerminalSizes DEF RowCells
  <2>4. \/ command_buffer' = [rows EXCEPT ![loc] = row]
        \/ command_buffer' = rows
    BY <2>1, <2>2 DEF ReadCollect
  <2> HIDE DEF rows, loc, line
  <2>5. row \in [RowCells -> TextChars]
    BY <2>1, <2>2, <2>3
  <2> HIDE DEF row
  <2>6. command_buffer' \in [Commands -> [RowCells -> TextChars]]
    BY <2>1, <2>2, <2>4, <2>5
  <2> QED BY <1>1, <2>6 DEF CleanInv, CommandsClean
<1> QED BY <1>4, <1>5, <1>6 DEF CleanInv, EditorStep, Editor!Next

\* A program writes: the characters of a prompt, whose newlines empty the row.
LEMMA WrittenStep ==
  ASSUME CleanInv, WaitInv', NEW c \in Printable \cup {NL}, WriteChar(c)
  PROVE  CleanInv' /\ EditorStep
<1>0. /\ live_buffer \in [Cells -> Chars] /\ bytes_written \in 0 .. NUM_COLS
      /\ bytes_written \in Nat
  BY TerminalSizes DEF CleanInv, WaitInv, FitInv, LineInv, TerminalTypeOK, LineTypes
<1>1. pc = "writing" /\ pc' = "writing"
      /\ UNCHANGED <<storeVars, commandVars, local_bytes_written, char_buffer>>
  BY DEF WriteChar, readVars
<1> DEFINE at == IF bytes_written >= NUM_COLS THEN 0 ELSE bytes_written
           cleared == IF at = 0 THEN Cleared(live_buffer) ELSE live_buffer
           put == [cleared EXCEPT ![at] = c]
<1>2. LineClean'
  <2>1. CASE c = NL
    <3>1. bytes_written' = 0
      BY <2>1 DEF WriteChar
    <3> QED BY <1>1, <3>1, TerminalSizes DEF LineClean, IsClean, InUse, Cells
  <2>2. CASE c # NL
    <3>1. bytes_written' = at + 1 /\ live_buffer' = put
      BY <2>2 DEF WriteChar
    <3>2. at \in Nat /\ at \in Cells
      BY <1>0, TerminalSizes DEF Cells
    <3>3. c \in TextChars
      BY <2>2 DEF TextChars
    <3>4. ASSUME NEW i \in Cells, i < at + 1 PROVE put[i] \in TextChars
      <4>1. cleared \in [Cells -> Chars]
        BY <1>0, CellFacts DEF Cleared
      <4>2. CASE i = at
        BY <3>2, <3>3, <4>1, <4>2
      <4>3. CASE i # at
        <5>1. i < at /\ at = bytes_written /\ at # 0
          BY <1>0, <3>2, <3>4, <4>3 DEF Cells
        <5>2. put[i] = live_buffer[i]
          BY <1>0, <4>3, <5>1
        <5>3. live_buffer[i] \in TextChars
          BY <1>1, <5>1 DEF CleanInv, LineClean, IsClean, InUse
        <5> QED BY <5>2, <5>3
      <4> QED BY <4>2, <4>3
    <3> HIDE DEF at, put
    <3> QED BY <1>1, <3>1, <3>4 DEF LineClean, IsClean, InUse
  <2> QED BY <2>1, <2>2
<1>3. UNCHANGED Editor!vars
  BY <1>1 DEF Editor!vars
<1> QED BY <1>1, <1>2, <1>3, StoreKept, CommandsKept DEF CleanInv, EditorStep

LEMMA WriteEndStep ==
  ASSUME CleanInv, WaitInv', WriteEnd
  PROVE  CleanInv' /\ EditorStep
<1>0. /\ pc = "writing" /\ pc' = "run" /\ live_buffer' = live_buffer
      /\ bytes_written' = bytes_written % NUM_COLS /\ bytes_read' = bytes_written % NUM_COLS
      /\ live_buffer_location' = bytes_written % NUM_COLS
      /\ UNCHANGED <<commandVars, char_buffer>>
  BY DEF WriteEnd, readVars
<1>1. bytes_written \in Nat /\ bytes_written <= NUM_COLS
  BY TerminalSizes DEF CleanInv, WaitInv, FitInv, LineInv, TerminalTypeOK, LineTypes
<1> DEFINE m == bytes_written % NUM_COLS
<1>2. m \in Nat /\ m <= bytes_written /\ m < NUM_COLS
  <2>1. CASE bytes_written < NUM_COLS
    <3>1. m = bytes_written
      BY <1>1, <2>1, TerminalSizes
    <3> QED BY <1>1, <2>1, <3>1
  <2>2. CASE bytes_written = NUM_COLS
    <3>1. m = 0
      BY <1>1, <2>2, TerminalSizes
    <3> QED BY <1>1, <3>1, TerminalSizes
  <2> QED BY <1>1, <2>1, <2>2, TerminalSizes
<1>3. bytes_written' = m /\ bytes_read' = m /\ live_buffer_location' = m
  BY <1>0
<1> HIDE DEF m
<1>4. IsClean(live_buffer, m)
  BY <1>0, <1>1, <1>2, TerminalSizes DEF CleanInv, LineClean, IsClean, InUse, Cells
<1>5. LineClean' /\ StoreClean'
  BY <1>0, <1>3, <1>4 DEF LineClean, IsClean, InUse, StoreClean
<1>6. ShownPrompt' \in Seq(TextChars)
  <2>1. AreIn(live_buffer, 0, m, TextChars)
    BY <1>2, <1>4, TerminalSizes DEF AreIn, IsClean, Cells
  <2>2. IsStretch(CellsOf(live_buffer, 0, m), live_buffer, 0, m, TextChars)
    BY <1>2, <2>1, CellsOfProperties
  <2>3. ShownPrompt' = CellsOf(live_buffer, 0, m)
    BY <1>0, <1>3 DEF ShownPrompt, CellsBelow
  <2> QED BY <2>2, <2>3 DEF IsStretch
<1>7. ShownText' = <<>> /\ ShownCursor' = 0
  <2>1. ShownText' = CellsOf(live_buffer, m, m)
    BY <1>0, <1>3 DEF ShownText
  <2>2. ShownCursor' = m - m
    BY <1>0, <1>3 DEF ShownCursor
  <2> QED BY <1>2, <2>1, <2>2, NoCells
<1>8. HeldLine' = HeldLine
  BY <1>0 DEF HeldLine
<1>9. Editor!Output
  BY <1>0, <1>6, <1>7, <1>8
  DEF Editor!Output, TextChars, ShownPrompt, ShownText, CellsBelow, ShownCursor, HeldLine
<1> QED BY <1>0, <1>5, <1>9, CommandsKept DEF CleanInv, EditorStep, Editor!Next

LEMMA ProgramStep ==
  ASSUME ~InvalidReads, CleanInv, WaitInv', Program
  PROVE  CleanInv' /\ EditorStep
<1>1. CASE ReadStart \/ ReadPrompt
  <2>1. /\ UNCHANGED <<lineVars, bytes_written, storeVars, commandVars, char_buffer>>
        /\ pc # "writing" /\ pc' # "writing"
        /\ (pc = "run" /\ pc' = "reading") \/ (pc = "reading" /\ pc' = "waiting")
    BY <1>1 DEF ReadStart, ReadPrompt, readVars
  <2>2. pc' = "waiting" => ~LineComplete' /\ bytes_read_store' = 0
    BY <2>1 DEF CleanInv, WaitInv, FitInv, LineComplete, storeVars
  <2>3. HeldLine' = HeldLine
    BY <2>1, <2>2 DEF HeldLine
  <2>4. UNCHANGED Editor!vars
    BY <2>1, <2>3 DEF Editor!vars, lineVars, HeldLine
  <2>5. LineClean' /\ StoreClean'
    BY <2>1, <2>2 DEF CleanInv, LineClean, IsClean, InUse, lineVars, StoreClean
  <2> QED BY <2>1, <2>4, <2>5, CommandsKept DEF CleanInv, EditorStep
<1>2. CASE ReadSee
  <2>1. /\ UNCHANGED <<lineVars, bytes_written, storeVars, commandVars, local_bytes_written,
                       char_buffer>>
        /\ pc = "waiting" /\ pc' = "matched" /\ LineComplete
    BY <1>2 DEF ReadSee, readVars
  <2>2. LineComplete' /\ EnteredLine' = EnteredLine
    BY <2>1 DEF LineComplete, EnteredLine, storeVars
  <2>3. HeldLine' = HeldLine
    BY <2>1, <2>2 DEF HeldLine
  <2>4. UNCHANGED Editor!vars
    BY <2>1, <2>3 DEF Editor!vars, lineVars, HeldLine
  <2>5. LineClean' /\ StoreClean'
    BY <2>1, <2>2 DEF CleanInv, LineClean, IsClean, InUse, lineVars, storeVars, StoreClean
  <2> QED BY <2>1, <2>4, <2>5, CommandsKept DEF CleanInv, EditorStep
<1>3. CASE ReadCollect
  BY <1>3, CollectedStep
<1>4. CASE WriteStart
  <2>1. /\ UNCHANGED <<lineVars, bytes_written, storeVars, commandVars, char_buffer>>
        /\ pc = "run" /\ pc' = "writing"
    BY <1>4 DEF WriteStart, readVars
  <2>2. bytes_written \in Nat /\ bytes_read \in Nat /\ bytes_written <= bytes_read
    BY <2>1, LineFacts DEF CleanInv, WaitInv
  <2>3. LineClean' /\ StoreClean'
    BY <2>1, <2>2, TerminalSizes
    DEF CleanInv, LineClean, IsClean, InUse, lineVars, StoreClean, Cells
  <2>4. HeldLine' = HeldLine /\ ShownPrompt' = <<>> /\ ShownText' = <<>> /\ ShownCursor' = 0
    BY <2>1 DEF HeldLine, ShownPrompt, ShownText, ShownCursor
  <2>5. <<>> \in Seq(TextChars)
    OBVIOUS
  <2>6. Editor!Output
    BY <2>1, <2>4, <2>5
    DEF Editor!Output, TextChars, ShownPrompt, ShownText, CellsBelow, ShownCursor, HeldLine
  <2> QED BY <2>1, <2>3, <2>6, CommandsKept DEF CleanInv, EditorStep, Editor!Next
<1>5. ASSUME NEW c \in Printable \cup {NL}, WriteChar(c) PROVE CleanInv' /\ EditorStep
  BY <1>5, WrittenStep
<1>6. CASE WriteEnd
  BY <1>6, WriteEndStep
<1>7. ~ReadInvalid
  BY DEF ReadInvalid
<1> QED BY <1>1, <1>2, <1>3, <1>4, <1>5, <1>6, <1>7 DEF Program

-----------------------------------------------------------------------------
LEMMA InitClean == Init => CleanInv /\ Editor!Init
<1> SUFFICES ASSUME Init PROVE CleanInv /\ Editor!Init
  OBVIOUS
<1>1. LineClean /\ StoreClean
  BY TerminalSizes DEF Init, LineClean, IsClean, InUse, StoreClean, Cells
<1>2. CommandsClean
  BY DEF Init, CommandsClean, TextChars
<1>3. CellsOf(live_buffer, 0, 0) = <<>>
  BY NoCells
<1>4. Editor!Init
  BY <1>3 DEF Editor!Init, Init
<1> QED BY <1>1, <1>2, <1>4, InitWait DEF CleanInv

LEMMA NextClean ==
  ASSUME ~TypeAhead, ~InvalidReads, Prompting
  PROVE  CleanInv /\ [Next]_vars => CleanInv' /\ EditorStep
<1> SUFFICES ASSUME CleanInv, [Next]_vars PROVE CleanInv' /\ EditorStep
  OBVIOUS
<1>1. WaitInv'
  BY NextWait DEF CleanInv
<1>2. CASE UNCHANGED vars
  <2>1. UNCHANGED <<lineVars, bytes_written, storeVars, commandVars, pc, local_bytes_written,
                    char_buffer>>
    BY <1>2 DEF vars, readVars
  <2> QED BY <1>1, <2>1, UnseenStep, StoreKept, CommandsKept DEF CleanInv
<1> QED BY <1>1, <1>2, KeyStep, HandlerStep, ProgramStep DEF Next

\* For every size of the line, the row and the history, and for any keys: when
\* every program writes before it reads, no read is refused and no key is taken
\* between Enter and the reader, every step of the keyboard handler and of
\* terminal_read and terminal_write is one step of the line editor or none.
THEOREM LineEditorImplemented ==
  ASSUME ~TypeAhead, ~InvalidReads, Prompting
  PROVE  Spec => ImplementsLineEditor
<1>1. CleanInv /\ [Next]_vars => CleanInv' /\ EditorStep
  BY NextClean
<1>2. EditorStep => [Editor!Next]_(Editor!vars)
  BY DEF EditorStep
<1> QED BY InitClean, <1>1, <1>2, PTL DEF Spec, ImplementsLineEditor, Editor!Spec
=============================================================================
