---------------------------- MODULE LayoutProofs ----------------------------
(* Proofs about Layout and the figures that Listing takes from it, for every *)
(* block size that leaves room for a block in size_plain, for every listing, *)
(* every number of appends and every way in which reads come up short.       *)
EXTENDS Listing, ListsProofs, FiniteSetTheorems

(* --bs takes 0 and sizes beyond 2^32, too: what happens then is shown by    *)
(* the run on a block size of 0 and lies outside these theorems.             *)
UsableBlockSize == 0 < BlockSize /\ BlockSize < U32

Byte == Nat \X STRING \X Nat

FileRecord == [path : STRING, ftype : {"File", "Dir", "Symlink"},
               stream_offset : Nat, size : Nat]

TypeOK ==
    /\ session \in 1..MaxSessions
    /\ pc \in {"next", "reading", "stored", "failed"}
    /\ todo \in Seq(InputEntry)
    /\ rest \in Seq(Byte)
    /\ files \in Seq(FileRecord)
    /\ contents \in Seq(Seq(Byte)) /\ Len(contents) = Len(files)
    /\ stream_position \in Nat /\ total_stream_size \in Nat
    /\ pending_buffer \in Seq(Byte)
    /\ blocks \in Seq(Seq(Byte))

(* The blocks bl and the pending bytes are the stream s of all bytes, cut at *)
(* the given ends of the blocks.                                             *)
Cut(s, ends, bl, pending) ==
    /\ s \in Seq(Byte) /\ bl \in Seq(Seq(Byte))
    /\ ends \in [0..Len(bl) -> 0..Len(s)] /\ ends[0] = 0
    /\ \A i \in 1..Len(bl) :
         /\ ends[i-1] < ends[i] /\ ends[i] - ends[i-1] <= BlockSize
         /\ bl[i] = SubSeq(s, ends[i-1] + 1, ends[i])
    /\ pending = SubSeq(s, ends[Len(bl)] + 1, Len(s))

(* The bytes c of a file stand in the stream s from its offset on; those of  *)
(* the file that is being read as far as it has been read.                   *)
Whole(s, f, c) ==
    /\ f.stream_offset + Len(c) <= Len(s)
    /\ c = SubSeq(s, f.stream_offset + 1, f.stream_offset + Len(c))
InPart(s, f, c, unread) ==
    /\ f.stream_offset <= Len(s)
    /\ c = SubSeq(s, f.stream_offset + 1, Len(s)) \o unread
Holds(s) ==
    \A i \in 1..Len(files) : RegularFile(i) =>
        IF pc = "reading" /\ i = Len(files) THEN InPart(s, files[i], contents[i], rest)
        ELSE Whole(s, files[i], contents[i])

Short == {i \in DOMAIN blocks : Len(blocks[i]) < BlockSize}

IInv ==
    /\ TypeOK
    /\ Len(pending_buffer) < BlockSize
    /\ pc = "stored" => pending_buffer = <<>> /\ total_stream_size = stream_position
    /\ Cardinality(Short) <= IF pc = "stored" THEN session ELSE session - 1
    /\ \E s, ends : /\ Cut(s, ends, blocks, pending_buffer)
                    /\ Len(s) = stream_position
                    /\ pc # "failed" => Holds(s)

-----------------------------------------------------------------------------
(* Arithmetic. *)
LEMMA DivProperties ==
    ASSUME NEW a \in Nat, NEW b \in Nat \ {0}
    PROVE  /\ a \div b \in Nat
           /\ (a \div b) * b <= a
           /\ a - (a \div b) * b < b
  OBVIOUS

LEMMA ModSmall ==
    ASSUME NEW a \in Nat, NEW b \in Nat \ {0}, a < b
    PROVE  a % b = a
  OBVIOUS

LEMMA TimesGrows ==
    ASSUME NEW k \in Nat, NEW n \in Nat, NEW b \in Nat, k <= n
    PROVE  k * b \in Nat /\ n * b \in Nat /\ k * b <= n * b
<1>1. PICK d \in Nat : n = k + d
  <2>1. n - k \in Nat /\ n = k + (n - k)
    OBVIOUS
  <2> QED BY <2>1
<1>2. n * b = k * b + d * b
  BY <1>1
<1>3. k * b \in Nat /\ d * b \in Nat
  OBVIOUS
<1> QED BY <1>2, <1>3

LEMMA TimesStep ==
    ASSUME NEW k \in Nat \ {0}, NEW b \in Nat
    PROVE  k * b = (k - 1) * b + b /\ k - 1 \in Nat
  OBVIOUS

-----------------------------------------------------------------------------
(* Cutting bytes that are a slice of the stream cuts the stream.             *)
CutsAt(r, e, n, bytes) ==
    /\ WholeBlocks(bytes) \in Nat
    /\ e + WholeBlocks(bytes) * BlockSize \in e..n
    /\ CutBlocks(bytes) \in Seq(Seq(Byte))
    /\ Len(CutBlocks(bytes)) = WholeBlocks(bytes)
    /\ \A k \in 1..WholeBlocks(bytes) :
         CutBlocks(bytes)[k]
           = SubSeq(r, (e + (k - 1) * BlockSize) + 1, e + k * BlockSize)
    /\ Uncut(bytes) = SubSeq(r, (e + WholeBlocks(bytes) * BlockSize) + 1, n)
    /\ Uncut(bytes) \in Seq(Byte)
    /\ Len(Uncut(bytes)) < BlockSize

LEMMA CutsSlice ==
    ASSUME UsableBlockSize,
           NEW r \in Seq(Byte), NEW e \in 0..Len(r), NEW n \in e..Len(r),
           NEW bytes, bytes = SubSeq(r, e + 1, n)
    PROVE  CutsAt(r, e, n, bytes)
<1> DEFINE w == WholeBlocks(bytes)
<1>1. BlockSize \in Nat \ {0} /\ e \in Nat /\ n \in Nat /\ n - e \in Nat
  BY BlockSizeAssumption DEF UsableBlockSize
<1>2. bytes \in Seq(Byte) /\ Len(bytes) = n - e
  BY SliceProperties
<1>3. w \in Nat /\ w * BlockSize <= n - e /\ (n - e) - w * BlockSize < BlockSize
  BY <1>1, <1>2, DivProperties DEF WholeBlocks
<1>4. w * BlockSize \in 0..(n - e)
  BY <1>1, <1>3, TimesGrows
<1>5. ASSUME NEW k \in 1..w
      PROVE  /\ SubSeq(bytes, (k - 1) * BlockSize + 1, k * BlockSize)
                  = SubSeq(r, (e + (k - 1) * BlockSize) + 1, e + k * BlockSize)
             /\ SubSeq(bytes, (k - 1) * BlockSize + 1, k * BlockSize) \in Seq(Byte)
  <2> DEFINE c == (k - 1) * BlockSize
  <2> DEFINE d == k * BlockSize
  <2>1. k \in Nat \ {0} /\ k <= w
    BY <1>3
  <2>2. d = c + BlockSize /\ k - 1 \in Nat
    BY <1>1, <2>1, TimesStep
  <2>3. c \in Nat
    BY <1>1, <2>2
  <2>4. d <= w * BlockSize
    BY <1>1, <1>3, <2>1, TimesGrows
  <2> HIDE DEF c, d, w
  <2>5. c \in 0..(n - e) /\ d \in c..(n - e)
    BY <1>1, <1>4, <2>2, <2>3, <2>4
  <2>6. SubSeq(bytes, c + 1, d) = SubSeq(r, (e + c) + 1, e + d)
    BY <2>5, SliceOfSlice
  <2>7. SubSeq(bytes, c + 1, d) \in Seq(Byte)
    <3>1. c \in 0..Len(bytes) /\ d \in c..Len(bytes)
      BY <1>2, <2>5
    <3> QED BY <1>2, <3>1, SliceProperties
  <2> QED BY <2>6, <2>7 DEF c, d
<1>6. /\ CutBlocks(bytes) \in Seq(Seq(Byte)) /\ Len(CutBlocks(bytes)) = w
      /\ \A k \in 1..w : CutBlocks(bytes)[k]
                           = SubSeq(bytes, (k - 1) * BlockSize + 1, k * BlockSize)
  <2> DEFINE cut == CutBlocks(bytes)
  <2>1. cut = [k \in 1..w |-> SubSeq(bytes, (k - 1) * BlockSize + 1, k * BlockSize)]
    BY DEF CutBlocks
  <2> DEFINE piece(k) == SubSeq(bytes, (k - 1) * BlockSize + 1, k * BlockSize)
  <2>2. \A k \in 1..w : piece(k) \in Seq(Byte)
    BY <1>5
  <2> HIDE DEF w, cut, piece
  <2>3. cut = [k \in 1..w |-> piece(k)]
    BY <2>1 DEF piece
  <2>4. cut \in Seq(Seq(Byte)) /\ Len(cut) = w /\ \A k \in 1..w : cut[k] = piece(k)
    BY <1>3, <2>2, <2>3
  <2> QED BY <2>4 DEF piece, cut
<1>7. /\ Uncut(bytes) = SubSeq(r, (e + w * BlockSize) + 1, n)
      /\ Uncut(bytes) \in Seq(Byte) /\ Len(Uncut(bytes)) < BlockSize
  <2> DEFINE c == w * BlockSize
  <2> DEFINE d == n - e
  <2>1. Uncut(bytes) = SubSeq(bytes, c + 1, d)
    BY <1>2 DEF Uncut
  <2>2. c \in 0..(n - e) /\ d \in c..(n - e) /\ d - c < BlockSize /\ e + d = n
    BY <1>1, <1>3, <1>4
  <2>3. c \in 0..Len(bytes) /\ d \in c..Len(bytes)
    BY <1>2, <2>2
  <2> HIDE DEF c, d, w
  <2>4. SubSeq(bytes, c + 1, d) = SubSeq(r, (e + c) + 1, e + d)
    BY <2>2, SliceOfSlice
  <2>5. SubSeq(bytes, c + 1, d) \in Seq(Byte) /\ Len(SubSeq(bytes, c + 1, d)) = d - c
    BY <1>2, <2>3, SliceProperties
  <2> QED BY <2>1, <2>2, <2>4, <2>5 DEF c, w
<1>8. e + w * BlockSize \in e..n
  BY <1>1, <1>4
<1> QED BY <1>3, <1>5, <1>6, <1>7, <1>8 DEF CutsAt

(* Bytes t behind the pending ones, and the whole blocks cut off.            *)
LEMMA CutMore ==
    ASSUME UsableBlockSize,
           NEW s, NEW ends, NEW bl, NEW pending, Cut(s, ends, bl, pending),
           NEW t \in Seq(Byte)
    PROVE  LET bytes == pending \o t
           IN /\ \E ends1 : Cut(s \o t, ends1, bl \o CutBlocks(bytes), Uncut(bytes))
              /\ CutBlocks(bytes) \in Seq(Seq(Byte))
              /\ \A k \in 1..Len(CutBlocks(bytes)) : Len(CutBlocks(bytes)[k]) = BlockSize
              /\ Uncut(bytes) \in Seq(Byte) /\ Len(Uncut(bytes)) < BlockSize
<1> DEFINE bytes == pending \o t
<1> DEFINE r == s \o t
<1> DEFINE L == Len(bl)
<1> DEFINE e == ends[L]
<1> DEFINE n == Len(r)
<1> DEFINE w == WholeBlocks(bytes)
<1> DEFINE cut == CutBlocks(bytes)
<1> DEFINE ends1 == [i \in 0..(L + w) |-> IF i <= L THEN ends[i] ELSE e + (i - L) * BlockSize]
<1>1. /\ s \in Seq(Byte) /\ bl \in Seq(Seq(Byte)) /\ L \in Nat /\ Len(s) \in Nat
      /\ ends \in [0..L -> 0..Len(s)] /\ ends[0] = 0
      /\ \A i \in 1..L : /\ ends[i-1] < ends[i] /\ ends[i] - ends[i-1] <= BlockSize
                         /\ bl[i] = SubSeq(s, ends[i-1] + 1, ends[i])
      /\ pending = SubSeq(s, e + 1, Len(s))
      /\ BlockSize \in Nat \ {0}
  BY BlockSizeAssumption DEF Cut, UsableBlockSize
<1>2. r \in Seq(Byte) /\ n = Len(s) + Len(t) /\ Len(s) <= n
  BY <1>1, ConcatProperties
<1>3. e \in 0..Len(s) /\ e \in 0..Len(r) /\ n \in e..Len(r)
  <2>1. L \in 0..L
    BY <1>1
  <2>2. e \in 0..Len(s)
    BY <1>1, <2>1
  <2> HIDE DEF e, L, r
  <2> QED BY <1>1, <1>2, <2>2
<1>4. bytes = SubSeq(r, e + 1, n)
  <2> HIDE DEF e, L, n, r
  <2>1. bytes = SubSeq(s, e + 1, Len(s)) \o t
    BY <1>1
  <2>2. SubSeq(s, e + 1, Len(s)) \o t = SubSeq(s \o t, e + 1, Len(s) + Len(t))
    BY <1>1, <1>3, SliceExtended
  <2> QED BY <1>2, <2>1, <2>2 DEF r
<1> HIDE DEF r, e, L, bytes, ends1
<1>14. r \in Seq(Byte)
  BY <1>2
<1>5. /\ w \in Nat /\ e + w * BlockSize \in e..n
      /\ cut \in Seq(Seq(Byte)) /\ Len(cut) = w
      /\ \A k \in 1..w : cut[k] = SubSeq(r, (e + (k - 1) * BlockSize) + 1, e + k * BlockSize)
      /\ Uncut(bytes) = SubSeq(r, (e + w * BlockSize) + 1, n)
      /\ Uncut(bytes) \in Seq(Byte) /\ Len(Uncut(bytes)) < BlockSize
  <2> HIDE DEF n, w, cut
  <2>1. CutsAt(r, e, n, bytes)
    BY <1>14, <1>3, <1>4, CutsSlice
  <2> QED BY <2>1 DEF CutsAt, w, cut
<1> HIDE DEF w, cut, n
<1>6. ASSUME NEW k \in 0..w
      PROVE  e + k * BlockSize \in e..n
  <2>1. k * BlockSize \in Nat /\ k * BlockSize <= w * BlockSize
    BY <1>1, <1>5, TimesGrows
  <2> DEFINE p == k * BlockSize
  <2> DEFINE q == w * BlockSize
  <2>2. p \in Nat /\ q \in Nat /\ p <= q /\ e + q \in e..n
    BY <1>1, <1>5, <2>1, TimesGrows
  <2> HIDE DEF p, q
  <2>3. e + p \in e..n
    BY <1>3, <2>2
  <2> QED BY <2>3 DEF p
<1>7. ASSUME NEW k \in 1..w
      PROVE  /\ e + k * BlockSize = (e + (k - 1) * BlockSize) + BlockSize
             /\ e + (k - 1) * BlockSize \in e..n /\ e + k * BlockSize \in e..n
  <2>1. k * BlockSize = (k - 1) * BlockSize + BlockSize /\ k - 1 \in 0..w /\ k \in 0..w
    BY <1>1, <1>5, TimesStep
  <2>2. e + (k - 1) * BlockSize \in e..n
    <3> DEFINE j == k - 1
    <3>1. j \in 0..w
      BY <2>1
    <3> HIDE DEF j
    <3> QED BY <1>6, <3>1 DEF j
  <2>3. e + k * BlockSize \in e..n
    BY <1>6, <2>1
  <2>4. (k - 1) * BlockSize \in Int
    BY <1>1, <2>1
  <2> DEFINE p == (k - 1) * BlockSize
  <2> DEFINE q == k * BlockSize
  <2>5. q = p + BlockSize /\ p \in Int
    BY <2>1, <2>4
  <2> HIDE DEF p, q
  <2>6. e + q = (e + p) + BlockSize
    BY <1>1, <1>3, <2>5
  <2> QED BY <2>2, <2>3, <2>6 DEF p, q
<1>8. ASSUME NEW k \in 1..w
      PROVE  Len(cut[k]) = BlockSize
  <2> DEFINE c == e + (k - 1) * BlockSize
  <2> DEFINE d == e + k * BlockSize
  <2>1. d = c + BlockSize /\ c \in e..n /\ d \in e..n
    BY <1>7
  <2>2. cut[k] = SubSeq(r, c + 1, d)
    BY <1>5
  <2> HIDE DEF c, d
  <2>3. c \in 0..Len(r) /\ d \in c..Len(r) /\ d - c = BlockSize
    BY <1>1, <1>3, <2>1 DEF n
  <2> QED BY <1>14, <2>2, <2>3, SliceProperties
<1> USE DEF ends1
<1>9. ends1 \in [0..(L + w) -> 0..n] /\ ends1[0] = 0 /\ ends1[L] = e
      /\ (\A i \in 0..L : ends1[i] = ends[i])
      /\ \A k \in 0..w : ends1[L + k] = e + k * BlockSize
  <2>1. \A i \in 0..(L + w) : ends1[i] \in 0..n
    <3> TAKE i \in 0..(L + w)
    <3>1. CASE i <= L
      BY <1>1, <1>2, <3>1
    <3>2. CASE ~(i <= L)
      <4> DEFINE k == i - L
      <4>1. k \in 0..w
        BY <1>1, <1>5, <3>2
      <4> HIDE DEF k
      <4>2. e + k * BlockSize \in 0..n
        BY <1>3, <1>6, <4>1
      <4> QED BY <3>2, <4>2 DEF k
    <3> QED BY <3>1, <3>2
  <2>2. \A i \in 0..L : ends1[i] = ends[i]
    BY <1>1, <1>5
  <2>3. \A k \in 0..w : ends1[L + k] = e + k * BlockSize
    <3> TAKE k \in 0..w
    <3>1. CASE k = 0
      <4>1. 0 * BlockSize = 0 /\ L \in 0..L /\ L + 0 = L
        BY <1>1
      <4> QED BY <1>1, <1>3, <2>2, <3>1, <4>1 DEF e
    <3>2. CASE k # 0
      <4>1. ~(L + k <= L) /\ L + k \in 0..(L + w) /\ (L + k) - L = k
        BY <1>1, <1>5, <3>2
      <4> QED BY <4>1
    <3> QED BY <3>1, <3>2
  <2>4. 0 \in 0..L /\ L \in 0..L /\ DOMAIN ends1 = 0..(L + w)
    BY <1>1
  <2>5. ends1 = [i \in 0..(L + w) |-> ends1[i]]
    OBVIOUS
  <2> HIDE DEF ends1
  <2> QED BY <1>1, <2>1, <2>2, <2>3, <2>4, <2>5 DEF e
<1> HIDE DEF ends1
<1> DEFINE bl1 == bl \o cut
<1>10. bl1 \in Seq(Seq(Byte)) /\ Len(bl1) = L + w
       /\ \A i \in 1..(L + w) : bl1[i] = IF i <= L THEN bl[i] ELSE cut[i - L]
  <2>1. /\ bl \in Seq(Seq(Byte)) /\ cut \in Seq(Seq(Byte)) /\ Len(bl) = L /\ Len(cut) = w
        /\ L \in Nat /\ w \in Nat
    BY <1>1, <1>5 DEF L
  <2>2. /\ bl1 \in Seq(Seq(Byte)) /\ Len(bl1) = L + w
        /\ \A i \in 1..L : bl1[i] = bl[i]
        /\ \A i \in 1..w : bl1[L + i] = cut[i]
    <3> HIDE DEF L
    <3>1. /\ bl \o cut \in Seq(Seq(Byte))
          /\ Len(bl \o cut) = Len(bl) + Len(cut)
          /\ \A i \in 1..Len(bl) : (bl \o cut)[i] = bl[i]
          /\ \A i \in 1..Len(cut) : (bl \o cut)[Len(bl) + i] = cut[i]
      <4> HIDE DEF bl1
      <4> DEFINE S == Seq(Byte)
      <4>1. bl \in Seq(S) /\ cut \in Seq(S)
        BY <2>1
      <4> HIDE DEF S
      <4>2. /\ bl \o cut \in Seq(S)
            /\ Len(bl \o cut) = Len(bl) + Len(cut)
            /\ \A i \in 1..Len(bl) : (bl \o cut)[i] = bl[i]
            /\ \A i \in 1..Len(cut) : (bl \o cut)[Len(bl) + i] = cut[i]
        BY <4>1, ConcatElements, SMTT(30)
      <4> QED BY <4>2 DEF S
    <3> QED BY <2>1, <3>1, ZenonT(30)
  <2> HIDE DEF bl1, L
  <2>3. ASSUME NEW i \in 1..(L + w) PROVE bl1[i] = IF i <= L THEN bl[i] ELSE cut[i - L]
    <3>1. CASE i <= L
      <4>1. i \in 1..L
        BY <2>1, <3>1
      <4> QED BY <2>2, <3>1, <4>1
    <3>2. CASE ~(i <= L)
      <4>1. i - L \in 1..w /\ L + (i - L) = i
        BY <2>1, <3>2
      <4>2. bl1[L + (i - L)] = cut[i - L]
        BY <2>2, <4>1
      <4> QED BY <3>2, <4>1, <4>2
    <3> QED BY <3>1, <3>2
  <2> QED BY <2>2, <2>3
<1> HIDE DEF bl1
<1>11. ASSUME NEW i \in 1..(L + w)
       PROVE  /\ ends1[i-1] < ends1[i] /\ ends1[i] - ends1[i-1] <= BlockSize
              /\ bl1[i] = SubSeq(r, ends1[i-1] + 1, ends1[i])
  <2>1. CASE i <= L
    <3>1. i \in 1..L /\ i - 1 \in 0..L /\ i \in 0..L
      BY <1>1, <2>1
    <3>2. ends1[i] = ends[i] /\ ends1[i-1] = ends[i-1]
      BY <1>9, <3>1
    <3>3. ends[i-1] \in 0..Len(s) /\ ends[i] \in ends[i-1]..Len(s)
      BY <1>1, <3>1
    <3>4. bl1[i] = SubSeq(s, ends[i-1] + 1, ends[i])
      BY <1>1, <1>10, <2>1, <3>1
    <3>5. SubSeq(s, ends[i-1] + 1, ends[i]) = SubSeq(r, ends[i-1] + 1, ends[i])
      <4> DEFINE a == ends[i-1]
      <4> DEFINE b == ends[i]
      <4>1. a \in 0..Len(s) /\ b \in a..Len(s) /\ s \in Seq(Byte)
        BY <1>1, <3>3
      <4> HIDE DEF a, b
      <4>2. SubSeq(s \o t, a + 1, b) = SubSeq(s, a + 1, b)
        BY <4>1, SliceOfConcat
      <4> QED BY <4>2 DEF a, b, r
    <3> QED BY <1>1, <3>1, <3>2, <3>4, <3>5
  <2>2. CASE ~(i <= L)
    <3> DEFINE k == i - L
    <3>1. k \in 1..w /\ k \in 0..w /\ k - 1 \in 0..w /\ i = L + k /\ i - 1 = L + (k - 1)
      BY <1>1, <1>5, <2>2
    <3>2. bl1[i] = cut[k]
      BY <1>10, <2>2
    <3> HIDE DEF k
    <3>3. ends1[i] = e + k * BlockSize
      BY <1>9, <3>1
    <3>4. ends1[i-1] = e + (k - 1) * BlockSize
      <4> DEFINE j == k - 1
      <4>1. j \in 0..w /\ i - 1 = L + j
        BY <3>1
      <4> HIDE DEF j
      <4>2. ends1[i-1] = e + j * BlockSize
        BY <1>9, <4>1
      <4> QED BY <4>2 DEF j
    <3>5. bl1[i] = SubSeq(r, ends1[i-1] + 1, ends1[i])
      BY <1>5, <3>1, <3>2, <3>3, <3>4
    <3>6. ends1[i] = ends1[i-1] + BlockSize /\ ends1[i-1] \in Int
      BY <1>3, <1>7, <3>1, <3>3, <3>4
    <3> QED BY <1>1, <3>5, <3>6, SMTT(30)
  <2> QED BY <2>1, <2>2
<1>12. Uncut(bytes) = SubSeq(r, ends1[L + w] + 1, n)
  <2>1. w \in 0..w
    BY <1>5
  <2>2. ends1[L + w] = e + w * BlockSize
    BY <1>9, <2>1
  <2> QED BY <1>5, <2>2
<1>13. Cut(r, ends1, bl1, Uncut(bytes))
  BY <1>2, <1>9, <1>10, <1>11, <1>12 DEF Cut, n
<1> QED BY <1>5, <1>8, <1>13 DEF bl1, r, bytes, cut

(* What is pending in the end becomes the last block.                        *)
LEMMA CutLast ==
    ASSUME UsableBlockSize,
           NEW s, NEW ends, NEW bl, NEW pending, Cut(s, ends, bl, pending),
           pending \in Seq(Byte), pending # <<>>, Len(pending) < BlockSize
    PROVE  \E ends1 : Cut(s, ends1, Append(bl, pending), <<>>)
<1> DEFINE L == Len(bl)
<1> DEFINE e == ends[L]
<1> DEFINE n == Len(s)
<1> DEFINE ends1 == [i \in 0..(L + 1) |-> IF i <= L THEN ends[i] ELSE n]
<1> DEFINE bl1 == Append(bl, pending)
<1>1. /\ s \in Seq(Byte) /\ bl \in Seq(Seq(Byte)) /\ L \in Nat /\ n \in Nat
      /\ ends \in [0..L -> 0..n] /\ ends[0] = 0
      /\ \A i \in 1..L : /\ ends[i-1] < ends[i] /\ ends[i] - ends[i-1] <= BlockSize
                         /\ bl[i] = SubSeq(s, ends[i-1] + 1, ends[i])
      /\ pending = SubSeq(s, e + 1, n)
      /\ BlockSize \in Nat \ {0}
  BY BlockSizeAssumption DEF Cut, UsableBlockSize
<1>2. e \in 0..n
  <2>1. L \in 0..L
    BY <1>1
  <2> QED BY <1>1, <2>1
<1>3. Len(pending) = n - e /\ e < n /\ n - e <= BlockSize
  <2>1. Len(pending) \in Nat \ {0}
    BY EmptySeq
  <2>2. n \in e..Len(s) /\ e \in 0..Len(s)
    BY <1>1, <1>2
  <2> HIDE DEF e, L
  <2>3. Len(SubSeq(s, e + 1, n)) = n - e
    BY <1>1, <2>2, SliceProperties
  <2> HIDE DEF n
  <2> QED BY <1>1, <1>2, <2>1, <2>3
<1>4. bl1 \in Seq(Seq(Byte)) /\ Len(bl1) = L + 1 /\ bl1[L + 1] = pending
      /\ \A i \in 1..L : bl1[i] = bl[i]
  BY <1>1, AppendProperties, SMTT(30)
<1>5. ends1 \in [0..(L + 1) -> 0..n] /\ ends1[0] = 0 /\ ends1[L + 1] = n /\ ends1[L] = e
      /\ \A i \in 0..L : ends1[i] = ends[i]
  BY <1>1
<1> HIDE DEF ends1, bl1, L, e, n
<1>6. ASSUME NEW i \in 1..(L + 1)
      PROVE  /\ ends1[i-1] < ends1[i] /\ ends1[i] - ends1[i-1] <= BlockSize
             /\ bl1[i] = SubSeq(s, ends1[i-1] + 1, ends1[i])
  <2>1. CASE i = L + 1
    <3>1. i - 1 = L
      BY <1>1, <2>1
    <3> QED BY <1>1, <1>3, <1>4, <1>5, <2>1, <3>1
  <2>2. CASE i # L + 1
    <3>1. i \in 1..L /\ i - 1 \in 0..L /\ i \in 0..L
      BY <1>1, <2>2
    <3> QED BY <1>1, <1>4, <1>5, <3>1
  <2> QED BY <2>1, <2>2
<1>7. <<>> = SubSeq(s, ends1[L + 1] + 1, n)
  <2>1. n + 1 \in Int /\ n \in Int /\ n < n + 1
    BY <1>1
  <2> QED BY <1>5, <2>1, SubSeqEmpty
<1>8. Cut(s, ends1, bl1, <<>>)
  BY <1>1, <1>4, <1>5, <1>6, <1>7 DEF Cut, n
<1> QED BY <1>8 DEF bl1

-----------------------------------------------------------------------------
(* The files in the stream. *)
LEMMA WholeMore ==
    ASSUME NEW s \in Seq(Byte), NEW t \in Seq(Byte), NEW f \in FileRecord,
           NEW c \in Seq(Byte), Whole(s, f, c)
    PROVE  Whole(s \o t, f, c)
<1> DEFINE o == f.stream_offset
<1> DEFINE p == o + Len(c)
<1>1. o \in Nat /\ Len(c) \in Nat /\ Len(s) \in Nat /\ Len(t) \in Nat
  BY DEF FileRecord
<1>2. o \in 0..Len(s) /\ p \in o..Len(s)
  BY <1>1 DEF Whole
<1>3. c = SubSeq(s, o + 1, p)
  BY DEF Whole
<1>4. Len(s \o t) = Len(s) + Len(t)
  BY ConcatProperties
<1> HIDE DEF o, p
<1>5. SubSeq(s \o t, o + 1, p) = SubSeq(s, o + 1, p)
  BY <1>2, SliceOfConcat
<1>6. p <= Len(s \o t)
  BY <1>1, <1>2, <1>4
<1> QED BY <1>3, <1>5, <1>6 DEF Whole, o, p

LEMMA InPartMore ==
    ASSUME NEW s \in Seq(Byte), NEW t \in Seq(Byte), NEW u \in Seq(Byte),
           NEW f \in FileRecord, NEW c \in Seq(Byte), InPart(s, f, c, t \o u)
    PROVE  InPart(s \o t, f, c, u)
<1> DEFINE o == f.stream_offset
<1> DEFINE held == SubSeq(s, o + 1, Len(s))
<1>1. o \in Nat /\ Len(s) \in Nat /\ Len(t) \in Nat
  BY DEF FileRecord
<1>2. o \in 0..Len(s) /\ Len(s) \in o..Len(s)
  BY <1>1 DEF InPart
<1>3. c = held \o (t \o u)
  BY DEF InPart
<1>4. Len(s \o t) = Len(s) + Len(t)
  BY ConcatProperties
<1> HIDE DEF o
<1>5. held \in Seq(Byte)
  BY <1>2, SliceProperties
<1>6. held \o t = SubSeq(s \o t, o + 1, Len(s \o t))
  BY <1>2, <1>4, SliceExtended
<1> HIDE DEF held
<1>7. (held \o t) \o u = held \o (t \o u)
  BY <1>5
<1>8. o <= Len(s \o t)
  BY <1>1, <1>2, <1>4
<1> QED BY <1>3, <1>6, <1>7, <1>8 DEF InPart, o

LEMMA InPartEnd ==
    ASSUME NEW s \in Seq(Byte), NEW f \in FileRecord, NEW c \in Seq(Byte),
           InPart(s, f, c, <<>>)
    PROVE  Whole(s, f, c)
<1> DEFINE o == f.stream_offset
<1> DEFINE held == SubSeq(s, o + 1, Len(s))
<1>1. o \in Nat /\ Len(s) \in Nat
  BY DEF FileRecord
<1>2. o \in 0..Len(s) /\ Len(s) \in o..Len(s)
  BY <1>1 DEF InPart
<1>3. c = held \o <<>>
  BY DEF InPart
<1> HIDE DEF o
<1>4. held \in Seq(Byte) /\ Len(held) = Len(s) - o
  BY <1>2, SliceProperties
<1>5. c = held
  <2> HIDE DEF held
  <2> QED BY <1>3, <1>4, ConcatEmptySeq
<1>6. o + Len(c) = Len(s)
  BY <1>1, <1>4, <1>5
<1>7. c = SubSeq(s, o + 1, o + Len(c)) /\ o + Len(c) <= Len(s)
  BY <1>1, <1>5, <1>6 DEF held
<1> QED BY <1>7 DEF Whole, o

LEMMA InPartBegin ==
    ASSUME NEW s \in Seq(Byte), NEW f \in FileRecord, NEW c \in Seq(Byte),
           f.stream_offset = Len(s)
    PROVE  InPart(s, f, c, c)
<1>1. Len(s) \in Nat /\ Len(s) + 1 \in Int /\ Len(s) \in Int /\ Len(s) < Len(s) + 1
  OBVIOUS
<1>2. SubSeq(s, Len(s) + 1, Len(s)) = <<>>
  BY <1>1, SubSeqEmpty
<1>3. <<>> \o c = c
  BY ConcatEmptySeq
<1> QED BY <1>1, <1>2, <1>3 DEF InPart

-----------------------------------------------------------------------------
(* The invariant is inductive.                                               *)
LEMMA NewEntriesAreEntries ==
    ASSUME NEW listing \in Inputs
    PROVE  NewEntries(listing) \in Seq(InputEntry)
<1> DEFINE n == Len(listing)
<1> DEFINE numbers == [i \in 1..n |-> i]
<1>1. listing \in Seq(InputEntry) /\ n \in Nat
  BY InputsAssumption
<1>2. numbers \in Seq(1..n)
  BY <1>1
<1> HIDE DEF numbers
<1>3. \A keep : Sift(numbers, keep) \in Seq(1..n)
  BY <1>2, SiftKeeps
<1> DEFINE Fresh(i) == /\ listing[i].path \notin Seen
                       /\ \A j \in 1..(i-1) : listing[j].path # listing[i].path
<1> DEFINE kept == Sift(numbers, {i \in 1..n : Fresh(i)})
<1>4. NewEntries(listing) = [k \in 1..Len(kept) |-> listing[kept[k]]]
  BY DEF NewEntries, numbers
<1>5. kept \in Seq(1..n)
  BY <1>3
<1> HIDE DEF kept
<1> QED BY <1>1, <1>4, <1>5

LEMMA InitIInv == UsableBlockSize /\ Init => IInv
<1> SUFFICES ASSUME UsableBlockSize, Init PROVE IInv
  OBVIOUS
<1> DEFINE ends == [i \in 0..0 |-> 0]
<1>1. TypeOK
  BY MaxSessionsAssumption, InputsAssumption DEF Init, TypeOK
<1>2. Cardinality(Short) = 0
  <2>1. Short = {}
    BY DEF Init, Short
  <2> QED BY <2>1, FS_EmptySet
<1>3. Cut(<<>>, ends, blocks, pending_buffer)
  <2>1. ends \in [0..0 -> 0..0] /\ ends[0] = 0
    OBVIOUS
  <2>2. <<>> = SubSeq(<<>>, 0 + 1, 0)
    BY SubSeqEmpty
  <2> HIDE DEF ends
  <2> QED BY <2>1, <2>2 DEF Init, Cut
<1>4. Holds(<<>>) /\ Len(<<>>) = stream_position
  BY DEF Init, Holds
<1>5. Len(pending_buffer) < BlockSize /\ pc = "next" /\ session = 1
  BY BlockSizeAssumption DEF Init, UsableBlockSize
<1> HIDE DEF ends
<1> QED BY <1>1, <1>2, <1>3, <1>4, <1>5 DEF IInv

LEMMA BytesAreBytes ==
    ASSUME session \in Nat, NEW e \in InputEntry
    PROVE  Bytes(e) \in Seq(Byte)
<1>1. e.actual \in Nat /\ e.path \in STRING
  BY DEF InputEntry
<1>2. \A k \in 1..e.actual : <<session, e.path, k>> \in Byte
  BY <1>1 DEF Byte
<1> QED BY <1>1, <1>2 DEF Bytes

LEMMA BeginEntryKeepsIInv ==
    ASSUME UsableBlockSize, IInv, BeginEntry
    PROVE  IInv'
<1> DEFINE e == Head(todo)
<1>1. TypeOK /\ pc = "next" /\ todo # <<>>
  BY DEF IInv, BeginEntry
<1>2. e \in InputEntry /\ Tail(todo) \in Seq(InputEntry)
  BY <1>1, HeadTailProperties DEF TypeOK
<1>3. FileEntry(e, stream_position) \in FileRecord
  BY <1>1, <1>2 DEF TypeOK, FileEntry, FileRecord, InputEntry
<1>4. Bytes(e) \in Seq(Byte)
  BY <1>1, <1>2, BytesAreBytes DEF TypeOK
<1> DEFINE f == FileEntry(e, stream_position)
<1> DEFINE c == Bytes(e)
<1>5. f.ftype = e.ftype /\ f.stream_offset = stream_position
  BY DEF FileEntry
<1>6. /\ files' = Append(files, f) /\ contents' = Append(contents, c)
      /\ rest' = IF e.ftype = "File" THEN c ELSE <<>>
      /\ pc' = IF e.ftype = "File" THEN "reading" ELSE "next"
      /\ todo' = Tail(todo)
      /\ UNCHANGED <<session, stream_position, total_stream_size, pending_buffer, blocks>>
  BY DEF BeginEntry
<1> HIDE DEF f, c
<1>7. TypeOK'
  <2>1. /\ files' \in Seq(FileRecord) /\ contents' \in Seq(Seq(Byte))
        /\ Len(files') = Len(files) + 1 /\ Len(contents') = Len(contents) + 1
    BY <1>1, <1>3, <1>4, <1>6, AppendProperties DEF TypeOK, f, c
  <2>2. rest' \in Seq(Byte) /\ pc' \in {"next", "reading", "stored", "failed"}
    BY <1>4, <1>6 DEF c
  <2> QED BY <1>1, <1>2, <1>6, <2>1, <2>2 DEF TypeOK
<1>8. PICK s, ends : /\ Cut(s, ends, blocks, pending_buffer)
                     /\ Len(s) = stream_position /\ Holds(s)
  BY <1>1 DEF IInv
<1>9. Holds(s)'
  <2> SUFFICES ASSUME NEW i \in 1..Len(files'), files'[i].ftype = "File"
               PROVE  IF pc' = "reading" /\ i = Len(files')
                      THEN InPart(s, files'[i], contents'[i], rest')
                      ELSE Whole(s, files'[i], contents'[i])
    BY DEF Holds, RegularFile
  <2>1. Len(files) \in Nat /\ Len(contents) = Len(files) /\ Len(files') = Len(files) + 1
    BY <1>1, <1>3, <1>6 DEF TypeOK, f
  <2>2. CASE i = Len(files) + 1
    <3>1. files'[i] = f /\ contents'[i] = c
      BY <1>1, <1>3, <1>4, <1>6, <2>1, <2>2, AppendProperties DEF TypeOK, f, c
    <3>2. pc' = "reading" /\ rest' = c
      BY <1>5, <1>6, <3>1
    <3>3. InPart(s, f, c, c)
      <4>1. s \in Seq(Byte)
        BY <1>8 DEF Cut
      <4> QED BY <1>3, <1>4, <1>5, <1>8, <4>1, InPartBegin DEF f, c
    <3> QED BY <2>1, <2>2, <3>1, <3>2, <3>3
  <2>3. CASE i # Len(files) + 1
    <3>1. i \in 1..Len(files)
      BY <2>1, <2>3
    <3>2. files'[i] = files[i] /\ contents'[i] = contents[i]
      BY <1>1, <1>3, <1>4, <1>6, <2>1, <3>1, AppendProperties DEF TypeOK, f, c
    <3>3. Whole(s, files[i], contents[i])
      BY <1>1, <1>8, <3>1, <3>2 DEF Holds, RegularFile
    <3> QED BY <2>1, <2>3, <3>2, <3>3
  <2> QED BY <2>2, <2>3
<1>10. Short' = Short
  BY <1>6 DEF Short
<1>11. Cut(s, ends, blocks', pending_buffer') /\ Len(s) = stream_position'
  BY <1>6, <1>8
<1> QED BY <1>1, <1>6, <1>7, <1>9, <1>10, <1>11 DEF IInv

LEMMA ReadChunkKeepsIInv ==
    ASSUME UsableBlockSize, IInv, ReadChunk
    PROVE  IInv'
<1>1. TypeOK /\ pc = "reading"
  BY DEF IInv, ReadChunk
<1>2. PICK n \in 1..BlockSize :
        /\ n <= Len(rest)
        /\ blocks' = blocks \o CutBlocks(pending_buffer \o SubSeq(rest, 1, n))
        /\ pending_buffer' = Uncut(pending_buffer \o SubSeq(rest, 1, n))
        /\ rest' = SubSeq(rest, n + 1, Len(rest))
        /\ stream_position' = stream_position + n
        /\ UNCHANGED <<session, pc, todo, files, contents, total_stream_size>>
  BY DEF ReadChunk
<1>3. PICK t : t = SubSeq(rest, 1, n)
  OBVIOUS
<1>4. PICK cut : cut = CutBlocks(pending_buffer \o t)
  OBVIOUS
<1>5. /\ rest \in Seq(Byte) /\ n \in Nat
      /\ t \in Seq(Byte) /\ Len(t) = n /\ rest' \in Seq(Byte) /\ rest = t \o rest'
  <2>1. rest \in Seq(Byte) /\ n \in Nat /\ Len(rest) \in Nat
    BY <1>1, BlockSizeAssumption DEF TypeOK
  <2>2. 0 \in 0..Len(rest) /\ n \in 0..Len(rest) /\ Len(rest) \in n..Len(rest)
    BY <1>2, <2>1
  <2>3. SubSeq(rest, 0 + 1, n) \in Seq(Byte) /\ Len(SubSeq(rest, 0 + 1, n)) = n - 0
    BY <2>1, <2>2, SliceProperties
  <2>4. SubSeq(rest, n + 1, Len(rest)) \in Seq(Byte)
    BY <2>1, <2>2, SliceProperties
  <2>5. SubSeq(rest, 0 + 1, n) \o SubSeq(rest, n + 1, Len(rest))
          = SubSeq(rest, 0 + 1, Len(rest))
    BY <2>1, <2>2, SliceJoin
  <2>6. SubSeq(rest, 1, Len(rest)) = rest
    BY <2>1, SubSeqFull
  <2>7. 0 + 1 = 1 /\ n - 0 = n
    BY <2>1
  <2> QED BY <1>2, <1>3, <2>1, <2>3, <2>4, <2>5, <2>6, <2>7
<1>6. PICK s, ends : /\ Cut(s, ends, blocks, pending_buffer)
                     /\ Len(s) = stream_position /\ Holds(s)
  BY <1>1 DEF IInv
<1>7. /\ \E ends1 : Cut(s \o t, ends1, blocks \o cut, Uncut(pending_buffer \o t))
      /\ cut \in Seq(Seq(Byte))
      /\ \A k \in 1..Len(cut) : Len(cut[k]) = BlockSize
      /\ Uncut(pending_buffer \o t) \in Seq(Byte)
      /\ Len(Uncut(pending_buffer \o t)) < BlockSize
  BY <1>4, <1>5, <1>6, CutMore
<1>8. PICK ends1 : Cut(s \o t, ends1, blocks', pending_buffer')
  BY <1>2, <1>3, <1>4, <1>7
<1>9. s \in Seq(Byte) /\ s \o t \in Seq(Byte) /\ Len(s \o t) = stream_position'
  <2>1. s \in Seq(Byte)
    BY <1>6 DEF Cut
  <2>2. s \o t \in Seq(Byte) /\ Len(s \o t) = Len(s) + Len(t)
    BY <1>5, <2>1, ConcatElements
  <2>3. stream_position' = stream_position + n
    BY <1>2
  <2> QED BY <1>5, <1>6, <2>1, <2>2, <2>3
<1>10. TypeOK'
  <2>1. stream_position' \in Nat
    BY <1>1, <1>2, <1>5 DEF TypeOK
  <2>2. blocks' \in Seq(Seq(Byte)) /\ pending_buffer' \in Seq(Byte)
    BY <1>2, <1>3, <1>7, <1>8 DEF Cut
  <2> QED BY <1>1, <1>2, <1>5, <2>1, <2>2 DEF TypeOK
<1>11. Holds(s \o t)'
  <2> SUFFICES ASSUME NEW i \in 1..Len(files), files[i].ftype = "File"
               PROVE  IF pc = "reading" /\ i = Len(files)
                      THEN InPart(s \o t, files[i], contents[i], rest')
                      ELSE Whole(s \o t, files[i], contents[i])
    <3>1. PICK r : r = s \o t
      OBVIOUS
    <3>2. Holds(r)'
      BY <1>2, <3>1 DEF Holds, RegularFile
    <3> QED BY <1>3, <3>1, <3>2
  <2>1. files[i] \in FileRecord /\ contents[i] \in Seq(Byte)
    BY <1>1 DEF TypeOK
  <2>2. CASE i = Len(files)
    <3>1. InPart(s, files[i], contents[i], t \o rest')
      BY <1>1, <1>5, <1>6, <2>2 DEF Holds, RegularFile
    <3> QED BY <1>1, <1>5, <1>9, <2>1, <2>2, <3>1, InPartMore
  <2>3. CASE i # Len(files)
    <3>1. Whole(s, files[i], contents[i])
      BY <1>1, <1>6, <2>3 DEF Holds, RegularFile
    <3> QED BY <1>5, <1>9, <2>1, <2>3, <3>1, WholeMore
  <2> QED BY <2>2, <2>3
<1>12. Short' = Short
  <2>1. blocks \in Seq(Seq(Byte)) /\ blocks' = blocks \o cut
    BY <1>1, <1>2, <1>3, <1>4 DEF TypeOK
  <2>2. /\ DOMAIN blocks = 1..Len(blocks) /\ DOMAIN blocks' = 1..(Len(blocks) + Len(cut))
        /\ Len(blocks) \in Nat /\ Len(cut) \in Nat
        /\ \A i \in 1..(Len(blocks) + Len(cut)) :
             blocks'[i] = IF i <= Len(blocks) THEN blocks[i] ELSE cut[i - Len(blocks)]
    BY <1>7, <2>1, ConcatProperties
  <2>3. ASSUME NEW i \in 1..(Len(blocks) + Len(cut)), ~(i <= Len(blocks))
        PROVE  Len(blocks'[i]) = BlockSize
    <3>1. i - Len(blocks) \in 1..Len(cut)
      BY <2>2, <2>3
    <3> QED BY <1>7, <2>2, <2>3, <3>1
  <2>4. BlockSize \in Nat
    BY BlockSizeAssumption
  <2> QED BY <2>2, <2>3, <2>4 DEF Short
<1>13. Len(pending_buffer') < BlockSize /\ pc' = "reading" /\ session' = session
  BY <1>1, <1>2, <1>3, <1>7
<1>14. \E r, ends2 : /\ Cut(r, ends2, blocks', pending_buffer')
                     /\ Len(r) = stream_position' /\ Holds(r)'
  <2>1. PICK r : r = s \o t
    OBVIOUS
  <2>2. Holds(r)'
    BY <1>11, <2>1
  <2> QED BY <1>8, <1>9, <2>1, <2>2
<1> QED BY <1>1, <1>10, <1>12, <1>13, <1>14 DEF IInv

LEMMA ReadEndKeepsIInv ==
    ASSUME UsableBlockSize, IInv, ReadEnd
    PROVE  IInv'
<1>1. TypeOK /\ pc = "reading"
  BY DEF IInv, ReadEnd
<1>2. /\ rest = <<>> /\ rest' = <<>> /\ pc' = "next"
      /\ UNCHANGED <<session, todo, files, contents, stream_position, total_stream_size,
                     pending_buffer, blocks>>
  BY DEF ReadEnd, UsableBlockSize
<1>3. TypeOK'
  BY <1>1, <1>2 DEF TypeOK
<1>4. PICK s, ends : /\ Cut(s, ends, blocks, pending_buffer)
                     /\ Len(s) = stream_position /\ Holds(s)
  BY <1>1 DEF IInv
<1>5. Holds(s)'
  <2> SUFFICES ASSUME NEW i \in 1..Len(files), files[i].ftype = "File"
               PROVE  Whole(s, files[i], contents[i])
    BY <1>2 DEF Holds, RegularFile
  <2>1. files[i] \in FileRecord /\ contents[i] \in Seq(Byte) /\ s \in Seq(Byte)
    BY <1>1, <1>4 DEF TypeOK, Cut
  <2>2. CASE i = Len(files)
    <3>1. InPart(s, files[i], contents[i], <<>>)
      BY <1>1, <1>2, <1>4, <2>2 DEF Holds, RegularFile
    <3> QED BY <2>1, <3>1, InPartEnd
  <2>3. CASE i # Len(files)
    BY <1>1, <1>4, <2>3 DEF Holds, RegularFile
  <2> QED BY <2>2, <2>3
<1>6. Short' = Short
  BY <1>2 DEF Short
<1>7. Cut(s, ends, blocks', pending_buffer') /\ Len(s) = stream_position'
  BY <1>2, <1>4
<1> QED BY <1>1, <1>2, <1>3, <1>5, <1>6, <1>7 DEF IInv

LEMMA ReadFailsKeepsIInv ==
    ASSUME IInv, ReadFails
    PROVE  IInv'
<1>1. TypeOK /\ pc \in {"next", "reading"}
  BY DEF IInv, ReadFails
<1>2. /\ pc' = "failed"
      /\ UNCHANGED <<session, todo, rest, files, contents, stream_position,
                     total_stream_size, pending_buffer, blocks>>
  BY DEF ReadFails
<1>3. TypeOK'
  BY <1>1, <1>2 DEF TypeOK
<1>4. PICK s, ends : Cut(s, ends, blocks, pending_buffer) /\ Len(s) = stream_position
  BY DEF IInv
<1>5. Cut(s, ends, blocks', pending_buffer') /\ Len(s) = stream_position'
  BY <1>2, <1>4
<1>6. Short' = Short
  BY <1>2 DEF Short
<1> QED BY <1>1, <1>2, <1>3, <1>5, <1>6 DEF IInv

LEMMA FlushPendingKeepsIInv ==
    ASSUME UsableBlockSize, IInv, FlushPending
    PROVE  IInv'
<1>1. TypeOK /\ pc = "next" /\ pending_buffer \in Seq(Byte) /\ blocks \in Seq(Seq(Byte))
  BY DEF IInv, FlushPending, TypeOK
<1>2. /\ blocks' = IF pending_buffer = <<>> THEN blocks ELSE Append(blocks, pending_buffer)
      /\ pending_buffer' = <<>> /\ pc' = "stored" /\ total_stream_size' = stream_position
      /\ UNCHANGED <<session, todo, rest, files, contents, stream_position>>
  BY DEF FlushPending
<1>3. TypeOK'
  BY <1>1, <1>2, AppendProperties DEF TypeOK
<1>4. PICK s, ends : /\ Cut(s, ends, blocks, pending_buffer)
                     /\ Len(s) = stream_position /\ Holds(s)
  BY <1>1 DEF IInv
<1>5. \E ends1 : Cut(s, ends1, blocks', pending_buffer')
  <2>1. CASE pending_buffer = <<>>
    BY <1>2, <1>4, <2>1
  <2>2. CASE pending_buffer # <<>>
    <3>1. Len(pending_buffer) < BlockSize
      BY DEF IInv
    <3> QED BY <1>1, <1>2, <1>4, <2>2, <3>1, CutLast
  <2> QED BY <2>1, <2>2
<1>6. Holds(s)'
  BY <1>1, <1>2, <1>4 DEF Holds, RegularFile
<1>7. Cardinality(Short') <= Cardinality(Short) + 1 /\ Cardinality(Short) \in Nat
      /\ Cardinality(Short') \in Nat
  <2>1. IsFiniteSet(Short)
    <3>1. Short \in SUBSET (1..Len(blocks)) /\ Len(blocks) \in Int /\ 1 \in Int
      BY <1>1 DEF Short
    <3>2. IsFiniteSet(1..Len(blocks))
      BY <3>1, FS_Interval
    <3> QED BY <3>1, <3>2, FS_Subset
  <2> DEFINE last == Len(blocks) + 1
  <2>2. Short' \in SUBSET (Short \cup {last})
    <3>1. CASE pending_buffer = <<>>
      BY <1>2, <3>1 DEF Short
    <3>2. CASE pending_buffer # <<>>
      <4>1. blocks' = Append(blocks, pending_buffer)
        BY <1>2, <3>2
      <4>2. DOMAIN blocks' = 1..last /\ DOMAIN blocks = 1..Len(blocks)
            /\ \A i \in 1..Len(blocks) : blocks'[i] = blocks[i]
        BY <1>1, <4>1, AppendProperties
      <4>3. Len(blocks) \in Nat
        BY <1>1
      <4> QED BY <4>2, <4>3 DEF Short
    <3> QED BY <3>1, <3>2
  <2> DEFINE T == Short \cup {last}
  <2>3. IsFiniteSet(T) /\ Cardinality(T) <= Cardinality(Short) + 1 /\ Cardinality(Short) \in Nat
    <3> HIDE DEF last
    <3>1. Cardinality(Short) \in Nat
      BY <2>1, FS_CardinalityType
    <3>2. IsFiniteSet(T) /\ Cardinality(T) = IF last \in Short THEN Cardinality(Short)
                                             ELSE Cardinality(Short) + 1
      BY <2>1, FS_AddElement
    <3> QED BY <3>1, <3>2
  <2> HIDE DEF T
  <2>4. IsFiniteSet(Short') /\ Cardinality(Short') <= Cardinality(T)
    BY <2>2, <2>3, FS_Subset DEF T
  <2>5. Cardinality(Short') \in Nat /\ Cardinality(T) \in Nat
    BY <2>3, <2>4, FS_CardinalityType
  <2> QED BY <2>3, <2>4, <2>5
<1>8. Cardinality(Short') <= session'
  <2>1. Cardinality(Short) <= session - 1 /\ session \in Nat /\ session' = session
    BY <1>1, <1>2 DEF IInv, TypeOK
  <2> QED BY <1>7, <2>1
<1>9. Len(pending_buffer') < BlockSize
  BY <1>2, BlockSizeAssumption DEF UsableBlockSize
<1> QED BY <1>2, <1>3, <1>4, <1>5, <1>6, <1>8, <1>9 DEF IInv

LEMMA BeginAppendKeepsIInv ==
    ASSUME IInv, BeginAppend
    PROVE  IInv'
<1>1. TypeOK /\ pc = "stored" /\ session < MaxSessions
  BY DEF IInv, BeginAppend
<1>2. /\ session' = session + 1 /\ pc' = "next"
      /\ stream_position' = total_stream_size /\ total_stream_size = stream_position
      /\ UNCHANGED <<rest, files, contents, total_stream_size, pending_buffer, blocks>>
  BY DEF BeginAppend, IInv
<1>3. todo' \in Seq(InputEntry)
  <2>1. PICK listing \in Inputs : todo' = NewEntries(listing)
    BY DEF BeginAppend
  <2> QED BY <2>1, NewEntriesAreEntries
<1>4. TypeOK'
  BY <1>1, <1>2, <1>3, MaxSessionsAssumption DEF TypeOK
<1>5. PICK s, ends : /\ Cut(s, ends, blocks, pending_buffer)
                     /\ Len(s) = stream_position /\ Holds(s)
  BY <1>1 DEF IInv
<1>6. Holds(s)'
  BY <1>1, <1>2, <1>5 DEF Holds, RegularFile
<1>7. Short' = Short
  BY <1>2 DEF Short
<1>8. Cut(s, ends, blocks', pending_buffer') /\ Len(s) = stream_position'
  BY <1>2, <1>5
<1>9. Cardinality(Short') <= session' - 1
  <2>1. Cardinality(Short) <= session /\ session \in Int
    BY <1>1 DEF IInv, TypeOK
  <2>2. session' - 1 = session
    BY <1>2, <2>1
  <2> QED BY <1>7, <2>1, <2>2
<1> QED BY <1>1, <1>2, <1>4, <1>5, <1>6, <1>8, <1>9 DEF IInv

LEMMA StepKeepsIInv ==
    ASSUME UsableBlockSize, IInv, [Next]_vars
    PROVE  IInv'
<1>1. CASE BeginEntry
  BY <1>1, BeginEntryKeepsIInv
<1>2. CASE ReadChunk
  BY <1>2, ReadChunkKeepsIInv
<1>3. CASE ReadEnd
  BY <1>3, ReadEndKeepsIInv
<1>4. CASE ReadFails
  BY <1>4, ReadFailsKeepsIInv
<1>5. CASE FlushPending
  BY <1>5, FlushPendingKeepsIInv
<1>6. CASE BeginAppend
  BY <1>6, BeginAppendKeepsIInv
<1>7. CASE Finished \/ UNCHANGED vars
  <2>1. UNCHANGED vars
    BY <1>7 DEF Finished
  <2>2. TypeOK' = TypeOK /\ Short' = Short /\ \A s : Holds(s)' = Holds(s)
    BY <2>1 DEF vars, TypeOK, Short, Holds, RegularFile
  <2> QED BY <2>1, <2>2 DEF IInv, vars
<1> QED BY <1>1, <1>2, <1>3, <1>4, <1>5, <1>6, <1>7 DEF Next

(* The stream is cut into full blocks and at most one short one per command, *)
(* what is pending is less than a block, and each file's bytes stand in the  *)
(* stream from its offset on (initialize_compression and append_file record  *)
(* the offset, read_file_to_bytes reads and cuts).                           *)
THEOREM LayoutInvariant == UsableBlockSize => (Spec => []IInv)
<1> SUFFICES ASSUME UsableBlockSize PROVE Spec => []IInv
  OBVIOUS
<1>1. Init => IInv
  BY InitIInv
<1>2. IInv /\ [Next]_vars => IInv'
  BY StepKeepsIInv
<1> QED BY <1>1, <1>2, PTL DEF Spec

-----------------------------------------------------------------------------
(* The reader's sums of the plain sizes are the ends of the blocks.          *)
LEMMA EndsAreSums ==
    ASSUME UsableBlockSize, NEW s, NEW ends, Cut(s, ends, blocks, pending_buffer)
    PROVE  /\ \A i \in 0..Len(blocks) : StreamEnd(i) = ends[i]
           /\ \A i \in 1..Len(blocks) : /\ SizePlain(i) = ends[i] - ends[i-1]
                                        /\ Len(blocks[i]) = ends[i] - ends[i-1]
                                        /\ Len(blocks[i]) \in 1..BlockSize
                                        /\ Readable(i)
<1> DEFINE L == Len(blocks)
<1> DEFINE f == [j \in 1..L |-> SizePlain(j)]
<1>1. /\ s \in Seq(Byte) /\ L \in Nat /\ Len(s) \in Nat
      /\ ends \in [0..L -> 0..Len(s)] /\ ends[0] = 0
      /\ \A i \in 1..L : /\ ends[i-1] < ends[i] /\ ends[i] - ends[i-1] <= BlockSize
                         /\ blocks[i] = SubSeq(s, ends[i-1] + 1, ends[i])
      /\ BlockSize \in Nat /\ U32 \in Nat \ {0} /\ BlockSize < U32
  BY BlockSizeAssumption, U32Assumption DEF Cut, UsableBlockSize
<1>2. ASSUME NEW i \in 1..L
      PROVE  /\ SizePlain(i) = ends[i] - ends[i-1]
             /\ Len(blocks[i]) = ends[i] - ends[i-1]
             /\ Len(blocks[i]) \in 1..BlockSize
             /\ Readable(i)
             /\ ends[i] \in Nat /\ ends[i-1] \in Nat
  <2> DEFINE a == ends[i-1]
  <2> DEFINE b == ends[i]
  <2>1. i - 1 \in 0..L /\ i \in 0..L
    BY <1>1
  <2>2. a \in 0..Len(s) /\ b \in a..Len(s) /\ b - a \in 1..BlockSize
        /\ blocks[i] = SubSeq(s, a + 1, b)
    <3>1. a \in 0..Len(s) /\ b \in 0..Len(s)
      BY <1>1, <2>1
    <3>2. a < b /\ b - a <= BlockSize /\ blocks[i] = SubSeq(s, a + 1, b)
      BY <1>1
    <3> HIDE DEF a, b
    <3> QED BY <1>1, <3>1, <3>2
  <2> HIDE DEF a, b
  <2>3. Len(blocks[i]) = b - a
    BY <1>1, <2>2, SliceProperties, SMTT(30)
  <2>4. SizePlain(i) = b - a
    <3> DEFINE d == b - a
    <3>1. d \in Nat /\ d < U32
      BY <1>1, <2>2
    <3> HIDE DEF d
    <3>2. d % U32 = d
      BY <1>1, <3>1, ModSmall
    <3> QED BY <2>3, <3>2 DEF SizePlain, AsU32, d
  <2>5. a \in Nat /\ b \in Nat
    BY <1>1, <2>2
  <2> QED BY <2>2, <2>3, <2>4, <2>5 DEF a, b, Readable
<1>3. f \in Seq(Nat) /\ Len(f) = L /\ \A i \in 1..L : f[i] = ends[i] - ends[i-1]
  <2>1. \A i \in 1..L : SizePlain(i) \in Nat
    BY <1>1, <1>2
  <2> QED BY <1>1, <1>2, <2>1
<1>4. AreSums(ends, f)
  BY <1>1, <1>2, <1>3 DEF AreSums
<1>5. ASSUME NEW i \in 0..L PROVE StreamEnd(i) = ends[i]
  <2> HIDE DEF f
  <2>1. i \in 0..Len(f)
    BY <1>3
  <2>2. UpTo(f, i) = ends[i]
    BY <1>3, <1>4, <2>1, UpToUnique
  <2> QED BY <2>2 DEF StreamEnd, f
<1> QED BY <1>2, <1>5

LEMMA EndsGrow ==
    ASSUME NEW s, NEW ends, NEW bl, NEW pending, Cut(s, ends, bl, pending),
           NEW i \in 0..Len(bl), NEW j \in i..Len(bl)
    PROVE  ends[i] <= ends[j]
<1> DEFINE L == Len(bl)
<1>1. L \in Nat /\ Len(s) \in Nat /\ ends \in [0..L -> 0..Len(s)]
      /\ \A k \in 1..L : ends[k-1] < ends[k]
  BY DEF Cut
<1> HIDE DEF L
<1> DEFINE T == {d \in Nat : i + d <= L => ends[i] <= ends[i + d]}
<1>2. 0 \in T
  <2>1. i + 0 = i /\ i \in 0..L
    BY <1>1 DEF L
  <2>2. ends[i] \in Nat
    BY <1>1, <2>1
  <2> QED BY <2>1, <2>2
<1>3. ASSUME NEW d \in T PROVE d + 1 \in T
  <2> SUFFICES ASSUME i + (d + 1) <= L PROVE ends[i] <= ends[i + (d + 1)]
    OBVIOUS
  <2>1. i + (d + 1) \in 1..L /\ (i + (d + 1)) - 1 = i + d /\ i + d \in 0..L /\ i \in 0..L
        /\ i + (d + 1) \in 0..L /\ i + d <= L
    BY <1>1 DEF L
  <2>2. ends[i] <= ends[i + d]
    BY <2>1
  <2>3. ends[i + d] < ends[i + (d + 1)]
    BY <1>1, <2>1
  <2>4. ends[i] \in Nat /\ ends[i + d] \in Nat /\ ends[i + (d + 1)] \in Nat
    BY <1>1, <2>1
  <2> QED BY <2>2, <2>3, <2>4
<1>4. T = Nat
  <2> HIDE DEF T
  <2>1. T \in SUBSET Nat
    BY DEF T
  <2> QED BY <1>2, <1>3, <2>1, Induction
<1>5. j - i \in T /\ i + (j - i) = j /\ j <= L
  <2> HIDE DEF T
  <2>1. j - i \in Nat /\ i + (j - i) = j /\ j <= L
    BY <1>1 DEF L
  <2> QED BY <1>4, <2>1
<1> QED BY <1>5

(* What each read gives of the stream, and that together they give it.       *)
LEMMA ExtractionReadsStream ==
    ASSUME UsableBlockSize, TypeOK,
           NEW s, NEW ends, Cut(s, ends, blocks, pending_buffer), pending_buffer = <<>>,
           NEW f \in FileRecord, f.stream_offset + f.size <= Len(s)
    PROVE  /\ ExtractOk(f)
           /\ Extracted(f) = SubSeq(s, f.stream_offset + 1, f.stream_offset + f.size)
<1> DEFINE L == Len(blocks)
<1> DEFINE off == f.stream_offset
<1> DEFINE stop == off + f.size
<1>1. /\ s \in Seq(Byte) /\ L \in Nat /\ Len(s) \in Nat /\ DOMAIN blocks = 1..L
      /\ ends \in [0..L -> 0..Len(s)] /\ ends[0] = 0
      /\ \A i \in 1..L : /\ ends[i-1] < ends[i]
                         /\ blocks[i] = SubSeq(s, ends[i-1] + 1, ends[i])
      /\ off \in Nat /\ f.size \in Nat /\ stop \in Nat /\ off <= stop /\ stop <= Len(s)
  BY DEF Cut, FileRecord, TypeOK
<1>2. ends[L] = Len(s)
  <2>1. L \in 0..L
    BY <1>1
  <2>2. ends[L] \in 0..Len(s) /\ Len(s) \in ends[L]..Len(s)
    BY <1>1, <2>1
  <2>3. Len(SubSeq(s, ends[L] + 1, Len(s))) = Len(s) - ends[L]
    <3> DEFINE e == ends[L]
    <3> DEFINE n == Len(s)
    <3>1. e \in 0..Len(s) /\ n \in e..Len(s)
      BY <2>2
    <3> HIDE DEF e, n
    <3>2. Len(SubSeq(s, e + 1, n)) = n - e
      BY <1>1, <3>1, SliceProperties
    <3> QED BY <3>2 DEF e, n
  <2>4. <<>> = SubSeq(s, ends[L] + 1, Len(s))
    BY DEF Cut
  <2>5. Len(<<>>) = 0 /\ ends[L] \in Int
    BY <1>1, <2>2
  <2>6. Len(s) - ends[L] = 0
    BY <2>3, <2>4, <2>5
  <2> HIDE DEF L
  <2> QED BY <1>1, <2>5, <2>6
<1>3. /\ \A i \in 0..L : StreamEnd(i) = ends[i]
      /\ \A i \in 1..L : Len(blocks[i]) = ends[i] - ends[i-1] /\ Readable(i)
  BY EndsAreSums
<1>4. \A i \in 0..L : \A j \in i..L : ends[i] <= ends[j]
  BY EndsGrow
<1>5. \A i \in 1..L : BlockRange(i) = [start |-> ends[i-1], end |-> ends[i]]
  <2>1. \A i \in 1..L : i - 1 \in 0..L /\ i \in 0..L
    BY <1>1
  <2> QED BY <1>3, <2>1 DEF BlockRange
<1> HIDE DEF L, off, stop
(* Blocks 1..m end at the offset or before, the others behind it.            *)
<1>6. PICK m \in 0..L : (\A i \in 1..m : ends[i] <= off) /\ \A i \in (m+1)..L : off < ends[i]
  <2> DEFINE T == {i \in Nat : i = L \/ (i < L /\ off < ends[i+1])}
  <2>1. L \in T
    BY <1>1
  <2>2. PICK m \in T : \A i \in T : m <= i
    <3> HIDE DEF T
    <3>1. T \in SUBSET Nat
      BY DEF T
    <3> QED BY <2>1, <3>1, LeastElement
  <2>3. m \in 0..L
    BY <1>1, <2>1, <2>2
  <2>4. ASSUME NEW i \in 1..m PROVE ends[i] <= off
    <3>1. i - 1 \in Nat /\ i - 1 < L /\ (i - 1) + 1 = i /\ ~(m <= i - 1) /\ i \in 0..L
      BY <1>1, <2>3
    <3>2. i - 1 \notin T
      BY <2>2, <3>1
    <3>3. ~(off < ends[i])
      BY <3>1, <3>2
    <3>4. ends[i] \in Nat
      BY <1>1, <3>1
    <3> QED BY <1>1, <3>3, <3>4
  <2>5. ASSUME NEW i \in (m+1)..L PROVE off < ends[i]
    <3> DEFINE j == m + 1
    <3>1. m < L /\ j \in 0..L /\ i \in j..L /\ i \in 0..L
      BY <1>1, <2>3
    <3>2. off < ends[j]
      BY <2>2, <3>1
    <3> HIDE DEF j, T
    <3>3. ends[j] <= ends[i]
      BY <1>4, <3>1
    <3>4. ends[j] \in 0..Len(s) /\ ends[i] \in 0..Len(s)
      BY <1>1, <3>1
    <3> QED BY <1>1, <3>2, <3>3, <3>4
  <2> QED BY <2>3, <2>4, <2>5
(* Blocks up to l begin before the end of the file, the others do not.       *)
<1>7. PICK l \in m..L : (l = L \/ stop <= ends[l]) /\ \A i \in m..(l-1) : ends[i] < stop
  <2> DEFINE T == {i \in Nat : i \in m..L /\ (i = L \/ stop <= ends[i])}
  <2>1. L \in T
    BY <1>1
  <2>2. PICK l \in T : \A i \in T : l <= i
    <3> HIDE DEF T
    <3>1. T \in SUBSET Nat
      BY DEF T
    <3> QED BY <2>1, <3>1, LeastElement
  <2>3. ASSUME NEW i \in m..(l-1) PROVE ends[i] < stop
    <3>1. i \in Nat /\ i \in m..L /\ i # L /\ ~(l <= i) /\ i \in 0..L
      BY <1>1, <2>2
    <3>2. ~(stop <= ends[i])
      BY <2>2, <3>1
    <3>3. ends[i] \in Nat
      BY <1>1, <3>1
    <3> QED BY <1>1, <3>2, <3>3
  <2> QED BY <2>2, <2>3
<1>8. FirstBlock(f) = m + 1
  <2>1. {i \in DOMAIN blocks : BlockRange(i).end <= f.stream_offset} = 1..m
    <3>1. ASSUME NEW i \in 1..L PROVE BlockRange(i).end <= off <=> i \in 1..m
      <4>1. BlockRange(i).end = ends[i] /\ ends[i] \in Nat
        <5>1. i \in 0..L
          BY <1>1
        <5> QED BY <1>1, <1>5, <5>1
      <4>2. CASE i \in 1..m
        BY <1>6, <4>1, <4>2
      <4>3. CASE i \notin 1..m
        <5>1. i \in (m+1)..L
          BY <1>1, <4>3
        <5> QED BY <1>1, <1>6, <4>1, <4>3, <5>1
      <4> QED BY <4>2, <4>3
    <3>2. \A i \in 1..m : i \in 1..L
      BY <1>1
    <3> QED BY <1>1, <3>1, <3>2 DEF off
  <2>2. Cardinality(1..m) = m
    <3>1. 1 \in Int /\ m \in Int
      BY <1>1
    <3> QED BY <1>1, <3>1, FS_Interval
  <2>3. Cardinality({i \in DOMAIN blocks : BlockRange(i).end <= f.stream_offset}) = m
    BY <2>1, <2>2
  <2>4. m \in Nat
    BY <1>1
  <2>5. FirstBlock(f) = 1 + m
    BY <2>3 DEF FirstBlock
  <2> QED BY <2>4, <2>5
<1>9. ASSUME NEW i \in (m+1)..L
      PROVE  Overlaps(f, i) <=> ends[i-1] < stop
  <2>1. i \in 1..L
    BY <1>1
  <2> QED BY <1>5, <1>6, <2>1 DEF Overlaps, off, stop
<1>10. BlocksOf(f) = (m+1)..l
  <2>1. ASSUME NEW i \in (m+1)..l
        PROVE  i \in BlocksOf(f)
    <3>1. i \in (m+1)..L
      BY <1>1
    <3>2. ASSUME NEW j \in (m+1)..i PROVE Overlaps(f, j)
      <4>1. j \in (m+1)..L /\ j - 1 \in m..(l-1)
        BY <1>1, <3>1
      <4> QED BY <1>7, <1>9, <4>1
    <3> QED BY <1>8, <3>1, <3>2 DEF BlocksOf, L
  <2>2. ASSUME NEW i \in BlocksOf(f) PROVE i \in (m+1)..l
    <3>1. i \in (m+1)..L /\ \A j \in (m+1)..i : Overlaps(f, j)
      BY <1>8 DEF BlocksOf, L
    <3>2. SUFFICES ASSUME ~(i <= l) PROVE FALSE
      BY <1>1, <3>1
    <3>3. l + 1 \in (m+1)..i /\ l + 1 \in (m+1)..L /\ (l + 1) - 1 = l /\ l # L /\ l \in 0..L
      BY <1>1, <3>1, <3>2
    <3>4. ends[l] < stop
      BY <1>9, <3>1, <3>3
    <3>5. ends[l] \in Nat
      BY <1>1, <3>3
    <3> QED BY <1>1, <1>7, <3>3, <3>4, <3>5
  <2> QED BY <2>1, <2>2
<1> DEFINE from(i) == IF off > ends[i-1] THEN off ELSE ends[i-1]
<1> DEFINE to(i) == IF stop < ends[i] THEN stop ELSE ends[i]
<1>11. ASSUME NEW i \in (m+1)..l
       PROVE  /\ TakeStart(f, i) <= TakeEnd(f, i)
              /\ Readable(i)
              /\ from(i) \in 0..Len(s) /\ to(i) \in from(i)..Len(s)
              /\ Slice(f, i) = SubSeq(s, from(i) + 1, to(i))
  <2> DEFINE a == ends[i-1]
  <2> DEFINE b == ends[i]
  <2> DEFINE c == TakeStart(f, i)
  <2> DEFINE d == TakeEnd(f, i)
  <2>1. i \in 1..L /\ i \in (m+1)..L /\ i - 1 \in m..(l-1) /\ i - 1 \in 0..L /\ i \in 0..L
    BY <1>1
  <2>2. a \in 0..Len(s) /\ b \in 0..Len(s) /\ a < b /\ off < b /\ a < stop
        /\ blocks[i] = SubSeq(s, a + 1, b) /\ Readable(i)
    BY <1>1, <1>3, <1>6, <1>7, <2>1
  <2>3. BlockRange(i).start = a /\ BlockRange(i).end = b
    BY <1>5, <2>1
  <2> HIDE DEF a, b
  <2>4. c = (IF off > a THEN off - a ELSE 0) /\ d = (IF stop < b THEN stop ELSE b) - a
    BY <2>3 DEF TakeStart, TakeEnd, off, stop
  <2>5. from(i) = (IF off > a THEN off ELSE a) /\ to(i) = IF stop < b THEN stop ELSE b
    BY DEF a, b
  <2> HIDE DEF c, d, from, to
  <2>6. c \in 0..(b - a) /\ d \in c..(b - a) /\ a + c = from(i) /\ a + d = to(i)
    <3> DEFINE n == Len(s)
    <3>4. /\ a \in Int /\ b \in Int /\ off \in Int /\ stop \in Int /\ n \in Int
          /\ 0 <= a /\ b <= n /\ 0 <= off /\ off <= stop
      BY <1>1, <2>2
    <3> HIDE DEF n
    <3>5. c \in Int /\ 0 <= c
      BY <2>4, <3>4
    <3>6. d \in Int /\ d <= b - a
      BY <2>4, <3>4
    <3>7. c <= d
      BY <2>2, <2>4, <3>4
    <3>1. c \in Int /\ d \in Int /\ c <= d /\ 0 <= c /\ d <= b - a
      BY <3>5, <3>6, <3>7
    <3>2. a + c = from(i)
      BY <1>1, <2>2, <2>4, <2>5
    <3>3. a + d = to(i)
      BY <1>1, <2>2, <2>4, <2>5
    <3> QED BY <1>1, <2>2, <3>1, <3>2, <3>3
  <2>7. from(i) \in 0..Len(s) /\ to(i) \in from(i)..Len(s)
    <3> DEFINE u == from(i)
    <3> DEFINE v == to(i)
    <3> DEFINE n == Len(s)
    <3>1. /\ a \in Int /\ b \in Int /\ off \in Int /\ stop \in Int /\ n \in Int
          /\ 0 <= a /\ b <= n /\ 0 <= off /\ off <= stop /\ stop <= n
      BY <1>1, <2>2
    <3>2. u = (IF off > a THEN off ELSE a) /\ v = IF stop < b THEN stop ELSE b
      BY <2>5
    <3> HIDE DEF u, v, n
    <3>3. u \in Int /\ v \in Int /\ 0 <= u /\ v <= n
      BY <3>1, <3>2
    <3>4. u <= v
      BY <2>2, <3>1, <3>2
    <3>5. u \in 0..n /\ v \in u..n
      BY <3>1, <3>3, <3>4
    <3> QED BY <3>5 DEF u, v, n
  <2>8. a \in 0..Len(s) /\ b \in a..Len(s)
    BY <1>1, <2>2
  <2>9. SubSeq(SubSeq(s, a + 1, b), c + 1, d) = SubSeq(s, (a + c) + 1, a + d)
    BY <1>1, <2>6, <2>8, SliceOfSlice
  <2>10. Slice(f, i) = SubSeq(SubSeq(s, a + 1, b), c + 1, d)
    BY <2>2 DEF Slice, c, d
  <2>11. c <= d
    BY <2>2, <2>6
  <2> QED BY <2>2, <2>6, <2>7, <2>9, <2>10, <2>11 DEF c, d
<1>12. ExtractOk(f)
  BY <1>10, <1>11 DEF ExtractOk
<1>13. ends[m] <= off /\ ends[m] \in Nat /\ m \in Nat /\ l \in Nat
  <2>1. m \in 0..L /\ (m = 0 \/ m \in 1..m) /\ m \in Nat /\ l \in Nat
    BY <1>1
  <2> QED BY <1>1, <1>6, <2>1
<1>14. stop <= ends[l] /\ ends[l] \in Nat
  <2>1. l \in 0..L
    BY <1>1
  <2> QED BY <1>1, <1>2, <1>7, <2>1
<1> DEFINE n == l - m
<1> DEFINE slices == [k \in 1..n |-> Slice(f, (m + 1) + k - 1)]
<1>15. n \in Nat /\ Extracted(f) = FlattenSeq(slices)
  <2>1. n \in Nat
    BY <1>13
  <2>2. Cardinality((m+1)..l) = n
    <3>1. m + 1 \in Int /\ l \in Int
      BY <1>13
    <3>2. Cardinality((m+1)..l) = IF m + 1 > l THEN 0 ELSE l - (m + 1) + 1
      BY <3>1, FS_Interval
    <3> QED BY <1>13, <3>2
  <2> HIDE DEF n
  <2> QED BY <1>8, <1>10, <2>1, <2>2 DEF Extracted
<1>16. Extracted(f) = SubSeq(s, off + 1, stop)
  <2>1. CASE n = 0
    <3>1. l = m
      BY <1>13, <2>1
    <3>2. stop = off
      BY <1>1, <1>13, <1>14, <3>1
    <3>3. SubSeq(s, off + 1, stop) = <<>>
      <4>1. off + 1 \in Int /\ stop \in Int /\ stop < off + 1
        BY <1>1, <3>2
      <4> QED BY <4>1, SubSeqEmpty
    <3>4. slices = <<>>
      BY <2>1
    <3>5. FlattenSeq(<<>>) = <<>>
      BY DEF FlattenSeq
    <3> QED BY <1>15, <3>3, <3>4, <3>5
  <2>2. CASE n # 0
    <3> DEFINE reached(k) == IF k = 0 THEN off ELSE to(m + k)
    <3>1. ASSUME NEW k \in 1..n
          PROVE  /\ slices[k] \in Seq(Byte)
                 /\ reached(k-1) \in off..Len(s)
                 /\ reached(k) \in reached(k-1)..Len(s)
                 /\ slices[k] = SubSeq(s, reached(k-1) + 1, reached(k))
      <4> DEFINE i == m + k
      <4>1. i \in (m+1)..l /\ (m + 1) + k - 1 = i /\ i - 1 = m + (k - 1) /\ k # 0
            /\ i - 1 \in m..(l-1)
        BY <1>13
      <4>2. slices[k] = Slice(f, i)
        BY <4>1
      <4>3. reached(k) = to(i)
        BY <4>1
      <4>4. reached(k-1) = from(i)
        <5>1. CASE k = 1
          <6>1. i - 1 = m /\ k - 1 = 0
            BY <4>1, <5>1
          <6>2. ends[i-1] <= off /\ ends[i-1] \in Nat
            BY <1>13, <6>1
          <6>3. from(i) = off
            BY <1>1, <6>2
          <6> QED BY <6>1, <6>3
        <5>2. CASE k # 1
          <6>1. k - 1 # 0 /\ m + (k - 1) = i - 1 /\ i - 1 \in (m+1)..L /\ i - 1 \in 0..L
            BY <1>1, <1>13, <4>1, <5>2
          <6>2. off < ends[i-1] /\ ends[i-1] < stop /\ ends[i-1] \in Nat
            <7> DEFINE j == i - 1
            <7>1. j \in (m+1)..L /\ j \in 0..L /\ j \in m..(l-1)
              BY <4>1, <6>1
            <7> HIDE DEF j
            <7>2. off < ends[j] /\ ends[j] < stop
              BY <1>6, <1>7, <7>1
            <7>3. ends[j] \in Nat
              BY <1>1, <7>1, SMTT(30)
            <7> QED BY <7>2, <7>3 DEF j
          <6>3. to(i-1) = ends[i-1] /\ from(i) = ends[i-1]
            BY <1>1, <6>2, SMTT(30)
          <6> QED BY <6>1, <6>3
        <5> QED BY <5>1, <5>2
      <4> DEFINE u == from(i)
      <4> DEFINE v == to(i)
      <4>5. u \in 0..Len(s) /\ v \in u..Len(s) /\ Slice(f, i) = SubSeq(s, u + 1, v)
        BY <1>11, <4>1
      <4>6. off <= u
        <5>1. i - 1 \in 0..L
          BY <1>1, <1>13, <4>1
        <5>2. ends[i-1] \in Nat
          BY <1>1, <5>1
        <5> QED BY <1>1, <5>2
      <4> HIDE DEF u, v, i
      <4>7. Slice(f, i) \in Seq(Byte)
        <5>1. SubSeq(s, u + 1, v) \in Seq(Byte)
          <6>1. s \in Seq(Byte)
            BY <1>1
          <6> QED BY <4>5, <6>1, SliceProperties
        <5> QED BY <4>5, <5>1
      <4>8. u \in off..Len(s)
        BY <1>1, <4>5, <4>6
      <4> QED BY <4>2, <4>3, <4>4, <4>5, <4>7, <4>8 DEF u, v
    <3>2. reached(0) = off /\ reached(n) = stop
      <4>1. m + n = l
        BY <1>13
      <4>2. to(l) = stop
        BY <1>1, <1>14
      <4> QED BY <2>2, <4>1, <4>2
    <3> HIDE DEF reached
    <3>3. slices \in [1..n -> Seq(Byte)] /\ n \in Nat \ {0}
      <4>1. \A k \in 1..n : slices[k] \in Seq(Byte)
        BY <3>1
      <4>2. slices = [k \in 1..n |-> slices[k]]
        OBVIOUS
      <4> HIDE DEF slices, n
      <4> QED BY <1>15, <2>2, <4>1, <4>2
    <3> HIDE DEF slices, n, to, from
    <3>10. PICK g : AreJoined(g, slices, n, Byte) /\ FlattenSeq(slices) = g[n]
      BY <3>3, FlattenSteps
    <3>4. g[0] = <<>> /\ \A k \in 1..n : g[k] = g[k-1] \o slices[k]
      BY <3>10 DEF AreJoined
    <3> DEFINE T == {k \in Nat : k <= n => /\ g[k] = SubSeq(s, off + 1, reached(k))
                                           /\ reached(k) \in off..Len(s)}
    <3>5. 0 \in T
      <4>1. SubSeq(s, off + 1, off) = <<>>
        <5>1. off + 1 \in Int /\ off \in Int /\ off < off + 1
          BY <1>1
        <5> QED BY <5>1, SubSeqEmpty
      <4>2. off \in off..Len(s)
        BY <1>1
      <4> QED BY <3>2, <3>4, <4>1, <4>2
    <3>6. ASSUME NEW k \in T PROVE k + 1 \in T
      <4> SUFFICES ASSUME k + 1 <= n
                   PROVE  /\ g[k+1] = SubSeq(s, off + 1, reached(k+1))
                          /\ reached(k+1) \in off..Len(s)
        OBVIOUS
      <4> DEFINE j == k + 1
      <4>1. j \in 1..n /\ j - 1 = k
        BY <3>3
      <4> HIDE DEF j
      <4>2. g[k] = SubSeq(s, off + 1, reached(k)) /\ reached(k) \in off..Len(s)
        BY <3>3, <4>1
      <4>3. g[j] = g[k] \o slices[j]
        BY <3>4, <4>1
      <4>4. /\ reached(j) \in reached(k)..Len(s)
            /\ slices[j] = SubSeq(s, reached(k) + 1, reached(j))
        BY <3>1, <4>1
      <4> DEFINE u == reached(k)
      <4> DEFINE v == reached(j)
      <4>5. off \in 0..Len(s) /\ u \in off..Len(s) /\ v \in u..Len(s)
        BY <1>1, <4>2, <4>4
      <4> HIDE DEF u, v
      <4>6. SubSeq(s, off + 1, u) \o SubSeq(s, u + 1, v) = SubSeq(s, off + 1, v)
        BY <1>1, <4>5, SliceJoin
      <4>7. v \in off..Len(s)
        BY <1>1, <4>5
      <4> QED BY <4>2, <4>3, <4>4, <4>6, <4>7 DEF u, v, j
    <3>7. T = Nat
      <4> HIDE DEF T
      <4>1. T \in SUBSET Nat
        BY DEF T
      <4> QED BY <3>5, <3>6, <4>1, Induction
    <3>8. n \in T /\ n <= n
      <4> HIDE DEF T
      <4> QED BY <3>3, <3>7
    <3>9. g[n] = SubSeq(s, off + 1, reached(n))
      BY <3>8
    <3> QED BY <1>15, <3>2, <3>9, <3>10
  <2> QED BY <2>1, <2>2
<1> QED BY <1>12, <1>16 DEF off, stop

-----------------------------------------------------------------------------
(* A block has at least one byte and never more than the block size that     *)
(* read_block allows, and a command makes at most one short one, the last:   *)
(* read_file_to_bytes takes whole blocks off the front of what is pending,   *)
(* which therefore is less than a block when initialize_compression or       *)
(* append_file flushes it.                                                   *)
THEOREM BlocksAreNeverTooLarge == UsableBlockSize => (Spec => []BlocksFit)
<1> SUFFICES ASSUME UsableBlockSize PROVE Spec => []BlocksFit
  OBVIOUS
<1>1. IInv => BlocksFit
  <2> SUFFICES ASSUME IInv PROVE BlocksFit
    OBVIOUS
  <2>1. PICK s, ends : Cut(s, ends, blocks, pending_buffer)
    BY DEF IInv
  <2>2. DOMAIN blocks = 1..Len(blocks)
    BY DEF IInv, TypeOK
  <2>3. \A i \in DOMAIN blocks : Len(blocks[i]) \in 1..BlockSize
    BY <2>1, <2>2, EndsAreSums
  <2>4. Cardinality(Short) <= session
    <3>1. IsFiniteSet(Short)
      <4>1. Short \in SUBSET (1..Len(blocks)) /\ Len(blocks) \in Int /\ 1 \in Int
        BY <2>2 DEF IInv, TypeOK, Short
      <4>2. IsFiniteSet(1..Len(blocks))
        BY <4>1, FS_Interval
      <4> QED BY <4>1, <4>2, FS_Subset
    <3>2. Cardinality(Short) \in Nat
      BY <3>1, FS_CardinalityType
    <3>3. session \in Nat
      BY DEF IInv, TypeOK
    <3>4. Cardinality(Short) <= IF pc = "stored" THEN session ELSE session - 1
      BY DEF IInv
    <3> QED BY <3>2, <3>3, <3>4
  <2> QED BY <2>3, <2>4 DEF BlocksFit, Short
<1>2. Spec => []IInv
  BY LayoutInvariant
<1> QED BY <1>1, <1>2, PTL

(* What the writer counts in stream_position, and append goes on from, is    *)
(* what the reader adds up from the plain sizes in the index, with what is   *)
(* still pending (build_block_ranges against append_file).                   *)
THEOREM WriterAndReaderCountAlike == UsableBlockSize => (Spec => []StreamAccounting)
<1> SUFFICES ASSUME UsableBlockSize PROVE Spec => []StreamAccounting
  OBVIOUS
<1>1. IInv => StreamAccounting
  <2> SUFFICES ASSUME IInv PROVE StreamAccounting
    OBVIOUS
  <2>1. PICK s, ends : /\ Cut(s, ends, blocks, pending_buffer)
                       /\ Len(s) = stream_position
    BY DEF IInv
  <2> DEFINE L == Len(blocks)
  <2> DEFINE e == ends[L]
  <2>2. L \in Nat /\ L \in 0..L
    BY DEF IInv, TypeOK
  <2>3. StreamEnd(L) = e
    BY <2>1, <2>2, EndsAreSums
  <2>4. e \in 0..Len(s) /\ Len(s) \in e..Len(s) /\ Len(s) \in Nat /\ s \in Seq(Byte)
    <3>1. s \in Seq(Byte) /\ Len(s) \in Nat /\ e \in 0..Len(s)
      BY <2>1, <2>2 DEF Cut
    <3> HIDE DEF e
    <3> QED BY <3>1
  <2>5. pending_buffer = SubSeq(s, e + 1, Len(s))
    BY <2>1 DEF Cut
  <2> HIDE DEF e, L
  <2>6. Len(SubSeq(s, e + 1, Len(s))) = Len(s) - e
    BY <2>4, SliceProperties
  <2>7. StreamEnd(L) + Len(pending_buffer) = Len(s)
    BY <2>3, <2>4, <2>5, <2>6
  <2> QED BY <2>1, <2>7 DEF StreamAccounting, L
<1>2. Spec => []IInv
  BY LayoutInvariant
<1> QED BY <1>1, <1>2, PTL

(* Whatever the listings, the sizes, the short reads and the appends,        *)
(* extraction gives for each regular file the bytes it had, up to the size   *)
(* that its metadata promised, and never meets a block it refuses            *)
(* (ArchiveReader::extract_file over read_block).                            *)
THEOREM FilesComeBack == UsableBlockSize => (Spec => []RoundTrip)
<1> SUFFICES ASSUME UsableBlockSize PROVE Spec => []RoundTrip
  OBVIOUS
<1>1. IInv => RoundTrip
  <2> SUFFICES ASSUME IInv, pc = "stored",
                      NEW i \in DOMAIN files, RegularFile(i), NotShrunk(i)
               PROVE  /\ ExtractOk(files[i])
                      /\ Extracted(files[i]) = SubSeq(contents[i], 1, files[i].size)
    BY DEF RoundTrip
  <2>1. PICK s, ends : Cut(s, ends, blocks, pending_buffer) /\ Holds(s)
    BY DEF IInv
  <2>2. TypeOK /\ pending_buffer = <<>>
    BY DEF IInv
  <2> DEFINE f == files[i]
  <2> DEFINE c == contents[i]
  <2> DEFINE off == f.stream_offset
  <2>3. /\ i \in 1..Len(files) /\ f \in FileRecord /\ c \in Seq(Byte) /\ s \in Seq(Byte)
        /\ Len(c) \in Nat /\ Len(s) \in Nat
    BY <2>1, <2>2 DEF TypeOK, Cut
  <2>4. off \in Nat /\ f.size \in Nat
    BY <2>3 DEF FileRecord
  <2>5. Whole(s, f, c)
    BY <2>1, <2>3 DEF Holds
  <2>6. f.size <= Len(c)
    BY DEF NotShrunk
  <2>7. off + Len(c) <= Len(s) /\ c = SubSeq(s, off + 1, off + Len(c))
    BY <2>5 DEF Whole
  <2>8. off + f.size <= Len(s)
    <3> DEFINE n == Len(s)
    <3> DEFINE k == Len(c)
    <3> HIDE DEF n, k, off
    <3> QED BY <2>3, <2>4, <2>6, <2>7 DEF n, k
  <2> HIDE DEF f
  <2>9. ExtractOk(f) /\ Extracted(f) = SubSeq(s, off + 1, off + f.size)
    BY <2>1, <2>2, <2>3, <2>8, ExtractionReadsStream
  <2>10. SubSeq(c, 1, f.size) = SubSeq(s, off + 1, off + f.size)
    <3> DEFINE d == f.size
    <3> DEFINE b == off + Len(c)
    <3>1. off \in 0..Len(s) /\ b \in off..Len(s) /\ 0 \in 0..(b - off) /\ d \in 0..(b - off)
      BY <2>3, <2>4, <2>6, <2>7, SMTT(30)
    <3>2. c = SubSeq(s, off + 1, b)
      BY <2>7
    <3> HIDE DEF off, b, c, d
    <3>3. SubSeq(SubSeq(s, off + 1, b), 0 + 1, d) = SubSeq(s, (off + 0) + 1, off + d)
      BY <2>3, <3>1, SliceOfSlice
    <3>4. 0 + 1 = 1 /\ off + 0 = off
      BY <2>4
    <3> QED BY <3>2, <3>3, <3>4 DEF d
  <2> QED BY <2>9, <2>10 DEF f
<1>2. Spec => []IInv
  BY LayoutInvariant
<1> QED BY <1>1, <1>2, PTL

-----------------------------------------------------------------------------
(* The figures of the listing.  What a file takes of the blocks is what lies *)
(* before its end less what lies before its start, and each file starts where *)
(* the one before it ended.                                                   *)
LEMMA TimesLaws ==
    ASSUME NEW a \in Nat, NEW b \in Nat, NEW c \in Nat
    PROVE  /\ a * b \in Nat /\ (a * b) * c = a * (b * c) /\ a * b = b * a
           /\ (a + b) * c = a * c + b * c
           /\ 0 * a = 0
  OBVIOUS

LEMMA TimesCancels ==
    ASSUME NEW k \in Nat, NEW n \in Nat, NEW b \in Nat \ {0}, b * k <= b * n
    PROVE  k <= n
<1> SUFFICES ASSUME n < k PROVE FALSE
  OBVIOUS
<1>1. (n + 1) * b <= k * b
  BY TimesGrows
<1> DEFINE x == n * b
<1> DEFINE y == k * b
<1>2. (n + 1) * b = x + b /\ x \in Nat /\ y \in Nat /\ b * k = y /\ b * n = x
  <2>1. (n + 1) * b = n * b + 1 * b /\ 1 * b = b
    OBVIOUS
  <2> QED BY <2>1, TimesLaws
<1> HIDE DEF x, y
<1>3. y <= x /\ x + b <= y
  BY <1>1, <1>2 DEF x, y
<1> QED BY <1>2, <1>3

LEMMA IndexInRange ==
    ASSUME NEW i \in Nat \ {0}, NEW n \in Nat \ {0}
    PROVE  1 + ((i - 1) % n) \in 1..n
<1>1. i - 1 \in Nat
  OBVIOUS
<1> DEFINE m == (i - 1) % n
<1>2. m \in 0..(n - 1)
  BY <1>1
<1> HIDE DEF m
<1>3. 1 + m \in 1..n
  BY <1>2
<1> QED BY <1>3 DEF m

(* The part of a block that lies before a position of the stream, and what   *)
(* all that lies before it takes on the disk.                                *)
Portion(p, i) ==
    IF p <= StreamEnd(i-1) THEN 0
    ELSE IF p >= StreamEnd(i) THEN SizePlain(i) ELSE p - StreamEnd(i-1)
Price(i) == SizeStored(i) * (Scale \div SizePlain(i))
Worth(p) == Total([i \in 1..Len(blocks) |-> Portion(p, i) * Price(i)])

StoredOK == size_stored \in Seq(Nat) \ {<<>>}

LEMMA BlockFacts ==
    ASSUME UsableBlockSize, IInv, StoredOK
    PROVE  /\ Len(blocks) \in Nat /\ StreamEnd(0) = 0
           /\ pc = "stored" => StreamEnd(Len(blocks)) = stream_position
           /\ \A i \in 1..Len(blocks) :
                /\ StreamEnd(i-1) \in Nat /\ SizePlain(i) \in Nat \ {0}
                /\ StreamEnd(i) = StreamEnd(i-1) + SizePlain(i)
                /\ pc = "stored" => StreamEnd(i) <= stream_position
                /\ SizeStored(i) \in Nat /\ Scale \div SizePlain(i) \in Nat
                /\ Price(i) \in Nat
                /\ SizePlain(i) * Price(i) = Scale * SizeStored(i)
<1>1. PICK s, ends : /\ Cut(s, ends, blocks, pending_buffer)
                     /\ Len(s) = stream_position
  BY DEF IInv
<1> DEFINE L == Len(blocks)
<1>2. L \in Nat /\ ends \in [0..L -> 0..Len(s)] /\ ends[0] = 0 /\ s \in Seq(Byte)
      /\ Len(s) \in Nat /\ pending_buffer = SubSeq(s, ends[L] + 1, Len(s))
  BY <1>1 DEF Cut
<1>3. /\ \A i \in 0..L : StreamEnd(i) = ends[i]
      /\ \A i \in 1..L : /\ SizePlain(i) = ends[i] - ends[i-1]
                         /\ Len(blocks[i]) = ends[i] - ends[i-1]
                         /\ Len(blocks[i]) \in 1..BlockSize
  BY <1>1, EndsAreSums
<1>4. StreamEnd(0) = 0 /\ StreamEnd(L) = ends[L]
  <2>1. 0 \in 0..L /\ L \in 0..L
    BY <1>2
  <2> QED BY <1>2, <1>3, <2>1
<1>5. ASSUME pc = "stored" PROVE ends[L] = stream_position
  <2> DEFINE e == ends[L]
  <2>1. e \in 0..Len(s) /\ Len(s) \in e..Len(s)
    <3>1. L \in 0..L
      BY <1>2
    <3>2. e \in 0..Len(s)
      BY <1>2, <3>1
    <3> HIDE DEF e
    <3> QED BY <1>2, <3>2
  <2> HIDE DEF e
  <2>2. Len(SubSeq(s, e + 1, Len(s))) = Len(s) - e
    BY <1>2, <2>1, SliceProperties
  <2>3. pending_buffer = <<>>
    BY <1>5 DEF IInv
  <2>4. Len(s) - e = 0
    BY <1>2, <2>2, <2>3, EmptySeq DEF e
  <2> QED BY <1>1, <1>2, <2>1, <2>4 DEF e
<1>6. ASSUME NEW i \in 1..L
      PROVE  /\ StreamEnd(i-1) \in Nat /\ SizePlain(i) \in 1..BlockSize
             /\ StreamEnd(i) = StreamEnd(i-1) + SizePlain(i)
             /\ StreamEnd(i) <= Len(s)
  <2>1. i - 1 \in 0..L /\ i \in 0..L
    BY <1>2
  <2> DEFINE a == ends[i-1]
  <2> DEFINE b == ends[i]
  <2>2. a \in 0..Len(s) /\ b \in 0..Len(s)
    BY <1>2, <2>1
  <2>3. StreamEnd(i-1) = a /\ StreamEnd(i) = b /\ SizePlain(i) = b - a
        /\ b - a \in 1..BlockSize
    BY <1>3, <2>1
  <2> HIDE DEF a, b
  <2>4. BlockSize \in Nat /\ Len(s) \in Nat
    BY <1>2, BlockSizeAssumption
  <2>5. PICK n \in 1..BlockSize : n = b - a
    BY <2>3
  <2>6. a \in Nat /\ b \in Nat /\ n \in Nat /\ b <= Len(s)
    BY <2>2, <2>4, <2>5
  <2>7. b = a + n
    BY <2>5, <2>6
  <2> QED BY <2>3, <2>5, <2>6, <2>7
<1>7. ASSUME NEW i \in 1..L
      PROVE  /\ SizeStored(i) \in Nat /\ Scale \div SizePlain(i) \in Nat
             /\ Price(i) \in Nat
             /\ SizePlain(i) * Price(i) = Scale * SizeStored(i)
  <2> DEFINE n == SizePlain(i)
  <2> DEFINE z == SizeStored(i)
  <2> DEFINE q == Scale \div n
  <2>1. z \in Nat
    <3>1. Len(size_stored) \in Nat \ {0} /\ size_stored \in Seq(Nat)
      BY EmptySeq DEF StoredOK
    <3>2. i \in Nat \ {0}
      BY <1>2
    <3>3. 1 + ((i - 1) % Len(size_stored)) \in 1..Len(size_stored)
      BY <3>1, <3>2, IndexInRange
    <3> QED BY <3>1, <3>3, ElementOfSeq DEF SizeStored
  <2>2. n \in 1..BlockSize /\ n \in Nat \ {0} /\ BlockSize \in Nat
    <3>1. n \in 1..BlockSize
      BY <1>6
    <3> HIDE DEF n
    <3> QED BY <3>1, BlockSizeAssumption
  <2>3. Scale \in Nat \ {0} /\ Scale % n = 0
    BY <2>2, ScaleAssumption
  <2> HIDE DEF n, z
  <2>4. q \in Nat /\ n * q = Scale
    <3>1. Scale = n * (Scale \div n) + (Scale % n) /\ Scale \div n \in Nat
      BY <2>2, <2>3
    <3> DEFINE x == n * (Scale \div n)
    <3>2. x \in Nat
      BY <2>2, <3>1, TimesLaws
    <3> HIDE DEF x
    <3>3. Scale = x
      <4>1. Scale = x + 0
        BY <2>3, <3>1 DEF x
      <4> QED BY <3>2, <4>1
    <3> QED BY <3>1, <3>3 DEF x
  <2> HIDE DEF q
  <2>5. Price(i) = z * q
    BY DEF Price, z, q, n
  <2>6. z * q \in Nat
    BY <2>1, <2>4, TimesLaws
  <2>7. n * (z * q) = n * (q * z) /\ n * (q * z) = (n * q) * z
    <3>1. z * q = q * z
      BY <2>1, <2>4, TimesLaws
    <3> QED BY <2>1, <2>2, <2>4, <3>1, TimesLaws
  <2> QED BY <2>1, <2>4, <2>5, <2>6, <2>7 DEF n, z, q
<1>8. ASSUME NEW i \in 1..L PROVE SizePlain(i) \in Nat \ {0}
  BY <1>6, BlockSizeAssumption
<1> QED BY <1>1, <1>2, <1>4, <1>5, <1>6, <1>7, <1>8

-----------------------------------------------------------------------------
(* What a file overlaps of a block is what lies before its end, less what    *)
(* lies before its start; so are the shares of a file, and their sum.        *)
LEMMA OverlapBetween ==
    ASSUME UsableBlockSize, IInv, StoredOK, NEW f \in FileRecord,
           NEW i \in 1..Len(blocks)
    PROVE  /\ Portion(f.stream_offset, i) \in Nat /\ Overlap(f, i) \in Nat
           /\ Portion(f.stream_offset + f.size, i)
                = Portion(f.stream_offset, i) + Overlap(f, i)
<1> DEFINE a == StreamEnd(i-1)
<1> DEFINE n == SizePlain(i)
<1> DEFINE off == f.stream_offset
<1> DEFINE z == f.size
<1>1. a \in Nat /\ n \in Nat \ {0} /\ StreamEnd(i) = a + n
  BY BlockFacts
<1>2. off \in Nat /\ z \in Nat
  BY DEF FileRecord
<1>3. /\ BlockRange(i).start = a /\ BlockRange(i).end = a + n
  BY <1>1 DEF BlockRange
<1> DEFINE portion(p) == IF p <= a THEN 0 ELSE IF p >= a + n THEN n ELSE p - a
<1>4. Portion(off, i) = portion(off) /\ Portion(off + z, i) = portion(off + z)
  BY <1>1 DEF Portion
<1>5. Overlap(f, i) =
        IF a + n > off /\ a < off + z
        THEN ((IF off + z < a + n THEN off + z ELSE a + n) - a)
               - (IF off > a THEN off - a ELSE 0)
        ELSE 0
  BY <1>3 DEF Overlap, Overlaps, TakeStart, TakeEnd
<1> HIDE DEF a, n, off, z
<1>6. /\ portion(off) \in Nat
      /\ (IF a + n > off /\ a < off + z
          THEN ((IF off + z < a + n THEN off + z ELSE a + n) - a)
                 - (IF off > a THEN off - a ELSE 0)
          ELSE 0) \in Nat
      /\ portion(off + z) = portion(off) +
           IF a + n > off /\ a < off + z
           THEN ((IF off + z < a + n THEN off + z ELSE a + n) - a)
                  - (IF off > a THEN off - a ELSE 0)
           ELSE 0
  BY <1>1, <1>2
<1> QED BY <1>4, <1>5, <1>6 DEF off, z

LEMMA ShareBetween ==
    ASSUME UsableBlockSize, IInv, StoredOK, NEW f \in FileRecord,
           NEW i \in 1..Len(blocks)
    PROVE  /\ Portion(f.stream_offset, i) * Price(i) \in Nat /\ Share(f, i) \in Nat
           /\ Portion(f.stream_offset + f.size, i) * Price(i)
                = Portion(f.stream_offset, i) * Price(i) + Share(f, i)
           /\ f.size = 0 => Share(f, i) = 0
<1> DEFINE x == Portion(f.stream_offset, i)
<1> DEFINE o == Overlap(f, i)
<1> DEFINE z == SizeStored(i)
<1> DEFINE q == Scale \div SizePlain(i)
<1>1. x \in Nat /\ o \in Nat /\ Portion(f.stream_offset + f.size, i) = x + o
  BY OverlapBetween
<1>2. z \in Nat /\ q \in Nat /\ Price(i) = z * q /\ Price(i) \in Nat
  BY BlockFacts DEF Price
<1>3. Share(f, i) = (o * z) * q
  BY DEF Share
<1>4. f.size = 0 => o = 0
  <2> SUFFICES ASSUME f.size = 0 PROVE o = 0
    OBVIOUS
  <2>1. f.stream_offset \in Nat /\ f.stream_offset + f.size = f.stream_offset
    BY DEF FileRecord
  <2>2. x = x + o
    BY <1>1, <2>1
  <2> HIDE DEF x, o
  <2> QED BY <1>1, <2>2
<1> HIDE DEF x, o, z, q
<1>5. (o * z) * q = o * (z * q)
  BY <1>1, <1>2, TimesLaws
<1>6. x * Price(i) \in Nat /\ o * Price(i) \in Nat
      /\ (x + o) * Price(i) = x * Price(i) + o * Price(i)
  BY <1>1, <1>2, TimesLaws
<1>7. o = 0 => o * Price(i) = 0
  BY <1>2, TimesLaws
<1> QED BY <1>1, <1>2, <1>3, <1>4, <1>5, <1>6, <1>7 DEF x

Shares(f) == Total([i \in 1..Len(blocks) |-> IF SizePlain(i) = 0 THEN 0 ELSE Share(f, i)])

LEMMA SharesBetween ==
    ASSUME UsableBlockSize, IInv, StoredOK, NEW f \in FileRecord
    PROVE  /\ Worth(f.stream_offset) \in Nat /\ Shares(f) \in Nat
           /\ Worth(f.stream_offset + f.size) = Worth(f.stream_offset) + Shares(f)
           /\ f.size = 0 => Shares(f) = 0
<1> DEFINE L == Len(blocks)
<1> DEFINE upper == [i \in 1..L |-> Portion(f.stream_offset + f.size, i) * Price(i)]
<1> DEFINE lower == [i \in 1..L |-> Portion(f.stream_offset, i) * Price(i)]
<1> DEFINE own == [i \in 1..L |-> IF SizePlain(i) = 0 THEN 0 ELSE Share(f, i)]
<1>1. L \in Nat
  BY BlockFacts
<1>2. ASSUME NEW i \in 1..L
      PROVE  /\ lower[i] \in Nat /\ own[i] \in Nat /\ upper[i] \in Nat
             /\ upper[i] = lower[i] + own[i]
             /\ f.size = 0 => own[i] = 0
  <2>1. SizePlain(i) # 0
    BY BlockFacts
  <2>2. own[i] = Share(f, i)
    BY <2>1
  <2>3. /\ upper[i] = Portion(f.stream_offset + f.size, i) * Price(i)
        /\ lower[i] = Portion(f.stream_offset, i) * Price(i)
    OBVIOUS
  <2> HIDE DEF upper, lower, own
  <2>4. lower[i] \in Nat /\ own[i] \in Nat /\ upper[i] = lower[i] + own[i]
        /\ (f.size = 0 => own[i] = 0)
    BY <2>2, <2>3, ShareBetween
  <2>5. upper[i] \in Nat
    BY <2>4
  <2> QED BY <2>4, <2>5
<1>3. /\ upper \in Seq(Nat) /\ lower \in Seq(Nat) /\ own \in Seq(Nat)
      /\ Len(upper) = L /\ Len(lower) = L /\ Len(own) = L
  <2>1. /\ upper = [i \in 1..L |-> upper[i]] /\ lower = [i \in 1..L |-> lower[i]]
        /\ own = [i \in 1..L |-> own[i]]
    OBVIOUS
  <2> HIDE DEF upper, lower, own
  <2>2. upper \in [1..L -> Nat] /\ lower \in [1..L -> Nat] /\ own \in [1..L -> Nat]
    BY <1>2, <2>1
  <2> HIDE DEF L
  <2> QED BY <1>1, <2>2
<1>4. /\ Worth(f.stream_offset + f.size) = Total(upper)
      /\ Worth(f.stream_offset) = Total(lower) /\ Shares(f) = Total(own)
  BY DEF Worth, Shares
<1> HIDE DEF upper, lower, own
<1>5. L \in 0..L
  BY <1>1
<1>6. UpTo(upper, L) = UpTo(lower, L) + UpTo(own, L)
  <2>1. /\ \A i \in 1..Len(upper) : upper[i] = lower[i] + own[i]
        /\ L \in 0..Len(upper) /\ Len(lower) = Len(upper) /\ Len(own) = Len(upper)
    BY <1>2, <1>3, <1>5
  <2> HIDE DEF L
  <2> QED BY <1>3, <2>1, UpToSum
<1>7. UpTo(lower, L) \in Nat /\ UpTo(own, L) \in Nat
  BY <1>3, <1>5, UpToSteps
<1>8. f.size = 0 => UpTo(own, L) = 0
  BY <1>2, <1>3, <1>5, UpToZeros
<1> QED BY <1>3, <1>4, <1>6, <1>7, <1>8 DEF Total

(* Nothing lies before the start, and everything before the end.             *)
LEMMA WorthOfAll ==
    ASSUME UsableBlockSize, IInv, StoredOK
    PROVE  /\ Worth(0) = 0 /\ total_compressed_size \in Nat
           /\ pc = "stored" => Worth(stream_position) = Scale * total_compressed_size
<1> DEFINE L == Len(blocks)
<1> DEFINE none == [i \in 1..L |-> Portion(0, i) * Price(i)]
<1> DEFINE all == [i \in 1..L |-> Portion(stream_position, i) * Price(i)]
<1> DEFINE stored == [i \in 1..L |-> SizeStored(i)]
<1>1. L \in Nat /\ L \in 0..L
  BY BlockFacts
<1>2. ASSUME NEW i \in 1..L PROVE none[i] = 0
  <2>1. Portion(0, i) = 0 /\ Price(i) \in Nat
    BY BlockFacts DEF Portion
  <2>2. 0 * Price(i) = 0
    BY <2>1, TimesLaws
  <2> QED BY <2>1, <2>2
<1>3. none \in Seq(Nat) /\ Len(none) = L
  <2>1. none = [i \in 1..L |-> none[i]]
    OBVIOUS
  <2> HIDE DEF none
  <2>2. none \in [1..L -> Nat]
    BY <1>2, <2>1
  <2> HIDE DEF L
  <2> QED BY <1>1, <2>2
<1>4. Worth(0) = 0
  <2>1. Worth(0) = Total(none)
    BY DEF Worth
  <2> HIDE DEF none
  <2>2. UpTo(none, L) = 0
    BY <1>1, <1>2, <1>3, UpToZeros
  <2> QED BY <1>3, <2>1, <2>2 DEF Total
<1>5. stored \in Seq(Nat) /\ Len(stored) = L
  <2>1. \A i \in 1..L : SizeStored(i) \in Nat
    BY BlockFacts
  <2>2. stored \in [1..L -> Nat]
    BY <2>1
  <2> HIDE DEF L, stored
  <2> QED BY <1>1, <2>2
<1>6. total_compressed_size = UpTo(stored, L) /\ UpTo(stored, L) \in Nat
  <2>1. total_compressed_size = Total(stored)
    BY DEF total_compressed_size
  <2> HIDE DEF stored
  <2>2. UpTo(stored, L) \in Nat
    BY <1>1, <1>5, UpToSteps
  <2> QED BY <1>5, <2>1, <2>2 DEF Total
<1>7. ASSUME pc = "stored" PROVE Worth(stream_position) = Scale * total_compressed_size
  <2>1. ASSUME NEW i \in 1..L PROVE all[i] = Scale * stored[i] /\ all[i] \in Nat
    <3>1. /\ StreamEnd(i-1) \in Nat /\ SizePlain(i) \in Nat \ {0}
          /\ StreamEnd(i) = StreamEnd(i-1) + SizePlain(i)
          /\ StreamEnd(i) <= stream_position
          /\ SizeStored(i) \in Nat
          /\ SizePlain(i) * Price(i) = Scale * SizeStored(i)
      BY <1>7, BlockFacts
    <3>2. stream_position \in Nat
      BY DEF IInv, TypeOK
    <3>3. ~(stream_position <= StreamEnd(i-1)) /\ stream_position >= StreamEnd(i)
      BY <3>1, <3>2
    <3>4. Portion(stream_position, i) = SizePlain(i)
      BY <3>3 DEF Portion
    <3>5. Scale * SizeStored(i) \in Nat
      BY <3>1, ScaleAssumption, TimesLaws
    <3> QED BY <3>1, <3>4, <3>5
  <2>2. all \in Seq(Nat) /\ Len(all) = L
    <3>1. all = [i \in 1..L |-> all[i]]
      OBVIOUS
    <3> HIDE DEF all
    <3>2. all \in [1..L -> Nat]
      BY <2>1, <3>1
    <3> HIDE DEF L
    <3> QED BY <1>1, <3>2
  <2>3. Worth(stream_position) = Total(all)
    BY DEF Worth
  <2> HIDE DEF all, stored
  <2>4. UpTo(all, L) = Scale * UpTo(stored, L)
    <3>1. /\ \A i \in 1..Len(all) : all[i] = Scale * stored[i]
          /\ L \in 0..Len(all) /\ Len(stored) = Len(all) /\ Scale \in Nat
      BY <1>1, <1>5, <2>1, <2>2, ScaleAssumption
    <3> HIDE DEF L
    <3> QED BY <1>5, <2>2, <3>1, UpToTimes
  <2> QED BY <1>6, <2>2, <2>3, <2>4 DEF Total
<1> QED BY <1>4, <1>6, <1>7

(* The figure shown for a file loses less than a byte of its shares.         *)
LEMMA FigureOfFile ==
    ASSUME UsableBlockSize, IInv, StoredOK, NEW f \in FileRecord
    PROVE  /\ file_compressed_size(f) \in Nat
           /\ Scale * file_compressed_size(f) <= Shares(f)
           /\ Shares(f) <= Scale * (file_compressed_size(f) + IF f.size > 0 THEN 1 ELSE 0)
<1> DEFINE t == Shares(f)
<1> DEFINE c == t \div Scale
<1>1. t \in Nat /\ (f.size = 0 => t = 0) /\ Scale \in Nat \ {0} /\ f.size \in Nat
  BY SharesBetween, ScaleAssumption DEF FileRecord
<1>2. file_compressed_size(f) = c
  BY DEF file_compressed_size, Shares
<1> HIDE DEF t
<1>3. c \in Nat /\ c * Scale <= t /\ t - c * Scale < Scale
  BY <1>1, DivProperties
<1>4. t = 0 => c = 0
  BY <1>1
<1> HIDE DEF c
<1> DEFINE x == Scale * c
<1>5. x \in Nat /\ c * Scale = x /\ Scale * (c + 0) = x /\ Scale * (c + 1) = x + Scale
  <2>1. Scale * c \in Nat /\ c * Scale = Scale * c /\ c + 0 = c /\ c + 1 \in Nat
    BY <1>1, <1>3, TimesLaws
  <2>2. Scale * (c + 1) = (c + 1) * Scale /\ (c + 1) * Scale = c * Scale + 1 * Scale
    BY <1>1, <1>3, <2>1, TimesLaws
  <2>3. 1 * Scale = Scale
    BY <1>1
  <2> QED BY <2>1, <2>2, <2>3
<1> HIDE DEF x
<1>6. x <= t /\ t <= x + Scale
  BY <1>1, <1>3, <1>5
<1>7. CASE f.size = 0
  <2>1. ~(f.size > 0) /\ t = 0 /\ c = 0
    BY <1>1, <1>4, <1>7
  <2>2. t <= x
    BY <1>5, <2>1
  <2> QED BY <1>2, <1>3, <1>5, <1>6, <2>1, <2>2 DEF t, x
<1>8. CASE f.size # 0
  <2>1. f.size > 0
    BY <1>1, <1>8
  <2> QED BY <1>2, <1>3, <1>5, <1>6, <2>1 DEF t, x
<1> QED BY <1>7, <1>8

-----------------------------------------------------------------------------
(* Where the files lie in the stream. *)
LensOf(fs, cs) == [i \in 1..Len(fs) |-> IF fs[i].ftype = "File" THEN Len(cs[i]) ELSE 0]
Lens == LensOf(files, contents)

Placed ==
    pc # "failed" =>
        /\ Total(Lens) = stream_position + IF pc = "reading" THEN Len(rest) ELSE 0
        /\ \A i \in 1..Len(files) : files[i].stream_offset = UpTo(Lens, i-1)

LEMMA LensAreNumbers ==
    ASSUME NEW fs \in Seq(FileRecord), NEW cs \in Seq(Seq(Byte)), Len(cs) = Len(fs)
    PROVE  LensOf(fs, cs) \in Seq(Nat) /\ Len(LensOf(fs, cs)) = Len(fs)
<1>1. PICK n \in Nat : n = Len(fs)
  OBVIOUS
<1>2. ASSUME NEW i \in 1..n PROVE Len(cs[i]) \in Nat
  <2>1. cs[i] \in Seq(Byte)
    BY <1>1
  <2> QED BY <2>1
<1>3. LensOf(fs, cs) \in [1..n -> Nat]
  BY <1>1, <1>2 DEF LensOf
<1> QED BY <1>1, <1>3, OfLength

LEMMA PlacedInit == Init => Placed
<1> SUFFICES ASSUME Init PROVE Placed
  OBVIOUS
<1>1. files = <<>> /\ contents = <<>> /\ pc = "next" /\ stream_position = 0
  BY DEF Init
<1>2. Lens = <<>>
  BY <1>1 DEF Lens, LensOf
<1>3. <<>> \in Seq(Nat) /\ Len(<<>>) = 0 /\ 1..0 = {}
  OBVIOUS
<1>4. Total(Lens) = 0
  BY <1>2, <1>3, UpToSteps DEF Total
<1> QED BY <1>1, <1>3, <1>4 DEF Placed

LEMMA BeginEntryKeepsPlaced ==
    ASSUME TypeOK, TypeOK', Placed, BeginEntry
    PROVE  Placed'
<1> DEFINE e == Head(todo)
<1> DEFINE f == FileEntry(e, stream_position)
<1> DEFINE c == Bytes(e)
<1>1. /\ pc = "next" /\ stream_position' = stream_position
      /\ files' = Append(files, f) /\ contents' = Append(contents, c)
      /\ rest' = IF e.ftype = "File" THEN c ELSE <<>>
      /\ pc' = IF e.ftype = "File" THEN "reading" ELSE "next"
  BY DEF BeginEntry
<1>2. f.ftype = e.ftype /\ f.stream_offset = stream_position
  BY DEF FileEntry
<1> HIDE DEF e, f, c
<1>3. PICK n \in Nat : n = Len(files)
  BY DEF TypeOK
<1>4. /\ Len(files') = n + 1 /\ files'[n+1] = f /\ contents'[n+1] = c
      /\ \A i \in 1..n : files'[i] = files[i] /\ contents'[i] = contents[i]
  BY <1>1, <1>3, AppendProperties DEF TypeOK
<1>5. PICK old : old = Lens
  OBVIOUS
<1>6. PICK new : new = Lens'
  OBVIOUS
<1>7. old \in Seq(Nat) /\ Len(old) = n
  BY <1>3, <1>5, LensAreNumbers DEF Lens, TypeOK
<1>8. new \in Seq(Nat) /\ Len(new) = n + 1
  <2>1. /\ files' \in Seq(FileRecord) /\ contents' \in Seq(Seq(Byte))
        /\ Len(contents') = Len(files')
    BY DEF TypeOK
  <2>2. LensOf(files', contents') \in Seq(Nat)
        /\ Len(LensOf(files', contents')) = Len(files')
    BY <2>1, LensAreNumbers
  <2> QED BY <1>4, <1>6, <2>2 DEF Lens
<1>9. new = [i \in 1..(n+1) |-> IF files'[i].ftype = "File" THEN Len(contents'[i]) ELSE 0]
      /\ old = [i \in 1..n |-> IF files[i].ftype = "File" THEN Len(contents[i]) ELSE 0]
  BY <1>3, <1>4, <1>5, <1>6 DEF Lens, LensOf
<1>10. ASSUME NEW i \in 1..n PROVE new[i] = old[i]
  <2>1. i \in 1..(n+1)
    OBVIOUS
  <2> QED BY <1>4, <1>9, <2>1
<1>11. new[n+1] = IF e.ftype = "File" THEN Len(c) ELSE 0
  <2>1. n + 1 \in 1..(n+1)
    OBVIOUS
  <2> QED BY <1>2, <1>4, <1>9, <2>1
<1>12. ASSUME NEW i \in 0..n PROVE UpTo(new, i) = UpTo(old, i)
  <2>1. i \in 0..Len(new) /\ i <= Len(old) /\ \A j \in 1..i : new[j] = old[j]
    BY <1>7, <1>8, <1>10
  <2> QED BY <1>7, <1>8, <2>1, UpToPrefix
<1>13. /\ UpTo(old, n) = stream_position
       /\ \A i \in 1..n : files[i].stream_offset = UpTo(old, i-1)
  <2>1. stream_position \in Nat /\ pc # "failed" /\ pc # "reading"
    BY <1>1 DEF TypeOK
  <2>2. /\ Total(old) = stream_position + 0
        /\ \A i \in 1..n : files[i].stream_offset = UpTo(old, i-1)
    BY <1>3, <1>5, <2>1 DEF Placed
  <2>3. stream_position + 0 = stream_position
    BY <2>1
  <2> QED BY <1>7, <2>2, <2>3 DEF Total
<1>14. ASSUME NEW i \in 1..(n+1) PROVE files'[i].stream_offset = UpTo(new, i-1)
  <2>1. CASE i \in 1..n
    <3>1. i - 1 \in 0..n
      BY <2>1
    <3> QED BY <1>4, <1>12, <1>13, <2>1, <3>1
  <2>2. CASE i = n + 1
    <3>1. i - 1 = n /\ n \in 0..n
      BY <2>2
    <3> QED BY <1>2, <1>4, <1>12, <1>13, <2>2, <3>1
  <2> QED BY <2>1, <2>2
<1>15. UpTo(new, n+1) = stream_position + new[n+1]
  <2>1. n + 1 \in 1..Len(new) /\ (n + 1) - 1 = n /\ n \in 0..n
    BY <1>8
  <2>2. UpTo(new, n+1) = UpTo(new, n) + new[n+1]
    BY <1>8, <2>1, UpToSteps
  <2> QED BY <1>12, <1>13, <2>1, <2>2
<1>16. new[n+1] = IF pc' = "reading" THEN Len(rest') ELSE 0
  BY <1>1, <1>11
<1>17. Total(new) = stream_position' + IF pc' = "reading" THEN Len(rest') ELSE 0
  BY <1>1, <1>8, <1>15, <1>16 DEF Total
<1> QED BY <1>4, <1>6, <1>14, <1>17 DEF Placed

LEMMA OthersKeepPlaced ==
    ASSUME UsableBlockSize, IInv, TypeOK, Placed, [Next]_vars, ~BeginEntry
    PROVE  Placed'
<1>1. CASE ReadChunk
  <2>1. PICK n \in 1..BlockSize :
          /\ n <= Len(rest) /\ rest' = SubSeq(rest, n + 1, Len(rest))
          /\ stream_position' = stream_position + n
    BY <1>1 DEF ReadChunk
  <2>2. /\ pc = "reading" /\ pc' = pc /\ files' = files /\ contents' = contents
    BY <1>1 DEF ReadChunk
  <2>3. n \in Nat /\ stream_position \in Nat /\ rest \in Seq(Byte) /\ Len(rest) \in Nat
    BY BlockSizeAssumption DEF TypeOK
  <2>4. n \in 0..Len(rest) /\ Len(rest) \in n..Len(rest)
    BY <2>1, <2>3
  <2>5. Len(rest') = Len(rest) - n
    BY <2>1, <2>3, <2>4, SliceProperties
  <2>6. Lens' = Lens
    BY <2>2 DEF Lens
  <2>7. Total(Lens) = stream_position + Len(rest)
    BY <2>2 DEF Placed
  <2>8. Total(Lens) = stream_position' + Len(rest')
    <3> DEFINE t == Total(Lens)
    <3>1. t = stream_position + Len(rest)
      BY <2>7
    <3> HIDE DEF t
    <3>2. PICK p \in Nat : p = stream_position
      BY <2>3
    <3>3. PICK l \in Nat : l = Len(rest)
      BY <2>3
    <3>4. stream_position' = p + n /\ Len(rest') = l - n /\ t = p + l
      BY <2>1, <2>5, <3>1, <3>2, <3>3
    <3>5. p + l = (p + n) + (l - n)
      BY <2>3
    <3>6. t = stream_position' + Len(rest')
      BY <3>4, <3>5
    <3> QED BY <3>6 DEF t
  <2> QED BY <2>2, <2>6, <2>8 DEF Placed
<1>2. CASE ReadEnd
  <2>1. /\ pc = "reading" /\ rest = <<>> /\ pc' = "next"
        /\ UNCHANGED <<files, contents, stream_position>>
    BY <1>2 DEF ReadEnd, UsableBlockSize
  <2>2. Lens' = Lens
    BY <2>1 DEF Lens
  <2>3. Len(rest) = 0 /\ stream_position \in Nat
    BY <2>1 DEF TypeOK
  <2> QED BY <2>1, <2>2, <2>3 DEF Placed
<1>3. CASE ReadFails
  BY <1>3 DEF ReadFails, Placed
<1>4. CASE FlushPending \/ BeginAppend
  <2>1. /\ pc \in {"next", "stored"} /\ pc' \in {"next", "stored"}
        /\ UNCHANGED <<files, contents, stream_position>>
    BY <1>4 DEF FlushPending, BeginAppend, IInv
  <2>2. Lens' = Lens
    BY <2>1 DEF Lens
  <2> QED BY <2>1, <2>2 DEF Placed
<1>5. CASE Finished \/ UNCHANGED vars
  <2>1. UNCHANGED vars
    BY <1>5 DEF Finished
  <2>2. Lens' = Lens
    BY <2>1 DEF vars, Lens
  <2> QED BY <2>1, <2>2 DEF vars, Placed
<1> QED BY <1>1, <1>2, <1>3, <1>4, <1>5 DEF Next

-----------------------------------------------------------------------------
(* The shares of all the files are the blocks, if no file changed.           *)
SharesInRows == [i \in 1..Len(files) |-> IF RegularFile(i) THEN Shares(files[i]) ELSE 0]

LEMMA SharesAddUp ==
    ASSUME UsableBlockSize, IInv, StoredOK, Placed, Listable
    PROVE  /\ SharesInRows \in [1..Len(files) -> Nat]
           /\ Total(SharesInRows) = Scale * total_compressed_size
<1>1. pc = "stored" /\ TypeOK /\ Len(files) \in Nat
      /\ \A i \in 1..Len(files) : RegularFile(i) => files[i].size = Len(contents[i])
  <2>1. pc = "stored" /\ TypeOK /\ Unchanged
    BY DEF Listable, IInv
  <2>2. Len(files) \in Nat /\ DOMAIN files = 1..Len(files)
    BY <2>1 DEF TypeOK
  <2> QED BY <2>1, <2>2 DEF Unchanged
<1>2. PICK n \in Nat : n = Len(files)
  BY <1>1
<1>3. PICK g : g = Lens
  OBVIOUS
<1>4. g \in Seq(Nat) /\ Len(g) = n
  BY <1>1, <1>2, <1>3, LensAreNumbers DEF Lens, TypeOK
<1>5. /\ UpTo(g, n) = stream_position
      /\ \A i \in 1..n : files[i].stream_offset = UpTo(g, i-1)
  <2>1. stream_position \in Nat /\ pc # "failed" /\ pc # "reading"
    BY <1>1 DEF TypeOK
  <2>2. /\ Total(g) = stream_position + 0
        /\ \A i \in 1..n : files[i].stream_offset = UpTo(g, i-1)
    BY <1>2, <1>3, <2>1 DEF Placed
  <2>3. stream_position + 0 = stream_position
    BY <2>1
  <2> QED BY <1>4, <2>2, <2>3 DEF Total
<1>6. PICK t : t = SharesInRows
  OBVIOUS
<1>7. ASSUME NEW i \in 1..n
      PROVE  /\ t[i] \in Nat
             /\ Worth(UpTo(g, i)) = Worth(UpTo(g, i-1)) + t[i]
             /\ Worth(UpTo(g, i-1)) \in Nat
  <2>1. files[i] \in FileRecord
    BY <1>1, <1>2 DEF TypeOK
  <2>2. files[i].stream_offset = UpTo(g, i-1) /\ files[i].stream_offset \in Nat
    BY <1>5, <2>1 DEF FileRecord
  <2>3. /\ Worth(UpTo(g, i-1)) \in Nat /\ Shares(files[i]) \in Nat
        /\ Worth(UpTo(g, i-1) + files[i].size) = Worth(UpTo(g, i-1)) + Shares(files[i])
    BY <2>1, <2>2, SharesBetween
  <2>4. UpTo(g, i) = UpTo(g, i-1) + g[i]
    BY <1>4, UpToSteps
  <2>5. CASE RegularFile(i)
    <3>1. t[i] = Shares(files[i]) /\ g[i] = files[i].size
      BY <1>1, <1>2, <1>3, <1>6, <2>5 DEF SharesInRows, Lens, LensOf, RegularFile
    <3> QED BY <2>3, <2>4, <3>1
  <2>6. CASE ~RegularFile(i)
    <3>1. t[i] = 0 /\ g[i] = 0
      BY <1>2, <1>3, <1>6, <2>6 DEF SharesInRows, Lens, LensOf, RegularFile
    <3>2. UpTo(g, i) = UpTo(g, i-1)
      BY <2>2, <2>4, <3>1
    <3> QED BY <2>3, <3>1, <3>2
  <2> QED BY <2>5, <2>6
<1>8. t \in [1..n -> Nat]
  BY <1>2, <1>6, <1>7 DEF SharesInRows
<1>9. t \in Seq(Nat) /\ Len(t) = n
  BY <1>8
<1> DEFINE sums == [k \in 0..n |-> Worth(UpTo(g, k))]
<1>10. AreSums(sums, t)
  <2>1. sums[0] = 0
    <3>1. UpTo(g, 0) = 0 /\ 0 \in 0..n
      BY <1>4, UpToSteps
    <3> QED BY <3>1, WorthOfAll
  <2>2. ASSUME NEW i \in 1..n PROVE sums[i] = sums[i-1] + t[i]
    <3>1. i \in 0..n /\ i - 1 \in 0..n
      OBVIOUS
    <3> QED BY <1>7, <3>1
  <2> HIDE DEF sums
  <2> QED BY <1>9, <2>1, <2>2 DEF AreSums
<1>11. n \in 0..n
  OBVIOUS
<1>12. sums[n] = Scale * total_compressed_size
  BY <1>1, <1>5, <1>11, WorthOfAll
<1> HIDE DEF sums
<1>13. UpTo(t, n) = sums[n]
  BY <1>9, <1>10, <1>11, UpToUnique
<1> QED BY <1>2, <1>6, <1>8, <1>9, <1>12, <1>13 DEF Total

LEMMA ColumnsOfInvariant ==
    ASSUME UsableBlockSize, IInv, StoredOK, Placed
    PROVE  ColumnsAddUp
<1> SUFFICES ASSUME Listable
             PROVE  /\ Column("size") = total_stream_size
                    /\ Column("compressed") <= total_compressed_size
                    /\ total_compressed_size <= Column("compressed")
                         + Cardinality({i \in DOMAIN files : RegularFile(i) /\ files[i].size > 0})
  BY DEF ColumnsAddUp
<1>1. pc = "stored" /\ TypeOK /\ DOMAIN files = 1..Len(files)
      /\ \A i \in 1..Len(files) : RegularFile(i) => files[i].size = Len(contents[i])
  <2>1. pc = "stored" /\ TypeOK /\ Unchanged
    BY DEF Listable, IInv
  <2>2. DOMAIN files = 1..Len(files)
    BY <2>1 DEF TypeOK
  <2> QED BY <2>1, <2>2 DEF Unchanged
<1>2. PICK n \in Nat : n = Len(files)
  BY <1>1 DEF TypeOK
<1>3. Column("size") = total_stream_size
  <2>1. [i \in 1..Len(files) |-> Row(files[i])["size"]] = Lens
    <3>1. ASSUME NEW i \in 1..Len(files)
          PROVE  Row(files[i])["size"] = IF files[i].ftype = "File" THEN Len(contents[i]) ELSE 0
      BY <1>1 DEF Row, RegularFile
    <3> QED BY <3>1 DEF Lens, LensOf
  <2>2. stream_position \in Nat /\ pc # "failed" /\ pc # "reading"
    BY <1>1 DEF TypeOK
  <2>3. Total(Lens) = stream_position + 0
    BY <2>2 DEF Placed
  <2>4. stream_position + 0 = stream_position /\ total_stream_size = stream_position
    BY <1>1, <2>2 DEF IInv
  <2> QED BY <2>1, <2>3, <2>4 DEF Column
<1> DEFINE W == {i \in 1..n : RegularFile(i) /\ files[i].size > 0}
<1> DEFINE c == [i \in 1..n |-> Row(files[i])["compressed"]]
<1> DEFINE d == [i \in 1..n |-> IF i \in W THEN 1 ELSE 0]
<1> DEFINE cd == [i \in 1..n |-> c[i] + d[i]]
<1> DEFINE low == [i \in 1..n |-> Scale * c[i]]
<1> DEFINE high == [i \in 1..n |-> Scale * cd[i]]
<1>4. PICK t \in [1..n -> Nat] : t = SharesInRows /\ Total(t) = Scale * total_compressed_size
  BY <1>2, SharesAddUp
<1>5. ASSUME NEW i \in 1..n
      PROVE  /\ c[i] \in Nat /\ d[i] \in Nat
             /\ Scale * c[i] \in Nat /\ Scale * (c[i] + d[i]) \in Nat
             /\ Scale * c[i] <= t[i] /\ t[i] <= Scale * (c[i] + d[i])
  <2>1. files[i] \in FileRecord
    BY <1>1, <1>2 DEF TypeOK
  <2>2. d[i] = IF RegularFile(i) /\ files[i].size > 0 THEN 1 ELSE 0
    OBVIOUS
  <2>3. CASE RegularFile(i)
    <3>1. c[i] = file_compressed_size(files[i])
      BY <2>3 DEF Row, RegularFile
    <3>2. t[i] = Shares(files[i])
      BY <1>2, <1>4, <2>3 DEF SharesInRows
    <3>3. d[i] = IF files[i].size > 0 THEN 1 ELSE 0
      BY <2>2, <2>3
    <3> HIDE DEF c, d
    <3>4. c[i] \in Nat /\ d[i] \in Nat /\ c[i] + d[i] \in Nat
          /\ Scale * c[i] <= t[i] /\ t[i] <= Scale * (c[i] + d[i])
      BY <2>1, <3>1, <3>2, <3>3, FigureOfFile
    <3> QED BY <3>4, ScaleAssumption, TimesLaws
  <2>4. CASE ~RegularFile(i)
    <3>1. c[i] = 0
      BY <2>4 DEF Row, RegularFile
    <3>2. t[i] = 0
      BY <1>2, <1>4, <2>4 DEF SharesInRows
    <3>3. d[i] = 0
      BY <2>2, <2>4
    <3> HIDE DEF c, d
    <3>4. Scale * 0 = 0 /\ 0 + 0 = 0
      BY ScaleAssumption
    <3> QED BY <3>1, <3>2, <3>3, <3>4
  <2> QED BY <2>3, <2>4
<1>6. /\ c \in [1..n -> Nat] /\ d \in [1..n -> Nat] /\ cd \in [1..n -> Nat]
      /\ low \in [1..n -> Nat] /\ high \in [1..n -> Nat]
      /\ \A i \in 1..n : /\ cd[i] = c[i] + d[i] /\ low[i] = Scale * c[i]
                         /\ high[i] = Scale * cd[i]
                         /\ low[i] <= t[i] /\ t[i] <= high[i]
                         /\ d[i] = IF i \in W THEN 1 ELSE 0
  <2>1. c = [i \in 1..n |-> c[i]]
    OBVIOUS
  <2>2. ASSUME NEW i \in 1..n
        PROVE  /\ cd[i] = c[i] + d[i] /\ low[i] = Scale * c[i] /\ high[i] = Scale * cd[i]
               /\ d[i] = IF i \in W THEN 1 ELSE 0
    OBVIOUS
  <2>3. cd = [i \in 1..n |-> cd[i]] /\ low = [i \in 1..n |-> low[i]]
        /\ high = [i \in 1..n |-> high[i]] /\ d = [i \in 1..n |-> d[i]]
    OBVIOUS
  <2> HIDE DEF c, d, cd, low, high
  <2>4. ASSUME NEW i \in 1..n
        PROVE  c[i] \in Nat /\ d[i] \in Nat /\ cd[i] \in Nat /\ low[i] \in Nat /\ high[i] \in Nat
               /\ low[i] <= t[i] /\ t[i] <= high[i]
    <3>1. low[i] = Scale * c[i] /\ high[i] = Scale * (c[i] + d[i])
      BY <2>2
    <3>2. c[i] \in Nat /\ d[i] \in Nat /\ c[i] + d[i] \in Nat
      BY <1>5, SMTT(30)
    <3> QED BY <1>5, <2>2, <3>1, <3>2
  <2> QED BY <2>1, <2>2, <2>3, <2>4
<1> HIDE DEF c, d, cd, low, high
<1>7. /\ c \in Seq(Nat) /\ d \in Seq(Nat) /\ cd \in Seq(Nat) /\ low \in Seq(Nat)
      /\ high \in Seq(Nat) /\ t \in Seq(Nat)
      /\ Len(c) = n /\ Len(d) = n /\ Len(cd) = n /\ Len(low) = n /\ Len(high) = n
      /\ Len(t) = n /\ n \in 0..n /\ Scale \in Nat \ {0}
  <2>1. n \in 0..n
    OBVIOUS
  <2> QED BY <1>6, <2>1, ScaleAssumption, OfLength
<1> DEFINE C == UpTo(c, n)
<1> DEFINE D == UpTo(d, n)
<1>8. C \in Nat /\ D \in Nat /\ UpTo(cd, n) = C + D
  <2>1. C \in Nat /\ D \in Nat
    BY <1>7, UpToSteps
  <2>2. /\ \A i \in 1..Len(cd) : cd[i] = c[i] + d[i]
        /\ Len(c) = Len(cd) /\ Len(d) = Len(cd) /\ n \in 0..Len(cd)
    BY <1>6, <1>7
  <2>3. UpTo(cd, n) = UpTo(c, n) + UpTo(d, n)
    <3>1. cd \in Seq(Nat) /\ c \in Seq(Nat) /\ d \in Seq(Nat)
      BY <1>7
    <3> HIDE DEF C, D, W
    <3> QED BY <2>2, <3>1, UpToSum
  <2> QED BY <2>1, <2>3
<1>9. UpTo(low, n) = Scale * C /\ UpTo(high, n) = Scale * (C + D)
  <2>1. UpTo(low, n) = Scale * UpTo(c, n)
    <3>1. /\ \A i \in 1..Len(low) : low[i] = Scale * c[i]
          /\ Len(c) = Len(low) /\ n \in 0..Len(low) /\ Scale \in Nat
          /\ low \in Seq(Nat) /\ c \in Seq(Nat)
      BY <1>6, <1>7
    <3> QED BY <3>1, UpToTimes, ZenonT(30)
  <2>2. UpTo(high, n) = Scale * UpTo(cd, n)
    <3>1. /\ \A i \in 1..Len(high) : high[i] = Scale * cd[i]
          /\ Len(cd) = Len(high) /\ n \in 0..Len(high) /\ Scale \in Nat
          /\ high \in Seq(Nat) /\ cd \in Seq(Nat)
      BY <1>6, <1>7
    <3> QED BY <3>1, UpToTimes, ZenonT(30)
  <2> QED BY <1>8, <2>1, <2>2
<1>10. UpTo(low, n) <= UpTo(t, n) /\ UpTo(t, n) <= UpTo(high, n)
  BY <1>6, <1>7, UpToBelow
<1>11. UpTo(t, n) = Scale * total_compressed_size /\ total_compressed_size \in Nat
  BY <1>4, <1>7, WorthOfAll DEF Total
<1>12. D = Cardinality(W)
  <2>1. W \in SUBSET (1..Len(d))
    BY <1>7
  <2>2. Total(d) = Cardinality(W)
    <3> HIDE DEF W
    <3> QED BY <1>6, <1>7, <2>1, UpToCounts
  <2> QED BY <1>7, <2>2 DEF Total
<1>13. Column("compressed") = C
  BY <1>2, <1>7 DEF Column, Total, c
<1> HIDE DEF C, D
<1>14. C <= total_compressed_size
  BY <1>7, <1>8, <1>9, <1>10, <1>11, TimesCancels
<1>15. total_compressed_size <= C + D
  <2>1. C + D \in Nat
    BY <1>8
  <2> QED BY <1>7, <1>9, <1>10, <1>11, <2>1, TimesCancels
<1>16. W = {i \in DOMAIN files : RegularFile(i) /\ files[i].size > 0}
  BY <1>1, <1>2
<1> QED BY <1>3, <1>12, <1>13, <1>14, <1>15, <1>16

(* The column of sizes adds up to the total in the index, over all appends,  *)
(* and the column of compressed sizes to the stored size of the archive less *)
(* what rounding down takes, less than a byte for each file that has data:   *)
(* file_compressed_size shares out each block without a gap or an overlap.   *)
THEOREM ListedFiguresAddUp == UsableBlockSize => (LSpec => []ColumnsAddUp)
<1> SUFFICES ASSUME UsableBlockSize PROVE LSpec => []ColumnsAddUp
  OBVIOUS
<1>1. LInit => IInv /\ StoredOK /\ Placed
  BY InitIInv, PlacedInit, StoredSizesAssumption DEF LInit, StoredOK
<1>2. IInv /\ StoredOK /\ Placed /\ [LNext]_listingVars => (IInv /\ StoredOK /\ Placed)'
  <2> SUFFICES ASSUME IInv, StoredOK, Placed, [LNext]_listingVars
               PROVE  (IInv /\ StoredOK /\ Placed)'
    OBVIOUS
  <2>1. [Next]_vars /\ size_stored' = size_stored
    BY DEF LNext, listingVars
  <2>2. IInv'
    BY <2>1, StepKeepsIInv
  <2>3. TypeOK /\ TypeOK'
    BY <2>2 DEF IInv
  <2>4. Placed'
    BY <2>1, <2>3, BeginEntryKeepsPlaced, OthersKeepPlaced
  <2> QED BY <2>1, <2>2, <2>4 DEF StoredOK
<1>3. IInv /\ StoredOK /\ Placed => ColumnsAddUp
  BY ColumnsOfInvariant
<1> QED BY <1>1, <1>2, <1>3, PTL DEF LSpec
=============================================================================
