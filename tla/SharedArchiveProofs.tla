------------------------- MODULE SharedArchiveProofs -------------------------
(* Appends one after the other, any number of them, each failing or killed   *)
(* wherever it may be, with any number of readers beside them.               *)
EXTENDS SharedArchive, SequenceTheorems, TLAPS

(* What an archive with these entries, and its index at o, consists of.      *)
HeaderPart == Chunk(0, 1, Header)
BlockPart(e) == Chunk(e.offset, e.size_stored, BlockData(e.id))
Body(E) == {HeaderPart} \cup {BlockPart(E[i]) : i \in 1..Len(E)}
IndexPart(E, o) == Chunk(o, Len(E), IndexData(E))
FooterPart(E, o) == Chunk(o + Len(E), FooterSize, FooterData(o, Len(E)))
FileOf(E, o) ==
    [len |-> o + Len(E) + FooterSize,
     chunks |-> Body(E) \cup {IndexPart(E, o), FooterPart(E, o)}]

Packed(E, o) ==
    /\ E \in Seq(BlockEntry) /\ Len(E) >= 1 /\ o \in Nat /\ o >= 1
    /\ \A i \in 1..Len(E) : E[i].offset + E[i].size_stored <= o
IsArchive(f) == \E E \in Seq(BlockEntry) : \E o \in Nat : Packed(E, o) /\ f = FileOf(E, o)

(* The new block is written, and what is left of the old footer lies where   *)
(* the new index will.                                                       *)
BlockDone(f, E, a) ==
    /\ Body(E) \subseteq f.chunks
    /\ \A d \in f.chunks \ Body(E) :
         d.len = FooterSize /\ d.off \in Nat /\ a <= d.off /\ d.off < a + Len(E)

Ids(E) == {E[i].id : i \in 1..Len(E)}

-----------------------------------------------------------------------------
LEMMA Parts ==
    ASSUME NEW E, NEW o, Packed(E, o)
    PROVE  /\ Len(E) \in Nat /\ Len(E) >= 1 /\ o \in Nat /\ o >= 1
           /\ \A i \in 1..Len(E) :
                E[i] \in BlockEntry /\ E[i].offset \in Nat /\ E[i].size_stored \in Nat
           /\ \A c \in Body(E) :
                c.what.kind \in {"header", "block"} /\ End(c) \in Nat /\ End(c) <= o
<1>1. /\ Len(E) \in Nat /\ Len(E) >= 1 /\ o \in Nat /\ o >= 1
      /\ \A i \in 1..Len(E) :
           E[i] \in BlockEntry /\ E[i].offset \in Nat /\ E[i].size_stored \in Nat
  <2>1. E \in Seq(BlockEntry) /\ Len(E) >= 1 /\ o \in Nat /\ o >= 1
    BY DEF Packed
  <2>2. Len(E) \in Nat /\ \A i \in 1..Len(E) : E[i] \in BlockEntry
    BY <2>1, LenProperties
  <2>3. \A e \in BlockEntry : e.offset \in Nat /\ e.size_stored \in Nat
    BY DEF BlockEntry
  <2> QED BY <2>1, <2>2, <2>3
<1>2. End(HeaderPart) = 1 /\ HeaderPart.what.kind = "header"
  BY DEF HeaderPart, End, Chunk, Header
<1>3. ASSUME NEW i \in 1..Len(E)
      PROVE  /\ BlockPart(E[i]).what.kind = "block"
             /\ End(BlockPart(E[i])) = E[i].offset + E[i].size_stored
             /\ E[i].offset + E[i].size_stored <= o
  BY DEF BlockPart, End, Chunk, BlockData, Packed
<1>4. \A c \in Body(E) : c = HeaderPart \/ \E i \in 1..Len(E) : c = BlockPart(E[i])
  BY DEF Body
<1>5. ASSUME NEW c \in Body(E)
      PROVE  c.what.kind \in {"header", "block"} /\ End(c) \in Nat /\ End(c) <= o
  <2>1. CASE c = HeaderPart
    BY <2>1, <1>1, <1>2
  <2>2. CASE \E i \in 1..Len(E) : c = BlockPart(E[i])
    <3>1. PICK i \in 1..Len(E) : c = BlockPart(E[i])
      BY <2>2
    <3> QED BY <3>1, <1>1, <1>3
  <2> QED BY <2>1, <2>2, <1>4
<1> QED BY <1>1, <1>5

LEMMA Ends ==
    ASSUME NEW E, NEW o, Packed(E, o)
    PROVE  /\ IndexPart(E, o).off = o /\ End(IndexPart(E, o)) = o + Len(E)
           /\ FooterPart(E, o).off = o + Len(E)
           /\ End(FooterPart(E, o)) = o + Len(E) + 1
           /\ IndexPart(E, o).what.kind = "index" /\ IndexPart(E, o).what.block = E
           /\ IndexPart(E, o).len = Len(E)
           /\ FooterPart(E, o).what.kind = "footer" /\ FooterPart(E, o).len = 1
           /\ FooterPart(E, o).what.index_offset = o
           /\ FooterPart(E, o).what.index_size_stored = Len(E)
BY Parts DEF IndexPart, FooterPart, End, Chunk, FooterSize, IndexData, FooterData

(* The loader finds the index and every block it lists.                      *)
LEMMA ArchiveLoads ==
    ASSUME NEW E, NEW o, Packed(E, o), NEW f, f = FileOf(E, o)
    PROVE  /\ Loadable(f) /\ LoadedIndex(f) = E /\ Intact(f, E)
           /\ Footers(f) = {FooterPart(E, o)} /\ E \in Seq(BlockEntry) /\ o \in Nat
<1>0. f.len = o + Len(E) + 1
      /\ f.chunks = Body(E) \cup {IndexPart(E, o), FooterPart(E, o)}
  BY DEF FileOf, FooterSize
<1>1. Footers(f) = {FooterPart(E, o)}
  <2>1. FooterPart(E, o) \in Footers(f)
    BY <1>0, Ends DEF Footers
  <2>2. \A c \in f.chunks : c.what.kind = "footer" => c = FooterPart(E, o)
    <3>1. \A c \in Body(E) : c.what.kind # "footer"
      BY Parts
    <3>2. IndexPart(E, o).what.kind # "footer"
      BY Ends
    <3> QED BY <3>1, <3>2, <1>0
  <2> QED BY <2>1, <2>2 DEF Footers
<1>2. Indexes(f) = {IndexPart(E, o)}
  <2>2. IndexPart(E, o) \in Indexes(f)
    BY <1>0, <1>1, Ends DEF Indexes
  <2>3. \A c \in f.chunks : c.what.kind = "index" => c = IndexPart(E, o)
    <3>1. \A c \in Body(E) : c.what.kind # "index"
      BY Parts
    <3>2. FooterPart(E, o).what.kind # "index"
      BY Ends
    <3> QED BY <3>1, <3>2, <1>0
  <2> QED BY <2>2, <2>3 DEF Indexes
<1>3. LoadedIndex(f) = E
  BY <1>2, Ends DEF LoadedIndex
<1>4. Loadable(f)
  <2>1. HeaderPart \in f.chunks /\ HeaderPart.off = 0 /\ HeaderPart.what = Header
    BY <1>0 DEF Body, HeaderPart, Chunk
  <2> QED BY <2>1, <1>2 DEF Loadable
<1>5. Intact(f, E)
  <2>1. \A i \in DOMAIN E : BlockPart(E[i]) \in f.chunks
    BY <1>0 DEF Body, Packed
  <2> QED BY <2>1 DEF Intact, BlockPart
<1> QED BY <1>1, <1>3, <1>4, <1>5 DEF Packed

LEMMA BlockIsWritten ==
    ASSUME NEW E, NEW o, Packed(E, o), NEW n \in Nat \ {0}, NEW id \in Nat
    PROVE  LET E2 == Append(E, Entry(o, n, id))
               g == WriteChunk(FileOf(E, o), Chunk(o, n, BlockData(id)))
           IN Packed(E2, o + n) /\ BlockDone(g, E2, o + n) /\ Ids(E2) = Ids(E) \cup {id}
<1> DEFINE e == Entry(o, n, id)
           E2 == Append(E, e)
           new == Chunk(o, n, BlockData(id))
           g == WriteChunk(FileOf(E, o), new)
<1>1. /\ Len(E) \in Nat /\ Len(E) >= 1 /\ o \in Nat /\ o >= 1
      /\ E \in Seq(BlockEntry)
  BY Parts DEF Packed
<1>2. /\ e \in BlockEntry /\ e.offset = o /\ e.size_stored = n /\ e.id = id
      /\ BlockPart(e) = new /\ new.off = o /\ End(new) = o + n
  BY <1>1 DEF Entry, BlockEntry, BlockPart, Chunk, End
<1> HIDE DEF e
<1>3. /\ E2 \in Seq(BlockEntry) /\ Len(E2) = Len(E) + 1 /\ E2[Len(E) + 1] = e
      /\ \A i \in 1..Len(E) : E2[i] = E[i]
  BY <1>1, <1>2, AppendProperties
<1> HIDE DEF E2
<1>4. \A i \in 1..Len(E2) : i = Len(E) + 1 \/ i \in 1..Len(E)
  BY <1>1, <1>3
<1>5. Len(E) + 1 \in 1..Len(E2) /\ \A i \in 1..Len(E) : i \in 1..Len(E2)
  BY <1>1, <1>3
<1>6. Packed(E2, o + n)
  <2>1. ASSUME NEW i \in 1..Len(E2) PROVE E2[i].offset + E2[i].size_stored <= o + n
    <3>1. CASE i = Len(E) + 1
      BY <3>1, <1>1, <1>2, <1>3
    <3>2. CASE i \in 1..Len(E)
      <4>1. E[i].offset \in Nat /\ E[i].size_stored \in Nat /\ E2[i] = E[i]
        BY <3>2, <1>3, Parts
      <4>2. E[i].offset + E[i].size_stored <= o
        BY <3>2 DEF Packed
      <4> QED BY <4>1, <4>2, <1>1
    <3> QED BY <3>1, <3>2, <1>4
  <2> QED BY <2>1, <1>1, <1>3 DEF Packed
<1>7. Ids(E2) = Ids(E) \cup {id}
  BY <1>2, <1>3, <1>4, <1>5 DEF Ids
<1>8. Body(E2) = Body(E) \cup {new}
  <2>1. BlockPart(E2[Len(E) + 1]) = new
        /\ \A i \in 1..Len(E) : BlockPart(E2[i]) = BlockPart(E[i])
    BY <1>2, <1>3
  <2> HIDE DEF new
  <2> QED BY <2>1, <1>4, <1>5 DEF Body
<1>9. g.chunks = {d \in Body(E) \cup {IndexPart(E, o), FooterPart(E, o)} :
                    Disjoint(new, d)} \cup {new}
  BY DEF WriteChunk, FileOf
<1>10. \A d \in Body(E) : Disjoint(new, d)
  BY <1>2, Parts DEF Disjoint
<1>11. ~Disjoint(new, IndexPart(E, o))
  BY <1>1, <1>2, Ends DEF Disjoint
<1>12. Disjoint(new, FooterPart(E, o)) => o + n <= o + Len(E)
  BY <1>1, <1>2, Ends DEF Disjoint
<1> HIDE DEF new, g
<1>13. Body(E2) \subseteq g.chunks
  BY <1>8, <1>9, <1>10
<1>14. ASSUME NEW d \in g.chunks \ Body(E2)
       PROVE  /\ d.len = FooterSize /\ d.off \in Nat
              /\ o + n <= d.off /\ d.off < (o + n) + Len(E2)
  <2>1. d = FooterPart(E, o) /\ Disjoint(new, d)
    BY <1>8, <1>9, <1>11, <1>14
  <2>2. o + n <= o + Len(E) /\ d.off = o + Len(E) /\ d.len = FooterSize
    BY <2>1, <1>12, Ends DEF FooterSize
  <2> QED BY <2>2, <1>1, <1>3
<1>15. BlockDone(g, E2, o + n)
  BY <1>13, <1>14 DEF BlockDone
<1> QED BY <1>6, <1>7, <1>15 DEF E2, e, g, new

LEMMA IndexIsWritten ==
    ASSUME NEW E, NEW a, Packed(E, a), NEW f, BlockDone(f, E, a)
    PROVE  WriteChunk(WriteChunk(f, IndexPart(E, a)), FooterPart(E, a)).chunks
               = FileOf(E, a).chunks
<1> DEFINE i == IndexPart(E, a)
           t == FooterPart(E, a)
<1>1. /\ Len(E) \in Nat /\ Len(E) >= 1 /\ a \in Nat
      /\ i.off = a /\ End(i) = a + Len(E) /\ t.off = a + Len(E) /\ End(t) = a + Len(E) + 1
  BY Parts, Ends
<1>2. \A d \in Body(E) : Disjoint(i, d) /\ Disjoint(t, d)
  BY <1>1, Parts DEF Disjoint
<1>3. ASSUME NEW d \in f.chunks \ Body(E) PROVE ~Disjoint(i, d)
  <2>1. d.len = 1 /\ d.off \in Nat /\ a <= d.off /\ d.off < a + Len(E)
    BY DEF BlockDone, FooterSize
  <2>2. End(d) = d.off + 1
    BY <2>1 DEF End
  <2> HIDE DEF i
  <2> QED BY <2>1, <2>2, <1>1 DEF Disjoint
<1>4. Disjoint(t, i)
  BY <1>1 DEF Disjoint
<1> HIDE DEF i, t
<1>5. WriteChunk(f, i).chunks = Body(E) \cup {i}
  BY <1>2, <1>3 DEF WriteChunk, BlockDone
<1>6. WriteChunk(WriteChunk(f, i), t).chunks = Body(E) \cup {i, t}
  BY <1>2, <1>4, <1>5 DEF WriteChunk
<1> QED BY <1>6 DEF FileOf, i, t

LEMMA LengthIsCut ==
    ASSUME NEW E, NEW a, Packed(E, a), NEW f, f.chunks = FileOf(E, a).chunks
    PROVE  SetLen(f, a + Len(E) + FooterSize) = FileOf(E, a)
<1>0. f.chunks = Body(E) \cup {IndexPart(E, a), FooterPart(E, a)}
  BY DEF FileOf
<1>1. Len(E) \in Nat /\ a \in Nat /\ \A d \in Body(E) : End(d) \in Nat /\ End(d) <= a
  BY Parts
<1>2. /\ End(IndexPart(E, a)) = a + Len(E)
      /\ End(FooterPart(E, a)) = a + Len(E) + 1
  BY Ends
<1>3. \A d \in f.chunks : End(d) <= a + Len(E) + FooterSize
  BY <1>0, <1>1, <1>2 DEF FooterSize
<1> QED BY <1>0, <1>3 DEF SetLen, FileOf

-----------------------------------------------------------------------------
Busy == {"copy", "open", "load", "block", "index", "length", "rename"}

Types ==
    /\ DOMAIN names = {"arch", "tmp"} /\ names["arch"] \in Inode
    /\ names["tmp"] \in Inode \cup {None}
    /\ DOMAIN inodes = Inode /\ DOMAIN pc = Run /\ handle \in [Run -> Inode]
    /\ DOMAIN from = Appender /\ DOMAIN index = Run /\ DOMAIN at = Appender
    /\ DOMAIN result = Run

(* How far an append's copy has got.                                         *)
Stage(p) ==
    /\ pc[p] \in {"start", "done"} \cup Busy
    /\ pc[p] \in Busy => names["tmp"] # None /\ handle[p] = names["tmp"]
    /\ pc[p] = "copy" => from[p] = names["arch"] /\ inodes[handle[p]] = EmptyFile
    /\ pc[p] \in {"open", "load", "block"} => inodes[handle[p]] = Arch
    /\ pc[p] \in {"block", "index", "length", "rename"} => Packed(index[p], at[p])
    /\ pc[p] = "block" => Arch = FileOf(index[p], at[p])
    /\ pc[p] \in {"index", "length", "rename"} =>
         Ids(LoadedIndex(Arch)) \cup {NewId[p]} \subseteq Ids(index[p])
    /\ pc[p] = "index" => BlockDone(inodes[handle[p]], index[p], at[p])
    /\ pc[p] = "length" => inodes[handle[p]].chunks = FileOf(index[p], at[p]).chunks
    /\ pc[p] = "rename" => inodes[handle[p]] = FileOf(index[p], at[p])

Alone == \A p, q \in Appender : pc[p] \in Busy /\ pc[q] \in Busy => p = q

(* The inode of an append that has not begun is nobody's.                    *)
Fresh ==
    \A p \in Appender : pc[p] = "start" =>
        /\ p # names["arch"] /\ p # names["tmp"]
        /\ \A r \in Reader : handle[r] # p

(* Neither the archive nor what a reader has open is the .tmp file.          *)
Apart ==
    /\ names["tmp"] # names["arch"]
    /\ \A r \in Reader : handle[r] # names["tmp"]

ReadersFine ==
    \A r \in Reader :
        /\ pc[r] \in {"start", "load", "blocks", "done"}
        /\ IsArchive(inodes[handle[r]])
        /\ pc[r] = "blocks" => index[r] = LoadedIndex(inodes[handle[r]])
        /\ result[r] # "error"

Kept == \A p \in Appender : result[p] = "ok" => NewId[p] \in Ids(LoadedIndex(Arch))

SharedInv ==
    /\ Types /\ (\A p \in Appender : Stage(p)) /\ Alone /\ Fresh /\ Apart
    /\ IsArchive(Arch) /\ ReadersFine /\ Kept

LEMMA FirstIsArchive ==
    /\ IsArchive(First) /\ LoadedIndex(First) = <<FirstEntry>>
<1> DEFINE E == <<FirstEntry>>
<1>1. FirstEntry \in BlockEntry /\ FirstEntry.offset = 1 /\ FirstEntry.size_stored = 1
      /\ FirstEntry.id = 0
  BY DEF FirstEntry, Entry, BlockEntry
<1>2. E \in Seq(BlockEntry) /\ Len(E) = 1 /\ E[1] = FirstEntry
  BY <1>1
<1>3. Packed(E, 2)
  BY <1>1, <1>2 DEF Packed
<1>4. Body(E) = {HeaderPart, BlockPart(FirstEntry)}
  BY <1>2 DEF Body
<1>5. BlockPart(FirstEntry) = Chunk(1, 1, BlockData(0))
  BY <1>1 DEF BlockPart
<1>6. IndexPart(E, 2) = Chunk(2, 1, IndexData(E))
      /\ FooterPart(E, 2) = Chunk(3, FooterSize, FooterData(2, 1))
  BY <1>2 DEF IndexPart, FooterPart
<1>7. First = FileOf(E, 2)
  BY <1>2, <1>4, <1>5, <1>6 DEF First, FileOf, HeaderPart, FooterSize
<1> QED BY <1>2, <1>3, <1>7, ArchiveLoads DEF IsArchive

LEMMA InitInv == Init => SharedInv
<1> SUFFICES ASSUME Init PROVE SharedInv
  OBVIOUS
<1>1. /\ names["arch"] = Original /\ names["tmp"] = None /\ DOMAIN names = {"arch", "tmp"}
      /\ Original \in Inode /\ None # Original
  BY DEF Init, Inode, None, Original
<1>2. /\ \A r \in Run : pc[r] = "start" /\ handle[r] = Original /\ result[r] = "none"
      /\ Arch = First
  BY <1>1 DEF Init, Arch
<1>3. Types
  BY <1>1 DEF Init, Types
<1>4. Appender \subseteq Run /\ Reader \subseteq Run
  BY DEF Run
<1>5. (\A p \in Appender : Stage(p)) /\ Alone /\ Kept
  BY <1>2, <1>4 DEF Stage, Busy, Alone, Kept
<1>6. Fresh /\ Apart
  BY <1>1, <1>2, <1>4, RunAssumption DEF Fresh, Apart
<1>7. IsArchive(Arch) /\ ReadersFine
  BY <1>1, <1>2, <1>4, FirstIsArchive DEF ReadersFine, Arch
<1> QED BY <1>3, <1>5, <1>6, <1>7 DEF SharedInv

-----------------------------------------------------------------------------
(* A run at work is alone, and the others' stages say nothing about files.   *)
LEMMA OthersIdle ==
    ASSUME SharedInv, NEW p \in Appender, pc[p] \in Busy, NEW q \in Appender, q # p
    PROVE  pc[q] \in {"start", "done"}
BY DEF SharedInv, Stage, Alone

(* What is written to the .tmp file changes neither the archive nor a file   *)
(* that a reader has open.                                                   *)
LEMMA Private ==
    ASSUME SharedInv, NEW p \in Appender, pc[p] \in Busy, NEW g,
           inodes' = [inodes EXCEPT ![handle[p]] = g], names' = names
    PROVE  /\ inodes'[handle[p]] = g /\ Arch' = Arch /\ DOMAIN inodes' = Inode
           /\ \A r \in Reader : inodes'[handle[r]] = inodes[handle[r]]
<1>1. handle[p] = names["tmp"] /\ names["tmp"] # names["arch"]
      /\ \A r \in Reader : handle[r] # names["tmp"]
  BY DEF SharedInv, Stage, Apart
<1>2. handle[p] \in Inode /\ names["arch"] \in Inode /\ DOMAIN inodes = Inode
      /\ \A r \in Reader : handle[r] \in Inode
  BY DEF SharedInv, Types, Run
<1> QED BY <1>1, <1>2 DEF Arch

(* A step of an append that leaves the names alone.                          *)
LEMMA AppenderStep ==
    ASSUME SharedInv, NEW p \in Appender, NEW x \in Busy \cup {"done"}, pc[p] \in Busy,
           pc' = [pc EXCEPT ![p] = x], names' = names, handle' = handle,
           DOMAIN inodes' = Inode, DOMAIN from' = Appender, DOMAIN index' = Run,
           DOMAIN at' = Appender, DOMAIN result' = Run, Arch' = Arch,
           \A r \in Reader : inodes'[handle[r]] = inodes[handle[r]],
           \A r \in Reader : index'[r] = index[r] /\ result'[r] = result[r],
           \A q \in Appender : result'[q] = "ok" => result[q] = "ok",
           Stage(p)'
    PROVE  SharedInv'
<1>1. p \in Run /\ DOMAIN pc = Run /\ Appender \subseteq Run /\ Reader \subseteq Run
      /\ p \notin Reader
  BY RunAssumption DEF SharedInv, Types, Run
<1>2. pc'[p] = x /\ \A r \in Run : r # p => pc'[r] = pc[r]
  BY <1>1
<1>3. Types'
  BY <1>1 DEF SharedInv, Types
<1>4. ASSUME NEW q \in Appender PROVE Stage(q)'
  <2>1. CASE q # p
    <3>1. pc'[q] \in {"start", "done"}
      BY <2>1, <1>1, <1>2, OthersIdle
    <3> QED BY <3>1 DEF Stage, Busy
  <2> QED BY <2>1
<1>5. Alone'
  <2>1. \A q \in Appender : q # p => pc'[q] \notin Busy
    BY <1>1, <1>2, OthersIdle DEF Busy
  <2> QED BY <2>1 DEF Alone
<1>6. Fresh'
  <2>1. \A q \in Appender : pc'[q] = "start" => pc[q] = "start"
    BY <1>1, <1>2 DEF Busy
  <2> QED BY <2>1 DEF SharedInv, Fresh
<1>7. Apart' /\ IsArchive(Arch)' /\ Kept'
  BY DEF SharedInv, Apart, Kept
<1>8. ReadersFine'
  BY <1>1, <1>2 DEF SharedInv, ReadersFine
<1> QED BY <1>3, <1>4, <1>5, <1>6, <1>7, <1>8 DEF SharedInv

LEMMA CopyDataInv == ASSUME SharedInv, NEW p \in Appender, CopyData(p) PROVE SharedInv'
<1>1. /\ pc[p] = "copy" /\ pc' = [pc EXCEPT ![p] = "open"]
      /\ inodes' = [inodes EXCEPT ![handle[p]] = Over(inodes[from[p]], inodes[handle[p]])]
      /\ UNCHANGED <<names, from, handle, index, at, result>>
  BY DEF CopyData, At, SharedInv, Types
<1>2. inodes[from[p]] = Arch /\ inodes[handle[p]] = EmptyFile
  BY <1>1 DEF SharedInv, Stage, Arch
<1>3. Over(Arch, EmptyFile) = Arch
  <2>1. PICK E \in Seq(BlockEntry) : \E o \in Nat : Packed(E, o) /\ Arch = FileOf(E, o)
    BY DEF SharedInv, IsArchive
  <2>2. PICK o \in Nat : Packed(E, o) /\ Arch = FileOf(E, o)
    BY <2>1
  <2>3. Arch.len > 0 /\ Arch = [len |-> Arch.len, chunks |-> Arch.chunks]
    BY <2>2, Parts DEF FileOf, FooterSize
  <2> HIDE DEF Arch
  <2> QED BY <2>3 DEF Over, EmptyFile
<1>4. inodes' = [inodes EXCEPT ![handle[p]] = Arch]
  BY <1>1, <1>2, <1>3
<1>5. /\ inodes'[handle[p]] = Arch /\ Arch' = Arch /\ DOMAIN inodes' = Inode
      /\ \A r \in Reader : inodes'[handle[r]] = inodes[handle[r]]
  BY <1>1, <1>4, Private DEF Busy
<1>6. pc'[p] = "open"
  BY <1>1 DEF SharedInv, Types, Run
<1>7. Stage(p)'
  BY <1>1, <1>5, <1>6 DEF SharedInv, Stage, Busy
<1> QED BY <1>1, <1>5, <1>7, AppenderStep DEF SharedInv, Types, Busy

LEMMA OpenTmpInv == ASSUME SharedInv, NEW p \in Appender, OpenTmp(p) PROVE SharedInv'
<1>1. /\ pc[p] = "open" /\ pc' = [pc EXCEPT ![p] = "load"]
      /\ handle' = [handle EXCEPT ![p] = names["tmp"]]
      /\ UNCHANGED <<names, inodes, from, index, at, result>>
  BY DEF OpenTmp, At
<1>2. handle' = handle /\ Arch' = Arch
  BY <1>1 DEF SharedInv, Stage, Busy, Types, Run, Arch
<1>3. pc'[p] = "load"
  BY <1>1 DEF SharedInv, Types, Run
<1>4. Stage(p)'
  BY <1>1, <1>2, <1>3 DEF SharedInv, Stage, Busy
<1> QED BY <1>1, <1>2, <1>4, AppenderStep DEF SharedInv, Types, Busy

LEMMA LoadInv == ASSUME SharedInv, NEW p \in Appender, Load(p) PROVE SharedInv'
<1>1. /\ pc[p] = "load" /\ pc' = [pc EXCEPT ![p] = "block"]
      /\ index' = [index EXCEPT ![p] = LoadedIndex(Arch)]
      /\ \E t \in Footers(Arch) : at' = [at EXCEPT ![p] = t.what.index_offset]
      /\ UNCHANGED <<names, inodes, from, handle, result>>
  BY DEF Load, At
<1>2. PICK E \in Seq(BlockEntry) : \E o \in Nat : Packed(E, o) /\ Arch = FileOf(E, o)
  BY DEF SharedInv, IsArchive
<1>3. PICK o \in Nat : Packed(E, o) /\ Arch = FileOf(E, o)
  BY <1>2
<1>4. LoadedIndex(Arch) = E /\ Footers(Arch) = {FooterPart(E, o)}
  BY <1>3, ArchiveLoads
<1>5. FooterPart(E, o).what.index_offset = o
  BY <1>3, Ends
<1>6. p \in Run /\ p \notin Reader
  BY RunAssumption DEF Run
<1>7. at' = [at EXCEPT ![p] = o] /\ index' = [index EXCEPT ![p] = E]
  BY <1>1, <1>4, <1>5
<1>8. at'[p] = o /\ index'[p] = E /\ pc'[p] = "block" /\ Arch' = Arch
  BY <1>1, <1>6, <1>7 DEF SharedInv, Types, Arch
<1>9. Stage(p)'
  BY <1>1, <1>3, <1>8 DEF SharedInv, Stage, Busy
<1>10. \A r \in Reader : index'[r] = index[r]
  BY <1>6, <1>7
<1> QED BY <1>1, <1>7, <1>8, <1>9, <1>10, AppenderStep DEF SharedInv, Types, Busy

LEMMA WriteBlockInv == ASSUME SharedInv, NEW p \in Appender, WriteBlock(p) PROVE SharedInv'
<1>1. /\ pc[p] = "block" /\ pc' = [pc EXCEPT ![p] = "index"]
      /\ inodes' = [inodes EXCEPT ![handle[p]] =
              WriteChunk(inodes[handle[p]], Chunk(at[p], NewLen[p], BlockData(NewId[p])))]
      /\ index' = [index EXCEPT ![p] = Append(index[p], Entry(at[p], NewLen[p], NewId[p]))]
      /\ at' = [at EXCEPT ![p] = at[p] + NewLen[p]]
      /\ UNCHANGED <<names, from, handle, result>>
  <2>1. handle[p] \in DOMAIN inodes /\ p \in DOMAIN index /\ p \in DOMAIN at
    BY DEF SharedInv, Types, Run
  <2> QED BY <2>1 DEF WriteBlock, At
<1>2. PICK E, o : E = index[p] /\ o = at[p]
  OBVIOUS
<1>3. Packed(E, o) /\ Arch = FileOf(E, o) /\ inodes[handle[p]] = FileOf(E, o)
  BY <1>1, <1>2 DEF SharedInv, Stage
<1>4. NewLen[p] \in Nat \ {0} /\ NewId[p] \in Nat
  BY NewLenAssumption, NewIdAssumption
<1>5. PICK E2, g : /\ E2 = Append(E, Entry(o, NewLen[p], NewId[p]))
                   /\ g = WriteChunk(FileOf(E, o), Chunk(o, NewLen[p], BlockData(NewId[p])))
  OBVIOUS
<1>6. Packed(E2, o + NewLen[p]) /\ BlockDone(g, E2, o + NewLen[p])
      /\ Ids(E2) = Ids(E) \cup {NewId[p]}
  BY <1>3, <1>4, <1>5, BlockIsWritten
<1>7. p \in Run /\ p \notin Reader
  BY RunAssumption DEF Run
<1>8. /\ inodes' = [inodes EXCEPT ![handle[p]] = g]
      /\ index' = [index EXCEPT ![p] = E2] /\ at' = [at EXCEPT ![p] = o + NewLen[p]]
  BY <1>1, <1>2, <1>3, <1>5
<1>9. /\ inodes'[handle[p]] = g /\ Arch' = Arch /\ DOMAIN inodes' = Inode
      /\ \A r \in Reader : inodes'[handle[r]] = inodes[handle[r]]
  BY <1>1, <1>8, Private DEF Busy
<1>10. pc'[p] = "index" /\ index'[p] = E2 /\ at'[p] = o + NewLen[p]
  BY <1>1, <1>7, <1>8 DEF SharedInv, Types
<1>11. LoadedIndex(Arch) = E
  BY <1>3, ArchiveLoads
<1>12. Stage(p)'
  <2>1. LoadedIndex(Arch)' = E
    BY <1>9, <1>11
  <2> QED BY <2>1, <1>1, <1>6, <1>9, <1>10 DEF SharedInv, Stage, Busy
<1>13. \A r \in Reader : index'[r] = index[r]
  BY <1>7, <1>8
<1> QED BY <1>1, <1>8, <1>9, <1>12, <1>13, AppenderStep DEF SharedInv, Types, Busy

LEMMA WriteIndexInv == ASSUME SharedInv, NEW p \in Appender, WriteIndex(p) PROVE SharedInv'
<1>1. PICK E, a : E = index[p] /\ a = at[p]
  OBVIOUS
<1>2. PICK f, g : /\ f = inodes[handle[p]]
                  /\ g = WriteChunk(WriteChunk(f, IndexPart(E, a)), FooterPart(E, a))
  OBVIOUS
<1>3. /\ pc[p] = "index" /\ pc' = [pc EXCEPT ![p] = "length"]
      /\ inodes' = [inodes EXCEPT ![handle[p]] = g]
      /\ UNCHANGED <<names, from, handle, index, at, result>>
  BY <1>1, <1>2 DEF WriteIndex, At, IndexPart, FooterPart
<1>4. Packed(E, a) /\ BlockDone(f, E, a)
  BY <1>1, <1>2, <1>3 DEF SharedInv, Stage
<1>5. g.chunks = FileOf(E, a).chunks
  BY <1>2, <1>4, IndexIsWritten
<1>6. /\ inodes'[handle[p]] = g /\ Arch' = Arch /\ DOMAIN inodes' = Inode
      /\ \A r \in Reader : inodes'[handle[r]] = inodes[handle[r]]
  BY <1>3, Private DEF Busy
<1>7. pc'[p] = "length"
  BY <1>3 DEF SharedInv, Types, Run
<1>8. Stage(p)'
  BY <1>1, <1>3, <1>5, <1>6, <1>7 DEF SharedInv, Stage, Busy
<1> QED BY <1>3, <1>6, <1>8, AppenderStep DEF SharedInv, Types, Busy

LEMMA CutLengthInv == ASSUME SharedInv, NEW p \in Appender, CutLength(p) PROVE SharedInv'
<1>1. PICK E, a : E = index[p] /\ a = at[p]
  OBVIOUS
<1>2. PICK f : f = inodes[handle[p]]
  OBVIOUS
<1>3. /\ pc[p] = "length" /\ pc' = [pc EXCEPT ![p] = "rename"]
      /\ inodes' = [inodes EXCEPT ![handle[p]] = SetLen(f, a + Len(E) + FooterSize)]
      /\ UNCHANGED <<names, from, handle, index, at, result>>
  <2>1. handle[p] \in DOMAIN inodes
    BY DEF SharedInv, Types, Run
  <2> QED BY <2>1, <1>1, <1>2 DEF CutLength, At
<1>4. Packed(E, a) /\ f.chunks = FileOf(E, a).chunks
  BY <1>1, <1>2, <1>3 DEF SharedInv, Stage
<1>5. inodes' = [inodes EXCEPT ![handle[p]] = FileOf(E, a)]
  BY <1>3, <1>4, LengthIsCut
<1>6. /\ inodes'[handle[p]] = FileOf(E, a) /\ Arch' = Arch /\ DOMAIN inodes' = Inode
      /\ \A r \in Reader : inodes'[handle[r]] = inodes[handle[r]]
  BY <1>3, <1>5, Private DEF Busy
<1>7. pc'[p] = "rename"
  BY <1>3 DEF SharedInv, Types, Run
<1>8. Stage(p)'
  BY <1>1, <1>3, <1>6, <1>7 DEF SharedInv, Stage, Busy
<1> QED BY <1>3, <1>6, <1>8, AppenderStep DEF SharedInv, Types, Busy

(* A run that ends and leaves the names: a copy that fails, a kill.          *)
LEMMA LeavesInv ==
    ASSUME SharedInv, NEW p \in Appender, CopyFails(p) \/ Killed(p)
    PROVE  SharedInv'
<1>1. PICK how \in {"error", "killed"} : result' = [result EXCEPT ![p] = how]
  BY DEF CopyFails, Killed
<1>2. /\ pc[p] \in Busy /\ pc' = [pc EXCEPT ![p] = "done"]
      /\ UNCHANGED <<names, inodes, from, handle, index, at>>
  BY DEF CopyFails, Killed, At, SharedInv, Stage, Busy
<1>3. p \in Run /\ p \notin Reader
  BY RunAssumption DEF Run
<1>4. pc'[p] = "done" /\ Arch' = Arch
  BY <1>2, <1>3 DEF SharedInv, Types, Arch
<1>5. Stage(p)'
  BY <1>4 DEF Stage, Busy
<1>6. /\ DOMAIN result' = Run /\ \A r \in Reader : result'[r] = result[r]
      /\ \A q \in Appender : result'[q] = "ok" => result[q] = "ok"
  BY <1>1, <1>3 DEF SharedInv, Types, Run
<1> QED BY <1>2, <1>4, <1>5, <1>6, AppenderStep DEF SharedInv, Types, Busy

(* The first call of a run, with every other one at its start or its end.    *)
LEMMA CopyBeginInv ==
    ASSUME ~Overlap, SharedInv, NEW p \in Appender, CopyBegin(p)
    PROVE  SharedInv'
<1>1. PICK tmp : tmp = IF names["tmp"] = None THEN p ELSE names["tmp"]
  OBVIOUS
<1>2. /\ pc[p] = "start" /\ pc' = [pc EXCEPT ![p] = "copy"]
      /\ \A q \in Appender : pc[q] \in {"start", "done"}
      /\ names' = [names EXCEPT !["tmp"] = tmp]
      /\ inodes' = [inodes EXCEPT ![tmp] = EmptyFile]
      /\ handle' = [handle EXCEPT ![p] = tmp]
      /\ from' = [from EXCEPT ![p] = names["arch"]]
      /\ UNCHANGED <<index, at, result>>
  BY <1>1 DEF CopyBegin, At
<1>3. p \in Run /\ p \notin Reader /\ Appender \subseteq Run /\ Reader \subseteq Run
      /\ p # None /\ p \in Inode
  BY RunAssumption DEF Run, Inode
<1>4. /\ tmp \in Inode /\ tmp # None /\ tmp # names["arch"]
      /\ \A r \in Reader : handle[r] # tmp
  <2>1. CASE names["tmp"] = None
    BY <2>1, <1>1, <1>2, <1>3 DEF SharedInv, Fresh
  <2>2. CASE names["tmp"] # None
    BY <2>2, <1>1 DEF SharedInv, Types, Apart
  <2> QED BY <2>1, <2>2
<1>5. /\ names'["arch"] = names["arch"] /\ names'["tmp"] = tmp
      /\ DOMAIN names' = {"arch", "tmp"}
  BY <1>2 DEF SharedInv, Types
<1>6. /\ inodes'[tmp] = EmptyFile /\ DOMAIN inodes' = Inode
      /\ \A i \in Inode : i # tmp => inodes'[i] = inodes[i]
  BY <1>2, <1>4 DEF SharedInv, Types
<1>7. handle' \in [Run -> Inode] /\ handle'[p] = tmp
      /\ \A r \in Reader : handle'[r] = handle[r] /\ handle[r] \in Inode
  BY <1>2, <1>3, <1>4 DEF SharedInv, Types
<1>8. pc'[p] = "copy" /\ DOMAIN pc' = Run /\ \A r \in Run : r # p => pc'[r] = pc[r]
  BY <1>2, <1>3 DEF SharedInv, Types
<1>9. Arch' = Arch
  BY <1>4, <1>5, <1>6 DEF Arch, SharedInv, Types
<1>10. Types'
  <2>1. names'["arch"] \in Inode /\ names'["tmp"] \in Inode \cup {None}
    BY <1>4, <1>5 DEF SharedInv, Types
  <2>2. DOMAIN from' = Appender /\ DOMAIN index' = Run /\ DOMAIN at' = Appender
        /\ DOMAIN result' = Run
    BY <1>2 DEF SharedInv, Types
  <2> QED BY <2>1, <2>2, <1>5, <1>6, <1>7, <1>8 DEF Types
<1>11. ASSUME NEW q \in Appender PROVE Stage(q)'
  <2>1. CASE q = p
    <3>1. from'[p] = names'["arch"]
      BY <1>2, <1>5 DEF SharedInv, Types
    <3> QED BY <2>1, <3>1, <1>4, <1>5, <1>6, <1>7, <1>8 DEF Stage, Busy
  <2>2. CASE q # p
    <3>1. pc'[q] \in {"start", "done"}
      BY <2>2, <1>2, <1>3, <1>8
    <3> QED BY <3>1 DEF Stage, Busy
  <2> QED BY <2>1, <2>2
<1>12. Alone'
  BY <1>2, <1>3, <1>8 DEF Alone, Busy
<1>13. Fresh'
  <2>1. ASSUME NEW q \in Appender, pc'[q] = "start"
        PROVE  q # names'["arch"] /\ q # names'["tmp"] /\ \A r \in Reader : handle'[r] # q
    <3>1. q # p /\ pc[q] = "start"
      BY <2>1, <1>3, <1>8
    <3>2. q # names["arch"] /\ q # names["tmp"] /\ \A r \in Reader : handle[r] # q
      BY <3>1 DEF SharedInv, Fresh
    <3> QED BY <3>1, <3>2, <1>1, <1>5, <1>7
  <2> QED BY <2>1 DEF Fresh
<1>14. Apart'
  BY <1>4, <1>5, <1>7 DEF Apart
<1>15. ReadersFine'
  <2>1. \A r \in Reader : inodes'[handle'[r]] = inodes[handle[r]] /\ pc'[r] = pc[r]
    BY <1>3, <1>4, <1>6, <1>7, <1>8
  <2> QED BY <2>1, <1>2 DEF SharedInv, ReadersFine
<1>16. IsArchive(Arch)' /\ Kept'
  BY <1>2, <1>9 DEF SharedInv, Kept
<1> QED BY <1>10, <1>11, <1>12, <1>13, <1>14, <1>15, <1>16 DEF SharedInv

(* A run that ends and takes the .tmp file's name away.                      *)
LEMMA EndStep ==
    ASSUME SharedInv, NEW p \in Appender, pc[p] \in Busy,
           NEW arch \in Inode, arch = names["arch"] \/ arch = names["tmp"],
           NEW how \in {"ok", "error"},
           pc' = [pc EXCEPT ![p] = "done"], result' = [result EXCEPT ![p] = how],
           DOMAIN names' = {"arch", "tmp"}, names'["arch"] = arch, names'["tmp"] = None,
           UNCHANGED <<inodes, from, handle, index, at>>,
           IsArchive(inodes[arch]),
           Ids(LoadedIndex(Arch)) \subseteq Ids(LoadedIndex(inodes[arch])),
           how = "ok" => NewId[p] \in Ids(LoadedIndex(inodes[arch]))
    PROVE  SharedInv'
<1>1. p \in Run /\ p \notin Reader /\ Appender \subseteq Run /\ Reader \subseteq Run
  BY RunAssumption DEF Run
<1>2. Original # None /\ None \notin Inode
  BY RunAssumption DEF Inode, Original, None
<1>3. pc'[p] = "done" /\ DOMAIN pc' = Run /\ \A r \in Run : r # p => pc'[r] = pc[r]
  BY <1>1 DEF SharedInv, Types
<1>4. /\ result'[p] = how /\ DOMAIN result' = Run
      /\ \A r \in Run : r # p => result'[r] = result[r]
  BY <1>1 DEF SharedInv, Types
<1>5. Arch' = inodes[arch]
  BY DEF Arch
<1>6. Types'
  BY <1>3, <1>4 DEF SharedInv, Types
<1>7. ASSUME NEW q \in Appender PROVE pc'[q] \in {"start", "done"}
  BY <1>1, <1>3, OthersIdle
<1>8. (\A q \in Appender : Stage(q)') /\ Alone'
  BY <1>7 DEF Stage, Alone, Busy
<1>9. Fresh'
  <2>1. ASSUME NEW q \in Appender, pc'[q] = "start"
        PROVE  q # names'["arch"] /\ q # names'["tmp"] /\ \A r \in Reader : handle'[r] # q
    <3>1. q # p /\ pc[q] = "start"
      BY <2>1, <1>1, <1>3
    <3>2. q # names["arch"] /\ q # names["tmp"] /\ \A r \in Reader : handle[r] # q
      BY <3>1 DEF SharedInv, Fresh
    <3>3. q # None
      BY RunAssumption
    <3> QED BY <3>2, <3>3
  <2> QED BY <2>1 DEF Fresh
<1>10. Apart'
  BY <1>1, <1>2 DEF SharedInv, Types, Apart
<1>11. ReadersFine'
  BY <1>1, <1>3, <1>4 DEF SharedInv, ReadersFine
<1>12. IsArchive(Arch)'
  BY <1>5
<1>13. Kept'
  <2>1. Ids(LoadedIndex(Arch))' = Ids(LoadedIndex(inodes[arch]))
    BY <1>5
  <2>2. ASSUME NEW q \in Appender, result'[q] = "ok"
        PROVE  NewId[q] \in Ids(LoadedIndex(inodes[arch]))
    BY <2>2, <1>1, <1>4 DEF SharedInv, Kept
  <2> QED BY <2>1, <2>2 DEF Kept
<1> QED BY <1>6, <1>8, <1>9, <1>10, <1>11, <1>12, <1>13 DEF SharedInv

LEMMA RenameInv == ASSUME SharedInv, NEW p \in Appender, Rename(p) PROVE SharedInv'
<1>1. PICK E, a, tmp : E = index[p] /\ a = at[p] /\ tmp = names["tmp"]
  OBVIOUS
<1>2. /\ pc[p] = "rename" /\ pc' = [pc EXCEPT ![p] = "done"] /\ tmp # None
      /\ names' = [arch |-> tmp, tmp |-> None] /\ result' = [result EXCEPT ![p] = "ok"]
      /\ UNCHANGED <<inodes, from, handle, index, at>>
  BY <1>1 DEF Rename, At
<1>3. /\ Packed(E, a) /\ inodes[tmp] = FileOf(E, a)
      /\ Ids(LoadedIndex(Arch)) \cup {NewId[p]} \subseteq Ids(E)
  BY <1>1, <1>2 DEF SharedInv, Stage, Busy
<1>4. LoadedIndex(inodes[tmp]) = E /\ IsArchive(inodes[tmp])
  BY <1>3, ArchiveLoads DEF IsArchive
<1>5. tmp \in Inode
  BY <1>1, <1>2 DEF SharedInv, Types
<1>6. DOMAIN names' = {"arch", "tmp"} /\ names'["arch"] = tmp /\ names'["tmp"] = None
  BY <1>2
<1> QED BY <1>1, <1>2, <1>3, <1>4, <1>5, <1>6, EndStep DEF Busy

LEMMA FailsInv == ASSUME SharedInv, NEW p \in Appender, Fails(p) PROVE SharedInv'
<1>1. /\ pc[p] \in Busy /\ pc' = [pc EXCEPT ![p] = "done"]
      /\ names' = [names EXCEPT !["tmp"] = None] /\ result' = [result EXCEPT ![p] = "error"]
      /\ UNCHANGED <<inodes, from, handle, index, at>>
  BY DEF Fails, Busy
<1>2. PICK arch : arch = names["arch"]
  OBVIOUS
<1>3. arch \in Inode /\ Arch = inodes[arch] /\ IsArchive(inodes[arch])
  BY <1>2 DEF SharedInv, Types, Arch
<1>4. DOMAIN names' = {"arch", "tmp"} /\ names'["arch"] = arch /\ names'["tmp"] = None
  BY <1>1, <1>2 DEF SharedInv, Types
<1> QED BY <1>1, <1>2, <1>3, <1>4, EndStep

-----------------------------------------------------------------------------
(* A reader writes nothing.                                                  *)
LEMMA ReaderInv ==
    ASSUME SharedInv, NEW r \in Reader, ReaderStep(r)
    PROVE  SharedInv'
<1>1. /\ UNCHANGED <<names, inodes, from, at>> /\ Arch' = Arch
      /\ \E x : pc' = [pc EXCEPT ![r] = x]
      /\ handle' = handle \/ \E x : handle' = [handle EXCEPT ![r] = x]
      /\ index' = index \/ \E x : index' = [index EXCEPT ![r] = x]
      /\ result' = result \/ \E x : result' = [result EXCEPT ![r] = x]
  BY DEF ReaderStep, ReaderOpens, ReaderLoads, ReaderReads, At, Arch
<1>2. r \in Run /\ r \notin Appender /\ Appender \subseteq Run /\ Reader \subseteq Run
  BY RunAssumption DEF Run
<1>3. /\ DOMAIN pc' = Run /\ DOMAIN handle' = Run /\ DOMAIN index' = Run
      /\ DOMAIN result' = Run
      /\ \A q \in Run : q # r => /\ pc'[q] = pc[q] /\ handle'[q] = handle[q]
                                 /\ index'[q] = index[q] /\ result'[q] = result[q]
  BY <1>1 DEF SharedInv, Types
<1>4. handle'[r] = handle[r] \/ handle'[r] = names["arch"]
  BY <1>2 DEF ReaderStep, ReaderOpens, ReaderLoads, ReaderReads, SharedInv, Types
<1>5. PICK h : h = handle'[r]
  OBVIOUS
<1>6. h \in Inode /\ IsArchive(inodes[h]) /\ h # names["tmp"]
      /\ \A q \in Appender : pc[q] = "start" => h # q
  BY <1>2, <1>4, <1>5 DEF SharedInv, Types, ReadersFine, Apart, Fresh, Arch
<1>7. Loadable(inodes[h]) /\ Intact(inodes[h], LoadedIndex(inodes[h]))
  <2>1. PICK f : f = inodes[h]
    OBVIOUS
  <2>2. PICK E \in Seq(BlockEntry) : \E o \in Nat : Packed(E, o) /\ f = FileOf(E, o)
    BY <1>6, <2>1 DEF IsArchive
  <2>3. PICK o \in Nat : Packed(E, o) /\ f = FileOf(E, o)
    BY <2>2
  <2>4. Loadable(f) /\ LoadedIndex(f) = E /\ Intact(f, E)
    BY <2>3, ArchiveLoads
  <2> QED BY <2>1, <2>4
<1>8. /\ pc'[r] \in {"start", "load", "blocks", "done"} /\ result'[r] # "error"
      /\ pc'[r] = "blocks" => index'[r] = LoadedIndex(inodes[h])
  <2>1. result[r] # "error" /\ pc[r] = "blocks" => index[r] = LoadedIndex(inodes[handle[r]])
    BY DEF SharedInv, ReadersFine
  <2>2. result[r] # "error"
    BY DEF SharedInv, ReadersFine
  <2>3. CASE ReaderOpens(r)
    BY <2>2, <2>3, <1>2 DEF ReaderOpens, At, SharedInv, Types
  <2>4. CASE ReaderLoads(r)
    <3>1. h = handle[r]
      BY <2>4, <1>5 DEF ReaderLoads
    <3>2. pc' = [pc EXCEPT ![r] = "blocks"] /\ result' = result
          /\ index' = [index EXCEPT ![r] = LoadedIndex(inodes[h])]
      BY <2>4, <3>1, <1>7 DEF ReaderLoads
    <3> QED BY <3>2, <2>2, <1>2 DEF SharedInv, Types
  <2>5. CASE ReaderReads(r)
    <3>1. h = handle[r] /\ pc[r] = "blocks" /\ pc' = [pc EXCEPT ![r] = "done"]
          /\ result' = [result EXCEPT ![r] =
                 IF Intact(inodes[handle[r]], index[r]) THEN "ok" ELSE "error"]
      BY <2>5, <1>5 DEF ReaderReads, At
    <3>2. index[r] = LoadedIndex(inodes[h])
      BY <3>1, <2>1, <2>2
    <3>3. result' = [result EXCEPT ![r] = "ok"]
      BY <3>1, <3>2, <1>7
    <3> QED BY <3>1, <3>3, <1>2 DEF SharedInv, Types
  <2> QED BY <2>3, <2>4, <2>5 DEF ReaderStep
<1>9. Types'
  <2>1. handle' \in [Run -> Inode]
    BY <1>1, <1>2, <1>5, <1>6 DEF SharedInv, Types
  <2> QED BY <2>1, <1>1, <1>3 DEF SharedInv, Types
<1>10. \A p \in Appender :
         /\ pc'[p] = pc[p] /\ handle'[p] = handle[p] /\ index'[p] = index[p]
         /\ result'[p] = result[p]
  BY <1>2, <1>3
<1>11. \A p \in Appender : Stage(p)'
  BY <1>1, <1>10 DEF SharedInv, Stage
<1>12. Alone' /\ Kept' /\ IsArchive(Arch)'
  BY <1>1, <1>10 DEF SharedInv, Alone, Kept
<1>13. Fresh' /\ Apart'
  <2>1. \A q \in Reader : handle'[q] = handle[q] \/ handle'[q] = h
    BY <1>2, <1>3, <1>5
  <2> QED BY <2>1, <1>1, <1>6, <1>10 DEF SharedInv, Fresh, Apart
<1>14. ReadersFine'
  <2>1. ASSUME NEW q \in Reader
        PROVE  /\ pc'[q] \in {"start", "load", "blocks", "done"}
               /\ IsArchive(inodes[handle'[q]])
               /\ pc'[q] = "blocks" => index'[q] = LoadedIndex(inodes[handle'[q]])
               /\ result'[q] # "error"
    <3>1. CASE q = r
      BY <3>1, <1>5, <1>6, <1>8
    <3>2. CASE q # r
      BY <3>2, <1>2, <1>3 DEF SharedInv, ReadersFine
    <3> QED BY <3>1, <3>2
  <2> QED BY <2>1, <1>1 DEF ReadersFine
<1> QED BY <1>9, <1>11, <1>12, <1>13, <1>14 DEF SharedInv

LEMMA NextInv == ASSUME ~Overlap, SharedInv, [Next]_vars PROVE SharedInv'
<1>1. ASSUME NEW p \in Appender, AppendStep(p) \/ Killed(p) PROVE SharedInv'
  BY <1>1, CopyBeginInv, CopyDataInv, OpenTmpInv, LoadInv, WriteBlockInv, WriteIndexInv,
     CutLengthInv, RenameInv, FailsInv, LeavesInv DEF AppendStep
<1>2. ASSUME NEW r \in Reader, ReaderStep(r) PROVE SharedInv'
  BY <1>2, ReaderInv
<1>3. CASE UNCHANGED vars
  BY <1>3 DEF vars, SharedInv, Types, Stage, Alone, Fresh, Apart, ReadersFine, Kept, Arch
<1> QED BY <1>1, <1>2, <1>3 DEF Next, AllEnded

(* Appends that do not overlap work on a file that is neither the archive    *)
(* nor open in a reader, whatever fails: append.rs:23-209, reader.rs:27-46.  *)
THEOREM Invariant == ASSUME ~Overlap PROVE Spec => []SharedInv
<1>1. ASSUME SharedInv, [Next]_vars PROVE SharedInv'
  BY <1>1, NextInv
<1> QED BY <1>1, InitInv, PTL DEF Spec

(* No append that has reported success is lost by a later one, which may     *)
(* fail or be killed at any point: append.rs:36-209.                         *)
THEOREM NoAppendIsLost == ASSUME ~Overlap PROVE Spec => []NoAppendLost
<1>1. SharedInv => NoAppendLost
  <2> SUFFICES ASSUME SharedInv PROVE NoAppendLost
    OBVIOUS
  <2>1. PICK E \in Seq(BlockEntry) : \E o \in Nat : Packed(E, o) /\ Arch = FileOf(E, o)
    BY DEF SharedInv, IsArchive
  <2>2. PICK o \in Nat : Packed(E, o) /\ Arch = FileOf(E, o)
    BY <2>1
  <2>3. Loadable(Arch) /\ LoadedIndex(Arch) = E /\ DOMAIN E = 1..Len(E)
    BY <2>2, ArchiveLoads
  <2>4. Held = Ids(E)
    BY <2>3 DEF Held, Ids
  <2> QED BY <2>3, <2>4 DEF SharedInv, Kept, NoAppendLost
<1> QED BY <1>1, Invariant, PTL

(* A reader beside the appends finds the index and the blocks of the archive *)
(* that it opened: reader.rs:27-46, append.rs:200-209.                       *)
THEOREM ReadersAreUndisturbed == ASSUME ~Overlap PROVE Spec => []ReadersUndisturbed
<1>1. SharedInv => ReadersUndisturbed
  BY DEF SharedInv, ReadersFine, ReadersUndisturbed
<1> QED BY <1>1, Invariant, PTL

(* README: append never writes to the archive in place.  When appends do not *)
(* overlap it is so: append.rs:36-59, 200-209.                               *)
THEOREM NeverInPlaceAlone == ASSUME ~Overlap PROVE Spec => NeverInPlace
<1>1. ASSUME SharedInv, [Next]_vars
      PROVE  inodes'[names["arch"]] = inodes[names["arch"]]
  <2>0. /\ DOMAIN inodes = Inode /\ names["arch"] \in Inode /\ names["tmp"] # names["arch"]
    BY <1>1 DEF SharedInv, Types, Apart
  <2>1. ASSUME NEW p \in Appender, CopyBegin(p)
        PROVE  inodes'[names["arch"]] = inodes[names["arch"]]
    <3>1. pc[p] = "start" /\ \E t \in {p, names["tmp"]} :
            inodes' = [inodes EXCEPT ![t] = EmptyFile]
      BY <2>1 DEF CopyBegin, At
    <3>2. p # names["arch"]
      BY <1>1, <3>1 DEF SharedInv, Fresh
    <3> QED BY <2>0, <3>1, <3>2
  <2>2. ASSUME NEW p \in Appender,
               CopyData(p) \/ WriteBlock(p) \/ WriteIndex(p) \/ CutLength(p)
        PROVE  inodes'[names["arch"]] = inodes[names["arch"]]
    <3>1. pc[p] \in Busy /\ \E x : inodes' = [inodes EXCEPT ![handle[p]] = x]
      BY <2>2 DEF CopyData, WriteBlock, WriteIndex, CutLength, At, Busy
    <3>2. handle[p] = names["tmp"]
      BY <1>1, <3>1 DEF SharedInv, Stage
    <3> QED BY <2>0, <3>1, <3>2
  <2>3. ASSUME NEW p \in Appender,
               OpenTmp(p) \/ Load(p) \/ Rename(p) \/ Fails(p) \/ CopyFails(p) \/ Killed(p)
        PROVE  inodes' = inodes
    BY <2>3 DEF OpenTmp, Load, Rename, Fails, CopyFails, Killed
  <2>4. ASSUME NEW r \in Reader, ReaderStep(r) PROVE inodes' = inodes
    BY <2>4 DEF ReaderStep, ReaderOpens, ReaderLoads, ReaderReads
  <2>5. CASE UNCHANGED vars
    BY <2>5 DEF vars
  <2> QED BY <1>1, <2>1, <2>2, <2>3, <2>4, <2>5 DEF Next, AppendStep, AllEnded
<1>2. SharedInv /\ [Next]_vars
        => [names'["arch"] = names["arch"]
              => inodes'[names["arch"]] = inodes[names["arch"]]]_vars
  BY <1>1
<1> QED BY <1>2, Invariant, PTL DEF Spec, NeverInPlace
=============================================================================
