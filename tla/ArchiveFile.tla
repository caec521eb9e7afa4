----------------------------- MODULE ArchiveFile -----------------------------
(* An archive on disk, at the level the loader sees it: which piece of the   *)
(* format lies at which bytes.  A file is its length and the chunks that are *)
(* intact in it; writing over part of a chunk destroys that chunk.           *)
EXTENDS Integers, Sequences

(* What a chunk holds.  An index carries its block entries, a footer where   *)
(* the index starts and how long it is.                                      *)
Header == [kind |-> "header"]
BlockData(id) == [kind |-> "block", id |-> id]
IndexData(entries) == [kind |-> "index", block |-> entries]
FooterData(offset, stored) ==
    [kind |-> "footer", index_offset |-> offset, index_size_stored |-> stored]

(* The footer is 29 bytes whatever the archive; a unit is enough here.       *)
FooterSize == 1

(* One entry of Index.block.  "id" is the block that its nonce, checksum and *)
(* size_plain describe.                                                      *)
Entry(offset, stored, id) ==
    [offset |-> offset, size_stored |-> stored, id |-> id]
BlockEntry == [offset : Nat, size_stored : Nat, id : Nat]

What ==
    {Header} \cup [kind : {"block"}, id : Nat]
        \cup [kind : {"index"}, block : Seq(BlockEntry)]
        \cup [kind : {"footer"}, index_offset : Nat, index_size_stored : Nat]
AnyChunk == [off : Nat, len : Nat, what : What]
AnyFile == [len : Nat, chunks : SUBSET AnyChunk]

Chunk(offset, n, what) == [off |-> offset, len |-> n, what |-> what]
End(c) == c.off + c.len
Disjoint(c, d) == End(c) <= d.off \/ End(d) <= c.off

EmptyFile == [len |-> 0, chunks |-> {}]

(* write(2) of one chunk at its offset. *)
WriteChunk(f, c) ==
    [len    |-> IF End(c) > f.len THEN End(c) ELSE f.len,
     chunks |-> {d \in f.chunks : Disjoint(c, d)} \cup {c}]

(* ftruncate(2). *)
SetLen(f, n) == [len |-> n, chunks |-> {d \in f.chunks : End(d) <= n}]

(* What the loader finds by reading the header at the start, the last        *)
(* FooterSize bytes, and then the index where the footer says it is.         *)
Footers(f) == {c \in f.chunks : c.what.kind = "footer" /\ End(c) = f.len}
Indexes(f) ==
    {c \in f.chunks :
        /\ c.what.kind = "index"
        /\ \E t \in Footers(f) : /\ t.what.index_offset = c.off
                                 /\ t.what.index_size_stored = c.len}
Loadable(f) ==
    /\ \E h \in f.chunks : h.off = 0 /\ h.what = Header
    /\ Indexes(f) # {}
LoadedIndex(f) == (CHOOSE c \in Indexes(f) : TRUE).what.block

(* Every block that the index lists is where the index says, and entry i     *)
(* describes block i - 1: what verify and extraction need of the file.       *)
Sound(f) ==
    \A i \in 1..Len(LoadedIndex(f)) :
        LET e == LoadedIndex(f)[i]
        IN /\ e.id = i - 1
           /\ Chunk(e.offset, e.size_stored, BlockData(e.id)) \in f.chunks

(* The file is an archive of exactly the blocks 0 .. n-1. *)
HoldsBlocks(f, n) == Loadable(f) /\ Len(LoadedIndex(f)) = n /\ Sound(f)
=============================================================================
