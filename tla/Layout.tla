------------------------------- MODULE Layout -------------------------------
(* How files become blocks and come back.  The main thread reads the entries *)
(* one after the other into one stream of bytes and cuts the stream into     *)
(* blocks, regardless of where files end; an append continues the stream in  *)
(* a new block.  Extraction finds a file's bytes from its offset in the      *)
(* stream and the plain sizes of the blocks.                                 *)
EXTENDS Lists, FiniteSets, SequencesExt, Word32

CONSTANTS
    BlockSize,     \* the archive's block size, any u64 that --bs accepts
    Inputs,        \* the listings (sequences of input entries) a command may get
    MaxSessions    \* bound: compress and the appends after it

ASSUME BlockSizeAssumption == BlockSize \in Nat
ASSUME MaxSessionsAssumption == MaxSessions \in Nat \ {0}

(* An input entry: its metadata says "size", reading it gives "actual" bytes *)
(* (they differ when the file changes in between).                           *)
InputEntry == [path : STRING, ftype : {"File", "Dir", "Symlink"}, size : Nat, actual : Nat]
ASSUME InputsAssumption == Inputs \subseteq Seq(InputEntry)

VARIABLES
    session,          \* 1 is compress, the others are appends
    pc,               \* "next" entry, "reading" one, "stored", "failed"
    todo,             \* entries not yet read
    rest,             \* bytes of the current file not yet read
    files,            \* index.files
    contents,         \* what each entry's file held when it was read (history)
    stream_position,    \* of the command that runs
    total_stream_size,  \* of the index, on disk once the archive is stored
    pending_buffer,   \* bytes not yet in a block
    blocks            \* the plain data of every block, by block id

vars == <<session, pc, todo, rest, files, contents, stream_position,
          total_stream_size, pending_buffer, blocks>>

(* Every byte is told apart: whose it is, from which session, and which one. *)
Bytes(e) == [k \in 1..e.actual |-> <<session, e.path, k>>]

FileEntry(e, offset) ==
    [path |-> e.path, ftype |-> e.ftype, stream_offset |-> offset,
     size |-> IF e.ftype = "File" THEN e.size ELSE 0]

Init ==
    /\ session = 1 /\ pc = "next" /\ todo \in Inputs /\ rest = <<>>
    /\ files = <<>> /\ contents = <<>> /\ stream_position = 0
    /\ total_stream_size = 0 /\ pending_buffer = <<>> /\ blocks = <<>>

-----------------------------------------------------------------------------
(* The entry is recorded with its metadata; a regular file is then opened.   *)
BeginEntry ==
    /\ pc = "next" /\ todo # <<>>
    /\ LET e == Head(todo)
       IN /\ files' = Append(files, FileEntry(e, stream_position))
          /\ contents' = Append(contents, Bytes(e))
          /\ rest' = IF e.ftype = "File" THEN Bytes(e) ELSE <<>>
          /\ pc' = IF e.ftype = "File" THEN "reading" ELSE "next"
    /\ todo' = Tail(todo)
    /\ UNCHANGED <<session, stream_position, total_stream_size, pending_buffer, blocks>>

(* Whole blocks leave the front of the pending bytes. *)
WholeBlocks(bytes) == Len(bytes) \div BlockSize
CutBlocks(bytes) ==
    [i \in 1..WholeBlocks(bytes) |->
        SubSeq(bytes, (i - 1) * BlockSize + 1, i * BlockSize)]

Uncut(bytes) == SubSeq(bytes, WholeBlocks(bytes) * BlockSize + 1, Len(bytes))

(* One read returns between one byte and a chunk of BlockSize. *)
ReadChunk ==
    /\ pc = "reading"
    /\ \E n \in 1..BlockSize :
         /\ n <= Len(rest)
         /\ LET chunk == SubSeq(rest, 1, n)
                bytes == pending_buffer \o chunk
            IN /\ blocks' = blocks \o CutBlocks(bytes)
               /\ pending_buffer' = Uncut(bytes)
         /\ rest' = SubSeq(rest, n + 1, Len(rest))
         /\ stream_position' = stream_position + n
    /\ UNCHANGED <<session, pc, todo, files, contents, total_stream_size>>

(* read returns 0: the end of the file, or a chunk that has no room. *)
ReadEnd ==
    /\ pc = "reading"
    /\ rest = <<>> \/ BlockSize = 0
    /\ pc' = "next" /\ rest' = <<>>
    /\ UNCHANGED <<session, todo, files, contents, stream_position, total_stream_size,
                   pending_buffer, blocks>>

(* The entry's metadata or link, its opening, or a read. *)
ReadFails ==
    /\ pc = "reading" \/ (pc = "next" /\ todo # <<>>)
    /\ pc' = "failed"
    /\ UNCHANGED <<session, todo, rest, files, contents, stream_position,
                   total_stream_size, pending_buffer, blocks>>

(* Mutant: an empty rest becomes a block, too. *)
FlushEvenEmpty ==
    /\ pc = "next" /\ todo = <<>>
    /\ blocks' = Append(blocks, pending_buffer)
    /\ pending_buffer' = <<>>
    /\ total_stream_size' = stream_position /\ pc' = "stored"
    /\ UNCHANGED <<session, todo, rest, files, contents, stream_position>>

(* After the last entry what is pending becomes a last, shorter block, and   *)
(* Finalize hands the position to the writer, whose finish records it.       *)
FlushPending ==
    /\ pc = "next" /\ todo = <<>>
    /\ blocks' = IF pending_buffer = <<>> THEN blocks ELSE Append(blocks, pending_buffer)
    /\ pending_buffer' = <<>>
    /\ total_stream_size' = stream_position /\ pc' = "stored"
    /\ UNCHANGED <<session, todo, rest, files, contents, stream_position>>

(* Append: entries whose path the archive has, or which the listing has had  *)
(* before, are skipped; the stream goes on where the index says it ended.    *)
Seen == {files[i].path : i \in DOMAIN files}
NewEntries(listing) ==
    LET Fresh(i) == /\ listing[i].path \notin Seen
                    /\ \A j \in 1..(i-1) : listing[j].path # listing[i].path
        kept == Sift([i \in 1..Len(listing) |-> i], {i \in 1..Len(listing) : Fresh(i)})
    IN [k \in 1..Len(kept) |-> listing[kept[k]]]

(* Mutant: the stream is taken to end where the last file's data does. *)
BeginAppendBehindFile ==
    /\ pc = "stored" /\ session < MaxSessions
    /\ session' = session + 1 /\ pc' = "next"
    /\ \E listing \in Inputs : todo' = NewEntries(listing)
    /\ stream_position' =
          IF files = <<>> THEN 0 ELSE Last(files).stream_offset + Last(files).size
    /\ UNCHANGED <<rest, files, contents, total_stream_size, pending_buffer, blocks>>

BeginAppend ==
    /\ pc = "stored" /\ session < MaxSessions
    /\ session' = session + 1 /\ pc' = "next"
    /\ \E listing \in Inputs : todo' = NewEntries(listing)
    /\ stream_position' = total_stream_size
    /\ UNCHANGED <<rest, files, contents, total_stream_size, pending_buffer, blocks>>

Finished ==
    /\ pc = "failed" \/ (pc = "stored" /\ session = MaxSessions)
    /\ UNCHANGED vars

Next ==
    \/ BeginEntry \/ ReadChunk \/ ReadEnd \/ ReadFails \/ FlushPending
    \/ BeginAppend \/ Finished

Spec == Init /\ [][Next]_vars

-----------------------------------------------------------------------------
(* Extraction.                                                               *)
SizePlain(i) == AsU32(Len(blocks[i]))

StreamEnd(i) == UpTo([j \in 1..Len(blocks) |-> SizePlain(j)], i)

BlockRange(i) == [start |-> StreamEnd(i-1), end |-> StreamEnd(i)]

(* Mutant: the partition point one block early at a boundary. *)
FirstBlockEarly(f) ==
    1 + Cardinality({i \in DOMAIN blocks : BlockRange(i).end < f.stream_offset})

(* The first block that ends behind the file's start, and then one after the *)
(* other for as long as they overlap the file.                               *)
FirstBlock(f) ==
    1 + Cardinality({i \in DOMAIN blocks : BlockRange(i).end <= f.stream_offset})
Overlaps(f, i) ==
    /\ BlockRange(i).end > f.stream_offset
    /\ BlockRange(i).start < f.stream_offset + f.size
BlocksOf(f) ==
    {i \in FirstBlock(f)..Len(blocks) : \A j \in FirstBlock(f)..i : Overlaps(f, j)}

(* read_block: the sizes in the index must be those of the data. *)
Readable(i) == SizePlain(i) <= BlockSize /\ Len(blocks[i]) = SizePlain(i)

TakeStart(f, i) ==
    IF f.stream_offset > BlockRange(i).start THEN f.stream_offset - BlockRange(i).start
    ELSE 0
TakeEnd(f, i) ==
    (IF f.stream_offset + f.size < BlockRange(i).end THEN f.stream_offset + f.size
     ELSE BlockRange(i).end) - BlockRange(i).start
Slice(f, i) == SubSeq(blocks[i], TakeStart(f, i) + 1, TakeEnd(f, i))

ExtractOk(f) == \A i \in BlocksOf(f) : Readable(i) /\ TakeStart(f, i) <= TakeEnd(f, i)
Extracted(f) ==
    FlattenSeq([k \in 1..Cardinality(BlocksOf(f)) |-> Slice(f, FirstBlock(f) + k - 1)])

-----------------------------------------------------------------------------
RegularFile(i) == files[i].ftype = "File"
(* The file has at least the bytes its metadata promised. *)
NotShrunk(i) == files[i].size <= Len(contents[i])

(* Whatever the sizes, the short reads and the appends, extraction gives for *)
(* each regular file the bytes it had, up to the size that its metadata      *)
(* promised (tests: "every file comes back byte for byte").          *)
RoundTrip ==
    pc = "stored" =>
        \A i \in DOMAIN files : RegularFile(i) /\ NotShrunk(i) =>
            /\ ExtractOk(files[i])
            /\ Extracted(files[i]) = SubSeq(contents[i], 1, files[i].size)

(* The position that compress counts, and that append takes from the index   *)
(* and counts on, is the reader's (the sum of the plain sizes) at any time.  *)
StreamAccounting == StreamEnd(Len(blocks)) + Len(pending_buffer) = stream_position

(* A block has at least one byte and never more than the block size that     *)
(* read_block allows, and at most one short block is made per command.       *)
BlocksFit ==
    /\ \A i \in DOMAIN blocks : Len(blocks[i]) \in 1..BlockSize
    /\ Cardinality({i \in DOMAIN blocks : Len(blocks[i]) < BlockSize}) <= session

=============================================================================
