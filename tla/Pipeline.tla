------------------------------ MODULE Pipeline ------------------------------
(* The three stages that compress and append share: the main thread sends    *)
(* raw blocks, a rayon pool compresses and encrypts them in any order, and   *)
(* one writer thread puts them back in order, writes them and finally writes *)
(* the index and the footer.  This module has the state of the pipeline and  *)
(* one action per step of each stage; Compress and Append add the main       *)
(* thread's control and the file system.                                     *)
EXTENDS ArchiveFile, Word32

CONSTANTS
    HeaderSize,   \* bytes an archive starts with, before block 0
    Worker,       \* threads of the rayon pool
    StoredSizes,  \* lengths a processed block can have
    IndexSizes,   \* lengths a serialized, compressed, encrypted index can have
    MaxBlocks,    \* bound: blocks one command produces
    Faults        \* what the environment may make fail, a subset of AnyFault

AnyFault == {"read", "process", "write", "finish", "unlink", "copy", "retrieve",
             "rename", "crash"}

ASSUME WorkerAssumption == Worker # {}
ASSUME HeaderAssumption == HeaderSize \in Nat
ASSUME SizesAssumption ==   \* an index is never empty
    StoredSizes \subseteq Nat /\ IndexSizes \subseteq Nat \ {0}
(* The index and the footer keep these lengths as u32.  A block is at most   *)
(* the block size, and --bs takes any: of 4 GiB, the length of a block would *)
(* not fit, and what file_position is after it not be where the file ends.   *)
ASSUME SizesFit == \A n \in StoredSizes \cup IndexSizes : n < U32
ASSUME MaxBlocksAssumption == MaxBlocks \in Nat
ASSUME FaultsAssumption == Faults \subseteq AnyFault

VARIABLES
    raw_rx,         \* blocks sent by the reader, not yet taken by a worker
    raw_tx,         \* does the main thread still hold its sender?
    block_id,       \* number of blocks cut: the id of the next
    wpc,            \* per worker: "new", "waiting", "busy" or "stopped"
    task,           \* per worker: the raw block it has
    full,           \* try_for_each has seen an error
    rw_rx,          \* messages sent to the writer, not yet received
    rw_tx,          \* does the main thread still hold its sender?
    writer,         \* where the writer thread is, see WriterState
    block_queue,    \* processed blocks that wait for their turn
    expected_id,    \* the block to write next
    index,          \* arch.index.block
    file_position,  \* where the next block goes
    final_len,      \* length of the finished archive, set by finish
    buffer,         \* chunks in the BufWriter
    file            \* the file the writer has open

rawVars == <<raw_rx, raw_tx, block_id>>
poolVars == <<wpc, task, full>>
msgVars == <<rw_rx, rw_tx>>
writerVars == <<writer, block_queue, expected_id, index, file_position, final_len>>
diskVars == <<buffer, file>>
pipeVars == <<rawVars, poolVars, msgVars, writerVars, diskVars>>

(* The writer is waiting for a message, writing the blocks that are due, in  *)
(* finish() after the footer is buffered, or has returned: "ok" after        *)
(* finish(), "left" when the channel closed without Finalize (also Ok(())),  *)
(* "failed" with an error.                                                   *)
WriterState == {"recv", "drain", "finish", "ok", "left", "failed"}
WriterReturned == writer \in {"ok", "left", "failed"}

BlockMsg(id, n) == [type |-> "Block", id |-> id, size |-> n]
Finalize == [type |-> "Finalize"]
WriterMessage == [type : {"Block"}, id : Nat, size : StoredSizes] \cup {Finalize}
ProcessedBlock == [id : Nat, size : StoredSizes]

(* spawn_workers has returned: every split of the bridge has completed.      *)
PoolDone == \A w \in Worker : wpc[w] = "stopped"

(* The pipeline as it is when the threads start, on an archive whose index   *)
(* has the entries "entries" and whose blocks end at "position".             *)
PipeInit(entries, position, buffered, f) ==
    /\ raw_rx = <<>> /\ raw_tx = TRUE /\ block_id = Len(entries)
    /\ wpc = [w \in Worker |-> "new"]
    /\ task = [w \in Worker |-> 0]
    /\ full = FALSE
    /\ rw_rx = <<>> /\ rw_tx = TRUE
    /\ writer = "recv" /\ block_queue = {} /\ expected_id = Len(entries)
    /\ index = entries /\ file_position = position /\ final_len = 0
    /\ buffer = buffered /\ file = f

-----------------------------------------------------------------------------
(* Main thread: the sending half of the channels.                            *)

(* A block is cut and sent.  The error of a send is dropped: with the pool   *)
(* gone the block disappears.                                                *)
SendRaw ==
    /\ raw_tx
    /\ raw_rx' = IF PoolDone THEN raw_rx ELSE Append(raw_rx, block_id)
    /\ block_id' = block_id + 1
    /\ UNCHANGED <<raw_tx, poolVars, msgVars, writerVars, diskVars>>

DropRawSender ==
    /\ raw_tx' = FALSE
    /\ UNCHANGED <<raw_rx, block_id, poolVars, msgVars, writerVars, diskVars>>

SendFinalize ==
    /\ ~WriterReturned
    /\ rw_rx' = Append(rw_rx, Finalize)
    /\ UNCHANGED <<rw_tx, rawVars, poolVars, writerVars, diskVars>>

DropWriterSender ==
    /\ rw_tx' = FALSE
    /\ UNCHANGED <<rw_rx, rawVars, poolVars, writerVars, diskVars>>

-----------------------------------------------------------------------------
(* Pool.  A split of the parallel bridge starts (not at all once an error is *)
(* known), takes blocks from the shared receiver, and looks at the error     *)
(* flag only after it has consumed a block.                                  *)

WorkerBegin(w) ==
    /\ wpc[w] = "new"
    /\ wpc' = [wpc EXCEPT ![w] = IF full THEN "stopped" ELSE "waiting"]
    /\ UNCHANGED <<task, full, rawVars, msgVars, writerVars, diskVars>>

WorkerTake(w) ==
    /\ wpc[w] = "waiting" /\ raw_rx # <<>>
    /\ task' = [task EXCEPT ![w] = Head(raw_rx)]
    /\ raw_rx' = Tail(raw_rx)
    /\ wpc' = [wpc EXCEPT ![w] = "busy"]
    /\ UNCHANGED <<raw_tx, block_id, full, msgVars, writerVars, diskVars>>

(* The channel is empty and its sender dropped: the iterator ends. *)
WorkerEnd(w) ==
    /\ wpc[w] = "waiting" /\ raw_rx = <<>> /\ ~raw_tx
    /\ wpc' = [wpc EXCEPT ![w] = "stopped"]
    /\ UNCHANGED <<task, full, rawVars, msgVars, writerVars, diskVars>>

(* process_block succeeds and the result is sent; sending fails when the     *)
(* writer has returned and dropped the receiver.                             *)
WorkerSend(w) ==
    /\ wpc[w] = "busy" /\ ~WriterReturned
    /\ \E n \in StoredSizes : rw_rx' = Append(rw_rx, BlockMsg(task[w], n))
    /\ wpc' = [wpc EXCEPT ![w] = IF full THEN "stopped" ELSE "waiting"]
    /\ UNCHANGED <<task, full, rw_tx, rawVars, writerVars, diskVars>>

(* A worker's closure returns an error: it had no receiver to send to, or no *)
(* engine could be made, or compressing or encrypting failed.                *)
WorkerFail(w) ==
    /\ wpc[w] = "busy" /\ (WriterReturned \/ "process" \in Faults)
    /\ full' = TRUE
    /\ wpc' = [wpc EXCEPT ![w] = "stopped"]
    /\ UNCHANGED <<task, rawVars, msgVars, writerVars, diskVars>>

WorkerStep(w) ==
    \/ WorkerBegin(w) \/ WorkerTake(w) \/ WorkerEnd(w)
    \/ WorkerSend(w) \/ WorkerFail(w)

-----------------------------------------------------------------------------
(* Writer thread.                                                            *)

WriterRecvBlock ==
    /\ writer = "recv" /\ rw_rx # <<>> /\ Head(rw_rx).type = "Block"
    /\ LET m == Head(rw_rx)
       IN block_queue' = {b \in block_queue : b.id # m.id}
                             \cup {[id |-> m.id, size |-> m.size]}
    /\ rw_rx' = Tail(rw_rx)
    /\ writer' = "drain"
    /\ UNCHANGED <<rw_tx, expected_id, index, file_position, final_len, rawVars,
                   poolVars, diskVars>>

(* Mutant: any queued block is written, as if it were the one that is due.   *)
WriterDrainAny ==
    /\ writer = "drain"
    /\ \E b \in block_queue :
         /\ block_queue' = block_queue \ {b}
         /\ buffer' = Append(buffer, Chunk(file_position, b.size, BlockData(b.id)))
         /\ index' = Append(index, Entry(file_position, AsU32(b.size), b.id))
         /\ file_position' = file_position + AsU32(b.size)
    /\ expected_id' = expected_id + 1
    /\ UNCHANGED <<writer, final_len, file, rawVars, poolVars, msgVars>>

(* Mutant: file_position is not advanced behind the block.                   *)
WriterDrainInPlace ==
    /\ writer = "drain"
    /\ \E b \in block_queue :
         /\ b.id = expected_id
         /\ block_queue' = block_queue \ {b}
         /\ buffer' = Append(buffer, Chunk(file_position, b.size, BlockData(b.id)))
         /\ index' = Append(index, Entry(file_position, AsU32(b.size), b.id))
    /\ expected_id' = expected_id + 1
    /\ UNCHANGED <<writer, file_position, final_len, file, rawVars, poolVars, msgVars>>

(* Mutant: the entry goes in front of the others. *)
WriterDrainInFront ==
    /\ writer = "drain"
    /\ \E b \in block_queue :
         /\ b.id = expected_id
         /\ block_queue' = block_queue \ {b}
         /\ buffer' = Append(buffer, Chunk(file_position, b.size, BlockData(b.id)))
         /\ index' = <<Entry(file_position, AsU32(b.size), b.id)>> \o index
         /\ file_position' = file_position + AsU32(b.size)
    /\ expected_id' = expected_id + 1
    /\ UNCHANGED <<writer, final_len, file, rawVars, poolVars, msgVars>>

(* The block that is due leaves the queue, is written and gets its entry;    *)
(* file_position goes on by the length in the entry, not by what was written.*)
WriterDrain ==
    /\ writer = "drain"
    /\ \E b \in block_queue :
         /\ b.id = expected_id
         /\ block_queue' = block_queue \ {b}
         /\ buffer' = Append(buffer, Chunk(file_position, b.size, BlockData(b.id)))
         /\ index' = Append(index, Entry(file_position, AsU32(b.size), b.id))
         /\ file_position' = file_position + AsU32(b.size)
    /\ expected_id' = expected_id + 1
    /\ UNCHANGED <<writer, final_len, file, rawVars, poolVars, msgVars>>

WriterDrained ==
    /\ writer = "drain" /\ \A b \in block_queue : b.id # expected_id
    /\ writer' = "recv"
    /\ UNCHANGED <<block_queue, expected_id, index, file_position, final_len,
                   rawVars, poolVars, msgVars, diskVars>>

(* write_all fails: the block is out of the queue and in no entry; what the  *)
(* BufWriter still holds is flushed when it is dropped, or lost.             *)
WriterWriteError ==
    /\ writer = "drain" /\ "write" \in Faults
    /\ \E b \in block_queue : b.id = expected_id /\ block_queue' = block_queue \ {b}
    /\ writer' = "failed"
    /\ buffer' \in {buffer, <<>>}
    /\ UNCHANGED <<expected_id, index, file_position, final_len, file, rawVars,
                   poolVars, msgVars>>

(* Finalize: the index and the footer follow the last block. *)
WriterFinish ==
    /\ writer = "recv" /\ rw_rx # <<>> /\ Head(rw_rx) = Finalize
    /\ \E n \in IndexSizes :
         /\ buffer' = buffer \o
              << Chunk(file_position, n, IndexData(index)),
                 Chunk(file_position + n, FooterSize, FooterData(file_position, AsU32(n))) >>
         /\ final_len' = file_position + n + FooterSize
    /\ rw_rx' = Tail(rw_rx)
    /\ writer' = "finish"
    /\ UNCHANGED <<rw_tx, block_queue, expected_id, index, file_position, file,
                   rawVars, poolVars>>

(* Mutant: finish() returns without flush. *)
WriterSetLenUnflushed ==
    /\ writer = "finish"
    /\ file' = SetLen(file, final_len)
    /\ writer' = "ok"
    /\ UNCHANGED <<block_queue, expected_id, index, file_position, final_len, buffer,
                   rawVars, poolVars, msgVars>>

(* Mutant: finish() does not call set_len. *)
WriterNoSetLen ==
    /\ writer = "finish" /\ buffer = <<>>
    /\ writer' = "ok"
    /\ UNCHANGED <<block_queue, expected_id, index, file_position, final_len, buffer,
                   file, rawVars, poolVars, msgVars>>

(* flush has emptied the buffer; the file is cut to its final length. *)
WriterSetLen ==
    /\ writer = "finish" /\ buffer = <<>>
    /\ file' = SetLen(file, final_len)
    /\ writer' = "ok"
    /\ UNCHANGED <<block_queue, expected_id, index, file_position, final_len, buffer,
                   rawVars, poolVars, msgVars>>

(* finish() fails before it writes anything, or in write_all, flush, set_len. *)
WriterFinishError ==
    /\ "finish" \in Faults
    /\ \/ /\ writer = "recv" /\ rw_rx # <<>> /\ Head(rw_rx) = Finalize
          /\ rw_rx' = Tail(rw_rx)
       \/ /\ writer = "finish"
          /\ UNCHANGED rw_rx
    /\ writer' = "failed"
    /\ buffer' \in {buffer, <<>>}
    /\ UNCHANGED <<rw_tx, block_queue, expected_id, index, file_position, final_len,
                   file, rawVars, poolVars>>

(* Every sender is gone and nothing is left: the loop ends with Ok(()). *)
WriterDisconnected ==
    /\ writer = "recv" /\ rw_rx = <<>> /\ ~rw_tx /\ PoolDone
    /\ writer' = "left"
    /\ UNCHANGED <<block_queue, expected_id, index, file_position, final_len, rawVars,
                   poolVars, msgVars, diskVars>>

(* The BufWriter passes its oldest chunk to the file: when it fills, when it *)
(* is flushed, or when it is dropped after the writer has returned.          *)
Spill ==
    /\ buffer # <<>>
    /\ file' = WriteChunk(file, Head(buffer))
    /\ buffer' = Tail(buffer)
    /\ UNCHANGED <<rawVars, poolVars, msgVars, writerVars>>

WriterStep ==
    \/ WriterRecvBlock \/ WriterDrain \/ WriterDrained \/ WriterWriteError
    \/ WriterFinish \/ WriterSetLen \/ WriterFinishError \/ WriterDisconnected
    \/ Spill

-----------------------------------------------------------------------------
PipeTypeOK ==
    /\ raw_rx \in Seq(Nat) /\ raw_tx \in BOOLEAN /\ block_id \in Nat
    /\ wpc \in [Worker -> {"new", "waiting", "busy", "stopped"}]
    /\ task \in [Worker -> Nat] /\ full \in BOOLEAN
    /\ rw_rx \in Seq(WriterMessage) /\ rw_tx \in BOOLEAN
    /\ writer \in WriterState /\ block_queue \subseteq ProcessedBlock
    /\ expected_id \in Nat /\ index \in Seq(BlockEntry)
    /\ file_position \in Nat /\ final_len \in Nat

DiskTypeOK == buffer \in Seq(AnyChunk) /\ file \in AnyFile

-----------------------------------------------------------------------------
(* Why no block is lost or misplaced, as an inductive invariant of every     *)
(* pipeline step.  A block that has been cut and is not yet written is in    *)
(* one of four places.                                                       *)
Pending(i) ==
    \/ \E k \in DOMAIN raw_rx : raw_rx[k] = i
    \/ \E w \in Worker : wpc[w] = "busy" /\ task[w] = i
    \/ \E k \in DOMAIN rw_rx : rw_rx[k].type = "Block" /\ rw_rx[k].id = i
    \/ \E b \in block_queue : b.id = i

(* Unless a thread has failed, no block that is due or will be is lost.      *)
NoneLost ==
    ~full /\ writer # "failed" =>
        \A i \in expected_id..(block_id - 1) : Pending(i)

(* No thread has a block that was never cut. *)
NoneInvented ==
    /\ expected_id <= block_id
    /\ \A k \in DOMAIN raw_rx : raw_rx[k] < block_id
    /\ \A w \in Worker : wpc[w] = "busy" => task[w] < block_id
    /\ \A k \in DOMAIN rw_rx : rw_rx[k].type = "Block" => rw_rx[k].id < block_id
    /\ \A b \in block_queue : b.id < block_id

(* The index describes the blocks before expected_id, in order. *)
IndexInOrder ==
    /\ Len(index) = expected_id
    /\ \A i \in 1..Len(index) : index[i].id = i - 1

(* Without an error a worker stops only when nothing is left to take. *)
StopsOnlyAtEnd ==
    ~full /\ (\E w \in Worker : wpc[w] = "stopped") => raw_rx = <<>> /\ ~raw_tx

(* A Finalize in the channel is the last message there will ever be. *)
FinalizeLast ==
    \A k \in DOMAIN rw_rx : rw_rx[k] = Finalize =>
        k = Len(rw_rx) /\ PoolDone /\ ~full /\ ~raw_tx

(* The writer waits for a message only when no block in its queue is due. *)
NoneDue == writer = "recv" => \A b \in block_queue : b.id # expected_id

(* finish() runs only over a complete index. *)
FinishIsComplete ==
    writer \in {"finish", "ok"} =>
        /\ expected_id = block_id /\ rw_rx = <<>>
        /\ PoolDone /\ ~full /\ ~raw_tx

(* The loop ends without Finalize only when main has dropped its sender. *)
LeavesOnlyIfDropped == writer = "left" => ~rw_tx

PipeInv ==
    /\ PipeTypeOK
    /\ NoneLost /\ NoneInvented /\ IndexInOrder /\ StopsOnlyAtEnd
    /\ FinalizeLast /\ NoneDue /\ FinishIsComplete /\ LeavesOnlyIfDropped

-----------------------------------------------------------------------------
(* The chunks of the archive so far, whether they have reached the disk or   *)
(* not.  final_len is set when finish() has buffered index and footer.       *)
HeaderChunk == Chunk(0, HeaderSize, Header)
BlockChunk(e) == Chunk(e.offset, e.size_stored, BlockData(e.id))
IndexSize == final_len - FooterSize - file_position
IndexChunk == Chunk(file_position, IndexSize, IndexData(index))
FooterChunk == Chunk(final_len - FooterSize, FooterSize, FooterData(file_position, IndexSize))
ArchiveChunks ==
    {HeaderChunk} \cup {BlockChunk(index[i]) : i \in 1..Len(index)}
        \cup (IF final_len = 0 THEN {} ELSE {IndexChunk, FooterChunk})
=============================================================================
