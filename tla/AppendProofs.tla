----------------------------- MODULE AppendProofs -----------------------------
(* Append keeps the invariant of the pipeline on an archive that has blocks  *)
(* already, although its main thread may leave while the others run; what    *)
(* it reports is what has become of the archive; it implements the ordered   *)
(* log.  For any number of workers, blocks and faults.                       *)
EXTENDS Append, PipelineProofs

(* What a bounds function of an archive means. *)
LEMMA OldEntriesType ==
    ASSUME NEW n \in 0..MaxOld, NEW bounds \in Layouts(n)
    PROVE  /\ n \in Nat /\ bounds[n+1] \in Nat
           /\ OldEntries(n, bounds) \in Seq(BlockEntry)
           /\ Len(OldEntries(n, bounds)) = n
           /\ \A i \in 1..n : OldEntries(n, bounds)[i].id = i - 1
<1> DEFINE entries == OldEntries(n, bounds)
<1>1. n \in Nat
  BY MaxOldAssumption
<1>2. \A i \in 1..(n+1) : bounds[i] \in Nat
  BY <1>1, HeaderAssumption, MaxLenAssumption DEF Layouts
<1>3. \A i \in 1..n : /\ bounds[i] \in Nat /\ i - 1 \in Nat
                      /\ bounds[i+1] - bounds[i] \in Nat
  <2> SUFFICES ASSUME NEW i \in 1..n
               PROVE  /\ bounds[i] \in Nat /\ i - 1 \in Nat
                      /\ bounds[i+1] - bounds[i] \in Nat
    OBVIOUS
  <2>1. bounds[i+1] - bounds[i] \in StoredSizes
    BY DEF Layouts
  <2> QED BY <1>1, <1>2, <2>1, SizesAssumption
<1>4. \A i \in 1..n : Entry(bounds[i], bounds[i+1] - bounds[i], i-1) \in BlockEntry
  BY <1>3 DEF Entry, BlockEntry
<1>5. entries \in [1..n -> BlockEntry]
  BY <1>4 DEF OldEntries
<1>6. entries \in Seq(BlockEntry) /\ Len(entries) = n
  BY <1>1, <1>5
<1>7. \A i \in 1..n : entries[i].id = i - 1
  BY DEF OldEntries, Entry
<1> QED BY <1>1, <1>2, <1>6, <1>7

(* An archive has one footer and one index, and loading it gives the entries *)
(* it was made of.                                                           *)
LEMMA ArchiveLoads ==
    ASSUME NEW n \in 0..MaxOld, NEW bounds \in Layouts(n), NEW m \in IndexSizes
    PROVE  LET f == ArchiveOf(n, bounds, m)
           IN /\ f \in AnyFile
              /\ LoadedIndex(f) = OldEntries(n, bounds)
              /\ IndexOffset(f) = bounds[n+1]
<1> DEFINE entries == OldEntries(n, bounds)
<1> DEFINE at == bounds[n+1]
<1> DEFINE hdr == Chunk(0, HeaderSize, Header)
<1> DEFINE idx == Chunk(at, m, IndexData(entries))
<1> DEFINE ftr == Chunk(at + m, FooterSize, FooterData(at, m))
<1> DEFINE old(i) == Chunk(entries[i].offset, entries[i].size_stored, BlockData(i-1))
<1> DEFINE f == ArchiveOf(n, bounds, m)
<1>1. /\ n \in Nat /\ at \in Nat /\ m \in Nat /\ entries \in Seq(BlockEntry)
      /\ Len(entries) = n
  BY OldEntriesType, SizesAssumption
<1>2. f.len = at + m + FooterSize /\ f.chunks = {hdr, idx, ftr} \cup {old(i) : i \in 1..n}
  BY DEF ArchiveOf, HeaderChunk
<1>3. /\ hdr \in AnyChunk /\ idx \in AnyChunk /\ ftr \in AnyChunk
      /\ \A i \in 1..n : old(i) \in AnyChunk
  <2>1. hdr \in AnyChunk /\ idx \in AnyChunk /\ ftr \in AnyChunk
    BY <1>1, HeaderAssumption, ChunkTypes DEF FooterSize
  <2>2. ASSUME NEW i \in 1..n PROVE old(i) \in AnyChunk
    <3>1. entries[i] \in BlockEntry /\ i - 1 \in Nat
      BY <1>1, LenProperties
    <3>2. entries[i].offset \in Nat /\ entries[i].size_stored \in Nat
      BY <3>1 DEF BlockEntry
    <3> QED BY <3>1, <3>2, ChunkTypes
  <2> QED BY <2>1, <2>2
<1>4. f \in AnyFile
  <2>1. f.len \in Nat /\ f.chunks \in SUBSET AnyChunk
    BY <1>1, <1>2, <1>3 DEF FooterSize
  <2>2. f = [len |-> f.len, chunks |-> f.chunks]
    BY DEF ArchiveOf
  <2> QED BY <2>1, <2>2 DEF AnyFile
<1>5. /\ hdr.what.kind = "header" /\ \A i \in 1..n : old(i).what.kind = "block"
      /\ idx.what.kind = "index" /\ idx.off = at /\ idx.len = m
      /\ idx.what.block = entries
      /\ ftr.what.kind = "footer" /\ End(ftr) = at + m + FooterSize
      /\ ftr.what.index_offset = at /\ ftr.what.index_size_stored = m
  BY DEF Chunk, Header, BlockData, IndexData, FooterData, End
<1> HIDE DEF hdr, idx, ftr, old, f, at, entries
<1>6. Footers(f) = {ftr}
  BY <1>2, <1>5 DEF Footers
<1>7. Indexes(f) = {idx}
  BY <1>2, <1>5, <1>6 DEF Indexes
<1>8. LoadedIndex(f) = entries /\ IndexOffset(f) = at
  BY <1>5, <1>6, <1>7 DEF LoadedIndex, IndexOffset
<1> QED BY <1>4, <1>8 DEF f, at, entries

LEMMA BeforeLoads ==
    ASSUME NEW f \in Archives
    PROVE  /\ f \in AnyFile /\ IndexOffset(f) \in Nat
           /\ LoadedIndex(f) \in Seq(BlockEntry)
           /\ Len(LoadedIndex(f)) \in Nat
           /\ \A i \in 1..Len(LoadedIndex(f)) : LoadedIndex(f)[i].id = i - 1
<1>1. PICK n \in 0..MaxOld :
        f \in {ArchiveOf(n, bounds, m) : bounds \in Layouts(n), m \in IndexSizes}
  BY DEF Archives
<1>2. PICK bounds \in Layouts(n), m \in IndexSizes : f = ArchiveOf(n, bounds, m)
  BY <1>1
<1> QED BY <1>2, ArchiveLoads, OldEntriesType

-----------------------------------------------------------------------------
LEMMA InitInv == Init => IInv
<1> SUFFICES ASSUME Init PROVE IInv
  OBVIOUS
<1>0. /\ before \in AnyFile /\ IndexOffset(before) \in Nat
      /\ LoadedIndex(before) \in Seq(BlockEntry) /\ Len(LoadedIndex(before)) \in Nat
      /\ \A i \in 1..Len(LoadedIndex(before)) : LoadedIndex(before)[i].id = i - 1
  BY BeforeLoads DEF Init
<1> USE DEF Init, PipeInit
<1>1. DiskTypeOK
  BY <1>0, EmptySeq DEF DiskTypeOK
<1>2. PipeTypeOK /\ TypeOK
  BY <1>0, <1>1, EmptySeq DEF PipeTypeOK, TypeOK, WriterState, PC
<1>3. NoneLost /\ NoneInvented /\ IndexInOrder
  BY <1>0, WorkerAssumption DEF NoneLost, NoneInvented, IndexInOrder
<1>4. StopsOnlyAtEnd /\ FinalizeLast /\ NoneDue /\ FinishIsComplete /\ LeavesOnlyIfDropped
  BY DEF StopsOnlyAtEnd, FinalizeLast, NoneDue, FinishIsComplete, LeavesOnlyIfDropped
<1>5. MainInv
  BY DEF MainInv
<1> QED BY <1>2, <1>3, <1>4, <1>5 DEF IInv, PipeInv

LEMMA MainLeavesDisk ==
    ASSUME IInv, MainStep \/ Crash \/ UNCHANGED vars
    PROVE  UNCHANGED diskVars /\ DiskTypeOK'
<1>1. UNCHANGED diskVars
  BY DEF MainStep, Copy, CopyFails, Retrieve, RetrieveFails, ReadBlock, ReadDone,
         ReadFails, JoinWorkers, MainSendFinalize, JoinWriter, Rename, RenameFails,
         Cleanup, Exit, LeaveClosure, SendRaw, DropRawSender, SendFinalize, Crash,
         pipeVars, vars
<1> QED BY <1>1 DEF IInv, TypeOK, DiskTypeOK, diskVars

(* The main thread may let go of both of its senders at any time. *)
LEMMA LeaveClosureInv ==
    ASSUME PipeInv, NEW to, LeaveClosure(to)
    PROVE  PipeInv'
<1> USE DEF PipeInv, LeaveClosure
<1> USE DEF poolVars, writerVars
<1>1. PipeTypeOK'
  BY DEF PipeTypeOK
<1>2. NoneLost' /\ NoneInvented' /\ IndexInOrder'
  BY PendingUnchanged DEF NoneLost, NoneInvented, IndexInOrder
<1>3. StopsOnlyAtEnd' /\ FinalizeLast'
  BY DEF StopsOnlyAtEnd, FinalizeLast, PoolDone
<1>4. NoneDue' /\ FinishIsComplete' /\ LeavesOnlyIfDropped'
  BY DEF NoneDue, FinishIsComplete, PoolDone, LeavesOnlyIfDropped
<1> QED BY <1>1, <1>2, <1>3, <1>4

LEMMA MainStepInv == ASSUME IInv, MainStep PROVE IInv'
<1> USE DEF IInv
<1>0. DiskTypeOK'
  BY MainLeavesDisk
<1>1. CASE Copy \/ CopyFails \/ Retrieve \/ RetrieveFails \/ Cleanup \/ Exit
  <2>1. PipeInv'
    BY <1>1, PipeInvUnchanged
    DEF Copy, CopyFails, Retrieve, RetrieveFails, Cleanup, Exit, pipeVars
  <2>2. MainInv'
    BY <1>1 DEF Copy, CopyFails, Retrieve, RetrieveFails, Cleanup, Exit, MainInv,
                pipeVars, rawVars, poolVars, msgVars, writerVars
  <2>3. /\ pc' \in PC /\ arch' \in {"old", "new"}
        /\ tmp' \in {"absent", "foreign", "partial", "ours", "stuck"}
        /\ outcome' \in {"none", "ok", "error", "killed"}
    BY <1>1 DEF Copy, CopyFails, Retrieve, RetrieveFails, Cleanup, Exit, TypeOK, PC
  <2> QED BY <1>0, <2>1, <2>2, <2>3 DEF TypeOK, PipeInv
<1>2. CASE ReadBlock
  <2>1. PipeInv'
    BY <1>2, SendRawInv DEF ReadBlock
  <2>2. MainInv'
    BY <1>2 DEF ReadBlock, SendRaw, MainInv, mainVars, msgVars, poolVars, writerVars
  <2> QED BY <1>0, <1>2, <2>1, <2>2 DEF ReadBlock, TypeOK, mainVars, PipeInv
<1>3. CASE ReadDone
  <2>1. PipeInv'
    BY <1>3, DropRawSenderInv DEF ReadDone
  <2>2. MainInv'
    BY <1>3 DEF ReadDone, DropRawSender, MainInv, msgVars, poolVars, writerVars
  <2> QED BY <1>0, <1>3, <2>1, <2>2 DEF ReadDone, TypeOK, PC, PipeInv
<1>4. CASE MainSendFinalize
  <2>0. /\ PoolDone /\ ~full /\ ~raw_tx /\ writer \notin {"finish", "ok"}
        /\ \A k \in DOMAIN rw_rx : rw_rx[k] # Finalize
    BY <1>4 DEF MainSendFinalize, MainInv
  <2>1. PipeInv'
    BY <1>4, <2>0, SendFinalizeInv, PipeInvUnchanged DEF MainSendFinalize, pipeVars
  <2>2. /\ pc = "finalize" /\ pc' = "join_writer"
        /\ UNCHANGED <<before, arch, tmp, outcome, raw_tx, rw_tx, full, wpc>>
    BY <1>4 DEF MainSendFinalize, SendFinalize, pipeVars, rawVars, poolVars, msgVars
  <2>3. MainInv'
    BY <2>2 DEF MainInv, PoolDone
  <2> QED BY <1>0, <2>1, <2>2, <2>3 DEF TypeOK, PC, PipeInv
<1>5. CASE LeaveClosure("cleanup") /\ UNCHANGED <<arch, tmp, outcome>>
  <2>1. PipeInv'
    BY <1>5, LeaveClosureInv
  <2>2. pc' = "cleanup" /\ UNCHANGED <<poolVars, writerVars>>
    BY <1>5 DEF LeaveClosure
  <2>3. pc \in {"retrieve", "read", "join", "join_writer", "rename"}
    BY <1>5
    DEF MainStep, Copy, CopyFails, Retrieve, RetrieveFails, ReadBlock, ReadDone,
        ReadFails, JoinWorkers, MainSendFinalize, JoinWriter, Rename, RenameFails,
        Cleanup, Exit, mainVars, LeaveClosure, MainInv
  <2>4. MainInv'
    BY <1>5, <2>2, <2>3 DEF MainInv, poolVars, writerVars
  <2> QED BY <1>0, <1>5, <2>1, <2>2, <2>4 DEF TypeOK, PC, PipeInv
<1>6. CASE Rename
  <2>1. PipeInv'
    BY <1>6, LeaveClosureInv DEF Rename
  <2>2. MainInv'
    BY <1>6 DEF Rename, LeaveClosure, MainInv, poolVars, writerVars
  <2> QED BY <1>0, <1>6, <2>1, <2>2 DEF Rename, LeaveClosure, TypeOK, PC, PipeInv
<1>7. CASE JoinWorkers /\ ~full /\ pc' = "finalize" /\ UNCHANGED <<before, pipeVars>>
  <2>1. PipeInv'
    BY <1>7, PipeInvUnchanged DEF pipeVars
  <2>2. MainInv'
    BY <1>7 DEF JoinWorkers, MainInv, pipeVars, rawVars, poolVars, msgVars, writerVars,
                PoolDone
  <2> QED BY <1>0, <1>7, <2>1, <2>2 DEF JoinWorkers, TypeOK, PC, PipeInv
<1>8. CASE /\ JoinWriter /\ writer # "failed" /\ pc' = "rename"
           /\ UNCHANGED <<before, pipeVars>>
  <2>1. PipeInv'
    BY <1>8, PipeInvUnchanged DEF pipeVars
  <2>2. writer = "ok"
    BY <1>8 DEF JoinWriter, WriterReturned, MainInv, LeavesOnlyIfDropped, PipeInv
  <2>3. MainInv'
    BY <1>8, <2>2 DEF JoinWriter, MainInv, pipeVars, rawVars, poolVars, msgVars,
                      writerVars, PoolDone
  <2> QED BY <1>0, <1>8, <2>1, <2>3 DEF JoinWriter, TypeOK, PC, PipeInv
<1>9. JoinWorkers \/ JoinWriter \/ ReadFails \/ RenameFails =>
        \/ LeaveClosure("cleanup") /\ UNCHANGED <<arch, tmp, outcome>>
        \/ JoinWorkers /\ ~full /\ pc' = "finalize" /\ UNCHANGED <<before, pipeVars>>
        \/ /\ JoinWriter /\ writer # "failed" /\ pc' = "rename"
           /\ UNCHANGED <<before, pipeVars>>
  BY DEF JoinWorkers, JoinWriter, ReadFails, RenameFails
<1> QED BY <1>1, <1>2, <1>3, <1>4, <1>5, <1>6, <1>7, <1>8, <1>9 DEF MainStep

LEMMA PoolThreadInv ==
    ASSUME IInv, NEW w \in Worker, PoolThread(w) PROVE IInv'
<1> USE DEF IInv, PoolThread, mainVars
<1>1. PipeInv'
  BY WorkerStepInv
<1>2. ~PoolDone /\ UNCHANGED <<writerVars, raw_tx, rw_tx>> /\ (NoFinalize => NoFinalize')
  BY WorkerFrame
<1>3. full' = full \/ ~PoolDone
  BY <1>2
<1>4. outcome # "ok"
  BY <1>2 DEF MainInv, PipeInv, FinishIsComplete
<1>5. MainInv'
  BY <1>2, <1>4 DEF MainInv, NoFinalize, writerVars
<1>6. DiskTypeOK'
  BY WorkerFrame DEF TypeOK, DiskTypeOK, diskVars
<1> QED BY <1>1, <1>5, <1>6 DEF TypeOK, PipeInv

LEMMA WriterThreadInv == ASSUME IInv, WriterThread PROVE IInv'
<1> USE DEF IInv, WriterThread, mainVars
<1>1. PipeInv'
  BY WriterStepInv
<1>2. MainInv'
  BY WriterFrame DEF MainInv, NoFinalize, rawVars, poolVars, PoolDone
<1>3. DiskTypeOK'
  BY WriterStepDiskType DEF TypeOK
<1> QED BY <1>1, <1>2, <1>3 DEF TypeOK, PipeInv

LEMMA NextInv == IInv /\ [Next]_vars => IInv'
<1> SUFFICES ASSUME IInv, [Next]_vars PROVE IInv'
  OBVIOUS
<1>1. CASE Crash
  <2>1. PipeInv'
    BY <1>1, PipeInvUnchanged DEF Crash, pipeVars, IInv
  <2>2. MainInv'
    BY <1>1 DEF Crash, Running, IInv, MainInv, pipeVars, poolVars, writerVars, TypeOK
  <2>3. tmp' \in {"absent", "foreign", "partial", "ours", "stuck"}
    BY <1>1 DEF Crash, IInv, TypeOK
  <2> QED BY <1>1, <2>1, <2>2, <2>3, MainLeavesDisk
      DEF IInv, Crash, TypeOK, PC, PipeInv
<1>2. CASE UNCHANGED vars
  <2>1. PipeInv'
    BY <1>2, PipeInvUnchanged DEF vars, pipeVars, IInv
  <2>2. MainInv'
    BY <1>2 DEF IInv, MainInv, vars, mainVars, pipeVars, rawVars, poolVars, msgVars,
                writerVars, PoolDone
  <2> QED BY <1>2, <2>1, <2>2, MainLeavesDisk DEF IInv, TypeOK, vars, mainVars, PipeInv
<1> QED BY <1>1, <1>2, MainStepInv, PoolThreadInv, WriterThreadInv DEF Next, Finished

(* The inductive invariant holds in every state of append. *)
THEOREM Invariant == Spec => []IInv
BY InitInv, NextInv, PTL DEF Spec

(* An append that reports success has replaced the archive and lost no error *)
(* of a thread on the way; one that reports an error has left the original   *)
(* in place (append.rs:196-221).                                             *)
THEOREM OutcomeIsTrue == Spec => []OutcomeMatchesArchive
<1>1. IInv => OutcomeMatchesArchive
  BY DEF IInv, TypeOK, MainInv, OutcomeMatchesArchive
<1> QED BY <1>1, Invariant, PTL

(* Whichever step fails, the copy does not stay behind: it is removed, or    *)
(* the system has refused to remove it (append.rs:204).                      *)
THEOREM FailureIsCleanedUp == Spec => []FailureRemovesCopy
<1> DEFINE Clean == FailureRemovesCopy /\ (pc = "copy" => tmp # "ours")
<1>1. Init => Clean
  BY DEF Init, FailureRemovesCopy
<1>2. IInv /\ Clean /\ [Next]_vars => Clean'
  <2> SUFFICES ASSUME IInv, Clean, [Next]_vars PROVE Clean'
    OBVIOUS
  <2>1. CASE MainStep
    BY <2>1
    DEF MainStep, Copy, CopyFails, Retrieve, RetrieveFails, ReadBlock, ReadDone,
        ReadFails, JoinWorkers, MainSendFinalize, JoinWriter, Rename, RenameFails,
        Cleanup, Exit, LeaveClosure, mainVars, FailureRemovesCopy, IInv, MainInv
  <2>2. CASE Crash
    BY <2>2 DEF Crash, Running, FailureRemovesCopy, IInv, MainInv
  <2>3. CASE ~MainStep /\ ~Crash
    BY <2>3 DEF Next, PoolThread, WriterThread, Finished, vars, mainVars,
         FailureRemovesCopy
  <2> QED BY <2>1, <2>2, <2>3
<1> QED BY <1>1, <1>2, Invariant, PTL DEF Spec

-----------------------------------------------------------------------------
(* Append implements the ordered log, which starts with the old blocks.      *)

LEMMA OnlyDrainWritesIndex ==
    ASSUME IInv, [Next]_vars
    PROVE  UNCHANGED index \/ (WriterDrain /\ UNCHANGED <<block_id, outcome>>)
<1> USE DEF pipeVars, writerVars
<1>1. CASE MainStep
  BY <1>1
  DEF MainStep, Copy, CopyFails, Retrieve, RetrieveFails, ReadBlock, ReadDone,
      ReadFails, JoinWorkers, MainSendFinalize, JoinWriter, Rename, RenameFails,
      Cleanup, Exit, LeaveClosure, SendRaw, DropRawSender, SendFinalize
<1>2. ASSUME NEW w \in Worker, PoolThread(w) PROVE UNCHANGED index
  BY <1>2, WorkerFrame DEF PoolThread, IInv
<1>3. CASE WriterThread
  BY <1>3 DEF WriterThread, WriterStep, WriterRecvBlock, WriterDrain, WriterDrained,
              WriterWriteError, WriterFinish, WriterSetLen, WriterFinishError,
              WriterDisconnected, Spill, mainVars, rawVars
<1>4. CASE Crash \/ Finished \/ UNCHANGED vars
  BY <1>4 DEF Crash, Finished, vars
<1> QED BY <1>1, <1>2, <1>3, <1>4 DEF Next

LEMMA LogLength ==
    ASSUME PipeTypeOK
    PROVE  /\ LogOfIndex \in Seq(Nat) /\ Len(LogOfIndex) = Len(index)
           /\ \A i \in 1..Len(index) : LogOfIndex[i] = index[i].id
BY IdsOfEntries DEF LogOfIndex, PipeTypeOK

LEMMA DrainStores ==
    ASSUME IInv, WriterDrain, UNCHANGED <<block_id, outcome>>
    PROVE  Abstract!Store
<1> USE DEF IInv, PipeInv
<1>a. PICK b \in block_queue :
        /\ b.id = expected_id
        /\ index' = Append(index, Entry(file_position, b.size, b.id))
  BY DrainKeepsLength
<1>1. Status # "committed"
  BY DEF Status, MainInv, WriterDrain, TypeOK
<1>2. Len(LogOfIndex) < block_id
  BY <1>a, LogLength DEF NoneInvented, IndexInOrder
<1>3. LogOfIndex' = Append(LogOfIndex, Len(LogOfIndex))
  <2>1. /\ index \in Seq(BlockEntry) /\ Len(index) = expected_id /\ expected_id \in Nat
        /\ Entry(file_position, b.size, b.id) \in BlockEntry
        /\ Entry(file_position, b.size, b.id).id = expected_id
    BY <1>a, SizesAssumption
    DEF PipeTypeOK, IndexInOrder, ProcessedBlock, Entry, BlockEntry
  <2> QED BY <1>a, <2>1, IdsOfAppended DEF LogOfIndex
<1>4. UNCHANGED <<block_id, Status>>
  BY DEF Status
<1> QED BY <1>1, <1>2, <1>3, <1>4 DEF Abstract!Store

LEMMA StepImplements == IInv /\ [Next]_vars => [Abstract!LogNext]_(Abstract!logVars)
<1> SUFFICES ASSUME IInv, [Next]_vars PROVE [Abstract!LogNext]_(Abstract!logVars)
  OBVIOUS
<1> USE DEF IInv, Abstract!LogNext, Abstract!logVars
<1>1. CASE WriterDrain /\ UNCHANGED <<block_id, outcome>>
  BY <1>1, DrainStores
<1>2. CASE UNCHANGED index
  <2>0. UNCHANGED LogOfIndex
    BY <1>2 DEF LogOfIndex
  <2>1. CASE ReadBlock
    <3>1. outcome = "none" /\ UNCHANGED outcome /\ block_id' = block_id + 1
      BY <2>1 DEF ReadBlock, SendRaw, MainInv, mainVars
    <3> QED BY <3>1, <2>0 DEF Abstract!Produce, Status
  <2>2. CASE Rename
    <3>1. writer = "ok" /\ outcome = "none" /\ outcome' = "ok" /\ UNCHANGED block_id
      BY <2>2 DEF Rename, LeaveClosure, MainInv
    <3>2. Len(LogOfIndex) = block_id
      BY <3>1, LogLength DEF PipeInv, IndexInOrder, FinishIsComplete
    <3> QED BY <2>0, <3>1, <3>2 DEF Abstract!Commit, Status
  <2>3. CASE UNCHANGED block_id /\ outcome = "none" /\ outcome' \in {"error", "killed"}
    BY <2>0, <2>3 DEF Abstract!Abort, Status
  <2>4. CASE UNCHANGED <<block_id, outcome>>
    BY <2>0, <2>4 DEF Status
  <2>5. \/ ReadBlock \/ Rename
        \/ UNCHANGED <<block_id, outcome>>
        \/ UNCHANGED block_id /\ outcome = "none" /\ outcome' \in {"error", "killed"}
    <3>1. ASSUME NEW w \in Worker, PoolThread(w) PROVE UNCHANGED <<block_id, outcome>>
      BY <3>1, WorkerFrame DEF PoolThread, mainVars
    <3>2. CASE WriterThread
      BY <3>2, WriterFrame DEF WriterThread, mainVars, rawVars
    <3>3. CASE MainStep
      BY <3>3
      DEF MainStep, Copy, CopyFails, Retrieve, RetrieveFails, ReadDone, ReadFails,
          JoinWorkers, MainSendFinalize, JoinWriter, RenameFails, Cleanup, Exit,
          LeaveClosure, DropRawSender, SendFinalize, pipeVars, rawVars, MainInv
    <3>4. CASE Crash \/ Finished \/ UNCHANGED vars
      BY <3>4 DEF Crash, Finished, vars, mainVars, pipeVars, rawVars
    <3> QED BY <3>1, <3>2, <3>3, <3>4 DEF Next
  <2> QED BY <2>1, <2>2, <2>3, <2>4, <2>5
<1> QED BY <1>1, <1>2, OnlyDrainWritesIndex

LEMMA InitImplements == Init => Abstract!LogInit
<1> SUFFICES ASSUME Init PROVE Abstract!LogInit
  OBVIOUS
<1>1. /\ index \in Seq(BlockEntry) /\ block_id = Len(index) /\ outcome = "none"
      /\ \A i \in 1..Len(index) : index[i].id = i - 1
  BY BeforeLoads DEF Init, PipeInit
<1>2. /\ LogOfIndex \in Seq(Nat) /\ Len(LogOfIndex) = Len(index)
      /\ \A i \in 1..Len(index) : LogOfIndex[i] = i - 1
  BY <1>1, IdsOfEntries DEF LogOfIndex
<1>3. LogOfIndex = [i \in 1..Len(LogOfIndex) |-> i - 1]
  BY <1>1, <1>2 DEF LogOfIndex
<1> QED BY <1>1, <1>2, <1>3 DEF Abstract!LogInit, Status

(* The refinement: append, which also leaves its threads to themselves, is   *)
(* an ordered log that starts with the blocks of the archive and is          *)
(* committed, by the rename, only when it holds every block cut.             *)
THEOREM AppendImplementsOrderedLog == Spec => ImplementsOrderedLog
BY InitImplements, StepImplements, Invariant, PTL
DEF Spec, ImplementsOrderedLog, Abstract!LogSpec

-----------------------------------------------------------------------------
(* The disk under append: the archive's name stands for a whole archive at   *)
(* every moment, the old entries stay, and after the rename nothing writes.  *)

(* The pieces of an archive lie side by side. *)
LEMMA ArchiveIsApart ==
    ASSUME NEW n \in 0..MaxOld, NEW bounds \in Layouts(n), NEW m \in IndexSizes
    PROVE  Apart(ArchiveOf(n, bounds, m).chunks)
<1> DEFINE entries == OldEntries(n, bounds)
<1> DEFINE at == bounds[n+1]
<1> DEFINE hdr == Chunk(0, HeaderSize, Header)
<1> DEFINE idx == Chunk(at, m, IndexData(entries))
<1> DEFINE ftr == Chunk(at + m, FooterSize, FooterData(at, m))
<1> DEFINE old(i) == Chunk(entries[i].offset, entries[i].size_stored, BlockData(i-1))
<1> DEFINE cs == ArchiveOf(n, bounds, m).chunks
<1>1. /\ n \in Nat /\ at \in Nat /\ m \in Nat /\ m > 0 /\ HeaderSize \in Nat
      /\ bounds[1] = HeaderSize
      /\ \A i \in 1..(n+1) : bounds[i] \in Nat
      /\ \A i, j \in 1..(n+1) : i <= j => bounds[i] <= bounds[j]
  BY OldEntriesType, SizesAssumption, HeaderAssumption, MaxOldAssumption, MaxLenAssumption
  DEF Layouts
<1>2. cs = {hdr, idx, ftr} \cup {old(i) : i \in 1..n}
  BY DEF ArchiveOf, HeaderChunk
<1>3. /\ hdr.off = 0 /\ End(hdr) = HeaderSize
      /\ idx.off = at /\ End(idx) = at + m
      /\ ftr.off = at + m /\ End(ftr) = at + m + 1
      /\ idx.len > 0 /\ ftr.len > 0
      /\ hdr.what.kind = "header"
  BY <1>1 DEF Chunk, End, FooterSize, Header
<1>4. ASSUME NEW i \in 1..n
      PROVE  /\ old(i).off = bounds[i] /\ End(old(i)) = bounds[i+1]
             /\ old(i).what.kind = "block"
             /\ HeaderSize <= bounds[i] /\ bounds[i+1] <= at
             /\ bounds[i] \in Nat /\ bounds[i+1] \in Nat
  <2>1. i \in 1..(n+1) /\ i+1 \in 1..(n+1) /\ 1 \in 1..(n+1) /\ n+1 \in 1..(n+1)
        /\ 1 <= i /\ i+1 <= n+1
    BY <1>1
  <2>2. bounds[i] \in Nat /\ bounds[i+1] \in Nat
    BY <1>1, <2>1
  <2>3. HeaderSize <= bounds[i] /\ bounds[i+1] <= at
    BY <1>1, <2>1
  <2>4. entries[i] = Entry(bounds[i], bounds[i+1] - bounds[i], i-1)
    BY DEF OldEntries
  <2>5. entries[i].offset = bounds[i] /\ entries[i].size_stored = bounds[i+1] - bounds[i]
    BY <2>4 DEF Entry
  <2>6. old(i).off = bounds[i] /\ End(old(i)) = bounds[i+1] /\ old(i).what.kind = "block"
    BY <2>2, <2>5 DEF Chunk, End, BlockData
  <2> QED BY <2>2, <2>3, <2>6
<1> HIDE DEF hdr, idx, ftr, old
<1>5. HeaderSize <= at
  <2>1. 1 \in 1..(n+1) /\ n+1 \in 1..(n+1) /\ 1 <= n+1
    BY <1>1
  <2> QED BY <1>1, <2>1
<1> HIDE DEF at
<1>6. ASSUME NEW i \in 1..n, NEW j \in 1..n, i # j PROVE Disjoint(old(i), old(j))
  <2>1. CASE i < j
    <3>1. i+1 \in 1..(n+1) /\ j \in 1..(n+1) /\ i+1 <= j
      BY <1>1, <2>1
    <3>2. bounds[i+1] <= bounds[j]
      BY <1>1, <3>1
    <3> QED BY <3>2, <1>4 DEF Disjoint
  <2>2. CASE j < i
    <3>1. j+1 \in 1..(n+1) /\ i \in 1..(n+1) /\ j+1 <= i
      BY <1>1, <2>2
    <3>2. bounds[j+1] <= bounds[i]
      BY <1>1, <3>1
    <3> QED BY <3>2, <1>4 DEF Disjoint
  <2>3. i < j \/ j < i
    BY <1>1, <1>6
  <2> QED BY <2>1, <2>2, <2>3
<1>7. ASSUME NEW i \in 1..n
      PROVE  \A c \in {hdr, idx, ftr} : Disjoint(old(i), c) /\ Disjoint(c, old(i))
  BY <1>1, <1>3, <1>4 DEF Disjoint
<1>8. \A c, d \in {hdr, idx, ftr} : c # d => Disjoint(c, d)
  BY <1>1, <1>3, <1>5 DEF Disjoint
<1>9. ASSUME NEW c \in cs, NEW d \in cs, c # d PROVE Disjoint(c, d)
  BY <1>2, <1>6, <1>7, <1>8, <1>9
<1>10. \A c \in cs : c.what.kind \in {"index", "footer"} => c.len > 0
  BY <1>2, <1>3, <1>4
<1> QED BY <1>9, <1>10 DEF Apart

(* It holds its blocks, and they end where its index begins. *)
LEMMA ArchiveIsWhole ==
    ASSUME NEW n \in 0..MaxOld, NEW bounds \in Layouts(n), NEW m \in IndexSizes
    PROVE  LET f == ArchiveOf(n, bounds, m)
               entries == LoadedIndex(f)
           IN /\ HoldsBlocks(f, n)
              /\ HeaderChunk \in f.chunks
              /\ \A i \in 1..n : BlockChunk(entries[i]) \in f.chunks
              /\ \A i \in 1..n : entries[i].offset + entries[i].size_stored <= bounds[n+1]
              /\ HeaderSize <= bounds[n+1]
<1> DEFINE f == ArchiveOf(n, bounds, m)
<1> DEFINE entries == OldEntries(n, bounds)
<1> DEFINE at == bounds[n+1]
<1>1. LoadedIndex(f) = entries /\ n \in Nat /\ Len(entries) = n
  BY ArchiveLoads, OldEntriesType
<1>2. /\ \A i \in 1..(n+1) : bounds[i] \in Nat
      /\ \A i, j \in 1..(n+1) : i <= j => bounds[i] <= bounds[j]
      /\ bounds[1] = HeaderSize
  BY <1>1, HeaderAssumption, MaxLenAssumption DEF Layouts
<1>3. ASSUME NEW i \in 1..n
      PROVE  /\ entries[i].id = i - 1
             /\ BlockChunk(entries[i]) \in f.chunks
             /\ entries[i].offset + entries[i].size_stored <= at
  <2>1. /\ entries[i].offset = bounds[i] /\ entries[i].size_stored = bounds[i+1] - bounds[i]
        /\ entries[i].id = i - 1
    BY DEF OldEntries, Entry
  <2>2. BlockChunk(entries[i]) \in f.chunks
    BY <2>1 DEF BlockChunk, ArchiveOf
  <2>3. bounds[i] \in Nat /\ bounds[i+1] \in Nat /\ bounds[i+1] <= at /\ at \in Nat
    BY <1>1, <1>2
  <2> QED BY <2>1, <2>2, <2>3
<1>4. HeaderSize <= at
  BY <1>1, <1>2
<1>5. HeaderChunk \in f.chunks /\ HeaderChunk.off = 0 /\ HeaderChunk.what = Header
  BY DEF ArchiveOf, HeaderChunk, Chunk
<1>6. Indexes(f) # {}
  <2> DEFINE idx == Chunk(at, m, IndexData(entries))
  <2> DEFINE ftr == Chunk(at + m, FooterSize, FooterData(at, m))
  <2>1. idx \in f.chunks /\ ftr \in f.chunks /\ f.len = at + m + FooterSize
    BY DEF ArchiveOf
  <2>2. ftr \in Footers(f) /\ ftr.what.index_offset = at /\ ftr.what.index_size_stored = m
    BY <2>1 DEF Footers, Chunk, End, FooterData
  <2>3. idx.what.kind = "index" /\ idx.off = at /\ idx.len = m
    BY DEF Chunk, IndexData
  <2>4. idx \in Indexes(f)
    BY <2>1, <2>2, <2>3 DEF Indexes
  <2> QED BY <2>4
<1>7. Loadable(f)
  BY <1>5, <1>6 DEF Loadable
<1> HIDE DEF f, entries, at
<1>8. Sound(f)
  BY <1>1, <1>3 DEF Sound, BlockChunk
<1>9. HoldsBlocks(f, n)
  BY <1>1, <1>7, <1>8 DEF HoldsBlocks
<1> QED BY <1>1, <1>3, <1>4, <1>5, <1>9 DEF f, entries, at

LEMMA BeforeIsWhole ==
    ASSUME NEW f \in Archives
    PROVE  /\ Apart(f.chunks) /\ HoldsBlocks(f, Len(LoadedIndex(f)))
           /\ HeaderChunk \in f.chunks /\ HeaderSize <= IndexOffset(f)
           /\ \A i \in 1..Len(LoadedIndex(f)) :
                LET e == LoadedIndex(f)[i]
                IN BlockChunk(e) \in f.chunks /\ e.offset + e.size_stored <= IndexOffset(f)
<1>1. PICK n \in 0..MaxOld :
        f \in {ArchiveOf(n, bounds, m) : bounds \in Layouts(n), m \in IndexSizes}
  BY DEF Archives
<1>2. PICK bounds \in Layouts(n), m \in IndexSizes : f = ArchiveOf(n, bounds, m)
  BY <1>1
<1>3. Len(LoadedIndex(f)) = n /\ IndexOffset(f) = bounds[n+1]
  BY <1>2, ArchiveLoads, OldEntriesType
<1> QED BY <1>2, <1>3, ArchiveIsApart, ArchiveIsWhole

LEMMA InitDisk == Init => DiskInv
<1> SUFFICES ASSUME Init PROVE DiskInv
  OBVIOUS
<1> USE DEF Init, PipeInit
<1>1. ArchiveChunks = {HeaderChunk} \cup {BlockChunk(index[i]) : i \in 1..Len(index)}
  BY DEF ArchiveChunks
<1>2. ArchiveChunks \subseteq file.chunks
  BY <1>1, BeforeIsWhole
<1>3. NothingMissing
  BY <1>2 DEF NothingMissing
<1>4. NothingDestroyed
  BY <1>2, BeforeIsWhole DEF NothingDestroyed, Apart
<1>5. NewBehindOld
  <2>1. before \in Archives /\ index = LoadedIndex(before) /\ OldLen = Len(index)
    BY DEF OldLen
  <2>2. /\ file_position = IndexOffset(before) /\ final_len = 0
        /\ writer = "recv"
    OBVIOUS
  <2>3. /\ HeaderSize <= IndexOffset(before)
        /\ \A i \in 1..Len(LoadedIndex(before)) :
             LoadedIndex(before)[i].offset + LoadedIndex(before)[i].size_stored
                 <= IndexOffset(before)
    BY <2>1, BeforeIsWhole
  <2>4. Len(index) \in Nat
    BY <2>1, BeforeLoads
  <2> HIDE DEF Init, PipeInit
  <2> QED BY <2>1, <2>2, <2>3, <2>4 DEF NewBehindOld
<1> QED BY <1>3, <1>4, <1>5 DEF DiskInv

-----------------------------------------------------------------------------
(* A step that writes nothing. *)
LEMMA DiskFrame ==
    ASSUME DiskInv, UNCHANGED <<diskVars, index, file_position, final_len, before>>,
           writer' = writer \/ (/\ writer \in {"recv", "drain", "left"}
                                /\ writer' \in {"recv", "drain", "left", "failed"})
    PROVE  DiskInv'
<1> USE DEF DiskInv, diskVars
<1>1. ArchiveChunks' = ArchiveChunks
  BY SameChunks
<1>2. NothingMissing' /\ NothingDestroyed'
  BY <1>1 DEF NothingMissing, NothingDestroyed, Apart
<1>3. NewBehindOld'
  BY DEF NewBehindOld, OldLen
<1> QED BY <1>2, <1>3

(* The chunks of the new archive before its index: each ends where the next  *)
(* block will go, or before.                                                 *)
LEMMA ChunksEndBefore ==
    ASSUME IInv, DiskInv, final_len = 0, NEW c \in ArchiveChunks
    PROVE  /\ c.off \in Nat /\ End(c) \in Nat /\ End(c) <= file_position
           /\ c.what.kind \in {"header", "block"}
<1>1. CASE c = HeaderChunk
  BY <1>1, HeaderIsChunk, HeaderAssumption DEF DiskInv, NewBehindOld, AnyChunk
<1>2. ASSUME NEW i \in 1..Len(index), c = BlockChunk(index[i])
      PROVE  /\ c.off \in Nat /\ End(c) \in Nat /\ End(c) <= file_position
             /\ c.what.kind = "block"
  <2>1. index[i] \in BlockEntry
    BY LenProperties DEF IInv, PipeInv, PipeTypeOK
  <2> QED BY <1>2, <2>1
      DEF DiskInv, NewBehindOld, BlockEntry, BlockChunk, Chunk, BlockData, End
<1> QED BY <1>1, <1>2 DEF ArchiveChunks

LEMMA DrainDisk == ASSUME IInv, DiskInv, WriterDrain, UNCHANGED before PROVE DiskInv'
<1>a. PICK b \in block_queue :
        /\ buffer' = Append(buffer, Chunk(file_position, b.size, BlockData(b.id)))
        /\ index' = Append(index, Entry(file_position, b.size, b.id))
        /\ file_position' = file_position + b.size
  BY DrainKeepsLength DEF IInv, PipeInv
<1> DEFINE new == Chunk(file_position, b.size, BlockData(b.id))
<1> DEFINE e == Entry(file_position, b.size, b.id)
<1>b. /\ b.id \in Nat /\ b.size \in Nat /\ file_position \in Nat
      /\ e \in BlockEntry /\ e.offset = file_position /\ e.size_stored = b.size
      /\ new \in AnyChunk /\ new = BlockChunk(e)
      /\ new.off = file_position /\ End(new) = file_position + b.size
      /\ new.what.kind = "block"
  BY ChunkTypes, SizesAssumption
  DEF IInv, PipeInv, PipeTypeOK, ProcessedBlock, Entry, BlockEntry, BlockChunk, Chunk, End, BlockData
<1>c. /\ Len(index) \in Nat /\ Len(index') = Len(index) + 1
      /\ \A i \in 1..Len(index) : index'[i] = index[i] /\ index[i] \in BlockEntry
      /\ index'[Len(index) + 1] = e
  BY <1>a, <1>b, AppendProperties, LenProperties DEF IInv, PipeInv, PipeTypeOK
<1>d. /\ Len(buffer) \in Nat /\ DOMAIN buffer = 1..Len(buffer)
      /\ DOMAIN buffer' = 1..Len(buffer) + 1
      /\ \A k \in 1..Len(buffer) : buffer'[k] = buffer[k]
      /\ buffer'[Len(buffer) + 1] = new
  BY <1>a, <1>b, AppendProperties, LenProperties DEF IInv, TypeOK, DiskTypeOK
<1>e. writer = "drain" /\ final_len = 0 /\ final_len' = 0 /\ file' = file /\ writer' = writer
  BY DEF WriterDrain, DiskInv, NewBehindOld
<1>f. ArchiveChunks' = ArchiveChunks \cup {new}
  <2>0. \A i \in 1..Len(index') : i \in 1..Len(index) \/ i = Len(index) + 1
    BY <1>c
  <2>1. {BlockChunk(index'[i]) : i \in 1..Len(index')} =
          {BlockChunk(index[i]) : i \in 1..Len(index)} \cup {new}
    <3>1. BlockChunk(index'[Len(index) + 1]) = new
          /\ Len(index) + 1 \in 1..Len(index')
          /\ \A i \in 1..Len(index) : i \in 1..Len(index')
                                       /\ BlockChunk(index'[i]) = BlockChunk(index[i])
      BY <1>b, <1>c
    <3> HIDE DEF new
    <3> QED BY <2>0, <3>1
  <2> HIDE DEF new
  <2>2. final_len = 0 /\ final_len' = 0 /\ writer' = writer
    BY <1>e
  <2> QED BY <2>1, <2>2 DEF ArchiveChunks, BlockChunk
<1> HIDE DEF new, e
<1>1. NothingMissing'
  BY <1>d, <1>e, <1>f DEF DiskInv, NothingMissing
<1>2. NothingDestroyed'
  <2>1. \A c \in ArchiveChunks : Disjoint(c, new) /\ Disjoint(new, c)
    BY <1>b, <1>e, ChunksEndBefore DEF Disjoint
  <2>2. Apart(ArchiveChunks')
    BY <2>1, <1>b, <1>f DEF DiskInv, NothingDestroyed, Apart
  <2>3. \A k \in DOMAIN buffer' : buffer'[k] \in ArchiveChunks'
    BY <1>d, <1>f DEF DiskInv, NothingDestroyed
  <2> QED BY <2>2, <2>3, <1>e DEF DiskInv, NothingDestroyed
<1>3. NewBehindOld'
  <2>1. ASSUME NEW i \in 1..Len(index')
        PROVE  index'[i].offset + index'[i].size_stored <= file_position'
    <3>1. CASE i = Len(index) + 1
      BY <3>1, <1>a, <1>b, <1>c
    <3>2. CASE i \in 1..Len(index)
      <4>1. index'[i] = index[i] /\ index[i] \in BlockEntry
        BY <3>2, <1>c, LenProperties DEF IInv, PipeInv, PipeTypeOK
      <4>2. index[i].offset \in Nat /\ index[i].size_stored \in Nat
        BY <4>1 DEF BlockEntry
      <4>3. index[i].offset + index[i].size_stored <= file_position
        BY <3>2 DEF DiskInv, NewBehindOld
      <4>4. file_position \in Nat /\ file_position' \in Nat
            /\ file_position <= file_position'
        BY <1>a, <1>b
      <4>5. index[i].offset + index[i].size_stored <= file_position'
        BY <4>2, <4>3, <4>4
      <4> QED BY <4>1, <4>5
    <3>3. i = Len(index) + 1 \/ i \in 1..Len(index)
      BY <1>c
    <3> QED BY <3>1, <3>2, <3>3
  <2>2. HeaderSize <= file_position'
    BY <1>a, <1>b, HeaderAssumption DEF DiskInv, NewBehindOld
  <2>3. OldLen \in Nat /\ OldLen' = OldLen
    BY BeforeLoads DEF DiskInv, NewBehindOld, OldLen
  <2>4. Len(index') >= OldLen /\ \A i \in 1..OldLen : index'[i] = LoadedIndex(before)[i]
    BY <1>c, <2>3 DEF DiskInv, NewBehindOld
  <2> QED BY <2>1, <2>2, <2>3, <2>4, <1>e DEF DiskInv, NewBehindOld
<1> QED BY <1>1, <1>2, <1>3 DEF DiskInv

LEMMA FinishDisk == ASSUME IInv, DiskInv, WriterFinish, UNCHANGED before PROVE DiskInv'
<1>0. /\ writer = "recv" /\ writer' = "finish" /\ file' = file
      /\ UNCHANGED <<index, file_position>>
      /\ \E n \in IndexSizes :
           /\ buffer' = buffer \o
                << Chunk(file_position, n, IndexData(index)),
                   Chunk(file_position + n, FooterSize, FooterData(file_position, n)) >>
           /\ final_len' = file_position + n + FooterSize
  BY FinishKeepsLength, ZenonT(30) DEF WriterFinish
<1>a. PICK n \in IndexSizes :
        /\ buffer' = buffer \o
             << Chunk(file_position, n, IndexData(index)),
                Chunk(file_position + n, FooterSize, FooterData(file_position, n)) >>
        /\ final_len' = file_position + n + FooterSize
  BY <1>0
<1> DEFINE idx == Chunk(file_position, n, IndexData(index))
<1> DEFINE ftr == Chunk(file_position + n, FooterSize, FooterData(file_position, n))
<1>b. /\ n \in Nat /\ n > 0 /\ file_position \in Nat
      /\ final_len' = file_position + n + 1 /\ final_len' # 0
      /\ writer = "recv" /\ writer' = "finish" /\ final_len = 0 /\ file' = file
      /\ UNCHANGED <<index, file_position>>
  <2>1. file_position \in Nat
    BY DEF IInv, PipeInv, PipeTypeOK
  <2>2. n \in Nat /\ n > 0
    BY SizesAssumption
  <2>3. final_len = 0
    BY <1>0 DEF DiskInv, NewBehindOld
  <2>4. final_len' = file_position + n + 1 /\ final_len' # 0
    BY <1>a, <2>1, <2>2 DEF FooterSize
  <2> QED BY <1>0, <2>1, <2>2, <2>3, <2>4
<1>c. /\ idx \in AnyChunk /\ ftr \in AnyChunk
      /\ idx.off = file_position /\ End(idx) = file_position + n /\ idx.len = n
      /\ ftr.off = file_position + n /\ End(ftr) = file_position + n + 1 /\ ftr.len = 1
  BY <1>b, ChunkTypes DEF Chunk, End, FooterSize, IInv, PipeInv, PipeTypeOK
<1>d. /\ Len(buffer) \in Nat /\ DOMAIN buffer = 1..Len(buffer)
      /\ DOMAIN buffer' = 1..Len(buffer) + 2
      /\ \A k \in 1..Len(buffer) : buffer'[k] = buffer[k]
      /\ buffer'[Len(buffer) + 1] = idx /\ buffer'[Len(buffer) + 2] = ftr
  <2>1. buffer \in Seq(AnyChunk) /\ <<idx, ftr>> \in Seq(AnyChunk)
    BY <1>c DEF IInv, TypeOK, DiskTypeOK
  <2> QED BY <2>1, <1>a, ConcatProperties, LenProperties
<1>e. IndexChunk' = idx /\ FooterChunk' = ftr
  <2>1. IndexSize' = n /\ final_len' - FooterSize = file_position + n
    BY <1>b DEF IndexSize, FooterSize
  <2> QED BY <2>1, <1>b DEF IndexChunk, FooterChunk
<1>f. ArchiveChunks' = ArchiveChunks \cup {idx, ftr}
  BY <1>b, <1>e DEF ArchiveChunks, BlockChunk
<1> HIDE DEF idx, ftr
<1>g. \A k \in 1..Len(buffer) + 2 :
        k \in 1..Len(buffer) \/ k = Len(buffer) + 1 \/ k = Len(buffer) + 2
  BY <1>d
<1>1. NothingMissing'
  <2>1. Len(buffer) + 1 \in DOMAIN buffer' /\ Len(buffer) + 2 \in DOMAIN buffer'
        /\ \A k \in DOMAIN buffer : k \in DOMAIN buffer'
    BY <1>d
  <2> QED BY <2>1, <1>b, <1>d, <1>f DEF DiskInv, NothingMissing
<1>2. NothingDestroyed'
  <2>1. \A c \in ArchiveChunks :
          /\ Disjoint(c, idx) /\ Disjoint(idx, c) /\ Disjoint(c, ftr) /\ Disjoint(ftr, c)
    BY <1>b, <1>c, ChunksEndBefore DEF Disjoint
  <2>2. Disjoint(idx, ftr) /\ Disjoint(ftr, idx)
    BY <1>b, <1>c DEF Disjoint
  <2>3. Apart(ArchiveChunks')
    BY <2>1, <2>2, <1>b, <1>c, <1>f DEF DiskInv, NothingDestroyed, Apart
  <2>4. \A k \in DOMAIN buffer' : buffer'[k] \in ArchiveChunks'
    BY <1>d, <1>f, <1>g DEF DiskInv, NothingDestroyed
  <2> QED BY <2>3, <2>4, <1>b DEF DiskInv, NothingDestroyed
<1>3. NewBehindOld'
  BY <1>b DEF DiskInv, NewBehindOld, OldLen, FooterSize
<1> QED BY <1>1, <1>2, <1>3 DEF DiskInv

(* Writing a chunk of the new archive destroys none of the others.           *)
LEMMA SpillDisk == ASSUME IInv, DiskInv, Spill, UNCHANGED before PROVE DiskInv'
<1> DEFINE c0 == Head(buffer)
<1>a. /\ Len(buffer) \in Nat /\ Len(buffer) >= 1 /\ c0 = buffer[1] /\ c0 \in AnyChunk
      /\ DOMAIN buffer = 1..Len(buffer) /\ DOMAIN buffer' = 1..(Len(buffer) - 1)
      /\ \A k \in 1..(Len(buffer) - 1) : buffer'[k] = buffer[k + 1]
      /\ 1 \in DOMAIN buffer
  BY HeadTailProperties, EmptySeq, LenProperties DEF Spill, IInv, TypeOK, DiskTypeOK
<1>b. c0 \in ArchiveChunks /\ file'.chunks = {d \in file.chunks : Disjoint(c0, d)} \cup {c0}
  BY <1>a DEF DiskInv, NothingDestroyed, Spill, WriteChunk
<1>c. /\ UNCHANGED <<index, file_position, final_len, writer>>
      /\ ArchiveChunks' = ArchiveChunks
  BY SameChunks DEF Spill, writerVars
<1> HIDE DEF c0
<1>1. NothingMissing'
  <2> SUFFICES ASSUME writer # "failed", NEW c \in ArchiveChunks, c # c0
               PROVE  c \in file'.chunks \/ \E k \in DOMAIN buffer' : buffer'[k] = c
    BY <1>b, <1>c DEF NothingMissing
  <2>1. CASE c \in file.chunks
    <3>1. Disjoint(c0, c)
      BY <1>b DEF DiskInv, NothingDestroyed, Apart
    <3> QED BY <2>1, <3>1, <1>b
  <2>2. CASE c \notin file.chunks
    <3>1. PICK k \in 1..Len(buffer) : buffer[k] = c
      BY <2>2, <1>a DEF DiskInv, NothingMissing
    <3>2. k # 1
      BY <3>1, <1>a
    <3>3. k - 1 \in 1..(Len(buffer) - 1) /\ (k - 1) + 1 = k
      BY <3>2, <1>a
    <3> QED BY <3>1, <3>3, <1>a
  <2> QED BY <2>1, <2>2
<1>2. NothingDestroyed'
  <2>1. ASSUME NEW d \in file.chunks, Disjoint(c0, d) PROVE Disjoint(d, c0)
    BY <2>1 DEF Disjoint
  <2>2. Apart(file'.chunks)
    BY <2>1, <1>b DEF DiskInv, NothingDestroyed, Apart
  <2>3. \A k \in DOMAIN buffer' : k + 1 \in DOMAIN buffer
    BY <1>a
  <2>4. \A k \in DOMAIN buffer' : buffer'[k] \in ArchiveChunks'
    BY <2>3, <1>a, <1>c DEF DiskInv, NothingDestroyed
  <2> QED BY <2>2, <2>4, <1>c DEF DiskInv, NothingDestroyed
<1>3. NewBehindOld'
  BY <1>a, <1>c DEF DiskInv, NewBehindOld, OldLen, Spill
<1> QED BY <1>1, <1>2, <1>3 DEF DiskInv

(* Cutting the file off behind the footer leaves the new archive whole.      *)
LEMMA SetLenDisk == ASSUME IInv, DiskInv, WriterSetLen, UNCHANGED before PROVE DiskInv'
<1>a. /\ file' = SetLen(file, final_len) /\ buffer' = buffer /\ buffer = <<>>
      /\ writer = "finish" /\ writer' = "ok" /\ final_len # 0
      /\ UNCHANGED <<index, file_position, final_len>>
      /\ final_len \in Nat /\ file_position \in Nat /\ file_position + 1 <= final_len
  BY DEF WriterSetLen, DiskInv, NewBehindOld, FooterSize, IInv, PipeInv, PipeTypeOK
<1>b. ArchiveChunks' = ArchiveChunks
  BY <1>a, SameChunks
<1>c. ASSUME NEW c \in ArchiveChunks PROVE End(c) <= final_len
  <2>1. CASE c = HeaderChunk
    BY <2>1, <1>a, HeaderIsChunk, HeaderAssumption DEF DiskInv, NewBehindOld
  <2>2. CASE c = IndexChunk \/ c = FooterChunk
    BY <2>2, <1>a DEF IndexChunk, FooterChunk, IndexSize, Chunk, End, FooterSize
  <2>3. ASSUME NEW i \in 1..Len(index), c = BlockChunk(index[i]) PROVE End(c) <= final_len
    <3>1. index[i] \in BlockEntry
      BY LenProperties DEF IInv, PipeInv, PipeTypeOK
    <3>2. index[i].offset + index[i].size_stored <= file_position
      BY DEF DiskInv, NewBehindOld
    <3>3. End(c) = index[i].offset + index[i].size_stored
      BY <2>3 DEF BlockChunk, Chunk, End
    <3>4. index[i].offset \in Nat /\ index[i].size_stored \in Nat
      BY <3>1 DEF BlockEntry
    <3> QED BY <3>2, <3>3, <3>4, <1>a
  <2> QED BY <2>1, <2>2, <2>3, <1>a DEF ArchiveChunks
<1>1. NothingMissing'
  BY <1>a, <1>b, <1>c DEF DiskInv, NothingMissing, SetLen
<1>2. NothingDestroyed'
  BY <1>a, <1>b DEF DiskInv, NothingDestroyed, Apart, SetLen
<1>3. NewBehindOld'
  BY <1>a DEF DiskInv, NewBehindOld, OldLen, SetLen
<1> QED BY <1>1, <1>2, <1>3 DEF DiskInv

LEMMA WriterErrorDisk ==
    ASSUME IInv, DiskInv, WriterWriteError \/ WriterFinishError, UNCHANGED before
    PROVE  DiskInv'
<1>a. /\ writer' = "failed" /\ buffer' \in {buffer, <<>>} /\ file' = file
      /\ UNCHANGED <<index, file_position, final_len>> /\ ArchiveChunks' = ArchiveChunks
  BY SameChunks DEF WriterWriteError, WriterFinishError
<1>1. NothingMissing'
  BY <1>a DEF NothingMissing
<1>2. NothingDestroyed'
  BY <1>a DEF DiskInv, NothingDestroyed, Apart
<1>3. NewBehindOld'
  BY <1>a DEF DiskInv, NewBehindOld, OldLen
<1> QED BY <1>1, <1>2, <1>3 DEF DiskInv

LEMMA NextDisk == IInv /\ DiskInv /\ [Next]_vars => DiskInv'
<1> SUFFICES ASSUME IInv, DiskInv, [Next]_vars PROVE DiskInv'
  OBVIOUS
<1>0. UNCHANGED before
  BY DEF Next, MainStep, Copy, CopyFails, Retrieve, RetrieveFails, ReadBlock, ReadDone,
         ReadFails, JoinWorkers, MainSendFinalize, JoinWriter, Rename, RenameFails,
         Cleanup, Exit, LeaveClosure, Crash, Finished, PoolThread, WriterThread, vars,
         mainVars
<1>1. CASE WriterThread
  <2>1. CASE WriterRecvBlock \/ WriterDrained \/ WriterDisconnected
    BY <1>0, <2>1, DiskFrame
    DEF WriterRecvBlock, WriterDrained, WriterDisconnected, diskVars
  <2> QED BY <1>0, <1>1, <2>1, DrainDisk, FinishDisk, SpillDisk, SetLenDisk,
             WriterErrorDisk
      DEF WriterThread, WriterStep
<1>2. ASSUME NEW w \in Worker, PoolThread(w) PROVE DiskInv'
  <2>1. UNCHANGED <<writerVars, diskVars>>
    BY <1>2, WorkerFrame DEF PoolThread, IInv
  <2> QED BY <1>0, <2>1, DiskFrame DEF writerVars
<1>3. CASE MainStep \/ Crash \/ UNCHANGED vars
  <2>1. UNCHANGED diskVars
    BY <1>3, MainLeavesDisk
  <2>2. UNCHANGED writerVars
    BY <1>3
    DEF MainStep, Copy, CopyFails, Retrieve, RetrieveFails, ReadBlock, ReadDone,
        ReadFails, JoinWorkers, MainSendFinalize, JoinWriter, Rename, RenameFails,
        Cleanup, Exit, LeaveClosure, SendRaw, DropRawSender, SendFinalize, Crash,
        pipeVars, vars
  <2> QED BY <1>0, <2>1, <2>2, DiskFrame DEF writerVars
<1> QED BY <1>1, <1>2, <1>3 DEF Next, Finished

(* The inductive invariant of append with its disk. *)
THEOREM DiskInvariant == Spec => []AppendInv
<1>1. Init => AppendInv
  BY InitInv, InitDisk DEF AppendInv
<1>2. AppendInv /\ [Next]_vars => AppendInv'
  BY NextInv, NextDisk DEF AppendInv
<1> QED BY <1>1, <1>2, PTL DEF Spec

-----------------------------------------------------------------------------
(* When the writer has finished, the copy is the new archive.                *)
LEMMA FinishedIsWhole ==
    ASSUME AppendInv, writer = "ok"
    PROVE  LoadedIndex(file) = index /\ HoldsBlocks(file, block_id)
<1> USE DEF AppendInv, DiskInv, IInv, PipeInv
<1>a. /\ final_len # 0 /\ buffer = <<>> /\ file.len = final_len
      /\ final_len \in Nat /\ file_position \in Nat /\ file_position + 1 <= final_len
  BY DEF NewBehindOld, FooterSize, PipeTypeOK
<1>b. ArchiveChunks \subseteq file.chunks
  BY <1>a, EmptySeq DEF NothingMissing
<1>c. /\ IndexChunk \in file.chunks /\ FooterChunk \in file.chunks
      /\ HeaderChunk \in file.chunks
      /\ \A i \in 1..Len(index) : BlockChunk(index[i]) \in file.chunks
      /\ IndexChunk \in ArchiveChunks
  BY <1>a, <1>b DEF ArchiveChunks
<1>d. /\ IndexChunk.off = file_position /\ IndexChunk.len = IndexSize
      /\ IndexChunk.what.kind = "index" /\ IndexChunk.what.block = index
      /\ FooterChunk.what.kind = "footer" /\ FooterChunk.off = final_len - 1
      /\ End(FooterChunk) = final_len
      /\ FooterChunk.what.index_offset = file_position
      /\ FooterChunk.what.index_size_stored = IndexSize
      /\ IndexSize \in Int /\ IndexSize > 0
  <2>1. IndexChunk.len > 0
    <3>1. IndexChunk.what.kind = "index"
      BY DEF IndexChunk, Chunk, IndexData
    <3> QED BY <3>1, <1>c DEF NothingDestroyed, Apart
  <2> QED BY <1>a, <2>1
      DEF IndexChunk, FooterChunk, IndexSize, Chunk, End, IndexData, FooterData, FooterSize
<1>e. \A c \in file.chunks : c.off \in Nat /\ c.len \in Nat /\ End(c) = c.off + c.len
  BY DEF TypeOK, DiskTypeOK, AnyFile, AnyChunk, End
<1> HIDE DEF IndexChunk, FooterChunk, IndexSize
<1>1. Footers(file) = {FooterChunk}
  <2>1. ASSUME NEW t \in Footers(file), t # FooterChunk PROVE FALSE
    <3>1. t \in file.chunks /\ t.what.kind = "footer" /\ End(t) = final_len
      BY <1>a DEF Footers
    <3>2. t.len > 0 /\ Disjoint(t, FooterChunk)
      BY <3>1, <2>1, <1>c DEF NothingDestroyed, Apart
    <3> QED BY <3>1, <3>2, <1>a, <1>d, <1>e DEF Disjoint
  <2>2. FooterChunk \in Footers(file)
    BY <1>a, <1>c, <1>d DEF Footers
  <2> QED BY <2>1, <2>2
<1>2. Indexes(file) = {IndexChunk}
  <2>1. ASSUME NEW c \in Indexes(file), c # IndexChunk PROVE FALSE
    <3>1. c \in file.chunks /\ c.off = file_position /\ c.len = IndexSize
      BY <1>1, <1>d DEF Indexes
    <3>2. Disjoint(c, IndexChunk)
      BY <3>1, <2>1, <1>c DEF NothingDestroyed, Apart
    <3> QED BY <3>1, <3>2, <1>a, <1>c, <1>d, <1>e DEF Disjoint
  <2>2. IndexChunk \in Indexes(file)
    BY <1>1, <1>c, <1>d DEF Indexes
  <2> QED BY <2>1, <2>2
<1>3. LoadedIndex(file) = index
  BY <1>2, <1>d DEF LoadedIndex
<1>4. Loadable(file)
  <2>1. HeaderChunk.off = 0 /\ HeaderChunk.what = Header
    BY DEF HeaderChunk, Chunk
  <2> QED BY <2>1, <1>2, <1>c DEF Loadable
<1>5. Len(index) = block_id
  BY DEF FinishIsComplete, IndexInOrder
<1>6. Sound(file)
  BY <1>3, <1>c DEF Sound, BlockChunk, IndexInOrder
<1> QED BY <1>3, <1>4, <1>5, <1>6 DEF HoldsBlocks

(* Whoever opens the archive by its name, at whatever moment and after       *)
(* whatever failure or kill, finds a whole archive: the old one, or the one  *)
(* with all new blocks (append.rs and writer.rs finish).                     *)
THEOREM ArchiveStaysWhole == Spec => []ArchiveAlwaysWhole
<1>1. AppendInv => ArchiveAlwaysWhole
  <2> SUFFICES ASSUME AppendInv PROVE ArchiveAlwaysWhole
    OBVIOUS
  <2>1. CASE arch = "new"
    <3>1. writer = "ok"
      BY <2>1 DEF AppendInv, IInv, MainInv
    <3> QED BY <2>1, <3>1, FinishedIsWhole DEF ArchiveAlwaysWhole, ArchFile
  <2>2. CASE arch # "new"
    BY <2>2, BeforeIsWhole
    DEF AppendInv, DiskInv, NewBehindOld, ArchiveAlwaysWhole, ArchFile, OldLen
  <2> QED BY <2>1, <2>2
<1> QED BY <1>1, DiskInvariant, PTL

(* The entries of the old blocks stay as they were and where they were       *)
(* (append.rs: index.block is taken over, file_position is index_offset).    *)
THEOREM OldEntriesStay == Spec => []OldEntriesKept
<1>1. AppendInv => OldEntriesKept
  <2> SUFFICES ASSUME AppendInv, arch = "new"
               PROVE  SubSeq(LoadedIndex(file), 1, OldLen) = LoadedIndex(before)
    BY DEF OldEntriesKept
  <2>1. LoadedIndex(file) = index
    BY FinishedIsWhole DEF AppendInv, IInv, MainInv
  <2>2. /\ index \in Seq(BlockEntry) /\ LoadedIndex(before) \in Seq(BlockEntry)
        /\ OldLen \in Nat /\ OldLen <= Len(index) /\ OldLen = Len(LoadedIndex(before))
        /\ \A i \in 1..OldLen : index[i] = LoadedIndex(before)[i]
    BY BeforeLoads
    DEF AppendInv, IInv, PipeInv, PipeTypeOK, DiskInv, NewBehindOld, OldLen
  <2>3. /\ SubSeq(index, 1, OldLen) \in Seq(BlockEntry)
        /\ Len(SubSeq(index, 1, OldLen)) = OldLen
        /\ \A i \in 1..OldLen : SubSeq(index, 1, OldLen)[i] = index[i]
    BY <2>2, SubSeqProperties, LenProperties
  <2> QED BY <2>1, <2>2, <2>3, SeqEqual
<1> QED BY <1>1, DiskInvariant, PTL

(* After the rename the file that is now the archive is not written to any   *)
(* more, although the writer's thread may still be there.                    *)
THEOREM NothingWritesAfterRename == Spec => NoWriteAfterRename
<1>1. AppendInv /\ [Next]_vars => [arch = "new" => file' = file]_vars
  <2> SUFFICES ASSUME AppendInv, [Next]_vars, arch = "new" PROVE file' = file
    OBVIOUS
  <2>1. writer = "ok" /\ buffer = <<>>
    BY DEF AppendInv, IInv, MainInv, DiskInv, NewBehindOld
  <2>2. CASE WriterThread
    BY <2>1, <2>2
    DEF WriterThread, WriterStep, WriterRecvBlock, WriterDrain, WriterDrained,
        WriterWriteError, WriterFinish, WriterSetLen, WriterFinishError,
        WriterDisconnected, Spill
  <2>3. ASSUME NEW w \in Worker, PoolThread(w) PROVE file' = file
    BY <2>3, WorkerFrame DEF PoolThread, AppendInv, IInv, diskVars
  <2>4. CASE MainStep \/ Crash \/ UNCHANGED vars
    BY <2>4, MainLeavesDisk DEF AppendInv, diskVars
  <2> QED BY <2>2, <2>3, <2>4 DEF Next, Finished
<1> QED BY <1>1, DiskInvariant, PTL DEF Spec, NoWriteAfterRename
=============================================================================
