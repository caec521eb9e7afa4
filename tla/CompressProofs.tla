--------------------------- MODULE CompressProofs ---------------------------
(* Type correctness of compress, and that a successful run has an index of   *)
(* exactly the blocks that were cut, for any number of workers, any number   *)
(* of blocks and any faults.                                                 *)
EXTENDS CompressRefinement, PipelineProofs

LEMMA InitInv == Init => IInv
<1> SUFFICES ASSUME Init PROVE IInv
  OBVIOUS
<1> USE DEF Init, PipeInit
<1>0. DiskTypeOK
  <2>1. HeaderChunk \in AnyChunk
    BY HeaderAssumption, ChunkTypes DEF HeaderChunk
  <2> QED BY <2>1 DEF DiskTypeOK, EmptyFile, AnyFile
<1>1. PipeTypeOK /\ TypeOK
  BY <1>0, HeaderAssumption, EmptySeq DEF PipeTypeOK, TypeOK, WriterState, PC
<1>2. NoneLost /\ NoneInvented /\ IndexInOrder
  BY WorkerAssumption DEF NoneLost, NoneInvented, IndexInOrder
<1>3. StopsOnlyAtEnd /\ FinalizeLast /\ NoneDue /\ FinishIsComplete /\ LeavesOnlyIfDropped
  BY DEF StopsOnlyAtEnd, FinalizeLast, NoneDue, FinishIsComplete, LeavesOnlyIfDropped
<1>4. MainInv
  BY DEF MainInv
<1> QED BY <1>1, <1>2, <1>3, <1>4 DEF IInv, PipeInv

LEMMA MainLeavesDisk ==
    ASSUME IInv, MainStep \/ Crash \/ UNCHANGED vars
    PROVE  UNCHANGED diskVars /\ DiskTypeOK'
<1>1. UNCHANGED diskVars
  BY DEF MainStep, Refuse, Start, ReadBlock, ReadDone, JoinWorkers, MainSendFinalize,
         JoinWriter, Cleanup, Return, Exit, SendRaw, DropRawSender, SendFinalize,
         DropWriterSender, Crash, pipeVars, vars
<1> QED BY <1>1 DEF IInv, TypeOK, DiskTypeOK, diskVars

(* The steps of the main thread, one by one. *)
LEMMA MainStepInv == ASSUME IInv, MainStep PROVE IInv'
<1> USE DEF IInv
<1>0. DiskTypeOK'
  BY MainLeavesDisk
<1>1. CASE Refuse
  <2>1. PipeInv'
    BY <1>1, PipeInvUnchanged DEF Refuse, pipeVars
  <2>2. MainInv'
    BY <1>1 DEF Refuse, MainInv, pipeVars, rawVars, msgVars, writerVars
  <2> QED BY <1>0, <1>1, <2>1, <2>2 DEF Refuse, TypeOK, PC, PipeInv
<1>2. CASE Start
  <2>1. PipeInv'
    BY <1>2, PipeInvUnchanged DEF Start, pipeVars
  <2>2. MainInv'
    BY <1>2 DEF Start, MainInv, pipeVars, rawVars, msgVars, writerVars
  <2> QED BY <1>0, <1>2, <2>1, <2>2 DEF Start, TypeOK, PC, PipeInv
<1>3. CASE ReadBlock
  <2>1. PipeInv'
    BY <1>3, SendRawInv DEF ReadBlock
  <2>2. MainInv'
    BY <1>3 DEF ReadBlock, SendRaw, MainInv, mainVars, msgVars, writerVars
  <2> QED BY <1>0, <1>3, <2>1, <2>2 DEF ReadBlock, TypeOK, mainVars, PipeInv
<1>4. CASE ReadDone
  <2>1. PipeInv'
    BY <1>4, DropRawSenderInv DEF ReadDone
  <2>2. MainInv'
    BY <1>4 DEF ReadDone, DropRawSender, MainInv, msgVars, writerVars
  <2>3. read_failed' \in BOOLEAN
    BY <1>4 DEF ReadDone
  <2> QED BY <1>0, <1>4, <2>1, <2>2, <2>3 DEF ReadDone, TypeOK, PC, PipeInv
<1>5. CASE JoinWorkers
  <2>1. PipeInv'
    BY <1>5, PipeInvUnchanged DEF JoinWorkers, pipeVars
  <2>2. MainInv'
    BY <1>5 DEF JoinWorkers, MainInv, pipeVars, rawVars, poolVars, msgVars, writerVars,
                PoolDone
  <2> QED BY <1>0, <1>5, <2>1, <2>2 DEF JoinWorkers, TypeOK, PC, PipeInv
<1>6. CASE MainSendFinalize
  <2>0. /\ PoolDone /\ ~full /\ ~raw_tx /\ writer \notin {"finish", "ok"}
        /\ \A k \in DOMAIN rw_rx : rw_rx[k] # Finalize
    BY <1>6 DEF MainSendFinalize, MainInv
  <2>1. PipeInv'
    BY <1>6, <2>0, SendFinalizeInv, PipeInvUnchanged DEF MainSendFinalize, pipeVars
  <2>2. /\ pc = "finalize" /\ pc' \in {"join_writer", "cleanup"}
        /\ UNCHANGED <<read_failed, path, outcome, raw_tx, rw_tx, full, wpc>>
    BY <1>6 DEF MainSendFinalize, SendFinalize, pipeVars, rawVars, poolVars, msgVars
  <2>3. MainInv'
    BY <2>2 DEF MainInv, PoolDone
  <2> QED BY <1>0, <2>1, <2>2, <2>3 DEF TypeOK, PC, PipeInv
<1>7. CASE JoinWriter
  <2>1. PipeInv'
    BY <1>7, PipeInvUnchanged DEF JoinWriter, pipeVars
  <2>2. writer = "failed" \/ writer = "ok"
    BY <1>7 DEF JoinWriter, WriterReturned, MainInv, LeavesOnlyIfDropped, PipeInv
  <2>3. MainInv'
    BY <1>7, <2>2 DEF JoinWriter, MainInv, pipeVars, rawVars, poolVars, msgVars,
                      writerVars, PoolDone
  <2> QED BY <1>0, <1>7, <2>1, <2>3 DEF JoinWriter, TypeOK, PC, PipeInv
<1>8. CASE Cleanup
  <2>1. PipeInv'
    BY <1>8, PipeInvUnchanged DEF Cleanup, pipeVars
  <2>2. MainInv'
    BY <1>8 DEF Cleanup, MainInv, pipeVars, rawVars, msgVars, writerVars
  <2>3. path' \in {"absent", "foreign", "ours", "stuck"}
    BY <1>8 DEF Cleanup, TypeOK
  <2> QED BY <1>0, <1>8, <2>1, <2>2, <2>3 DEF Cleanup, TypeOK, PC, PipeInv
<1>9. CASE Return
  <2>1. PipeInv'
    BY <1>9, DropWriterSenderInv DEF Return
  <2>2. MainInv'
    BY <1>9 DEF Return, DropWriterSender, MainInv, rawVars, writerVars
  <2> QED BY <1>0, <1>9, <2>1, <2>2 DEF Return, TypeOK, PC, PipeInv
<1>10. CASE Exit
  <2>1. PipeInv'
    BY <1>10, PipeInvUnchanged DEF Exit, pipeVars
  <2>2. MainInv'
    BY <1>10 DEF Exit, MainInv, pipeVars, rawVars, msgVars, writerVars
  <2> QED BY <1>0, <1>10, <2>1, <2>2 DEF Exit, TypeOK, PC, PipeInv
<1> QED BY <1>1, <1>2, <1>3, <1>4, <1>5, <1>6, <1>7, <1>8, <1>9, <1>10 DEF MainStep

LEMMA PoolThreadInv ==
    ASSUME IInv, NEW w \in Worker, PoolThread(w) PROVE IInv'
<1> USE DEF IInv, PoolThread, mainVars
<1>1. PipeInv'
  BY WorkerStepInv
<1>2. MainInv'
  BY WorkerFrame DEF MainInv, NoFinalize, writerVars
<1>3. DiskTypeOK'
  BY WorkerFrame DEF TypeOK, DiskTypeOK, diskVars
<1> QED BY <1>1, <1>2, <1>3 DEF TypeOK, PipeInv

LEMMA WriterThreadInv == ASSUME IInv, WriterThread PROVE IInv'
<1> USE DEF IInv, WriterThread, mainVars
<1>1. PipeInv'
  BY WriterStepInv
<1>2. MainInv'
  BY WriterFrame DEF MainInv, NoFinalize, rawVars, poolVars, PoolDone
<1>3. DiskTypeOK'
  BY WriterStepDiskType DEF TypeOK
<1> QED BY <1>1, <1>2, <1>3 DEF TypeOK, PipeInv

LEMMA NextInv == IInv /\ [Next]_vars => IInv'
<1> SUFFICES ASSUME IInv, [Next]_vars PROVE IInv'
  OBVIOUS
<1>1. CASE Crash
  <2>1. PipeInv'
    BY <1>1, PipeInvUnchanged DEF Crash, pipeVars, IInv
  <2>2. MainInv'
    BY <1>1 DEF Crash, IInv, MainInv, pipeVars, writerVars, TypeOK
  <2> QED BY <1>1, <2>1, <2>2, MainLeavesDisk DEF IInv, Crash, TypeOK, PC, PipeInv
<1>2. CASE UNCHANGED vars
  <2>1. PipeInv'
    BY <1>2, PipeInvUnchanged DEF vars, pipeVars, IInv
  <2>2. MainInv'
    BY <1>2 DEF IInv, MainInv, vars, mainVars, pipeVars, rawVars, poolVars, msgVars,
                writerVars, PoolDone
  <2> QED BY <1>2, <2>1, <2>2, MainLeavesDisk DEF IInv, TypeOK, vars, mainVars, PipeInv
<1> QED BY <1>1, <1>2, MainStepInv, PoolThreadInv, WriterThreadInv DEF Next, Finished

(* The inductive invariant holds in every state of compress. *)
THEOREM Invariant == Spec => []IInv
BY InitInv, NextInv, PTL DEF Spec

(* Every variable keeps its type, whatever the number of workers, blocks and *)
(* sizes (all of compress.rs's threads).                                     *)
THEOREM TypeCorrect == Spec => []TypeOK
<1>1. IInv => TypeOK
  BY DEF IInv
<1> QED BY <1>1, Invariant, PTL

(* Success means a complete index: when compress returns Ok, the index       *)
(* describes every block that was cut, once and in order, however the pool   *)
(* interleaved them (compress.rs writer and the joins of                     *)
(* initialize_compression).                                                  *)
THEOREM SuccessHasCompleteIndex == Spec => []IndexComplete
<1>1. IInv => IndexComplete
  BY DEF IInv, PipeInv, MainInv, IndexInOrder, FinishIsComplete, IndexComplete
<1> QED BY <1>1, Invariant, PTL

(* No error of a worker, of the writer or of the reader is turned into       *)
(* success.                                                                  *)
THEOREM ErrorsReachTheCaller == Spec => []ErrorsSurface
<1>1. IInv => ErrorsSurface
  BY DEF IInv, PipeInv, MainInv, FinishIsComplete, ErrorsSurface
<1> QED BY <1>1, Invariant, PTL

(* Finalize never overtakes a block, in the channel or on the way to it: the *)
(* reason the join of the pool comes before the send.                        *)
THEOREM FinalizeNeverOvertakes == Spec => []FinalizeIsLast
<1>1. IInv => FinalizeIsLast
  <2> SUFFICES ASSUME IInv, NEW k \in DOMAIN rw_rx, rw_rx[k] = Finalize
               PROVE  /\ k = Len(rw_rx) /\ raw_rx = <<>>
                      /\ \A w \in Worker : wpc[w] # "busy"
    BY DEF FinalizeIsLast
  <2>1. k = Len(rw_rx) /\ PoolDone /\ ~full
    BY DEF IInv, PipeInv, FinalizeLast
  <2>2. raw_rx = <<>>
    BY <2>1, WorkerAssumption DEF IInv, PipeInv, StopsOnlyAtEnd, PoolDone
  <2> QED BY <2>1, <2>2 DEF PoolDone
<1> QED BY <1>1, Invariant, PTL

-----------------------------------------------------------------------------
(* Compress implements the ordered log.                                      *)

(* The steps that change what the log sees of the state. *)
LEMMA OnlyDrainWritesIndex ==
    ASSUME IInv, [Next]_vars
    PROVE  UNCHANGED index \/ (WriterDrain /\ UNCHANGED <<block_id, outcome>>)
<1> USE DEF pipeVars, writerVars
<1>1. CASE MainStep
  BY <1>1 DEF MainStep, Refuse, Start, ReadBlock, ReadDone, JoinWorkers, MainSendFinalize,
              JoinWriter, Cleanup, Return, Exit, SendRaw, DropRawSender, SendFinalize,
              DropWriterSender
<1>2. ASSUME NEW w \in Worker, PoolThread(w) PROVE UNCHANGED index
  BY <1>2, WorkerFrame DEF PoolThread, IInv
<1>3. CASE WriterThread
  BY <1>3 DEF WriterThread, WriterStep, WriterRecvBlock, WriterDrain, WriterDrained,
              WriterWriteError, WriterFinish, WriterSetLen, WriterFinishError,
              WriterDisconnected, Spill, mainVars, rawVars
<1>4. CASE Crash \/ Finished \/ UNCHANGED vars
  BY <1>4 DEF Crash, Finished, vars
<1> QED BY <1>1, <1>2, <1>3, <1>4 DEF Next

LEMMA LogLength ==
    ASSUME PipeTypeOK
    PROVE  /\ LogOfIndex \in Seq(Nat) /\ Len(LogOfIndex) = Len(index)
           /\ \A i \in 1..Len(index) : LogOfIndex[i] = index[i].id
BY IdsOfEntries DEF LogOfIndex, PipeTypeOK

LEMMA DrainStores ==
    ASSUME IInv, WriterDrain, UNCHANGED <<block_id, outcome>>
    PROVE  Abstract!Store
<1> USE DEF IInv, PipeInv
<1>a. PICK b \in block_queue :
        /\ b.id = expected_id
        /\ index' = Append(index, Entry(file_position, b.size, b.id))
  BY DrainKeepsLength
<1>1. Status # "committed"
  BY DEF Status, MainInv, WriterDrain, TypeOK
<1>2. Len(LogOfIndex) < block_id
  BY <1>a, LogLength DEF NoneInvented, IndexInOrder
<1>3. LogOfIndex' = Append(LogOfIndex, Len(LogOfIndex))
  <2>1. /\ index \in Seq(BlockEntry) /\ Len(index) = expected_id /\ expected_id \in Nat
        /\ Entry(file_position, b.size, b.id) \in BlockEntry
        /\ Entry(file_position, b.size, b.id).id = expected_id
    BY <1>a, SizesAssumption
    DEF PipeTypeOK, IndexInOrder, ProcessedBlock, Entry, BlockEntry
  <2> QED BY <1>a, <2>1, IdsOfAppended DEF LogOfIndex
<1>4. UNCHANGED <<block_id, Status>>
  BY DEF Status
<1> QED BY <1>1, <1>2, <1>3, <1>4 DEF Abstract!Store

LEMMA StepImplements == IInv /\ [Next]_vars => [Abstract!LogNext]_(Abstract!logVars)
<1> SUFFICES ASSUME IInv, [Next]_vars PROVE [Abstract!LogNext]_(Abstract!logVars)
  OBVIOUS
<1> USE DEF IInv, Abstract!LogNext, Abstract!logVars
<1>1. CASE WriterDrain /\ UNCHANGED <<block_id, outcome>>
  BY <1>1, DrainStores
<1>2. CASE UNCHANGED index
  <2>0. UNCHANGED LogOfIndex
    BY <1>2 DEF LogOfIndex
  <2>1. CASE ReadBlock
    <3>1. outcome = "none" /\ UNCHANGED outcome /\ block_id' = block_id + 1
      BY <2>1 DEF ReadBlock, SendRaw, MainInv, mainVars
    <3>2. Abstract!Produce
      BY <3>1, <2>0 DEF Abstract!Produce, Status
    <3> QED BY <3>2
  <2>2. CASE UNCHANGED block_id /\ outcome = "none" /\ outcome' = "ok"
    <3>1. writer = "ok"
      BY <2>2, NextInv, <1>2 DEF Next, MainStep, Refuse, Start, ReadBlock, ReadDone,
         JoinWorkers, MainSendFinalize, JoinWriter, Cleanup, Return, Exit, PoolThread,
         WriterThread, Crash, Finished, vars, mainVars, MainInv, pipeVars, writerVars
    <3>2. Len(LogOfIndex) = block_id
      BY <3>1, LogLength DEF PipeInv, IndexInOrder, FinishIsComplete
    <3>3. Abstract!Commit
      BY <2>0, <2>2, <3>2 DEF Abstract!Commit, Status
    <3> QED BY <3>3
  <2>3. CASE UNCHANGED block_id /\ outcome = "none" /\ outcome' \in {"error", "killed"}
    BY <2>0, <2>3 DEF Abstract!Abort, Status
  <2>4. CASE UNCHANGED <<block_id, outcome>>
    BY <2>0, <2>4 DEF Status
  <2>5. \/ ReadBlock
        \/ UNCHANGED <<block_id, outcome>>
        \/ /\ UNCHANGED block_id /\ outcome = "none"
           /\ outcome' \in {"ok", "error", "killed"}
    <3>1. ASSUME NEW w \in Worker, PoolThread(w) PROVE UNCHANGED <<block_id, outcome>>
      BY <3>1, WorkerFrame DEF PoolThread, mainVars
    <3>2. CASE WriterThread
      BY <3>2, WriterFrame DEF WriterThread, mainVars, rawVars
    <3>3. CASE MainStep
      BY <3>3 DEF MainStep, Refuse, Start, ReadDone, JoinWorkers, MainSendFinalize,
         JoinWriter, Cleanup, Return, Exit, DropRawSender, SendFinalize,
         DropWriterSender, pipeVars, rawVars, MainInv
    <3>4. CASE Crash \/ Finished \/ UNCHANGED vars
      BY <3>4 DEF Crash, Finished, vars, mainVars, pipeVars, rawVars
    <3> QED BY <3>1, <3>2, <3>3, <3>4 DEF Next
  <2> QED BY <2>1, <2>2, <2>3, <2>4, <2>5
<1> QED BY <1>1, <1>2, OnlyDrainWritesIndex

LEMMA InitImplements == Init => Abstract!LogInit
<1> SUFFICES ASSUME Init PROVE Abstract!LogInit
  OBVIOUS
<1>1. index = <<>> /\ block_id = 0 /\ outcome = "none"
  BY EmptySeq DEF Init, PipeInit
<1>2. LogOfIndex = <<>> /\ Len(LogOfIndex) = 0
  BY <1>1 DEF LogOfIndex
<1> QED BY <1>1, <1>2 DEF Abstract!LogInit, Status

(* The refinement: compress, with its threads, queues and failures, is an    *)
(* ordered log that is committed only when it holds every produced block.    *)
THEOREM CompressImplementsOrderedLog == Spec => ImplementsOrderedLog
BY InitImplements, StepImplements, Invariant, PTL
DEF Spec, ImplementsOrderedLog, Abstract!LogSpec

(* The index only grows, at its end: no entry is changed once it is written. *)
THEOREM IndexIsAppendOnly == Spec => IndexAppendOnly
<1>1. IInv /\ [Next]_vars =>
        [/\ Len(index') >= Len(index) /\ SubSeq(index', 1, Len(index)) = index]_index
  <2> SUFFICES ASSUME IInv, WriterDrain
               PROVE  /\ Len(index') >= Len(index)
                      /\ SubSeq(index', 1, Len(index)) = index
    BY OnlyDrainWritesIndex
  <2>1. PICK e \in BlockEntry : index' = Append(index, e)
    BY DrainKeepsLength, SizesAssumption
    DEF IInv, PipeInv, PipeTypeOK, ProcessedBlock, Entry, BlockEntry
  <2>2. index \in Seq(BlockEntry)
    BY DEF IInv, PipeInv, PipeTypeOK
  <2> QED BY <2>1, <2>2, AppendProperties
<1> QED BY <1>1, Invariant, PTL DEF Spec, IndexAppendOnly

-----------------------------------------------------------------------------
(* An archive that was there before is never touched: create_new refuses it, *)
(* and only a run that has created the file removes it (compress.rs:191).    *)
THEOREM ForeignIsUntouched == Spec => ForeignUntouched
<1>1. IInv /\ [Next]_vars => [path = "foreign" => path' = "foreign"]_path
  <2> SUFFICES ASSUME IInv, [Next]_vars, path = "foreign" PROVE path' = "foreign"
    OBVIOUS
  <2>1. ~Cleanup
    BY DEF Cleanup, IInv, MainInv
  <2>2. CASE MainStep
    BY <2>1, <2>2 DEF MainStep, Refuse, Start, ReadBlock, ReadDone, JoinWorkers,
         MainSendFinalize, JoinWriter, Return, Exit, mainVars
  <2>3. CASE ~MainStep
    BY <2>3 DEF Next, PoolThread, WriterThread, Crash, Finished, vars, mainVars
  <2> QED BY <2>2, <2>3
<1> QED BY <1>1, Invariant, PTL DEF Spec, ForeignUntouched

(* A failed run does not keep its archive: it is removed, or the system has  *)
(* refused to remove it (compress.rs:191).                                   *)
THEOREM FailureIsCleanedUp == Spec => []FailureLeavesNothing
<1> DEFINE Clean == FailureLeavesNothing /\ (pc = "start" => path # "ours")
<1>1. Init => Clean
  BY DEF Init, FailureLeavesNothing
<1>2. IInv /\ Clean /\ [Next]_vars => Clean'
  <2> SUFFICES ASSUME IInv, Clean, [Next]_vars PROVE Clean'
    OBVIOUS
  <2>1. CASE MainStep
    BY <2>1 DEF MainStep, Refuse, Start, ReadBlock, ReadDone, JoinWorkers,
         MainSendFinalize, JoinWriter, Cleanup, Return, Exit, mainVars,
         FailureLeavesNothing, IInv, MainInv
  <2>2. CASE Crash
    BY <2>2 DEF Crash, Running, FailureLeavesNothing
  <2>3. CASE ~MainStep /\ ~Crash
    BY <2>3 DEF Next, PoolThread, WriterThread, Finished, vars, mainVars,
         FailureLeavesNothing
  <2> QED BY <2>1, <2>2, <2>3
<1> QED BY <1>1, <1>2, Invariant, PTL DEF Spec

(* What has failed stays failed. *)
LEMMA FailuresStay ==
    ASSUME IInv, [Next]_vars, pc # "read"
    PROVE  /\ read_failed \/ full \/ writer = "failed" =>
                (read_failed \/ full \/ writer = "failed")'
           /\ pc # "done" \/ raw_tx' = raw_tx
<1>1. CASE MainStep
  BY <1>1 DEF MainStep, Refuse, Start, ReadBlock, ReadDone, JoinWorkers, MainSendFinalize,
              JoinWriter, Cleanup, Return, Exit, SendFinalize, DropWriterSender, pipeVars,
              rawVars, poolVars, writerVars
<1>2. ASSUME NEW w \in Worker, PoolThread(w)
      PROVE  /\ full => full'
             /\ UNCHANGED <<read_failed, writer, raw_tx>>
  <2>1. full => full'
    BY <1>2 DEF PoolThread, WorkerStep, WorkerBegin, WorkerTake, WorkerEnd, WorkerSend,
                WorkerFail
  <2> QED BY <1>2, <2>1, WorkerFrame DEF PoolThread, IInv, mainVars, writerVars
<1>3. CASE WriterThread
  <2>1. writer = "failed" => writer' = "failed"
    BY <1>3 DEF WriterThread, WriterStep, WriterRecvBlock, WriterDrain, WriterDrained,
                WriterWriteError, WriterFinish, WriterSetLen, WriterFinishError,
                WriterDisconnected, Spill, writerVars
  <2>2. UNCHANGED <<rawVars, poolVars, read_failed>>
    BY <1>3, WriterFrame DEF WriterThread, IInv, mainVars
  <2> QED BY <2>1, <2>2 DEF rawVars, poolVars
<1>4. CASE Crash \/ Finished \/ UNCHANGED vars
  BY <1>4 DEF Crash, Finished, vars, mainVars, pipeVars, rawVars, poolVars, writerVars
<1> QED BY <1>1, <1>2, <1>3, <1>4 DEF Next

(* A run that reports an error has met one: it was refused at the start, or  *)
(* the reader, a worker or the writer has failed (the joins of               *)
(* initialize_compression).                                                  *)
THEOREM ErrorsAreReal == Spec => []NoFalseAlarm
<1> DEFINE Failed == read_failed \/ full \/ writer = "failed"
<1> DEFINE Real ==
      /\ outcome = "error" => Failed \/ (pc = "done" /\ raw_tx)
      /\ pc = "cleanup" => Failed
      /\ pc = "start" => raw_tx
<1>1. Init => Real
  BY DEF Init, PipeInit
<1>2. IInv /\ Real /\ [Next]_vars => Real'
  <2> SUFFICES ASSUME IInv, Real, [Next]_vars PROVE Real'
    OBVIOUS
  <2>1. CASE pc = "read"
    BY <2>1 DEF IInv, MainInv, Next, MainStep, Refuse, Start, ReadBlock, ReadDone,
         JoinWorkers, MainSendFinalize, JoinWriter, Cleanup, Return, Exit, PoolThread,
         WriterThread, Crash, Running, Finished, vars, mainVars
  <2>2. CASE pc # "read"
    <3>1. (Failed => Failed') /\ (pc = "done" => raw_tx' = raw_tx)
      BY <2>2, FailuresStay
    <3>2. CASE MainStep
      <4>1. CASE Refuse \/ Start
        BY <4>1, <3>1 DEF Refuse, Start, pipeVars, rawVars, IInv, MainInv
      <4>2. CASE MainSendFinalize
        <5>1. pc' = "cleanup" => writer = "failed"
          BY <4>2 DEF MainSendFinalize, SendFinalize, WriterReturned, IInv, MainInv,
                      PipeInv, LeavesOnlyIfDropped
        <5> QED BY <4>2, <5>1, <3>1 DEF MainSendFinalize, IInv, MainInv
      <4>3. CASE JoinWorkers \/ JoinWriter \/ Cleanup \/ Return \/ Exit
        BY <4>3, <3>1 DEF JoinWorkers, JoinWriter, Cleanup, Return, Exit
      <4> QED BY <2>2, <3>2, <4>1, <4>2, <4>3 DEF MainStep, ReadBlock, ReadDone
    <3>3. CASE Crash
      BY <3>1, <3>3 DEF Crash, Running
    <3>4. CASE ~MainStep /\ ~Crash
      <4>1. UNCHANGED mainVars
        BY <3>4 DEF Next, PoolThread, WriterThread, Finished, vars
      <4>2. pc = "start" => UNCHANGED vars
        BY <3>4 DEF Next, PoolThread, WriterThread, Running, Finished
      <4> QED BY <3>1, <4>1, <4>2 DEF mainVars, vars, pipeVars, rawVars
    <3> QED BY <3>2, <3>3, <3>4
  <2> QED BY <2>1, <2>2
<1>3. Real => NoFalseAlarm
  BY DEF NoFalseAlarm
<1> QED BY <1>1, <1>2, <1>3, Invariant, PTL DEF Spec

(* What OnlyDrainWritesIndex says of the index holds for its end, too. *)
LEMMA OnlyDrainMoves ==
    ASSUME IInv, [Next]_vars, ~WriterDrain
    PROVE  UNCHANGED <<index, file_position>>
<1> USE DEF pipeVars, writerVars
<1>1. CASE MainStep
  BY <1>1 DEF MainStep, Refuse, Start, ReadBlock, ReadDone, JoinWorkers, MainSendFinalize,
              JoinWriter, Cleanup, Return, Exit, SendRaw, DropRawSender, SendFinalize,
              DropWriterSender
<1>2. ASSUME NEW w \in Worker, PoolThread(w) PROVE UNCHANGED <<index, file_position>>
  BY <1>2, WorkerFrame DEF PoolThread, IInv
<1>3. CASE WriterThread
  BY <1>3 DEF WriterThread, WriterStep, WriterRecvBlock, WriterDrained, WriterWriteError,
              WriterFinish, WriterSetLen, WriterFinishError, WriterDisconnected, Spill
<1>4. CASE Crash \/ Finished \/ UNCHANGED vars
  BY <1>4 DEF Crash, Finished, vars
<1> QED BY <1>1, <1>2, <1>3, <1>4 DEF Next

(* Entry after entry, and the next block behind the last. *)
LEMMA DrainIsContiguous ==
    ASSUME IInv, WriterDrain, IndexContiguous
    PROVE  IndexContiguous'
<1> DEFINE n == Len(index)
<1>1. PICK b \in block_queue :
        /\ index' = Append(index, Entry(file_position, b.size, b.id))
        /\ file_position' = file_position + b.size
  BY DrainKeepsLength DEF IInv, PipeInv
<1>2. /\ index \in Seq(BlockEntry) /\ n \in Nat
      /\ Entry(file_position, b.size, b.id) \in BlockEntry
  <2>1. /\ index \in Seq(BlockEntry) /\ file_position \in Nat
        /\ b.id \in Nat /\ b.size \in Nat
    BY SizesAssumption DEF IInv, PipeInv, PipeTypeOK, ProcessedBlock
  <2> QED BY <2>1 DEF Entry, BlockEntry
<1>3. /\ Len(index') = n + 1 /\ index' # <<>>
      /\ \A i \in 1..n : index'[i] = index[i]
      /\ index'[n + 1] = Entry(file_position, b.size, b.id)
  BY <1>1, <1>2, AppendProperties
<1>4. ASSUME NEW i \in 1..Len(index')
      PROVE  index'[i].offset = IF i = 1 THEN HeaderSize
                                ELSE index'[i-1].offset + index'[i-1].size_stored
  <2>1. CASE i \in 1..n
    BY <1>2, <1>3, <2>1 DEF IndexContiguous
  <2>2. CASE i = n + 1
    <3>1. index'[i].offset = file_position
      BY <1>3, <2>2 DEF Entry
    <3>2. i = 1 <=> index = <<>>
      BY <1>2, <2>2, EmptySeq
    <3>3. i # 1 => i - 1 = n /\ i - 1 \in 1..n
      BY <1>2, <2>2
    <3> QED BY <1>3, <3>1, <3>2, <3>3 DEF IndexContiguous
  <2> QED BY <1>2, <1>3, <1>4, <2>1, <2>2
<1>5. file_position' = index'[Len(index')].offset + index'[Len(index')].size_stored
  BY <1>1, <1>3 DEF Entry
<1> QED BY <1>3, <1>4, <1>5 DEF IndexContiguous

(* The blocks lie one behind the other in the file, from the header on       *)
(* (compress.rs:387-396).                                                    *)
THEOREM IndexIsContiguous == Spec => []IndexContiguous
<1>1. Init => IndexContiguous
  BY EmptySeq DEF Init, PipeInit, IndexContiguous
<1>2. IInv /\ IndexContiguous /\ [Next]_vars => IndexContiguous'
  <2> SUFFICES ASSUME IInv, IndexContiguous, [Next]_vars PROVE IndexContiguous'
    OBVIOUS
  <2>1. CASE WriterDrain
    BY <2>1, DrainIsContiguous
  <2>2. CASE ~WriterDrain
    <3>1. UNCHANGED <<index, file_position>>
      BY <2>2, OnlyDrainMoves
    <3> QED BY <3>1 DEF IndexContiguous
  <2> QED BY <2>1, <2>2
<1> QED BY <1>1, <1>2, Invariant, PTL DEF Spec

-----------------------------------------------------------------------------
(* From the pipeline to the disk: at every moment, a file with the archive's *)
(* name that loads holds every block that was cut, and success means such a  *)
(* file.                                                                     *)

diskUsed == <<diskVars, index, file_position, final_len>>

(* A step that writes nothing. *)
LEMMA DiskFrame ==
    ASSUME DiskInv, UNCHANGED diskUsed, UNCHANGED expected_id,
           final_len # 0 => UNCHANGED block_id /\ ~raw_tx',
           writer' = writer \/ (/\ writer \in {"recv", "drain", "left"}
                                /\ writer' \in {"recv", "drain", "left", "failed"})
    PROVE  DiskInv'
<1> USE DEF DiskInv, diskUsed, diskVars
<1>1. NoHoles'
  BY SameChunks DEF NoHoles
<1>2. WrittenInOrder'
  BY SameChunks DEF WrittenInOrder
<1>3. RoomForNext' /\ FinalLength'
  BY DEF RoomForNext, FinalLength
<1> QED BY <1>1, <1>2, <1>3

LEMMA InitDisk == Init => DiskInv
<1> SUFFICES ASSUME Init PROVE DiskInv
  OBVIOUS
<1> USE DEF Init, PipeInit
<1>1. ArchiveChunks = {HeaderChunk}
  BY DEF ArchiveChunks
<1>2. NoHoles
  BY <1>1 DEF NoHoles
<1>3. WrittenInOrder
  BY <1>1, HeaderIsChunk DEF WrittenInOrder, EmptyFile
<1>4. RoomForNext /\ FinalLength
  BY HeaderAssumption DEF RoomForNext, FinalLength, EmptyFile
<1> QED BY <1>2, <1>3, <1>4 DEF DiskInv

(* Before finish() every chunk ends where the next block will go, or before. *)
LEMMA ChunksEndBefore ==
    ASSUME RoomForNext, final_len = 0, NEW c \in ArchiveChunks
    PROVE  End(c) <= file_position
BY HeaderIsChunk DEF ArchiveChunks, RoomForNext, BlockChunk, Chunk, End

LEMMA DrainDisk == ASSUME IInv, DiskInv, WriterDrain PROVE DiskInv'
<1> USE DEF DiskInv
<1>a. PICK b \in block_queue :
        /\ buffer' = Append(buffer, Chunk(file_position, b.size, BlockData(b.id)))
        /\ index' = Append(index, Entry(file_position, b.size, b.id))
        /\ file_position' = file_position + b.size
  BY DrainKeepsLength DEF IInv, PipeInv
<1> DEFINE new == Chunk(file_position, b.size, BlockData(b.id))
<1> DEFINE e == Entry(file_position, b.size, b.id)
<1>b. /\ b.id \in Nat /\ b.size \in Nat /\ file_position \in Nat
      /\ e \in BlockEntry /\ e.offset = file_position /\ e.size_stored = b.size
      /\ new \in AnyChunk /\ new = BlockChunk(e)
      /\ new.off = file_position /\ End(new) = file_position + b.size
  BY ChunkTypes, SizesAssumption
  DEF IInv, PipeInv, PipeTypeOK, ProcessedBlock, Entry, BlockEntry, BlockChunk, Chunk, End
<1>c. /\ Len(index) \in Nat /\ Len(index') = Len(index) + 1
      /\ \A i \in 1..Len(index) : index'[i] = index[i]
      /\ index'[Len(index) + 1] = e
  BY <1>a, <1>b, AppendProperties, LenProperties DEF IInv, PipeInv, PipeTypeOK
<1>d. /\ Len(buffer) \in Nat /\ DOMAIN buffer = 1..Len(buffer)
      /\ DOMAIN buffer' = 1..Len(buffer) + 1
      /\ \A k \in 1..Len(buffer) : buffer'[k] = buffer[k]
      /\ buffer'[Len(buffer) + 1] = new
  BY <1>a, <1>b, AppendProperties, LenProperties DEF IInv, TypeOK, DiskTypeOK
<1>e. writer = "drain" /\ final_len = 0 /\ final_len' = 0 /\ file' = file /\ writer' = writer
  BY DEF WriterDrain, FinalLength
<1>f. ArchiveChunks' = ArchiveChunks \cup {new}
  <2>1. {BlockChunk(index'[i]) : i \in 1..Len(index')} =
          {BlockChunk(index[i]) : i \in 1..Len(index)} \cup {new}
    BY <1>b, <1>c
  <2> QED BY <2>1, <1>e DEF ArchiveChunks, BlockChunk
<1>1. NoHoles'
  BY <1>d, <1>e, <1>f DEF NoHoles
<1>2. WrittenInOrder'
  <2>1. \A c \in file.chunks : c \in ArchiveChunks' /\ End(c) <= file.len
    BY <1>f DEF WrittenInOrder
  <2>2. ASSUME NEW k \in DOMAIN buffer'
        PROVE  /\ buffer'[k] \in ArchiveChunks' /\ buffer'[k].off >= file.len
               /\ \A j \in DOMAIN buffer' : j < k => End(buffer'[j]) <= buffer'[k].off
    <3>1. CASE k = Len(buffer) + 1
      <4>1. new.off >= file.len
        BY <1>b, <1>e DEF RoomForNext, IInv, TypeOK, DiskTypeOK, AnyFile
      <4>2. \A j \in 1..Len(buffer) : End(buffer[j]) <= file_position
        BY <1>d, <1>e, ChunksEndBefore DEF WrittenInOrder
      <4> QED BY <3>1, <4>1, <4>2, <1>b, <1>d, <1>f
    <3>2. CASE k # Len(buffer) + 1
      BY <3>2, <1>d, <1>f DEF WrittenInOrder
    <3> QED BY <3>1, <3>2
  <2> QED BY <2>1, <2>2, <1>e DEF WrittenInOrder
<1>3. RoomForNext'
  <2>1. ASSUME NEW i \in 1..Len(index')
        PROVE  index'[i].offset + index'[i].size_stored <= file_position'
    <3>1. CASE i = Len(index) + 1
      BY <3>1, <1>a, <1>b, <1>c
    <3>2. CASE i # Len(index) + 1
      <4>1. i \in 1..Len(index) /\ index'[i] = index[i]
        BY <3>2, <1>c
      <4>2. index[i] \in BlockEntry
        BY <4>1, LenProperties DEF IInv, PipeInv, PipeTypeOK
      <4>3. index[i].offset + index[i].size_stored <= file_position
        BY <4>1 DEF RoomForNext
      <4>4. index[i].offset \in Nat /\ index[i].size_stored \in Nat
        BY <4>2 DEF BlockEntry
      <4>5. file_position <= file_position' /\ file_position \in Nat
            /\ file_position' \in Nat
        BY <1>a, <1>b
      <4> HIDE DEF DiskInv
      <4>6. index[i].offset + index[i].size_stored <= file_position'
        BY <4>3, <4>4, <4>5
      <4> QED BY <4>1, <4>6
    <3> QED BY <3>1, <3>2
  <2>2. HeaderSize <= file_position' /\ file.len <= file_position'
    BY <1>a, <1>b, <1>e, HeaderAssumption
    DEF RoomForNext, IInv, TypeOK, DiskTypeOK, AnyFile
  <2> QED BY <2>1, <2>2, <1>e DEF RoomForNext
<1>4. FinalLength'
  BY <1>e DEF FinalLength
<1> QED BY <1>1, <1>2, <1>3, <1>4

LEMMA FinishDisk == ASSUME IInv, DiskInv, WriterFinish PROVE DiskInv'
<1> USE DEF DiskInv
<1>a. PICK n \in IndexSizes :
        /\ buffer' = buffer \o
             << Chunk(file_position, n, IndexData(index)),
                Chunk(file_position + n, FooterSize, FooterData(file_position, n)) >>
        /\ final_len' = file_position + n + FooterSize
  BY FinishKeepsLength
<1> DEFINE idx == Chunk(file_position, n, IndexData(index))
<1> DEFINE ftr == Chunk(file_position + n, FooterSize, FooterData(file_position, n))
<1>b. /\ n \in Nat /\ file_position \in Nat /\ final_len' \in Nat /\ final_len' # 0
      /\ writer = "recv" /\ writer' = "finish" /\ final_len = 0 /\ file' = file
      /\ UNCHANGED <<index, file_position, expected_id, block_id, raw_tx>>
  BY <1>a, SizesAssumption
  DEF WriterFinish, FinalLength, FooterSize, IInv, PipeInv, PipeTypeOK, rawVars
<1>c. /\ idx \in AnyChunk /\ ftr \in AnyChunk
      /\ idx.off = file_position /\ End(idx) = file_position + n
      /\ ftr.off = file_position + n
  BY <1>b, ChunkTypes DEF Chunk, End, FooterSize, IInv, PipeInv, PipeTypeOK
<1>d. /\ Len(buffer) \in Nat /\ DOMAIN buffer = 1..Len(buffer)
      /\ DOMAIN buffer' = 1..Len(buffer) + 2
      /\ \A k \in 1..Len(buffer) : buffer'[k] = buffer[k]
      /\ buffer'[Len(buffer) + 1] = idx /\ buffer'[Len(buffer) + 2] = ftr
  <2>1. buffer \in Seq(AnyChunk) /\ <<idx, ftr>> \in Seq(AnyChunk)
    BY <1>c DEF IInv, TypeOK, DiskTypeOK
  <2> QED BY <2>1, <1>a, ConcatProperties, LenProperties
<1>e. IndexSize' = n /\ IndexChunk' = idx /\ FooterChunk' = ftr
  <2>1. IndexSize' = n /\ final_len' - FooterSize = file_position + n
    BY <1>a, <1>b DEF IndexSize, FooterSize
  <2> QED BY <2>1, <1>b DEF IndexChunk, FooterChunk
<1>f. ArchiveChunks' = ArchiveChunks \cup {idx, ftr}
  BY <1>b, <1>e DEF ArchiveChunks, BlockChunk
<1>1. NoHoles'
  BY <1>b, <1>d, <1>f DEF NoHoles
<1>2. WrittenInOrder'
  <2>1. \A c \in file.chunks : c \in ArchiveChunks' /\ End(c) <= file.len
    BY <1>f DEF WrittenInOrder
  <2>2. /\ file.len \in Nat /\ file.len <= file_position
        /\ \A j \in 1..Len(buffer) : End(buffer[j]) \in Nat /\ End(buffer[j]) <= file_position
    <3>1. \A j \in 1..Len(buffer) : buffer[j] \in AnyChunk
      BY LenProperties DEF IInv, TypeOK, DiskTypeOK
    <3>2. file.len \in Nat /\ file.len <= file_position
      BY <1>b DEF RoomForNext, IInv, TypeOK, DiskTypeOK, AnyFile
    <3>3. \A j \in 1..Len(buffer) : End(buffer[j]) <= file_position
      BY <1>b, <1>d, ChunksEndBefore DEF WrittenInOrder
    <3> QED BY <3>1, <3>2, <3>3 DEF AnyChunk, End
  <2>3. ASSUME NEW k \in DOMAIN buffer'
        PROVE  /\ buffer'[k] \in ArchiveChunks' /\ buffer'[k].off >= file.len
               /\ \A j \in DOMAIN buffer' : j < k => End(buffer'[j]) <= buffer'[k].off
    <3>1. CASE k = Len(buffer) + 2
      <4>1. \A j \in DOMAIN buffer' : j < k => j \in 1..Len(buffer) \/ j = Len(buffer) + 1
        BY <3>1, <1>d
      <4>2. buffer'[k] = ftr /\ ftr \in ArchiveChunks' /\ ftr.off >= file.len
        BY <3>1, <2>2, <1>b, <1>c, <1>d, <1>f
      <4>3. \A j \in 1..Len(buffer) : End(buffer'[j]) <= ftr.off
        BY <2>2, <1>b, <1>c, <1>d
      <4>4. End(buffer'[Len(buffer) + 1]) <= ftr.off
        BY <1>b, <1>c, <1>d
      <4> HIDE DEF ftr
      <4> QED BY <4>1, <4>2, <4>3, <4>4
    <3>2. CASE k = Len(buffer) + 1
      <4>1. \A j \in DOMAIN buffer' : j < k => j \in 1..Len(buffer)
        BY <3>2, <1>d
      <4> QED BY <3>2, <4>1, <2>2, <1>b, <1>c, <1>d, <1>f
    <3>3. CASE k \in 1..Len(buffer)
      BY <3>3, <1>d, <1>f DEF WrittenInOrder
    <3>4. k \in 1..Len(buffer) \/ k = Len(buffer) + 1 \/ k = Len(buffer) + 2
      BY <1>d
    <3> QED BY <3>1, <3>2, <3>3, <3>4
  <2> QED BY <2>1, <2>3, <1>b DEF WrittenInOrder
<1>3. RoomForNext'
  BY <1>a, <1>b DEF RoomForNext, FooterSize, IInv, TypeOK, DiskTypeOK, AnyFile
<1>4. FinalLength'
  <2>1. expected_id = block_id /\ ~raw_tx
    BY FinalizeFindsAll DEF IInv, WriterFinish
  <2> QED BY <2>1, <1>a, <1>b DEF FinalLength, FooterSize
<1> QED BY <1>1, <1>2, <1>3, <1>4

(* The oldest chunk of the buffer lies behind everything on disk, so writing *)
(* it destroys nothing.                                                      *)
LEMMA SpillDisk == ASSUME IInv, DiskInv, Spill PROVE DiskInv'
<1> USE DEF DiskInv
<1> DEFINE c0 == Head(buffer)
<1>a. /\ Len(buffer) \in Nat /\ Len(buffer) >= 1 /\ c0 = buffer[1] /\ c0 \in AnyChunk
      /\ DOMAIN buffer = 1..Len(buffer) /\ DOMAIN buffer' = 1..(Len(buffer) - 1)
      /\ \A k \in 1..(Len(buffer) - 1) : buffer'[k] = buffer[k + 1]
      /\ \A k \in 1..Len(buffer) : buffer[k] \in AnyChunk
  <2>1. buffer \in Seq(AnyChunk) /\ buffer # <<>> /\ buffer' = Tail(buffer)
    BY DEF Spill, IInv, TypeOK, DiskTypeOK
  <2> HIDE DEF DiskInv
  <2>2. /\ Len(buffer) \in Nat /\ DOMAIN buffer = 1..Len(buffer) /\ c0 = buffer[1]
        /\ Len(buffer) # 0 /\ \A k \in 1..Len(buffer) : buffer[k] \in AnyChunk
    BY <2>1, EmptySeq, LenProperties
  <2>3. /\ c0 \in AnyChunk /\ buffer' \in Seq(AnyChunk) /\ Len(buffer') = Len(buffer) - 1
        /\ \A k \in 1..(Len(buffer) - 1) : buffer'[k] = buffer[k + 1]
    BY <2>1, HeadTailProperties
  <2>4. DOMAIN buffer' = 1..(Len(buffer) - 1)
    BY <2>3, LenProperties
  <2> HIDE DEF c0
  <2> QED BY <2>2, <2>3, <2>4
<1>b. /\ file.len \in Nat /\ c0.off \in Nat /\ c0.len \in Nat /\ c0.off >= file.len
      /\ End(c0) \in Nat /\ End(c0) >= file.len /\ c0 \in ArchiveChunks
  BY <1>a, SMTT(30) DEF WrittenInOrder, IInv, TypeOK, DiskTypeOK, AnyFile, AnyChunk, End
<1>c. file'.len = End(c0) /\ file'.chunks = file.chunks \cup {c0}
  <2>1. \A d \in file.chunks : Disjoint(c0, d)
    BY <1>b DEF WrittenInOrder, Disjoint, IInv, TypeOK, DiskTypeOK, AnyFile, AnyChunk, End
  <2>2. file' = WriteChunk(file, c0)
    BY DEF Spill
  <2> QED BY <2>1, <2>2, <1>b DEF WriteChunk
<1>d. /\ UNCHANGED <<index, file_position, final_len, writer, expected_id, block_id, raw_tx>>
      /\ ArchiveChunks' = ArchiveChunks
  BY SameChunks DEF Spill, writerVars, rawVars
<1>1. NoHoles'
  <2> SUFFICES ASSUME NEW c \in ArchiveChunks
               PROVE  c \in file'.chunks \/ \E k \in DOMAIN buffer' : buffer'[k] = c
    BY <1>d DEF NoHoles
  <2>1. CASE c \in file.chunks
    BY <2>1, <1>c
  <2>2. CASE c \notin file.chunks
    <3>1. PICK k \in 1..Len(buffer) : buffer[k] = c
      BY <2>2, <1>a DEF NoHoles, Spill
    <3>2. CASE k = 1
      BY <3>1, <3>2, <1>a, <1>c
    <3>3. CASE k # 1
      <4>1. k - 1 \in 1..(Len(buffer) - 1) /\ (k - 1) + 1 = k
        BY <3>3, <1>a
      <4> QED BY <4>1, <3>1, <1>a
    <3> QED BY <3>2, <3>3
  <2> QED BY <2>1, <2>2
<1>2. WrittenInOrder'
  <2>1. ASSUME NEW c \in file'.chunks PROVE c \in ArchiveChunks' /\ End(c) <= file'.len
    <3>1. CASE c = c0
      BY <3>1, <1>b, <1>c, <1>d
    <3>2. CASE c \in file.chunks
      BY <3>2, <1>b, <1>c, <1>d
      DEF WrittenInOrder, IInv, TypeOK, DiskTypeOK, AnyFile, AnyChunk, End
    <3> QED BY <3>1, <3>2, <1>c
  <2>2. ASSUME NEW k \in DOMAIN buffer'
        PROVE  /\ buffer'[k] \in ArchiveChunks' /\ buffer'[k].off >= file'.len
               /\ \A j \in DOMAIN buffer' : j < k => End(buffer'[j]) <= buffer'[k].off
    <3>1. /\ k + 1 \in DOMAIN buffer /\ buffer'[k] = buffer[k + 1] /\ 1 < k + 1
          /\ 1 \in DOMAIN buffer
      BY <1>a
    <3>2. \A j \in DOMAIN buffer' :
            j + 1 \in DOMAIN buffer /\ buffer'[j] = buffer[j + 1] /\ (j < k => j + 1 < k + 1)
      BY <1>a, <3>1
    <3> QED BY <3>1, <3>2, <1>a, <1>c, <1>d DEF WrittenInOrder
  <2> QED BY <2>1, <2>2 DEF WrittenInOrder
<1>3. RoomForNext'
  <2>1. End(c0) <= IF final_len = 0 THEN file_position ELSE final_len
    <3>1. CASE final_len = 0
      BY <3>1, <1>b, ChunksEndBefore
    <3>2. CASE final_len # 0
      <4>1. CASE c0 = HeaderChunk \/ \E i \in 1..Len(index) : c0 = BlockChunk(index[i])
        <5>1. End(c0) <= file_position
          BY <4>1, HeaderIsChunk DEF RoomForNext, BlockChunk, Chunk, End
        <5> QED BY <5>1, <3>2, <1>b
            DEF FinalLength, FooterSize, IInv, PipeInv, PipeTypeOK
      <4>2. CASE c0 = IndexChunk \/ c0 = FooterChunk
        BY <4>2, <3>2
        DEF IndexChunk, FooterChunk, IndexSize, Chunk, End, FooterSize, IInv, PipeInv,
            PipeTypeOK
      <4> QED BY <4>1, <4>2, <3>2, <1>b DEF ArchiveChunks
    <3> QED BY <3>1, <3>2
  <2> QED BY <2>1, <1>c, <1>d DEF RoomForNext
<1>4. FinalLength'
  BY <1>a, <1>d DEF FinalLength, Spill
<1> QED BY <1>1, <1>2, <1>3, <1>4

LEMMA SetLenDisk == ASSUME IInv, DiskInv, WriterSetLen PROVE DiskInv'
<1> USE DEF DiskInv
<1>a. /\ file' = SetLen(file, final_len) /\ buffer' = buffer /\ buffer = <<>>
      /\ writer = "finish" /\ writer' = "ok"
      /\ UNCHANGED <<index, file_position, final_len, expected_id, block_id, raw_tx>>
      /\ final_len # 0 /\ final_len \in Nat /\ file_position \in Nat /\ file.len \in Nat
  BY DEF WriterSetLen, rawVars, FinalLength, IInv, PipeInv, PipeTypeOK, TypeOK,
         DiskTypeOK, AnyFile
<1>b. file'.len = final_len /\ file'.chunks = file.chunks
  <2>1. \A c \in file.chunks : End(c) <= final_len
    BY <1>a DEF WrittenInOrder, RoomForNext, IInv, TypeOK, DiskTypeOK, AnyFile, AnyChunk, End
  <2> QED BY <2>1, <1>a DEF SetLen
<1>c. ArchiveChunks' = ArchiveChunks
  BY <1>a, SameChunks
<1>1. NoHoles'
  BY <1>a, <1>b, <1>c DEF NoHoles
<1>2. WrittenInOrder'
  BY <1>a, <1>b, <1>c
  DEF WrittenInOrder, RoomForNext, IInv, TypeOK, DiskTypeOK, AnyFile, AnyChunk, End
<1>3. RoomForNext' /\ FinalLength'
  BY <1>a, <1>b DEF RoomForNext, FinalLength
<1> QED BY <1>1, <1>2, <1>3

(* The buffer of a writer that fails is kept or lost as a whole. *)
LEMMA WriterErrorDisk ==
    ASSUME IInv, DiskInv, WriterWriteError \/ WriterFinishError PROVE DiskInv'
<1> USE DEF DiskInv
<1>a. /\ writer' = "failed" /\ buffer' \in {buffer, <<>>} /\ file' = file
      /\ UNCHANGED <<index, file_position, final_len, expected_id, block_id, raw_tx>>
      /\ writer # "failed" /\ ArchiveChunks' = ArchiveChunks
  BY SameChunks DEF WriterWriteError, WriterFinishError, rawVars
<1>1. NoHoles'
  BY <1>a DEF NoHoles, WrittenInOrder
<1>2. WrittenInOrder'
  BY <1>a DEF WrittenInOrder
<1>3. RoomForNext' /\ FinalLength'
  BY <1>a DEF RoomForNext, FinalLength
<1> QED BY <1>1, <1>2, <1>3

LEMMA NextDisk == IInv /\ DiskInv /\ [Next]_vars => DiskInv'
<1> SUFFICES ASSUME IInv, DiskInv, [Next]_vars PROVE DiskInv'
  OBVIOUS
<1>1. CASE WriterThread
  <2>1. CASE WriterRecvBlock \/ WriterDrained \/ WriterDisconnected
    BY <2>1, DiskFrame
    DEF WriterRecvBlock, WriterDrained, WriterDisconnected, diskUsed, rawVars, diskVars,
        DiskInv, FinalLength
  <2> QED BY <1>1, <2>1, DrainDisk, FinishDisk, SpillDisk, SetLenDisk, WriterErrorDisk
      DEF WriterThread, WriterStep
<1>2. ASSUME NEW w \in Worker, PoolThread(w) PROVE DiskInv'
  <2>1. UNCHANGED <<writerVars, diskVars, raw_tx, block_id>>
    BY <1>2, WorkerFrame DEF PoolThread, IInv
  <2> QED BY <2>1, DiskFrame DEF diskUsed, writerVars, DiskInv, FinalLength
<1>3. CASE MainStep \/ Crash \/ UNCHANGED vars
  <2>1. UNCHANGED diskVars
    BY <1>3, MainLeavesDisk
  <2>2. UNCHANGED writerVars
    BY <1>3 DEF MainStep, Refuse, Start, ReadBlock, ReadDone, JoinWorkers,
       MainSendFinalize, JoinWriter, Cleanup, Return, Exit, SendRaw, DropRawSender,
       SendFinalize, DropWriterSender, Crash, pipeVars, vars
  <2>3. raw_tx = FALSE => UNCHANGED <<block_id, raw_tx>>
    BY <1>3 DEF MainStep, Refuse, Start, ReadBlock, ReadDone, JoinWorkers,
       MainSendFinalize, JoinWriter, Cleanup, Return, Exit, SendRaw, DropRawSender,
       SendFinalize, DropWriterSender, Crash, pipeVars, vars, rawVars
  <2>4. final_len # 0 => raw_tx = FALSE
    BY DEF DiskInv, FinalLength, IInv, PipeInv, PipeTypeOK
  <2> QED BY <2>1, <2>2, <2>3, <2>4, DiskFrame DEF diskUsed, writerVars
<1> QED BY <1>1, <1>2, <1>3 DEF Next, Finished

THEOREM DiskInvariant == Spec => [](IInv /\ DiskInv)
<1>1. Init => IInv /\ DiskInv
  BY InitInv, InitDisk
<1>2. IInv /\ DiskInv /\ [Next]_vars => (IInv /\ DiskInv)'
  BY NextInv, NextDisk
<1> QED BY <1>1, <1>2, PTL DEF Spec

-----------------------------------------------------------------------------
(* A file that holds all chunks of a finished archive, and nothing else, is  *)
(* what the index says it is.                                                *)
LEMMA AllChunksMakeAnArchive ==
    ASSUME IInv, DiskInv, final_len # 0, ArchiveChunks \subseteq file.chunks,
           file.len = final_len
    PROVE  HoldsBlocks(file, block_id)
<1> USE DEF DiskInv, IInv, PipeInv
<1>a. file.chunks = ArchiveChunks
  BY DEF WrittenInOrder
<1>b. /\ IndexChunk.off = file_position /\ IndexChunk.len = IndexSize
      /\ IndexChunk.what.kind = "index" /\ IndexChunk.what.block = index
      /\ FooterChunk.what.kind = "footer" /\ End(FooterChunk) = final_len
      /\ FooterChunk.what.index_offset = file_position
      /\ FooterChunk.what.index_size_stored = IndexSize
  BY DEF IndexChunk, FooterChunk, Chunk, End, IndexData, FooterData, FooterSize, PipeTypeOK
<1>c. \A c \in ArchiveChunks :
        /\ c.what.kind = "index" => c = IndexChunk
        /\ c.what.kind = "footer" => c = FooterChunk
  <2>1. \A i \in 1..Len(index) : BlockChunk(index[i]).what.kind = "block"
    BY DEF BlockChunk, Chunk, BlockData
  <2> QED BY <2>1, <1>b, HeaderIsChunk DEF ArchiveChunks
<1>d. IndexChunk \in ArchiveChunks /\ FooterChunk \in ArchiveChunks
  BY DEF ArchiveChunks
<1>1. Footers(file) = {FooterChunk}
  BY <1>a, <1>b, <1>c, <1>d DEF Footers
<1>2. Indexes(file) = {IndexChunk}
  BY <1>1, <1>a, <1>b, <1>c, <1>d DEF Indexes
<1>3. LoadedIndex(file) = index
  BY <1>2, <1>b DEF LoadedIndex
<1>4. Loadable(file)
  <2>1. HeaderChunk \in file.chunks /\ HeaderChunk.what = Header
    BY <1>a DEF ArchiveChunks, HeaderChunk, Chunk
  <2> QED BY <2>1, <1>2, HeaderIsChunk DEF Loadable
<1>5. Len(index) = block_id
  BY DEF FinalLength, IndexInOrder
<1>6. Sound(file)
  <2> SUFFICES ASSUME NEW i \in 1..Len(index)
               PROVE  /\ index[i].id = i - 1
                      /\ BlockChunk(index[i]) \in file.chunks
    BY <1>3 DEF Sound, BlockChunk
  <2> QED BY <1>a DEF IndexInOrder, ArchiveChunks
<1> QED BY <1>3, <1>4, <1>5, <1>6 DEF HoldsBlocks

(* A file that loads has its footer, and what lies before the footer was     *)
(* written before it.                                                        *)
LEMMA FooterComesLast ==
    ASSUME IInv, DiskInv, Footers(file) # {}
    PROVE  final_len # 0 /\ file.len = final_len /\ ArchiveChunks \subseteq file.chunks
<1> USE DEF DiskInv
<1>1. PICK t \in file.chunks : t.what.kind = "footer" /\ End(t) = file.len
  BY DEF Footers
<1>2. final_len # 0 /\ t = FooterChunk
  <2>1. \A i \in 1..Len(index) : BlockChunk(index[i]).what.kind = "block"
    BY DEF BlockChunk, Chunk, BlockData
  <2>2. IndexChunk.what.kind = "index"
    BY DEF IndexChunk, Chunk, IndexData
  <2> QED BY <1>1, <2>1, <2>2, HeaderIsChunk DEF WrittenInOrder, ArchiveChunks
<1>3. /\ final_len \in Nat /\ file_position \in Nat /\ file_position + 1 <= final_len
      /\ FooterChunk.off = final_len - 1 /\ End(FooterChunk) = final_len
  BY <1>2 DEF FooterChunk, Chunk, End, FooterSize, FinalLength, IInv, PipeInv, PipeTypeOK
<1>4. file.len = final_len
  BY <1>1, <1>2, <1>3
<1>5. ASSUME NEW c \in ArchiveChunks, c \notin file.chunks PROVE FALSE
  <2>1. c.off >= file.len
    BY <1>5 DEF NoHoles, WrittenInOrder
  <2>2. c # FooterChunk
    BY <1>1, <1>2, <1>5
  <2>3. CASE c = HeaderChunk
    BY <2>1, <2>3, <1>3, <1>4, HeaderIsChunk
  <2>4. CASE c = IndexChunk
    BY <2>1, <2>4, <1>3, <1>4 DEF IndexChunk, Chunk
  <2>5. ASSUME NEW i \in 1..Len(index), c = BlockChunk(index[i]) PROVE FALSE
    <3>1. index[i] \in BlockEntry
      BY LenProperties DEF IInv, PipeInv, PipeTypeOK
    <3>2. c.off = index[i].offset /\ index[i].offset + index[i].size_stored <= file_position
      BY <2>5 DEF RoomForNext, BlockChunk, Chunk
    <3> QED BY <3>1, <3>2, <2>1, <1>3, <1>4 DEF BlockEntry
  <2> QED BY <2>2, <2>3, <2>4, <2>5, <1>5 DEF ArchiveChunks
<1> QED BY <1>2, <1>4, <1>5

(* Whatever fails and whenever the process is killed, a file under the       *)
(* archive's name that loads is a complete archive (writer.rs finish writes  *)
(* the footer after everything else).                                        *)
THEOREM LoadableFilesAreComplete == Spec => []LoadableIsComplete
<1>1. IInv /\ DiskInv => LoadableIsComplete
  <2> SUFFICES ASSUME IInv, DiskInv, Loadable(file) PROVE HoldsBlocks(file, block_id)
    BY DEF LoadableIsComplete
  <2>1. Footers(file) # {}
    BY DEF Loadable, Indexes
  <2> QED BY <2>1, FooterComesLast, AllChunksMakeAnArchive
<1> QED BY <1>1, DiskInvariant, PTL

(* When compress reports success, the archive on disk loads and holds every  *)
(* block that was cut, in order and where its index says.                    *)
THEOREM SuccessMeansCompleteArchive == Spec => []SuccessIsComplete
<1>1. IInv /\ DiskInv => SuccessIsComplete
  <2> SUFFICES ASSUME IInv, DiskInv, outcome = "ok"
               PROVE  path = "ours" /\ HoldsBlocks(file, block_id)
    BY DEF SuccessIsComplete
  <2>1. /\ writer = "ok" /\ path = "ours" /\ buffer = <<>> /\ final_len # 0
        /\ file.len = final_len
    BY DEF IInv, MainInv, DiskInv, FinalLength
  <2>2. ArchiveChunks \subseteq file.chunks
    BY <2>1, EmptySeq DEF DiskInv, NoHoles
  <2> QED BY <2>1, <2>2, AllChunksMakeAnArchive
<1> QED BY <1>1, DiskInvariant, PTL
=============================================================================
