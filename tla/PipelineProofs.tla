--------------------------- MODULE PipelineProofs ---------------------------
(* PipeInv is preserved by every step of the pipeline, for any number of     *)
(* workers, blocks and faults: the part of the proofs that compress and      *)
(* append share.                                                             *)
EXTENDS Pipeline, SequenceTheorems, TLAPS

(* A message is a processed block or Finalize. *)
LEMMA MessageKinds ==
    ASSUME NEW m \in WriterMessage
    PROVE  /\ m.type = "Block" => m.id \in Nat /\ m.size \in StoredSizes
           /\ m.type # "Block" <=> m = Finalize
BY DEF WriterMessage, Finalize

(* The cast keeps every length that can occur.                               *)
LEMMA CastKeeps == \A n \in StoredSizes \cup IndexSizes : n \in Nat /\ AsU32(n) = n
<1> SUFFICES ASSUME NEW n \in StoredSizes \cup IndexSizes PROVE n \in Nat /\ AsU32(n) = n
  OBVIOUS
<1>1. n \in Nat /\ n < U32 /\ U32 \in Nat
  BY SizesAssumption, SizesFit, U32Assumption
<1> QED BY <1>1 DEF AsU32

(* So the block that is due gets an entry with the length that was written,  *)
(* and the next goes right behind it.                                        *)
LEMMA DrainKeepsLength ==
    ASSUME PipeTypeOK, WriterDrain
    PROVE  /\ \E b \in block_queue :
                /\ b.id = expected_id
                /\ block_queue' = block_queue \ {b}
                /\ buffer' = Append(buffer, Chunk(file_position, b.size, BlockData(b.id)))
                /\ index' = Append(index, Entry(file_position, b.size, b.id))
                /\ file_position' = file_position + b.size
           /\ expected_id' = expected_id + 1 /\ writer = "drain"
           /\ UNCHANGED <<writer, final_len, file, rawVars, poolVars, msgVars>>
<1>1. \A b \in block_queue : AsU32(b.size) = b.size
  BY CastKeeps DEF PipeTypeOK, ProcessedBlock
<1> QED BY <1>1 DEF WriterDrain

LEMMA FinishKeepsLength ==
    ASSUME WriterFinish
    PROVE  \E n \in IndexSizes :
             /\ buffer' = buffer \o
                  << Chunk(file_position, n, IndexData(index)),
                     Chunk(file_position + n, FooterSize, FooterData(file_position, n)) >>
             /\ final_len' = file_position + n + FooterSize
BY CastKeeps DEF WriterFinish

LEMMA BlockMsgIsMessage ==
    ASSUME NEW i \in Nat, NEW n \in StoredSizes
    PROVE  /\ BlockMsg(i, n) \in WriterMessage
           /\ BlockMsg(i, n).type = "Block" /\ BlockMsg(i, n).id = i
           /\ BlockMsg(i, n) # Finalize
BY DEF BlockMsg, WriterMessage, Finalize

(* A block that is still somewhere in the pipeline after a step that did not *)
(* touch its place is still pending.                                         *)
LEMMA PendingUnchanged ==
    ASSUME UNCHANGED <<raw_rx, poolVars, rw_rx, block_queue>>, NEW i, Pending(i)
    PROVE  Pending(i)'
BY DEF Pending, poolVars

LEMMA SendRawInv == ASSUME PipeInv, SendRaw PROVE PipeInv'
<1> USE DEF PipeInv, SendRaw
<1> USE DEF poolVars, msgVars, writerVars, diskVars
<1>1. PipeTypeOK'
  BY AppendProperties DEF PipeTypeOK
<1>2. NoneLost'
  <2> SUFFICES ASSUME ~full, writer # "failed",
                      NEW i \in expected_id..block_id
               PROVE  Pending(i)'
    BY DEF NoneLost, PipeTypeOK
  <2>1. ~PoolDone
    BY WorkerAssumption DEF PoolDone, StopsOnlyAtEnd
  <2>2. raw_rx \in Seq(Nat) /\ block_id \in Nat /\ raw_rx' = Append(raw_rx, block_id)
    BY <2>1 DEF PipeTypeOK
  <2>3. CASE i = block_id
    <3>1. raw_rx'[Len(raw_rx) + 1] = i /\ Len(raw_rx) + 1 \in DOMAIN raw_rx'
      BY <2>2, <2>3, AppendProperties
    <3> QED BY <3>1 DEF Pending
  <2>4. CASE i # block_id
    <3>1. Pending(i)
      BY <2>4 DEF NoneLost, PipeTypeOK
    <3>2. \A k \in DOMAIN raw_rx : k \in DOMAIN raw_rx' /\ raw_rx'[k] = raw_rx[k]
      BY <2>2, AppendProperties
    <3> QED BY <3>1, <3>2 DEF Pending
  <2> QED BY <2>3, <2>4
<1>3. NoneInvented'
  <2>1. \A k \in DOMAIN raw_rx' : raw_rx'[k] < block_id + 1
    BY AppendProperties DEF NoneInvented, PipeTypeOK
  <2>2. \A v \in Worker : wpc'[v] = "busy" => task'[v] < block_id + 1
    BY DEF NoneInvented, PipeTypeOK
  <2>3. \A k \in DOMAIN rw_rx : rw_rx[k].type = "Block" => rw_rx[k].id < block_id + 1
    <3> SUFFICES ASSUME NEW k \in DOMAIN rw_rx, rw_rx[k].type = "Block"
                 PROVE  rw_rx[k].id < block_id + 1
      OBVIOUS
    <3>1. rw_rx[k].id \in Nat
      BY MessageKinds DEF PipeTypeOK
    <3> QED BY <3>1 DEF NoneInvented, PipeTypeOK
  <2>4. \A b \in block_queue : b.id < block_id + 1
    BY DEF NoneInvented, PipeTypeOK, ProcessedBlock
  <2> QED BY <2>1, <2>2, <2>3, <2>4 DEF NoneInvented, PipeTypeOK
<1>4. IndexInOrder'
  BY DEF IndexInOrder
<1>5. StopsOnlyAtEnd'
  BY DEF StopsOnlyAtEnd
<1>6. FinalizeLast' /\ NoneDue' /\ FinishIsComplete' /\ LeavesOnlyIfDropped'
  BY DEF FinalizeLast, PoolDone, NoneDue, FinishIsComplete, LeavesOnlyIfDropped
<1> QED BY <1>1, <1>2, <1>3, <1>4, <1>5, <1>6

LEMMA WorkerSendInv ==
    ASSUME PipeInv, NEW w \in Worker, WorkerSend(w) PROVE PipeInv'
<1> USE DEF PipeInv, WorkerSend
<1> USE DEF rawVars, writerVars, diskVars
<1>0. PICK n \in StoredSizes : rw_rx' = Append(rw_rx, BlockMsg(task[w], n))
  OBVIOUS
<1>a. /\ task[w] \in Nat /\ n \in Nat /\ rw_rx \in Seq(WriterMessage)
      /\ BlockMsg(task[w], n) \in WriterMessage
  BY SizesAssumption, BlockMsgIsMessage DEF PipeTypeOK
<1>b. /\ rw_rx' \in Seq(WriterMessage) /\ DOMAIN rw_rx' = 1..Len(rw_rx) + 1
      /\ DOMAIN rw_rx = 1..Len(rw_rx) /\ Len(rw_rx) \in Nat
      /\ \A k \in 1..Len(rw_rx) : rw_rx'[k] = rw_rx[k]
      /\ rw_rx'[Len(rw_rx) + 1] = BlockMsg(task[w], n)
  BY <1>0, <1>a, AppendProperties
<1>c. /\ \A v \in Worker \ {w} : wpc'[v] = wpc[v]
      /\ wpc'[w] = IF full THEN "stopped" ELSE "waiting"
      /\ wpc' \in [Worker -> {"new", "waiting", "busy", "stopped"}]
  BY DEF PipeTypeOK
<1>1. PipeTypeOK'
  BY <1>b, <1>c DEF PipeTypeOK
<1>2. NoneLost'
  <2> SUFFICES ASSUME ~full, writer # "failed",
                      NEW i \in expected_id..(block_id - 1)
               PROVE  Pending(i)'
    BY DEF NoneLost, PipeTypeOK
  <2>1. Pending(i)
    BY DEF NoneLost
  <2>2. CASE task[w] = i
    <3>1. rw_rx'[Len(rw_rx) + 1].type = "Block" /\ rw_rx'[Len(rw_rx) + 1].id = i
      BY <2>2, <1>a, <1>b, BlockMsgIsMessage
    <3> QED BY <3>1, <1>b DEF Pending
  <2>3. CASE task[w] # i
    BY <2>1, <2>3, <1>b, <1>c DEF Pending
  <2> QED BY <2>2, <2>3
<1>3. NoneInvented'
  <2>1. \A k \in DOMAIN rw_rx' : rw_rx'[k].type = "Block" => rw_rx'[k].id < block_id
    BY <1>a, <1>b, BlockMsgIsMessage DEF NoneInvented, PipeTypeOK
  <2> QED BY <2>1, <1>c DEF NoneInvented, PipeTypeOK
<1>4. IndexInOrder' /\ StopsOnlyAtEnd' /\ NoneDue' /\ LeavesOnlyIfDropped'
  BY <1>c DEF IndexInOrder, StopsOnlyAtEnd, NoneDue, LeavesOnlyIfDropped
<1>5. ~PoolDone
  BY DEF PoolDone
<1>6. FinalizeLast' /\ FinishIsComplete'
  BY <1>5, <1>a, <1>b, BlockMsgIsMessage
  DEF FinalizeLast, FinishIsComplete, WriterReturned
<1> QED BY <1>1, <1>2, <1>3, <1>4, <1>6
LEMMA DropRawSenderInv == ASSUME PipeInv, DropRawSender PROVE PipeInv'
<1> USE DEF PipeInv, DropRawSender
<1> USE DEF poolVars, msgVars, writerVars, diskVars
<1>1. PipeTypeOK'
  BY DEF PipeTypeOK
<1>2. NoneLost' /\ NoneInvented' /\ IndexInOrder'
  BY PendingUnchanged DEF NoneLost, NoneInvented, IndexInOrder
<1>3. StopsOnlyAtEnd' /\ FinalizeLast'
  BY DEF StopsOnlyAtEnd, FinalizeLast, PoolDone
<1>4. NoneDue' /\ FinishIsComplete' /\ LeavesOnlyIfDropped'
  BY DEF NoneDue, FinishIsComplete, PoolDone, LeavesOnlyIfDropped
<1> QED BY <1>1, <1>2, <1>3, <1>4

LEMMA DropWriterSenderInv == ASSUME PipeInv, DropWriterSender PROVE PipeInv'
<1> USE DEF PipeInv, DropWriterSender
<1> USE DEF rawVars, poolVars, writerVars, diskVars
<1>1. PipeTypeOK'
  BY DEF PipeTypeOK
<1>2. NoneLost' /\ NoneInvented' /\ IndexInOrder'
  BY PendingUnchanged DEF NoneLost, NoneInvented, IndexInOrder
<1>3. StopsOnlyAtEnd' /\ FinalizeLast'
  BY DEF StopsOnlyAtEnd, FinalizeLast, PoolDone
<1>4. NoneDue' /\ FinishIsComplete' /\ LeavesOnlyIfDropped'
  BY DEF NoneDue, FinishIsComplete, PoolDone, LeavesOnlyIfDropped
<1> QED BY <1>1, <1>2, <1>3, <1>4

(* Finalize may be sent once the pool has been joined without an error, when *)
(* there has been none before.                                               *)
LEMMA SendFinalizeInv ==
    ASSUME PipeInv, SendFinalize, PoolDone, ~full, ~raw_tx,
           writer \notin {"finish", "ok"},
           \A k \in DOMAIN rw_rx : rw_rx[k] # Finalize
    PROVE  PipeInv'
<1> USE DEF PipeInv, SendFinalize
<1> USE DEF rawVars, poolVars, writerVars, diskVars
<1>a. rw_rx \in Seq(WriterMessage) /\ Finalize \in WriterMessage
  BY DEF PipeTypeOK, WriterMessage
<1>b. /\ rw_rx' \in Seq(WriterMessage) /\ Len(rw_rx') = Len(rw_rx) + 1
      /\ DOMAIN rw_rx' = 1..Len(rw_rx) + 1
      /\ DOMAIN rw_rx = 1..Len(rw_rx) /\ Len(rw_rx) \in Nat
      /\ \A k \in 1..Len(rw_rx) : rw_rx'[k] = rw_rx[k]
      /\ rw_rx'[Len(rw_rx) + 1] = Finalize
  BY <1>a, AppendProperties
<1>c. Finalize.type # "Block"
  BY <1>a, MessageKinds
<1>1. PipeTypeOK'
  BY <1>b DEF PipeTypeOK
<1>2. NoneLost'
  BY <1>b DEF NoneLost, Pending
<1>3. NoneInvented' /\ IndexInOrder'
  BY <1>b, <1>c DEF NoneInvented, IndexInOrder
<1>4. FinalizeLast'
  BY <1>b DEF FinalizeLast, PoolDone
<1>5. StopsOnlyAtEnd' /\ NoneDue' /\ FinishIsComplete' /\ LeavesOnlyIfDropped'
  BY DEF StopsOnlyAtEnd, NoneDue, FinishIsComplete, LeavesOnlyIfDropped
<1> QED BY <1>1, <1>2, <1>3, <1>4, <1>5

LEMMA WorkerBeginInv ==
    ASSUME PipeInv, NEW w \in Worker, WorkerBegin(w) PROVE PipeInv'
<1> USE DEF PipeInv, WorkerBegin
<1> USE DEF rawVars, msgVars, writerVars, diskVars
<1>a. /\ \A v \in Worker \ {w} : wpc'[v] = wpc[v]
      /\ wpc'[w] = IF full THEN "stopped" ELSE "waiting"
      /\ wpc' \in [Worker -> {"new", "waiting", "busy", "stopped"}]
      /\ ~PoolDone
  BY DEF PipeTypeOK, PoolDone
<1>1. PipeTypeOK'
  BY <1>a DEF PipeTypeOK
<1>2. NoneLost'
  BY <1>a DEF NoneLost, Pending
<1>3. NoneInvented' /\ IndexInOrder' /\ StopsOnlyAtEnd'
  BY <1>a DEF NoneInvented, IndexInOrder, StopsOnlyAtEnd
<1>4. FinalizeLast' /\ NoneDue' /\ FinishIsComplete' /\ LeavesOnlyIfDropped'
  BY <1>a DEF FinalizeLast, NoneDue, FinishIsComplete, LeavesOnlyIfDropped
<1> QED BY <1>1, <1>2, <1>3, <1>4

LEMMA WorkerTakeInv ==
    ASSUME PipeInv, NEW w \in Worker, WorkerTake(w) PROVE PipeInv'
<1> USE DEF PipeInv, WorkerTake
<1> USE DEF msgVars, writerVars, diskVars
<1>a. /\ \A v \in Worker \ {w} : wpc'[v] = wpc[v] /\ task'[v] = task[v]
      /\ wpc[w] = "waiting" /\ wpc'[w] = "busy" /\ task'[w] = Head(raw_rx)
      /\ wpc' \in [Worker -> {"new", "waiting", "busy", "stopped"}]
      /\ ~PoolDone
  BY DEF PipeTypeOK, PoolDone
<1>b. /\ raw_rx' \in Seq(Nat) /\ Len(raw_rx) \in Nat /\ Len(raw_rx) >= 1
      /\ Head(raw_rx) = raw_rx[1] /\ raw_rx[1] \in Nat
      /\ DOMAIN raw_rx = 1..Len(raw_rx) /\ DOMAIN raw_rx' = 1..(Len(raw_rx) - 1)
      /\ \A k \in 1..(Len(raw_rx) - 1) : raw_rx'[k] = raw_rx[k + 1]
  BY HeadTailProperties, EmptySeq DEF PipeTypeOK
<1>1. PipeTypeOK'
  BY <1>a, <1>b DEF PipeTypeOK
<1>2. NoneLost'
  <2> SUFFICES ASSUME ~full, writer # "failed",
                      NEW i \in expected_id..(block_id - 1)
               PROVE  Pending(i)'
    BY DEF NoneLost, PipeTypeOK
  <2>1. Pending(i)
    BY DEF NoneLost
  <2>2. CASE \E k \in DOMAIN raw_rx : raw_rx[k] = i
    <3>1. PICK k \in 1..Len(raw_rx) : raw_rx[k] = i
      BY <2>2, <1>b
    <3>2. CASE k = 1
      BY <3>1, <3>2, <1>a, <1>b DEF Pending
    <3>3. CASE k # 1
      <4>1. k - 1 \in 1..(Len(raw_rx) - 1) /\ (k - 1) + 1 = k
        BY <3>3, <1>b
      <4>2. k - 1 \in DOMAIN raw_rx' /\ raw_rx'[k - 1] = i
        BY <4>1, <3>1, <1>b
      <4> QED BY <4>2 DEF Pending
    <3> QED BY <3>2, <3>3
  <2>3. CASE ~\E k \in DOMAIN raw_rx : raw_rx[k] = i
    BY <2>1, <2>3, <1>a DEF Pending
  <2> QED BY <2>2, <2>3
<1>3. NoneInvented'
  <2>0. \A k \in 1..(Len(raw_rx) - 1) : k + 1 \in 1..Len(raw_rx)
    BY <1>b
  <2>1. \A k \in DOMAIN raw_rx' : raw_rx'[k] < block_id
    <3> TAKE k \in DOMAIN raw_rx'
    <3>1. k + 1 \in DOMAIN raw_rx /\ raw_rx'[k] = raw_rx[k + 1]
      BY <2>0, <1>b
    <3> QED BY <3>1 DEF NoneInvented
  <2>2. \A v \in Worker : wpc'[v] = "busy" => task'[v] < block_id
    BY <1>a, <1>b DEF NoneInvented
  <2> QED BY <2>1, <2>2 DEF NoneInvented
<1>4. IndexInOrder' /\ NoneDue' /\ LeavesOnlyIfDropped'
  BY DEF IndexInOrder, NoneDue, LeavesOnlyIfDropped
<1>5. StopsOnlyAtEnd'
  BY <1>a DEF StopsOnlyAtEnd
<1>6. FinalizeLast' /\ FinishIsComplete'
  BY <1>a DEF FinalizeLast, FinishIsComplete
<1> QED BY <1>1, <1>2, <1>3, <1>4, <1>5, <1>6

LEMMA WorkerEndInv ==
    ASSUME PipeInv, NEW w \in Worker, WorkerEnd(w) PROVE PipeInv'
<1> USE DEF PipeInv, WorkerEnd
<1> USE DEF rawVars, msgVars, writerVars, diskVars
<1>a. /\ \A v \in Worker \ {w} : wpc'[v] = wpc[v]
      /\ wpc'[w] = "stopped"
      /\ wpc' \in [Worker -> {"new", "waiting", "busy", "stopped"}]
      /\ ~PoolDone
  BY DEF PipeTypeOK, PoolDone
<1>1. PipeTypeOK'
  BY <1>a DEF PipeTypeOK
<1>2. NoneLost'
  BY <1>a DEF NoneLost, Pending
<1>3. NoneInvented' /\ IndexInOrder' /\ StopsOnlyAtEnd'
  BY <1>a DEF NoneInvented, IndexInOrder, StopsOnlyAtEnd
<1>4. FinalizeLast' /\ NoneDue' /\ FinishIsComplete' /\ LeavesOnlyIfDropped'
  BY <1>a DEF FinalizeLast, NoneDue, FinishIsComplete, LeavesOnlyIfDropped
<1> QED BY <1>1, <1>2, <1>3, <1>4

LEMMA WorkerFailInv ==
    ASSUME PipeInv, NEW w \in Worker, WorkerFail(w) PROVE PipeInv'
<1> USE DEF PipeInv, WorkerFail
<1> USE DEF rawVars, msgVars, writerVars, diskVars
<1>a. /\ \A v \in Worker \ {w} : wpc'[v] = wpc[v]
      /\ wpc'[w] = "stopped"
      /\ wpc' \in [Worker -> {"new", "waiting", "busy", "stopped"}]
      /\ ~PoolDone /\ full'
  BY DEF PipeTypeOK, PoolDone
<1>1. PipeTypeOK'
  BY <1>a DEF PipeTypeOK
<1>2. NoneLost' /\ StopsOnlyAtEnd'
  BY <1>a DEF NoneLost, StopsOnlyAtEnd
<1>3. NoneInvented' /\ IndexInOrder'
  BY <1>a DEF NoneInvented, IndexInOrder
<1>4. FinalizeLast' /\ NoneDue' /\ FinishIsComplete' /\ LeavesOnlyIfDropped'
  BY <1>a DEF FinalizeLast, NoneDue, FinishIsComplete, LeavesOnlyIfDropped
<1> QED BY <1>1, <1>2, <1>3, <1>4

(* The writer takes the first message: the others move up by one. *)
LEMMA ReceiveProperties ==
    ASSUME PipeInv, rw_rx # <<>>, rw_rx' = Tail(rw_rx)
    PROVE  /\ rw_rx' \in Seq(WriterMessage) /\ Len(rw_rx) \in Nat /\ Len(rw_rx) >= 1
           /\ Head(rw_rx) = rw_rx[1] /\ rw_rx[1] \in WriterMessage
           /\ DOMAIN rw_rx = 1..Len(rw_rx) /\ DOMAIN rw_rx' = 1..(Len(rw_rx) - 1)
           /\ Len(rw_rx') = Len(rw_rx) - 1
           /\ \A k \in 1..(Len(rw_rx) - 1) : rw_rx'[k] = rw_rx[k + 1]
BY HeadTailProperties, EmptySeq DEF PipeInv, PipeTypeOK

LEMMA WriterRecvBlockInv == ASSUME PipeInv, WriterRecvBlock PROVE PipeInv'
<1> USE DEF PipeInv, WriterRecvBlock
<1> USE DEF rawVars, poolVars, diskVars
<1> DEFINE m == rw_rx[1]
<1>a. /\ rw_rx' \in Seq(WriterMessage) /\ Len(rw_rx) \in Nat /\ Len(rw_rx) >= 1
      /\ Head(rw_rx) = m /\ m \in WriterMessage
      /\ DOMAIN rw_rx = 1..Len(rw_rx) /\ DOMAIN rw_rx' = 1..(Len(rw_rx) - 1)
      /\ Len(rw_rx') = Len(rw_rx) - 1
      /\ \A k \in 1..(Len(rw_rx) - 1) : rw_rx'[k] = rw_rx[k + 1]
  BY ReceiveProperties
<1>b. /\ m.type = "Block" /\ m.id \in Nat /\ m.size \in StoredSizes
      /\ block_queue' = {b \in block_queue : b.id # m.id}
                            \cup {[id |-> m.id, size |-> m.size]}
  BY <1>a, MessageKinds
<1>c. [id |-> m.id, size |-> m.size] \in block_queue'
  BY <1>b
<1>1. PipeTypeOK'
  BY <1>a, <1>b DEF PipeTypeOK, ProcessedBlock, WriterState
<1>2. NoneLost'
  <2> SUFFICES ASSUME ~full, NEW i \in expected_id..(block_id - 1)
               PROVE  Pending(i)'
    BY DEF NoneLost, PipeTypeOK
  <2>1. Pending(i)
    BY DEF NoneLost
  <2>2. CASE m.id = i
    BY <2>2, <1>c DEF Pending
  <2>3. CASE m.id # i /\ \E b \in block_queue : b.id = i
    BY <2>3, <1>b DEF Pending
  <2>4. CASE m.id # i /\ \E k \in DOMAIN rw_rx : rw_rx[k].type = "Block" /\ rw_rx[k].id = i
    <3>1. PICK k \in 1..Len(rw_rx) : rw_rx[k].type = "Block" /\ rw_rx[k].id = i
      BY <2>4, <1>a
    <3>2. k - 1 \in 1..(Len(rw_rx) - 1)
      BY <2>4, <3>1, <1>a
    <3>3. rw_rx'[k - 1] = rw_rx[k]
      BY <3>1, <3>2, <1>a
    <3> QED BY <3>1, <3>2, <3>3, <1>a DEF Pending
  <2> QED BY <2>1, <2>2, <2>3, <2>4 DEF Pending
<1>3. NoneInvented'
  <2>1. \A k \in DOMAIN rw_rx' : rw_rx'[k].type = "Block" => rw_rx'[k].id < block_id
    BY <1>a DEF NoneInvented
  <2>2. \A b \in block_queue' : b.id < block_id
    BY <1>a, <1>b DEF NoneInvented
  <2> QED BY <2>1, <2>2 DEF NoneInvented
<1>4. FinalizeLast'
  <2> SUFFICES ASSUME NEW k \in DOMAIN rw_rx', rw_rx'[k] = Finalize
               PROVE  k = Len(rw_rx') /\ PoolDone /\ ~full /\ ~raw_tx
    BY DEF FinalizeLast, PoolDone
  <2> QED BY <1>a DEF FinalizeLast
<1>5. IndexInOrder' /\ StopsOnlyAtEnd' /\ NoneDue' /\ FinishIsComplete'
        /\ LeavesOnlyIfDropped'
  BY DEF IndexInOrder, StopsOnlyAtEnd, NoneDue, FinishIsComplete, LeavesOnlyIfDropped
<1> QED BY <1>1, <1>2, <1>3, <1>4, <1>5

LEMMA WriterDrainInv == ASSUME PipeInv, WriterDrain PROVE PipeInv'
<1> USE DEF PipeInv, WriterDrain
<1> USE DEF rawVars, poolVars, msgVars
<1>a. PICK b \in block_queue :
        /\ b.id = expected_id
        /\ block_queue' = block_queue \ {b}
        /\ index' = Append(index, Entry(file_position, b.size, b.id))
        /\ file_position' = file_position + b.size
  BY DrainKeepsLength
<1>b. /\ b.id \in Nat /\ b.size \in Nat /\ file_position \in Nat
      /\ Entry(file_position, b.size, b.id) \in BlockEntry
      /\ Entry(file_position, b.size, b.id).id = expected_id
  BY <1>a, SizesAssumption DEF PipeTypeOK, ProcessedBlock, Entry, BlockEntry
<1>c. /\ index' \in Seq(BlockEntry) /\ Len(index) \in Nat
      /\ Len(index') = Len(index) + 1
      /\ \A i \in 1..Len(index) : index'[i] = index[i]
      /\ index'[Len(index) + 1] = Entry(file_position, b.size, b.id)
  BY <1>a, <1>b, AppendProperties, LenProperties DEF PipeTypeOK
<1>1. PipeTypeOK'
  BY <1>a, <1>b, <1>c DEF PipeTypeOK
<1>2. NoneLost'
  <2> SUFFICES ASSUME ~full, NEW i \in (expected_id + 1)..(block_id - 1)
               PROVE  Pending(i)'
    BY DEF NoneLost, PipeTypeOK
  <2>1. Pending(i) /\ i # expected_id
    BY DEF NoneLost, PipeTypeOK
  <2> QED BY <2>1, <1>a DEF Pending
<1>3. NoneInvented'
  <2>1. expected_id < block_id
    BY <1>a DEF NoneInvented
  <2> QED BY <2>1, <1>a DEF NoneInvented, PipeTypeOK
<1>4. IndexInOrder'
  <2> SUFFICES ASSUME NEW i \in 1..(Len(index) + 1) PROVE index'[i].id = i - 1
    BY <1>c DEF IndexInOrder
  <2> QED BY <1>b, <1>c DEF IndexInOrder
<1>5. StopsOnlyAtEnd' /\ FinalizeLast'
  BY DEF StopsOnlyAtEnd, FinalizeLast, PoolDone
<1>6. NoneDue' /\ FinishIsComplete' /\ LeavesOnlyIfDropped'
  BY DEF NoneDue, FinishIsComplete, LeavesOnlyIfDropped
<1> QED BY <1>1, <1>2, <1>3, <1>4, <1>5, <1>6

LEMMA WriterDrainedInv == ASSUME PipeInv, WriterDrained PROVE PipeInv'
<1> USE DEF PipeInv, WriterDrained
<1> USE DEF rawVars, poolVars, msgVars, diskVars
<1>1. PipeTypeOK'
  BY DEF PipeTypeOK, WriterState
<1>2. NoneLost' /\ NoneInvented' /\ IndexInOrder'
  BY PendingUnchanged DEF NoneLost, NoneInvented, IndexInOrder, poolVars
<1>3. StopsOnlyAtEnd' /\ FinalizeLast'
  BY DEF StopsOnlyAtEnd, FinalizeLast, PoolDone
<1>4. NoneDue' /\ FinishIsComplete' /\ LeavesOnlyIfDropped'
  BY DEF NoneDue, FinishIsComplete, LeavesOnlyIfDropped
<1> QED BY <1>1, <1>2, <1>3, <1>4

LEMMA WriterWriteErrorInv == ASSUME PipeInv, WriterWriteError PROVE PipeInv'
<1> USE DEF PipeInv, WriterWriteError
<1> USE DEF rawVars, poolVars, msgVars
<1>1. PipeTypeOK'
  BY DEF PipeTypeOK, WriterState
<1>2. NoneLost' /\ NoneInvented' /\ IndexInOrder'
  BY DEF NoneLost, NoneInvented, IndexInOrder
<1>3. StopsOnlyAtEnd' /\ FinalizeLast'
  BY DEF StopsOnlyAtEnd, FinalizeLast, PoolDone
<1>4. NoneDue' /\ FinishIsComplete' /\ LeavesOnlyIfDropped'
  BY DEF NoneDue, FinishIsComplete, LeavesOnlyIfDropped
<1> QED BY <1>1, <1>2, <1>3, <1>4

(* The heart of it: when Finalize arrives, every block has arrived, and none *)
(* in the queue is due, so none is missing.                                  *)
LEMMA FinalizeFindsAll ==
    ASSUME PipeInv, writer = "recv", rw_rx # <<>>, Head(rw_rx) = Finalize
    PROVE  /\ expected_id = block_id /\ Tail(rw_rx) = <<>>
           /\ PoolDone /\ ~full /\ ~raw_tx /\ raw_rx = <<>>
<1> USE DEF PipeInv
<1>1. /\ Len(rw_rx) = 1 /\ Tail(rw_rx) = <<>> /\ rw_rx[1] = Finalize
      /\ DOMAIN rw_rx = 1..1
  <2>1. /\ rw_rx \in Seq(WriterMessage) /\ Len(rw_rx) \in Nat /\ Len(rw_rx) >= 1
        /\ Head(rw_rx) = rw_rx[1] /\ DOMAIN rw_rx = 1..Len(rw_rx)
    BY HeadTailProperties, EmptySeq, LenProperties DEF PipeTypeOK
  <2>2. 1 = Len(rw_rx)
    BY <2>1 DEF FinalizeLast
  <2>3. rw_rx # <<>> /\ Tail(rw_rx) \in Seq(WriterMessage) /\ Len(Tail(rw_rx)) = 0
    BY <2>1, <2>2, HeadTailProperties
  <2>4. Tail(rw_rx) = <<>>
    BY <2>3, EmptySeq
  <2>5. DOMAIN rw_rx = 1..1
    BY <2>1, <2>2
  <2> QED BY <2>1, <2>2, <2>4, <2>5
<1>2. PoolDone /\ ~full /\ ~raw_tx
  BY <1>1 DEF FinalizeLast
<1>3. raw_rx = <<>>
  BY <1>2, WorkerAssumption DEF PoolDone, StopsOnlyAtEnd
<1>4. ASSUME expected_id # block_id PROVE FALSE
  <2>1. expected_id \in expected_id..(block_id - 1)
    BY <1>4 DEF NoneInvented, PipeTypeOK
  <2>2. Pending(expected_id)
    BY <2>1, <1>2 DEF NoneLost
  <2>3. Finalize.type # "Block"
    BY DEF Finalize
  <2> QED BY <2>2, <2>3, <1>1, <1>2, <1>3 DEF Pending, NoneDue, PoolDone
<1> QED BY <1>1, <1>2, <1>3, <1>4

LEMMA WriterFinishInv == ASSUME PipeInv, WriterFinish PROVE PipeInv'
<1> USE DEF PipeInv, WriterFinish
<1> USE DEF rawVars, poolVars
<1>a. /\ expected_id = block_id /\ rw_rx' = <<>>
      /\ PoolDone /\ ~full /\ ~raw_tx /\ raw_rx = <<>>
  BY FinalizeFindsAll
<1>1. PipeTypeOK'
  BY <1>a, SizesAssumption DEF PipeTypeOK, WriterState, FooterSize
<1>2. NoneLost'
  BY <1>a DEF NoneLost, PipeTypeOK
<1>3. NoneInvented' /\ IndexInOrder'
  BY <1>a DEF NoneInvented, IndexInOrder
<1>4. StopsOnlyAtEnd' /\ FinalizeLast'
  BY <1>a DEF StopsOnlyAtEnd, FinalizeLast
<1>5. NoneDue' /\ FinishIsComplete' /\ LeavesOnlyIfDropped'
  BY <1>a DEF NoneDue, FinishIsComplete, LeavesOnlyIfDropped, PoolDone
<1> QED BY <1>1, <1>2, <1>3, <1>4, <1>5

LEMMA WriterSetLenInv == ASSUME PipeInv, WriterSetLen PROVE PipeInv'
<1> USE DEF PipeInv, WriterSetLen
<1> USE DEF rawVars, poolVars, msgVars
<1>1. PipeTypeOK'
  BY DEF PipeTypeOK, WriterState
<1>2. NoneLost' /\ NoneInvented' /\ IndexInOrder'
  BY PendingUnchanged DEF NoneLost, NoneInvented, IndexInOrder, poolVars
<1>3. StopsOnlyAtEnd' /\ FinalizeLast'
  BY DEF StopsOnlyAtEnd, FinalizeLast, PoolDone
<1>4. NoneDue' /\ FinishIsComplete' /\ LeavesOnlyIfDropped'
  BY DEF NoneDue, FinishIsComplete, LeavesOnlyIfDropped, PoolDone
<1> QED BY <1>1, <1>2, <1>3, <1>4

LEMMA WriterFinishErrorInv == ASSUME PipeInv, WriterFinishError PROVE PipeInv'
<1> USE DEF PipeInv, WriterFinishError
<1> USE DEF rawVars, poolVars
<1>a. rw_rx' = rw_rx \/ rw_rx' = <<>>
  BY FinalizeFindsAll
<1>1. PipeTypeOK'
  BY <1>a DEF PipeTypeOK, WriterState
<1>2. NoneLost' /\ NoneInvented' /\ IndexInOrder'
  BY <1>a DEF NoneLost, NoneInvented, IndexInOrder
<1>3. StopsOnlyAtEnd' /\ FinalizeLast'
  BY <1>a DEF StopsOnlyAtEnd, FinalizeLast, PoolDone
<1>4. NoneDue' /\ FinishIsComplete' /\ LeavesOnlyIfDropped'
  BY DEF NoneDue, FinishIsComplete, LeavesOnlyIfDropped
<1> QED BY <1>1, <1>2, <1>3, <1>4

LEMMA WriterDisconnectedInv == ASSUME PipeInv, WriterDisconnected PROVE PipeInv'
<1> USE DEF PipeInv, WriterDisconnected
<1> USE DEF rawVars, poolVars, msgVars, diskVars
<1>1. PipeTypeOK'
  BY DEF PipeTypeOK, WriterState
<1>2. NoneLost' /\ NoneInvented' /\ IndexInOrder'
  BY PendingUnchanged DEF NoneLost, NoneInvented, IndexInOrder, poolVars
<1>3. StopsOnlyAtEnd' /\ FinalizeLast'
  BY DEF StopsOnlyAtEnd, FinalizeLast, PoolDone
<1>4. NoneDue' /\ FinishIsComplete' /\ LeavesOnlyIfDropped'
  BY DEF NoneDue, FinishIsComplete, LeavesOnlyIfDropped
<1> QED BY <1>1, <1>2, <1>3, <1>4

(* PipeInv does not speak of the disk, nor of anything outside the pipeline. *)
LEMMA PipeInvUnchanged ==
    ASSUME PipeInv, UNCHANGED <<rawVars, poolVars, msgVars, writerVars>>
    PROVE  PipeInv'
<1> USE DEF PipeInv, rawVars, poolVars, msgVars, writerVars
<1>1. PipeTypeOK'
  BY DEF PipeTypeOK
<1>2. NoneLost' /\ NoneInvented' /\ IndexInOrder'
  BY PendingUnchanged DEF NoneLost, NoneInvented, IndexInOrder
<1>3. StopsOnlyAtEnd' /\ FinalizeLast'
  BY DEF StopsOnlyAtEnd, FinalizeLast, PoolDone
<1>4. NoneDue' /\ FinishIsComplete' /\ LeavesOnlyIfDropped'
  BY DEF NoneDue, FinishIsComplete, LeavesOnlyIfDropped, PoolDone
<1> QED BY <1>1, <1>2, <1>3, <1>4

LEMMA WorkerStepInv ==
    ASSUME PipeInv, NEW w \in Worker, WorkerStep(w) PROVE PipeInv'
BY WorkerBeginInv, WorkerTakeInv, WorkerEndInv, WorkerSendInv, WorkerFailInv
DEF WorkerStep

LEMMA WriterStepInv == ASSUME PipeInv, WriterStep PROVE PipeInv'
<1>1. CASE Spill
  BY <1>1, PipeInvUnchanged DEF Spill
<1> QED BY <1>1, WriterRecvBlockInv, WriterDrainInv, WriterDrainedInv,
           WriterWriteErrorInv, WriterFinishInv, WriterSetLenInv,
           WriterFinishErrorInv, WriterDisconnectedInv
        DEF WriterStep
-----------------------------------------------------------------------------
(* The types of the disk's side of the writer.                               *)
LEMMA ChunkTypes ==
    /\ \A off, n, i \in Nat : Chunk(off, n, BlockData(i)) \in AnyChunk
    /\ \A off, n \in Nat : Chunk(off, n, Header) \in AnyChunk
    /\ \A off, n \in Nat, s \in Seq(BlockEntry) : Chunk(off, n, IndexData(s)) \in AnyChunk
    /\ \A off, n, at, m \in Nat : Chunk(off, n, FooterData(at, m)) \in AnyChunk
<1>1. /\ \A i \in Nat : BlockData(i) \in What
      /\ Header \in What
      /\ \A s \in Seq(BlockEntry) : IndexData(s) \in What
      /\ \A at, m \in Nat : FooterData(at, m) \in What
  BY DEF What, BlockData, IndexData, FooterData
<1> QED BY <1>1 DEF Chunk, AnyChunk

LEMMA WriteChunkType ==
    ASSUME NEW f \in AnyFile, NEW c \in AnyChunk
    PROVE  WriteChunk(f, c) \in AnyFile
BY DEF AnyFile, AnyChunk, WriteChunk, End

LEMMA WriterStepDiskType ==
    ASSUME PipeTypeOK, DiskTypeOK, WriterStep PROVE DiskTypeOK'
<1> USE DEF DiskTypeOK
<1>1. CASE WriterDrain
  <2>1. PICK b \in block_queue :
          buffer' = Append(buffer, Chunk(file_position, b.size, BlockData(b.id)))
    BY <1>1, DrainKeepsLength
  <2>2. Chunk(file_position, b.size, BlockData(b.id)) \in AnyChunk
    BY ChunkTypes, SizesAssumption DEF PipeTypeOK, ProcessedBlock
  <2> QED BY <1>1, <2>1, <2>2, AppendProperties DEF WriterDrain
<1>2. CASE WriterFinish
  <2>1. PICK n \in IndexSizes :
          buffer' = buffer \o
            << Chunk(file_position, n, IndexData(index)),
               Chunk(file_position + n, FooterSize, FooterData(file_position, n)) >>
    BY <1>2, FinishKeepsLength
  <2>2. /\ Chunk(file_position, n, IndexData(index)) \in AnyChunk
        /\ Chunk(file_position + n, FooterSize, FooterData(file_position, n)) \in AnyChunk
    BY ChunkTypes, SizesAssumption DEF PipeTypeOK, FooterSize
  <2>3. << Chunk(file_position, n, IndexData(index)),
           Chunk(file_position + n, FooterSize, FooterData(file_position, n)) >>
          \in Seq(AnyChunk)
    BY <2>2
  <2> QED BY <1>2, <2>1, <2>3, ConcatProperties DEF WriterFinish
<1>3. CASE Spill
  <2>1. Head(buffer) \in AnyChunk /\ Tail(buffer) \in Seq(AnyChunk)
    BY <1>3, HeadTailProperties DEF Spill
  <2> QED BY <1>3, <2>1, WriteChunkType DEF Spill
<1>4. CASE WriterSetLen
  BY <1>4 DEF WriterSetLen, SetLen, AnyFile, PipeTypeOK
<1>5. CASE WriterWriteError \/ WriterFinishError
  BY <1>5, EmptySeq DEF WriterWriteError, WriterFinishError
<1>6. CASE WriterRecvBlock \/ WriterDrained \/ WriterDisconnected
  BY <1>6 DEF WriterRecvBlock, WriterDrained, WriterDisconnected, diskVars
<1> QED BY <1>1, <1>2, <1>3, <1>4, <1>5, <1>6 DEF WriterStep
-----------------------------------------------------------------------------
NoFinalize == \A k \in DOMAIN rw_rx : rw_rx[k] # Finalize

(* What a worker's step leaves alone, and that it never sends Finalize. *)
LEMMA WorkerFrame ==
    ASSUME PipeInv, NEW w \in Worker, WorkerStep(w)
    PROVE  /\ ~PoolDone
           /\ UNCHANGED <<writerVars, diskVars, raw_tx, rw_tx, block_id>>
           /\ NoFinalize => NoFinalize'
<1> USE DEF PipeInv, NoFinalize
<1>1. wpc[w] # "stopped"
  BY DEF WorkerStep, WorkerBegin, WorkerTake, WorkerEnd, WorkerSend, WorkerFail
<1>2. UNCHANGED <<writerVars, diskVars, raw_tx, rw_tx, block_id>>
  BY DEF WorkerStep, WorkerBegin, WorkerTake, WorkerEnd, WorkerSend, WorkerFail,
         rawVars, msgVars
<1>3. rw_rx' = rw_rx \/ WorkerSend(w)
  BY DEF WorkerStep, WorkerBegin, WorkerTake, WorkerEnd, WorkerFail, msgVars
<1>4. ASSUME WorkerSend(w), NoFinalize PROVE NoFinalize'
  <2>1. PICK n \in StoredSizes : rw_rx' = Append(rw_rx, BlockMsg(task[w], n))
    BY <1>4 DEF WorkerSend
  <2>2. /\ rw_rx \in Seq(WriterMessage) /\ BlockMsg(task[w], n) \in WriterMessage
        /\ BlockMsg(task[w], n) # Finalize
    BY SizesAssumption, BlockMsgIsMessage DEF PipeTypeOK
  <2> QED BY <1>4, <2>1, <2>2, AppendProperties
<1> QED BY <1>1, <1>2, <1>3, <1>4 DEF PoolDone

(* What a step of the writer leaves alone; it finishes only over Finalize. *)
LEMMA WriterFrame ==
    ASSUME PipeInv, WriterStep
    PROVE  /\ UNCHANGED <<rawVars, poolVars, rw_tx>>
           /\ NoFinalize => NoFinalize'
           /\ NoFinalize /\ writer \notin {"finish", "ok"} => writer' \notin {"finish", "ok"}
           /\ writer = "ok" => writer' = "ok" /\ UNCHANGED writerVars
<1> USE DEF PipeInv, NoFinalize
<1>1. UNCHANGED <<rawVars, poolVars, rw_tx>>
  BY DEF WriterStep, WriterRecvBlock, WriterDrain, WriterDrained, WriterWriteError,
         WriterFinish, WriterSetLen, WriterFinishError, WriterDisconnected, Spill,
         msgVars
<1>2. rw_rx' = rw_rx \/ (rw_rx # <<>> /\ rw_rx' = Tail(rw_rx))
  BY DEF WriterStep, WriterRecvBlock, WriterDrain, WriterDrained, WriterWriteError,
         WriterFinish, WriterSetLen, WriterFinishError, WriterDisconnected, Spill,
         msgVars
<1>3. NoFinalize => NoFinalize'
  BY <1>2, ReceiveProperties
<1>4. ASSUME NoFinalize, writer \notin {"finish", "ok"}
      PROVE  writer' \notin {"finish", "ok"}
  <2>1. CASE WriterFinish
    BY <2>1, <1>4, HeadTailProperties, EmptySeq DEF WriterFinish, PipeTypeOK
  <2>2. CASE ~WriterFinish
    BY <2>2, <1>4
    DEF WriterStep, WriterRecvBlock, WriterDrain, WriterDrained, WriterWriteError,
        WriterSetLen, WriterFinishError, WriterDisconnected, Spill, writerVars
  <2> QED BY <2>1, <2>2
<1>5. writer = "ok" => writer' = "ok" /\ UNCHANGED writerVars
  BY DEF WriterStep, WriterRecvBlock, WriterDrain, WriterDrained, WriterWriteError,
         WriterFinish, WriterSetLen, WriterFinishError, WriterDisconnected, Spill,
         writerVars
<1> QED BY <1>1, <1>3, <1>4, <1>5

(* The ids of the entries, as a sequence. *)
LEMMA IdsOfEntries ==
    ASSUME NEW s \in Seq(BlockEntry)
    PROVE  LET ids == [i \in 1..Len(s) |-> s[i].id]
           IN /\ ids \in Seq(Nat) /\ Len(ids) = Len(s)
              /\ \A i \in 1..Len(s) : ids[i] = s[i].id
<1>1. Len(s) \in Nat /\ \A i \in 1..Len(s) : s[i].id \in Nat
  <2>1. Len(s) \in Nat /\ s \in [1..Len(s) -> BlockEntry]
    BY LenProperties
  <2>2. \A e \in BlockEntry : e.id \in Nat
    BY DEF BlockEntry
  <2> QED BY <2>1, <2>2
<1>2. [i \in 1..Len(s) |-> s[i].id] \in [1..Len(s) -> Nat]
  BY <1>1
<1> QED BY <1>1, <1>2

(* The id of the entry that is appended comes last. *)
LEMMA IdsOfAppended ==
    ASSUME NEW s \in Seq(BlockEntry), NEW e \in BlockEntry, e.id = Len(s)
    PROVE  LET ids(t) == [i \in 1..Len(t) |-> t[i].id]
           IN ids(Append(s, e)) = Append(ids(s), Len(ids(s)))
<1> DEFINE ids(t) == [i \in 1..Len(t) |-> t[i].id]
<1> DEFINE longer == Append(s, e)
<1>1. /\ longer \in Seq(BlockEntry) /\ Len(longer) = Len(s) + 1 /\ Len(s) \in Nat
      /\ \A i \in 1..Len(s) : longer[i] = s[i]
      /\ longer[Len(s) + 1] = e
  BY AppendProperties, LenProperties
<1> HIDE DEF longer
<1>2. /\ ids(s) \in Seq(Nat) /\ Len(ids(s)) = Len(s)
      /\ \A i \in 1..Len(s) : ids(s)[i] = s[i].id
  BY IdsOfEntries
<1>3. /\ ids(longer) \in Seq(Nat) /\ Len(ids(longer)) = Len(s) + 1
      /\ \A i \in 1..Len(s) + 1 : ids(longer)[i] = longer[i].id
  <2>1. /\ ids(longer) \in Seq(Nat) /\ Len(ids(longer)) = Len(longer)
        /\ \A i \in 1..Len(longer) : ids(longer)[i] = longer[i].id
    BY <1>1, IdsOfEntries
  <2> QED BY <2>1, <1>1
<1> HIDE DEF ids
<1>4. /\ Append(ids(s), Len(s)) \in Seq(Nat) /\ Len(Append(ids(s), Len(s))) = Len(s) + 1
      /\ \A i \in 1..Len(s) : Append(ids(s), Len(s))[i] = ids(s)[i]
      /\ Append(ids(s), Len(s))[Len(s) + 1] = Len(s)
  BY <1>1, <1>2, AppendProperties
<1>5. ASSUME NEW i \in 1..Len(s) + 1
      PROVE  ids(longer)[i] = Append(ids(s), Len(s))[i]
  <2>1. CASE i = Len(s) + 1
    BY <2>1, <1>1, <1>3, <1>4
  <2>2. CASE i \in 1..Len(s)
    BY <2>2, <1>1, <1>2, <1>3, <1>4
  <2>3. i = Len(s) + 1 \/ i \in 1..Len(s)
    BY <1>1
  <2> QED BY <2>1, <2>2, <2>3
<1>6. ids(longer) = Append(ids(s), Len(s))
  BY <1>3, <1>4, <1>5, SeqEqual
<1> QED BY <1>2, <1>6 DEF ids, longer

-----------------------------------------------------------------------------
(* The chunks of the archive. *)
LEMMA SameChunks ==
    ASSUME UNCHANGED <<index, file_position, final_len>>
    PROVE  ArchiveChunks' = ArchiveChunks
BY DEF ArchiveChunks, BlockChunk, IndexChunk, FooterChunk, IndexSize

LEMMA HeaderIsChunk ==
    /\ HeaderChunk \in AnyChunk /\ HeaderChunk.off = 0 /\ End(HeaderChunk) = HeaderSize
    /\ HeaderChunk.what.kind = "header"
<1>1. HeaderChunk = [off |-> 0, len |-> HeaderSize, what |-> [kind |-> "header"]]
  BY DEF HeaderChunk, Chunk, Header
<1>2. [kind |-> "header"] \in What
  BY DEF What, Header
<1>3. HeaderChunk \in AnyChunk
  BY <1>1, <1>2, HeaderAssumption DEF AnyChunk
<1> QED BY <1>1, <1>3, HeaderAssumption DEF End
=============================================================================
