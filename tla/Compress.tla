------------------------------ MODULE Compress ------------------------------
(* `cryo compress`: the main thread creates the archive, starts the pool and *)
(* the writer, cuts the input into blocks, and then brings the threads to an *)
(* end in order: join the pool, report a read error, send Finalize, join the *)
(* writer; when any of that fails it removes the archive again.              *)
EXTENDS Pipeline

VARIABLES
    pc,           \* the main thread
    read_failed,  \* read_result is an error
    path,         \* at the archive's name: "absent", "foreign" (somebody
                  \* else's), "ours", or "stuck": ours, its removal failed
    outcome       \* "none" while it runs, then "ok", "error" or "killed"

mainVars == <<pc, read_failed, path, outcome>>
vars == <<pipeVars, mainVars>>

(* "left" is the time between main's return and the end of the process, when *)
(* the detached threads may still run.                                       *)
PC == {"start", "read", "join", "finalize", "join_writer", "cleanup", "return",
       "left", "done"}
Running == pc \notin {"start", "done"}

Init ==
    /\ PipeInit(<<>>, HeaderSize, <<HeaderChunk>>, EmptyFile)
    /\ pc = "start" /\ read_failed = FALSE /\ outcome = "none"
    /\ path \in {"absent", "foreign"}

(* A bad argument, an unreadable directory, or an archive of that name: the  *)
(* command ends before it has touched anything.                              *)
Refuse ==
    /\ pc = "start"
    /\ path = "foreign" \/ "read" \in Faults
    /\ pc' = "done" /\ outcome' = "error"
    /\ UNCHANGED <<read_failed, path, pipeVars>>

(* create_new, the header goes to the buffer, the threads start. *)
Start ==
    /\ pc = "start" /\ path = "absent"
    /\ path' = "ours" /\ pc' = "read"
    /\ UNCHANGED <<read_failed, outcome, pipeVars>>

ReadBlock ==
    /\ pc = "read" /\ block_id < MaxBlocks
    /\ SendRaw
    /\ UNCHANGED mainVars

(* Mutant: raw_tx lives on. *)
ReadDoneKeepsSender ==
    /\ pc = "read"
    /\ read_failed' = FALSE \/ ("read" \in Faults /\ read_failed' = TRUE)
    /\ pc' = "join"
    /\ UNCHANGED <<pipeVars, path, outcome>>

(* The input is at its end, or a file cannot be read: raw_tx is dropped. *)
ReadDone ==
    /\ pc = "read"
    /\ read_failed' = FALSE \/ ("read" \in Faults /\ read_failed' = TRUE)
    /\ pc' = "join"
    /\ DropRawSender
    /\ UNCHANGED <<path, outcome>>

(* Mutant: the pool is not joined before Finalize is sent. *)
JoinWorkersEarly ==
    /\ pc = "join"
    /\ pc' = IF full \/ read_failed THEN "cleanup" ELSE "finalize"
    /\ UNCHANGED <<read_failed, path, outcome, pipeVars>>

(* Mutant: the result of the join is dropped. *)
JoinWorkersDeaf ==
    /\ pc = "join" /\ PoolDone
    /\ pc' = IF read_failed THEN "cleanup" ELSE "finalize"
    /\ UNCHANGED <<read_failed, path, outcome, pipeVars>>

(* Mutant: the condition is the wrong way round. *)
JoinWorkersSwapped ==
    /\ pc = "join" /\ PoolDone
    /\ pc' = IF full \/ read_failed THEN "finalize" ELSE "cleanup"
    /\ UNCHANGED <<read_failed, path, outcome, pipeVars>>

JoinWorkers ==
    /\ pc = "join" /\ PoolDone
    /\ pc' = IF full \/ read_failed THEN "cleanup" ELSE "finalize"
    /\ UNCHANGED <<read_failed, path, outcome, pipeVars>>

MainSendFinalize ==
    /\ pc = "finalize"
    /\ \/ SendFinalize /\ pc' = "join_writer"
       \/ WriterReturned /\ pc' = "cleanup" /\ UNCHANGED pipeVars
    /\ UNCHANGED <<read_failed, path, outcome>>

JoinWriter ==
    /\ pc = "join_writer" /\ WriterReturned
    /\ \/ /\ writer = "failed" /\ pc' = "cleanup" /\ UNCHANGED outcome
       \/ /\ writer # "failed" /\ pc' = "return" /\ outcome' = "ok"
    /\ UNCHANGED <<read_failed, path, pipeVars>>

(* Mutant: the archive is not removed. *)
CleanupForgets ==
    /\ pc = "cleanup"
    /\ pc' = "return" /\ outcome' = "error"
    /\ UNCHANGED <<read_failed, path, pipeVars>>

(* remove_file, its own error ignored. *)
Cleanup ==
    /\ pc = "cleanup"
    /\ path' = "absent" \/ ("unlink" \in Faults /\ path' = "stuck")
    /\ pc' = "return" /\ outcome' = "error"
    /\ UNCHANGED <<read_failed, pipeVars>>

(* The locals of initialize_compression go: the last sender of the writer's  *)
(* channel among them.                                                       *)
Return ==
    /\ pc = "return" /\ pc' = "left"
    /\ DropWriterSender
    /\ UNCHANGED <<read_failed, path, outcome>>

Exit ==
    /\ pc = "left" /\ pc' = "done"
    /\ UNCHANGED <<read_failed, path, outcome, pipeVars>>

(* The process is killed; what the BufWriter held is lost with it. *)
Crash ==
    /\ Running /\ "crash" \in Faults
    /\ pc' = "done"
    /\ outcome' = IF outcome = "none" THEN "killed" ELSE outcome
    /\ UNCHANGED <<read_failed, path, pipeVars>>

MainStep ==
    \/ Refuse \/ Start \/ ReadBlock \/ ReadDone \/ JoinWorkers
    \/ MainSendFinalize \/ JoinWriter \/ Cleanup \/ Return \/ Exit

PoolThread(w) == Running /\ WorkerStep(w) /\ UNCHANGED mainVars
WriterThread == Running /\ WriterStep /\ UNCHANGED mainVars

Finished == pc = "done" /\ UNCHANGED vars

Next ==
    \/ MainStep
    \/ \E w \in Worker : PoolThread(w)
    \/ WriterThread
    \/ Crash
    \/ Finished

(* Every thread that can run does run in the end: the operating system's     *)
(* scheduler, and rayon's pool, which runs every split of a bridge.          *)
Fairness ==
    /\ WF_vars(MainStep)
    /\ WF_vars(WriterThread)
    /\ \A w \in Worker : WF_vars(PoolThread(w))

Spec == Init /\ [][Next]_vars
FairSpec == Spec /\ Fairness

-----------------------------------------------------------------------------
TypeOK ==
    /\ PipeTypeOK /\ DiskTypeOK
    /\ pc \in PC /\ read_failed \in BOOLEAN
    /\ path \in {"absent", "foreign", "ours", "stuck"}
    /\ outcome \in {"none", "ok", "error", "killed"}

(* Success is a complete archive: when compress reports success, the file on *)
(* disk loads and holds exactly the blocks that the reader cut, each where   *)
(* the index says and in reading order (compress.rs writer, writer.rs        *)
(* finish).                                                                  *)
SuccessIsComplete ==
    outcome = "ok" => path = "ours" /\ HoldsBlocks(file, block_id)

(* The same for the index alone, whatever the disk: no block is missing, out *)
(* of order or described twice in the index of a successful run.             *)
IndexComplete ==
    outcome = "ok" =>
        /\ Len(index) = block_id
        /\ \A i \in 1..Len(index) : index[i].id = i - 1

(* The footer is what makes a file an archive: at any moment, so also after  *)
(* a crash or a failed clean-up, a file that loads is complete.              *)
LoadableIsComplete ==
    path \in {"ours", "stuck"} /\ Loadable(file) => HoldsBlocks(file, block_id)

(* A failed run does not keep its archive, whichever of its steps fails: it  *)
(* is gone, unless the system has refused to remove it (compress.rs:191).    *)
FailureLeavesNothing == outcome = "error" => path # "ours"

ForeignUntouched == [][path = "foreign" => path' = "foreign"]_path

(* The entries of the index lie one behind the other from the header on, and *)
(* the next block goes behind the last.                                      *)
IndexContiguous ==
    /\ \A i \in 1..Len(index) :
         index[i].offset = IF i = 1 THEN HeaderSize
                           ELSE index[i-1].offset + index[i-1].size_stored
    /\ file_position = IF index = <<>> THEN HeaderSize
                       ELSE index[Len(index)].offset + index[Len(index)].size_stored

(* Finalize is the last message: no block follows it into the channel, and   *)
(* none is on its way to it.                                                 *)
FinalizeIsLast ==
    \A k \in DOMAIN rw_rx : rw_rx[k] = Finalize =>
        /\ k = Len(rw_rx)
        /\ \A w \in Worker : wpc[w] # "busy"
        /\ raw_rx = <<>>

(* A worker's or the writer's error is never lost on the way to the caller.  *)
ErrorsSurface == outcome = "ok" => ~full /\ writer = "ok" /\ ~read_failed

(* And no error is made up: a run that reports one was refused before it     *)
(* began (it still has its sender), or the reading, the pool or the writer   *)
(* has failed.                                                               *)
NoFalseAlarm ==
    outcome = "error" => raw_tx \/ read_failed \/ full \/ writer = "failed"

(* What the main thread's position says of the pipeline.                     *)
MainInv ==
    /\ pc \in {"start", "read", "join", "finalize"} =>
         /\ writer \notin {"finish", "ok"} /\ outcome = "none"
         /\ \A k \in DOMAIN rw_rx : rw_rx[k] # Finalize
    /\ pc \in {"join", "finalize", "join_writer"} => ~raw_tx
    /\ pc \in {"finalize", "join_writer"} => PoolDone /\ ~full /\ ~read_failed
    /\ pc \notin {"left", "done"} => rw_tx
    /\ pc \in {"join_writer", "cleanup"} => outcome = "none"
    /\ outcome = "ok" => writer = "ok" /\ ~read_failed /\ path = "ours"
    /\ pc \notin {"start", "done"} /\ outcome = "none" => path = "ours"
    /\ outcome = "none" => pc \notin {"return", "left", "done"}

(* The inductive invariant of compress: every block that is cut and not yet  *)
(* in the index is in some part of the pipeline that will still write it,    *)
(* and Finalize cannot get ahead of it.                                      *)
IInv == TypeOK /\ PipeInv /\ MainInv

(* Every chunk is on disk, or in the buffer, or lost with the buffer of a    *)
(* writer that failed; in the last two cases it belongs behind what is on    *)
(* disk.                                                                     *)
NoHoles ==
    \A c \in ArchiveChunks :
        \/ c \in file.chunks
        \/ \E k \in DOMAIN buffer : buffer[k] = c
        \/ writer = "failed" /\ buffer = <<>> /\ c.off >= file.len

(* The disk has nothing else, and the buffer holds what follows, in order.   *)
WrittenInOrder ==
    /\ \A c \in file.chunks : c \in ArchiveChunks /\ End(c) <= file.len
    /\ \A k \in DOMAIN buffer :
         /\ buffer[k] \in ArchiveChunks /\ buffer[k].off >= file.len
         /\ \A j \in DOMAIN buffer : j < k => End(buffer[j]) <= buffer[k].off

(* Where the next block goes nothing has been written; the index and the     *)
(* footer are behind every block.                                            *)
RoomForNext ==
    /\ \A i \in 1..Len(index) : index[i].offset + index[i].size_stored <= file_position
    /\ HeaderSize <= file_position
    /\ file.len <= IF final_len = 0 THEN file_position ELSE final_len

FinalLength ==
    /\ writer \in {"recv", "drain", "left"} => final_len = 0
    /\ writer \in {"finish", "ok"} => final_len # 0
    /\ final_len # 0 => /\ file_position + FooterSize <= final_len
                        /\ expected_id = block_id /\ ~raw_tx
    /\ writer = "ok" => buffer = <<>> /\ file.len = final_len

DiskInv == NoHoles /\ WrittenInOrder /\ RoomForNext /\ FinalLength

(* The writer adds entries behind those it has and changes none.             *)
IndexAppendOnly ==
    [][/\ Len(index') >= Len(index)
       /\ SubSeq(index', 1, Len(index)) = index]_index

(* Every run of compress comes to an end, whatever fails. *)
Terminates == <>(pc = "done")
=============================================================================
