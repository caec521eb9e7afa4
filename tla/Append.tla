------------------------------- MODULE Append -------------------------------
(* `cryo append`: the archive is copied to a sibling .tmp file, the pipeline *)
(* writes new blocks and a new index over the copy's old index, and the copy *)
(* is renamed over the archive.  A failure after the copy removes the .tmp;  *)
(* one that comes while the input is read does not wait for the threads.     *)
EXTENDS Pipeline

CONSTANTS
    MaxOld,       \* bound: blocks the archive has before
    MaxLen        \* bound: bytes before the archive's index

ASSUME MaxOldAssumption == MaxOld \in Nat
ASSUME MaxLenAssumption == MaxLen \in Nat

VARIABLES
    pc,           \* the main thread
    before,       \* the archive as it was (never written)
    arch,         \* which file has the archive's name: "old", or "new": "file"
    tmp,          \* at the .tmp name: "absent", "foreign" (somebody else's),
                  \* "partial" (of a copy that failed), "ours", or "stuck":
                  \* ours, its removal failed
    outcome       \* "none" while it runs, then "ok", "error" or "killed"

mainVars == <<pc, before, arch, tmp, outcome>>
vars == <<pipeVars, mainVars>>

PC == {"copy", "retrieve", "read", "join", "finalize", "join_writer", "rename",
       "cleanup", "left", "done"}
Running == pc # "done"
ThreadsStarted == pc \notin {"copy", "retrieve", "done"}

-----------------------------------------------------------------------------
(* The archives that compress makes: header, blocks, index, footer, each at  *)
(* the end of the one before.  bounds[i] is where block i - 1 starts and the *)
(* one before it ends.                                                       *)
Layouts(n) ==
    {bounds \in [1..(n+1) -> HeaderSize..MaxLen] :
        /\ bounds[1] = HeaderSize
        /\ \A i, j \in 1..(n+1) : i <= j => bounds[i] <= bounds[j]
        /\ \A i \in 1..n : bounds[i+1] - bounds[i] \in StoredSizes}

OldEntries(n, bounds) == [i \in 1..n |-> Entry(bounds[i], bounds[i+1] - bounds[i], i-1)]

ArchiveOf(n, bounds, m) ==
    LET entries == OldEntries(n, bounds)
        at == bounds[n+1]
    IN [len |-> at + m + FooterSize,
        chunks |-> {HeaderChunk,
                    Chunk(at, m, IndexData(entries)),
                    Chunk(at + m, FooterSize, FooterData(at, m))}
                   \cup {Chunk(entries[i].offset, entries[i].size_stored, BlockData(i-1)) :
                            i \in 1..n}]

Archives == UNION {{ArchiveOf(n, bounds, m) : bounds \in Layouts(n), m \in IndexSizes} :
                      n \in 0..MaxOld}

IndexOffset(f) == (CHOOSE t \in Footers(f) : TRUE).what.index_offset
OldLen == Len(LoadedIndex(before))

(* The file that a reader who opens the archive by its name gets. *)
ArchFile == IF arch = "new" THEN file ELSE before

Init ==
    /\ before \in Archives /\ arch = "old" /\ tmp \in {"absent", "foreign"}
    /\ pc = "copy" /\ outcome = "none"
    /\ PipeInit(LoadedIndex(before), IndexOffset(before), <<>>, before)

-----------------------------------------------------------------------------
(* fs::copy replaces whatever has the .tmp name. *)
Copy ==
    /\ pc = "copy"
    /\ tmp' = "ours" /\ pc' = "retrieve"
    /\ UNCHANGED <<before, arch, outcome, pipeVars>>

(* No name for the .tmp file, no archive, or no space for all of the copy:   *)
(* append returns at once.                                                   *)
CopyFails ==
    /\ pc = "copy" /\ "copy" \in Faults
    /\ tmp' \in {tmp, "partial"} /\ pc' = "done" /\ outcome' = "error"
    /\ UNCHANGED <<before, arch, pipeVars>>

(* Both files are opened, the archive is loaded, the threads start. *)
Retrieve ==
    /\ pc = "retrieve" /\ pc' = "read"
    /\ UNCHANGED <<before, arch, tmp, outcome, pipeVars>>

RetrieveFails ==
    /\ pc = "retrieve" /\ "retrieve" \in Faults
    /\ pc' = "cleanup"
    /\ UNCHANGED <<before, arch, tmp, outcome, pipeVars>>

ReadBlock ==
    /\ pc = "read" /\ block_id < OldLen + MaxBlocks
    /\ SendRaw
    /\ UNCHANGED mainVars

(* Mutant: raw_tx lives on. *)
ReadDoneKeepsSender ==
    /\ pc = "read" /\ pc' = "join"
    /\ UNCHANGED <<pipeVars, before, arch, tmp, outcome>>

ReadDone ==
    /\ pc = "read" /\ pc' = "join"
    /\ DropRawSender
    /\ UNCHANGED <<before, arch, tmp, outcome>>

(* The closure returns: its senders go, its threads are detached. *)
LeaveClosure(to) ==
    /\ pc' = to /\ raw_tx' = FALSE /\ rw_tx' = FALSE
    /\ UNCHANGED <<raw_rx, block_id, poolVars, rw_rx, writerVars, diskVars, before>>

ReadFails ==
    /\ pc = "read" /\ "read" \in Faults
    /\ LeaveClosure("cleanup")
    /\ UNCHANGED <<arch, tmp, outcome>>

(* Mutant: the pool is not joined before Finalize is sent. *)
JoinWorkersEarly ==
    /\ pc = "join"
    /\ \/ full /\ LeaveClosure("cleanup")
       \/ ~full /\ pc' = "finalize" /\ UNCHANGED <<before, pipeVars>>
    /\ UNCHANGED <<arch, tmp, outcome>>

JoinWorkers ==
    /\ pc = "join" /\ PoolDone
    /\ \/ full /\ LeaveClosure("cleanup")
       \/ ~full /\ pc' = "finalize" /\ UNCHANGED <<before, pipeVars>>
    /\ UNCHANGED <<arch, tmp, outcome>>

(* The error of this send is dropped; the join that follows reports it. *)
MainSendFinalize ==
    /\ pc = "finalize" /\ pc' = "join_writer"
    /\ SendFinalize \/ (WriterReturned /\ UNCHANGED pipeVars)
    /\ UNCHANGED <<before, arch, tmp, outcome>>

(* Mutant: the writer's result is dropped. *)
JoinWriterDeaf ==
    /\ pc = "join_writer" /\ WriterReturned
    /\ pc' = "rename" /\ UNCHANGED <<before, pipeVars>>
    /\ UNCHANGED <<arch, tmp, outcome>>

JoinWriter ==
    /\ pc = "join_writer" /\ WriterReturned
    /\ \/ writer = "failed" /\ LeaveClosure("cleanup")
       \/ writer # "failed" /\ pc' = "rename" /\ UNCHANGED <<before, pipeVars>>
    /\ UNCHANGED <<arch, tmp, outcome>>

Rename ==
    /\ pc = "rename"
    /\ arch' = "new" /\ tmp' = "absent" /\ outcome' = "ok"
    /\ LeaveClosure("left")

RenameFails ==
    /\ pc = "rename" /\ "rename" \in Faults
    /\ LeaveClosure("cleanup")
    /\ UNCHANGED <<arch, tmp, outcome>>

(* Mutant: the .tmp file is not removed. *)
CleanupForgets ==
    /\ pc = "cleanup"
    /\ pc' = "left" /\ outcome' = "error"
    /\ UNCHANGED <<before, arch, tmp, pipeVars>>

(* remove_file, its own error ignored. *)
Cleanup ==
    /\ pc = "cleanup"
    /\ tmp' = "absent" \/ ("unlink" \in Faults /\ tmp' = "stuck")
    /\ pc' = "left" /\ outcome' = "error"
    /\ UNCHANGED <<before, arch, pipeVars>>

Exit ==
    /\ pc = "left" /\ pc' = "done"
    /\ UNCHANGED <<before, arch, tmp, outcome, pipeVars>>

Crash ==
    /\ Running /\ "crash" \in Faults
    /\ pc' = "done"
    /\ outcome' = IF outcome = "none" THEN "killed" ELSE outcome
    /\ tmp' \in {tmp} \cup (IF pc = "copy" THEN {"partial"} ELSE {})
    /\ UNCHANGED <<before, arch, pipeVars>>

MainStep ==
    \/ Copy \/ CopyFails \/ Retrieve \/ RetrieveFails \/ ReadBlock \/ ReadDone
    \/ ReadFails \/ JoinWorkers \/ MainSendFinalize \/ JoinWriter \/ Rename
    \/ RenameFails \/ Cleanup \/ Exit

PoolThread(w) == ThreadsStarted /\ WorkerStep(w) /\ UNCHANGED mainVars
WriterThread == ThreadsStarted /\ WriterStep /\ UNCHANGED mainVars

Finished == pc = "done" /\ UNCHANGED vars

Next ==
    \/ MainStep
    \/ \E w \in Worker : PoolThread(w)
    \/ WriterThread
    \/ Crash
    \/ Finished

(* The same scheduling as for compress. *)
Fairness ==
    /\ WF_vars(MainStep)
    /\ WF_vars(WriterThread)
    /\ \A w \in Worker : WF_vars(PoolThread(w))

Spec == Init /\ [][Next]_vars
FairSpec == Spec /\ Fairness

-----------------------------------------------------------------------------
TypeOK ==
    /\ PipeTypeOK /\ DiskTypeOK
    /\ pc \in PC /\ arch \in {"old", "new"}
    /\ tmp \in {"absent", "foreign", "partial", "ours", "stuck"}
    /\ outcome \in {"none", "ok", "error", "killed"}

(* Whenever the archive is opened by its name, also after a crash at any     *)
(* point, it loads and is whole: the old blocks before the rename, the old   *)
(* and all new ones after it, and no leftover of the old index or footer     *)
(* behind the new one (append.rs, writer.rs finish and its set_len).         *)
ArchiveAlwaysWhole ==
    HoldsBlocks(ArchFile, IF arch = "new" THEN block_id ELSE OldLen)

(* The new index starts with the entries of the old one: no block of the old *)
(* archive is moved, dropped or described anew.                              *)
OldEntriesKept ==
    arch = "new" => SubSeq(LoadedIndex(file), 1, OldLen) = LoadedIndex(before)

(* An append that fails leaves the original in place; one that reports       *)
(* success has replaced it, and no thread's error was lost on the way (the   *)
(* send of Finalize drops its error, so the join of the writer must tell).   *)
OutcomeMatchesArchive ==
    /\ outcome = "error" => arch = "old"
    /\ outcome = "ok" => arch = "new" /\ ~full /\ writer = "ok"

(* A failed append does not keep the copy it has made, whichever of its      *)
(* steps fails: it is gone, unless the system has refused to remove it       *)
(* (append.rs:204).                                                          *)
FailureRemovesCopy == outcome = "error" => tmp # "ours"

(* README.md:94, "If anything fails the `.tmp` is removed".                  *)
FailureRemovesTmp == outcome = "error" => tmp \notin {"partial", "ours"}

(* Once the archive's name stands for the new file, nothing writes to that   *)
(* file: the detached threads of an append are finished with it.             *)
NoWriteAfterRename == [][arch = "new" => file' = file]_vars

(* What the main thread's position says of the pipeline.  After a failure    *)
(* the threads run on without it (LeaveClosure): Finalize was sent to a pool *)
(* that had stopped, or never.                                               *)
MainInv ==
    /\ pc \in {"copy", "retrieve", "read", "join", "finalize"} =>
         writer \notin {"finish", "ok"} /\ \A k \in DOMAIN rw_rx : rw_rx[k] # Finalize
    /\ pc \in {"join", "finalize", "join_writer", "rename"} => ~raw_tx
    /\ pc \in {"finalize", "join_writer", "rename"} => PoolDone /\ ~full
    /\ pc \in {"copy", "retrieve", "read", "join", "finalize", "join_writer", "rename"} => rw_tx
    /\ pc = "rename" => writer = "ok"
    /\ outcome = "none" <=> pc \notin {"left", "done"}
    /\ outcome = "none" => arch = "old"
    /\ arch = "new" => outcome = "ok"
    /\ outcome = "ok" => arch = "new" /\ writer = "ok" /\ ~full

(* The inductive invariant of append: that of the pipeline holds although    *)
(* the main thread may leave at any point and the others run on.             *)
IInv == TypeOK /\ PipeInv /\ MainInv

(* Every chunk of the new archive is in the file or in the buffer, until the *)
(* writer fails.                                                             *)
NothingMissing ==
    writer # "failed" =>
        \A c \in ArchiveChunks :
            c \in file.chunks \/ \E k \in DOMAIN buffer : buffer[k] = c

(* What will be written lies beside what has been, so that only the old      *)
(* index and footer are destroyed; of these nothing that could be taken for  *)
(* the new ones stays.                                                       *)
Apart(chunks) ==
    /\ \A c, d \in chunks : c # d => Disjoint(c, d)
    /\ \A c \in chunks : c.what.kind \in {"index", "footer"} => c.len > 0
NothingDestroyed ==
    /\ Apart(file.chunks) /\ Apart(ArchiveChunks)
    /\ \A k \in DOMAIN buffer : buffer[k] \in ArchiveChunks

(* The new entries follow the old ones, the new blocks the last old block,   *)
(* and the index and the footer the new blocks.                              *)
NewBehindOld ==
    /\ before \in Archives
    /\ Len(index) >= OldLen
    /\ \A i \in 1..OldLen : index[i] = LoadedIndex(before)[i]
    /\ \A i \in 1..Len(index) : index[i].offset + index[i].size_stored <= file_position
    /\ HeaderSize <= file_position
    /\ writer \in {"recv", "drain", "left"} => final_len = 0
    /\ writer \in {"finish", "ok"} => final_len # 0
    /\ final_len # 0 => file_position + FooterSize <= final_len
    /\ writer = "ok" => buffer = <<>> /\ file.len = final_len

(* The invariant from which the archive's integrity follows. *)
DiskInv == NothingMissing /\ NothingDestroyed /\ NewBehindOld
AppendInv == IInv /\ DiskInv

(* Every run of append comes to an end, whatever fails. *)
Terminates == <>(pc = "done")

(* Append implements the ordered log, starting from the old blocks. *)
LogOfIndex == [i \in 1..Len(index) |-> index[i].id]
Status ==
    CASE outcome = "none" -> "open"
      [] outcome = "ok"   -> "committed"
      [] OTHER            -> "aborted"

Abstract == INSTANCE OrderedLog WITH
    produced <- block_id, log <- LogOfIndex, status <- Status

ImplementsOrderedLog == Abstract!LogSpec
=============================================================================
