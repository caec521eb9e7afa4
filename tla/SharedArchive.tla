---------------------------- MODULE SharedArchive ----------------------------
(* Several runs of `cryo append` to one archive, and runs that read it       *)
(* (list, verify, decompress): nothing locks the archive.  Each run is the   *)
(* sequence of its calls to the file system; a name leads to an inode, an    *)
(* open file is an inode, and rename moves an inode from one name to another.*)
EXTENDS ArchiveFile

CONSTANTS
    Appender,    \* runs of append
    Reader,      \* runs of list, verify or decompress
    Overlap,     \* may an append start before the one before it has ended?
    NewId,       \* the number of the block that each append adds
    NewLen,      \* its stored length
    Failures     \* may a call of an append fail, or its process be killed?

ASSUME OverlapAssumption == Overlap \in BOOLEAN /\ Failures \in BOOLEAN
ASSUME NewIdAssumption == NewId \in [Appender -> Nat \ {0}]
ASSUME NewLenAssumption == NewLen \in [Appender -> Nat \ {0}]

VARIABLES
    names,    \* the archive's name and that of its .tmp file
    inodes,   \* what each inode holds
    pc,       \* per run
    from,     \* per append: the inode it copies
    handle,   \* per run: the inode it has open
    index,    \* per run: the index it has loaded
    at,       \* per append: where it writes
    result    \* per run: "none", "ok", "error" or "killed"

vars == <<names, inodes, pc, from, handle, index, at, result>>

None == "none"
Original == "original"

ASSUME RunAssumption == Appender \cap Reader = {} /\ {None, Original} \cap Appender = {}

Inode == {Original} \cup Appender
Run == Appender \cup Reader

Arch == inodes[names["arch"]]

(* The archive that is there at first has one block. *)
FirstEntry == Entry(1, 1, 0)
First ==
    [len |-> 4, chunks |-> {Chunk(0, 1, Header), Chunk(1, 1, BlockData(0)),
        Chunk(2, 1, IndexData(<<FirstEntry>>)), Chunk(3, FooterSize, FooterData(2, 1))}]

(* An index, and the blocks it lists where it says they are. *)
Intact(f, entries) ==
    \A i \in DOMAIN entries :
        Chunk(entries[i].offset, entries[i].size_stored, BlockData(entries[i].id))
            \in f.chunks

Init ==
    /\ names \in [{"arch", "tmp"} -> {Original, None}] /\ names["arch"] = Original
    /\ names["tmp"] = None
    /\ inodes = [i \in Inode |-> IF i = Original THEN First ELSE EmptyFile]
    /\ pc = [r \in Run |-> "start"] /\ from = [p \in Appender |-> Original]
    /\ handle = [r \in Run |-> Original] /\ index = [r \in Run |-> <<>>]
    /\ at = [p \in Appender |-> 0] /\ result = [r \in Run |-> "none"]

At(r, here, next) == pc[r] = here /\ pc' = [pc EXCEPT ![r] = next]
Ended(r) == pc[r] = "done"

-----------------------------------------------------------------------------
(* append_file                                                               *)

(* fs::copy opens the archive, and makes or empties the .tmp file. *)
CopyBegin(p) ==
    /\ At(p, "start", "copy")
    /\ Overlap \/ \A q \in Appender : pc[q] \in {"start", "done"}
    /\ LET tmp == IF names["tmp"] = None THEN p ELSE names["tmp"]
       IN /\ names' = [names EXCEPT !["tmp"] = tmp]
          /\ inodes' = [inodes EXCEPT ![tmp] = EmptyFile]
          /\ handle' = [handle EXCEPT ![p] = tmp]
    /\ from' = [from EXCEPT ![p] = names["arch"]]
    /\ UNCHANGED <<index, at, result>>

(* Its data goes over whatever the .tmp file has by now. *)
Over(f, g) ==
    [len |-> IF f.len > g.len THEN f.len ELSE g.len,
     chunks |-> f.chunks \cup {c \in g.chunks : c.off >= f.len}]
CopyData(p) ==
    /\ At(p, "copy", "open")
    /\ inodes' = [inodes EXCEPT ![handle[p]] = Over(inodes[from[p]], @)]
    /\ UNCHANGED <<names, from, handle, index, at, result>>

(* Mutant: the archive itself is opened for writing. *)
OpenArchive(p) ==
    /\ At(p, "open", "load")
    /\ handle' = [handle EXCEPT ![p] = names["arch"]]
    /\ UNCHANGED <<names, inodes, from, index, at, result>>

(* Each file is opened again, by its name. *)
OpenTmp(p) ==
    /\ At(p, "open", "load")
    /\ names["tmp"] # None
    /\ handle' = [handle EXCEPT ![p] = names["tmp"]]
    /\ UNCHANGED <<names, inodes, from, index, at, result>>
Load(p) ==
    /\ At(p, "load", "block")
    /\ Loadable(Arch)
    /\ index' = [index EXCEPT ![p] = LoadedIndex(Arch)]
    /\ \E t \in Footers(Arch) : at' = [at EXCEPT ![p] = t.what.index_offset]
    /\ UNCHANGED <<names, inodes, from, handle, result>>

(* The pipeline, which Append models in full: a block over the old index ... *)
WriteBlock(p) ==
    /\ At(p, "block", "index")
    /\ inodes' = [inodes EXCEPT ![handle[p]] =
                     WriteChunk(@, Chunk(at[p], NewLen[p], BlockData(NewId[p])))]
    /\ index' = [index EXCEPT ![p] = Append(@, Entry(at[p], NewLen[p], NewId[p]))]
    /\ at' = [at EXCEPT ![p] = @ + NewLen[p]]
    /\ UNCHANGED <<names, from, handle, result>>

(* ... the new index and its footer, and the length. *)
WriteIndex(p) ==
    /\ At(p, "index", "length")
    /\ LET size == Len(index[p])
           indexed == WriteChunk(inodes[handle[p]], Chunk(at[p], size, IndexData(index[p])))
       IN inodes' = [inodes EXCEPT ![handle[p]] =
                WriteChunk(indexed, Chunk(at[p] + size, FooterSize, FooterData(at[p], size)))]
    /\ UNCHANGED <<names, from, handle, index, at, result>>
CutLength(p) ==
    /\ At(p, "length", "rename")
    /\ inodes' = [inodes EXCEPT ![handle[p]] =
                     SetLen(@, at[p] + Len(index[p]) + FooterSize)]
    /\ UNCHANGED <<names, from, handle, index, at, result>>

(* Mutant: the .tmp file is left as it is. *)
RenameForgotten(p) ==
    /\ At(p, "rename", "done")
    /\ result' = [result EXCEPT ![p] = "ok"]
    /\ UNCHANGED <<names, inodes, from, handle, index, at>>

Rename(p) ==
    /\ At(p, "rename", "done")
    /\ names["tmp"] # None
    /\ names' = [arch |-> names["tmp"], tmp |-> None]
    /\ result' = [result EXCEPT ![p] = "ok"]
    /\ UNCHANGED <<inodes, from, handle, index, at>>

(* A name that is no longer there, an archive that cannot be loaded, or any  *)
(* call that fails: the .tmp file is removed, by its name.                   *)
Trouble(p) ==
    \/ Failures
    \/ pc[p] \in {"open", "rename"} /\ names["tmp"] = None
    \/ pc[p] = "load" /\ ~Loadable(Arch)

Fails(p) ==
    /\ pc[p] \in {"open", "load", "block", "index", "length", "rename"} /\ Trouble(p)
    /\ pc' = [pc EXCEPT ![p] = "done"] /\ result' = [result EXCEPT ![p] = "error"]
    /\ names' = [names EXCEPT !["tmp"] = None]
    /\ UNCHANGED <<inodes, from, handle, index, at>>

(* The copy fails: append returns, and what there is of the .tmp file stays. *)
CopyFails(p) ==
    /\ At(p, "copy", "done") /\ Failures
    /\ result' = [result EXCEPT ![p] = "error"]
    /\ UNCHANGED <<names, inodes, from, handle, index, at>>

(* A process that is killed leaves the .tmp file to the next append. *)
Killed(p) ==
    /\ Failures /\ pc[p] \notin {"start", "done"}
    /\ pc' = [pc EXCEPT ![p] = "done"] /\ result' = [result EXCEPT ![p] = "killed"]
    /\ UNCHANGED <<names, inodes, from, handle, index, at>>

-----------------------------------------------------------------------------
(* list, verify, decompress: one open file for the index and the blocks      *)

ReaderOpens(r) ==
    /\ At(r, "start", "load")
    /\ handle' = [handle EXCEPT ![r] = names["arch"]]
    /\ UNCHANGED <<names, inodes, from, index, at, result>>
ReaderLoads(r) ==
    /\ pc[r] = "load"
    /\ IF Loadable(inodes[handle[r]])
       THEN /\ pc' = [pc EXCEPT ![r] = "blocks"]
            /\ index' = [index EXCEPT ![r] = LoadedIndex(inodes[handle[r]])]
            /\ UNCHANGED result
       ELSE /\ pc' = [pc EXCEPT ![r] = "done"]
            /\ result' = [result EXCEPT ![r] = "error"] /\ UNCHANGED index
    /\ UNCHANGED <<names, inodes, from, handle, at>>
ReaderReads(r) ==
    /\ At(r, "blocks", "done")
    /\ result' = [result EXCEPT ![r] =
                     IF Intact(inodes[handle[r]], index[r]) THEN "ok" ELSE "error"]
    /\ UNCHANGED <<names, inodes, from, handle, index, at>>

AppendStep(p) ==
    \/ CopyBegin(p) \/ CopyData(p) \/ OpenTmp(p) \/ Load(p) \/ WriteBlock(p)
    \/ WriteIndex(p) \/ CutLength(p) \/ Rename(p) \/ Fails(p) \/ CopyFails(p)
ReaderStep(r) == ReaderOpens(r) \/ ReaderLoads(r) \/ ReaderReads(r)

AllEnded == (\A r \in Run : Ended(r)) /\ UNCHANGED vars
Next ==
    \/ \E p \in Appender : AppendStep(p) \/ Killed(p)
    \/ \E r \in Reader : ReaderStep(r)
    \/ AllEnded

Spec == Init /\ [][Next]_vars
-----------------------------------------------------------------------------
Held ==
    IF Loadable(Arch) THEN {LoadedIndex(Arch)[i].id : i \in DOMAIN LoadedIndex(Arch)}
    ELSE {}

(* An append that has reported success is in the archive for good, whatever  *)
(* the later ones do.                                                        *)
NoAppendLost == \A p \in Appender : result[p] = "ok" => NewId[p] \in Held

(* A reader that opened the archive before an append renames reads the old   *)
(* one to its end, one that opens it afterwards the new one: never a mixture.*)
ReadersUndisturbed == \A r \in Reader : result[r] # "error"

(* README: "Append never writes to the archive in place".  The inode that    *)
(* has the archive's name keeps its content for as long as it has it.        *)
NeverInPlace ==
    [][names'["arch"] = names["arch"] =>
           inodes'[names["arch"]] = inodes[names["arch"]]]_vars

=============================================================================
