------------------------------- MODULE Extract -------------------------------
(* `cryo decompress`: the output directory is checked and made, and then the *)
(* entries of the index are written in their order.  A run that fails or is  *)
(* killed leaves what it has written, and the user may run it again.         *)
EXTENDS FileTree, Lists

CONSTANTS
    Archives,     \* lists of entries that the archives' indexes have
    Proc,         \* runs of decompress into one directory
    MaxFileSize,  \* limit on the size of a file
    Faults        \* what may fail, a subset of AnyFault

AnyFault == {"open", "mkdir", "create", "block", "write", "times", "crash"}

ASSUME ArchivesAssumption ==
    \A a \in Archives : a \in Seq([path : Path \ {Top}, node : Storable])
ASSUME SizeAssumption == MaxFileSize \in Nat
ASSUME FaultsAssumption == Faults \subseteq AnyFault

VARIABLES
    fs,       \* what is in the output directory; Top is the directory itself
    foreign,  \* what was in it before the first run
    pc,       \* per run: where it is
    todo,     \* per run: the entries that the filter has left
    pos,      \* per run: the entry it is at
    open,     \* per run: the file it writes
    got,      \* per run: slices of that file that it has read
    buffer,   \* per run: those of them that are still in the BufWriter
    result    \* per run: "none", or how it ended

extractVars == <<fs, foreign, pc, todo, pos, open, got, buffer, result>>

PC == {"idle", "open", "root", "path", "entry", "blocks", "permissions", "flush",
       "times", "done"}
Ended(r) == pc[r] = "done"
Started(r) == pc[r] \notin {"idle", "done"}
Writing(r) == pc[r] \in {"blocks", "permissions", "flush", "times"}

Cur(r) == todo[r][pos[r]]

(* A filter of glob patterns keeps any of the entries, and none is given at  *)
(* all when every entry is wanted.                                           *)
Selections(files) ==
    {Sift(files, {files[i] : i \in {j \in DOMAIN files : files[j].path \in kept}}) :
        kept \in SUBSET Paths(files)}

(* The time of a file that was last changed before 1970. *)
BeforeEpoch == "before 1970"

Empty == [p \in Path |-> IF p = Top THEN Dir ELSE Absent]
Missing == [p \in Path |-> Absent]
NotADirectory == [Missing EXCEPT ![Top] = File(<<>>, "own", "own")]
WithFile == [Empty EXCEPT ![<<CHOOSE n \in Name : TRUE>>] = File(<<>>, "own", "own")]

ExtractInit ==
    /\ foreign \in {Missing, Empty, NotADirectory, WithFile} /\ fs = foreign
    /\ todo \in [Proc -> UNION {Selections(a) : a \in Archives}]
    /\ pc = [r \in Proc |-> "idle"] /\ result = [r \in Proc |-> "none"]
    /\ pos = [r \in Proc |-> 1] /\ open = [r \in Proc |-> Top]
    /\ got = [r \in Proc |-> 0] /\ buffer = [r \in Proc |-> <<>>]

-----------------------------------------------------------------------------
At(r, from) == pc[r] = from
Goto(r, to) == pc' = [pc EXCEPT ![r] = to]
End(r, how) == Goto(r, "done") /\ result' = [result EXCEPT ![r] = how]
May(fault) == fault \in Faults

(* The BufWriter of a run that fails is dropped, which tries to write what   *)
(* it holds; a process that is killed loses it.                              *)
Slices(t, q, more) == Put(t, q, [t[q] EXCEPT !.data = @ \o more, !.mtime = "now"])
Dropped(r) ==
    IF Writing(r) /\ buffer[r] # <<>> THEN {fs, Slices(fs, open[r], buffer[r])}
    ELSE {fs}
Fail(r) ==
    /\ End(r, "error") /\ fs' \in Dropped(r)
    /\ UNCHANGED <<foreign, todo, pos, open, got, buffer>>

Files(t) == {p \in Path \ {Top} : t[p] # Absent}

(* Mutant: the output directory may have something in it. *)
StartAnywhere(r) ==
    /\ At(r, "idle")
    /\ \A s \in Proc : ~Started(s)
    /\ Goto(r, "open")
    /\ UNCHANGED <<fs, foreign, todo, pos, open, got, buffer, result>>

(* check_decompression_for_arg_err: a directory that is not empty is refused *)
(* before anything else happens.  A file passes, and fails in MakeRoot.      *)
Start(r) ==
    /\ At(r, "idle")
    /\ \A s \in Proc : ~Started(s)
    /\ \/ Files(fs) = {} /\ Goto(r, "open") /\ UNCHANGED result
       \/ Files(fs) # {} /\ End(r, "refused")
    /\ UNCHANGED <<fs, foreign, todo, pos, open, got, buffer>>

(* The archive is opened and loaded. *)
Open(r) ==
    /\ At(r, "open") /\ Goto(r, "root")
    /\ UNCHANGED <<fs, foreign, todo, pos, open, got, buffer, result>>
OpenFails(r) == At(r, "open") /\ May("open") /\ Fail(r)

MakeRoot(r) ==
    /\ At(r, "root") /\ fs[Top] \in {Absent, Dir}
    /\ fs' = Put(fs, Top, Dir) /\ Goto(r, "path")
    /\ UNCHANGED <<foreign, todo, pos, open, got, buffer, result>>
MakeRootFails(r) ==
    At(r, "root") /\ (May("mkdir") \/ fs[Top].type = "file") /\ Fail(r)

Succeed(r) ==
    /\ At(r, "path") /\ pos[r] > Len(todo[r])
    /\ End(r, "ok")
    /\ UNCHANGED <<fs, foreign, todo, pos, open, got, buffer>>

(* Mutant: the directories above the entry are not made. *)
SafePathBare(r) ==
    /\ At(r, "path") /\ pos[r] <= Len(todo[r])
    /\ Goto(r, "entry")
    /\ UNCHANGED <<fs, foreign, todo, pos, open, got, buffer, result>>

(* safe_output_path: the directories above the entry are made.  That the     *)
(* real path of the last one is below the output directory needs no step:    *)
(* no link that leads out is ever made (MakeLinkFails).                      *)
SafePath(r) ==
    /\ At(r, "path") /\ pos[r] <= Len(todo[r])
    /\ LET made == MakeDirs(fs, Parent(Cur(r).path))
       IN /\ fs' = made.tree
          /\ \/ made.at # Outside /\ Goto(r, "entry") /\ UNCHANGED result
             \/ made.at = Outside /\ End(r, "error")
    /\ UNCHANGED <<foreign, todo, pos, open, got, buffer>>
SafePathFails(r) == At(r, "path") /\ May("mkdir") /\ pos[r] <= Len(todo[r]) /\ Fail(r)

-----------------------------------------------------------------------------
(* extract_file                                                              *)

Place(r) == MakeDirs(fs, Parent(Cur(r).path)).at \o <<Last(Cur(r).path)>>
NodeOf(r) == Cur(r).node

TooLarge(r) ==
    /\ At(r, "entry") /\ NodeOf(r).type = "file" /\ Len(NodeOf(r).data) > MaxFileSize
    /\ Fail(r)

NextEntry(r) == pos' = [pos EXCEPT ![r] = @ + 1] /\ Goto(r, "path")

MakeDir(r) ==
    /\ At(r, "entry") /\ NodeOf(r) = Dir
    /\ LET made == MakeDirs(fs, Cur(r).path)
       IN /\ fs' = made.tree
          /\ \/ made.at # Outside /\ NextEntry(r) /\ UNCHANGED result
             \/ made.at = Outside /\ End(r, "error") /\ UNCHANGED pos
    /\ UNCHANGED <<foreign, todo, open, got, buffer>>

(* The target, taken from the real directory of the link and normalized,     *)
(* lies below the output directory; symlink(2) makes it if the path is free. *)
MakeLink(r) ==
    /\ At(r, "entry") /\ NodeOf(r).type = "link"
    /\ LinkGoal(Parent(Place(r)), NodeOf(r)) # Outside /\ fs[Place(r)] = Absent
    /\ fs' = Put(fs, Place(r), NodeOf(r))
    /\ NextEntry(r)
    /\ UNCHANGED <<foreign, todo, open, got, buffer, result>>
MakeLinkFails(r) ==
    /\ At(r, "entry") /\ NodeOf(r).type = "link"
    /\ \/ LinkGoal(Parent(Place(r)), NodeOf(r)) = Outside \/ fs[Place(r)] # Absent
       \/ May("create")
    /\ Fail(r)

(* File::create makes the file or empties the one that is there, also at the *)
(* end of a link.                                                            *)
Target(r) == FinalPath(fs, Place(r))
CanCreate(r) ==
    /\ Target(r) # Outside /\ fs[Target(r)].type \in {"absent", "file"}
    /\ fs[Parent(Target(r))] = Dir
CreateFile(r) ==
    /\ At(r, "entry") /\ NodeOf(r).type = "file" /\ Len(NodeOf(r).data) <= MaxFileSize
    /\ CanCreate(r) /\ NodeOf(r).mtime # BeforeEpoch
    /\ fs' = Put(fs, Target(r), File(<<>>, "umask", "now"))
    /\ open' = [open EXCEPT ![r] = Target(r)]
    /\ got' = [got EXCEPT ![r] = 0] /\ buffer' = [buffer EXCEPT ![r] = <<>>]
    /\ Goto(r, "blocks")
    /\ UNCHANGED <<foreign, todo, pos, result>>
(* The time of the entry is UNIX_EPOCH + Duration::from_secs(timestamp); the *)
(* timestamp is a u64, so that of a file from before 1970 is far too large   *)
(* to add, and the sum panics.  The file has just been made.                 *)
TimeOverflows(r) ==
    /\ At(r, "entry") /\ NodeOf(r).type = "file" /\ Len(NodeOf(r).data) <= MaxFileSize
    /\ CanCreate(r) /\ NodeOf(r).mtime = BeforeEpoch
    /\ fs' = Put(fs, Target(r), File(<<>>, "umask", "now"))
    /\ End(r, "panic")
    /\ UNCHANGED <<foreign, todo, pos, open, got, buffer>>
CreateFileFails(r) ==
    /\ At(r, "entry") /\ NodeOf(r).type = "file"
    /\ May("create") \/ ~CanCreate(r)
    /\ Fail(r)

(* The next block is read, decoded and checked; its part of the file goes    *)
(* into the BufWriter.                                                       *)
ReadBlock(r) ==
    /\ At(r, "blocks") /\ got[r] < Len(NodeOf(r).data)
    /\ got' = [got EXCEPT ![r] = @ + 1]
    /\ buffer' = [buffer EXCEPT ![r] = Append(@, NodeOf(r).data[got[r] + 1])]
    /\ UNCHANGED <<fs, foreign, pc, todo, pos, open, result>>

(* Mutant: a block is written before its checksum is compared. *)
ReadBlockUnchecked(r) ==
    /\ At(r, "blocks") /\ got[r] < Len(NodeOf(r).data) /\ May("block")
    /\ End(r, "error") /\ fs' = Slices(fs, open[r], buffer[r] \o <<0>>)
    /\ UNCHANGED <<foreign, todo, pos, open, got, buffer>>

ReadBlockFails(r) ==
    /\ At(r, "blocks") /\ got[r] < Len(NodeOf(r).data) /\ May("block")
    /\ Fail(r)

BlocksDone(r) ==
    /\ At(r, "blocks") /\ got[r] = Len(NodeOf(r).data)
    /\ Goto(r, "permissions")
    /\ UNCHANGED <<fs, foreign, todo, pos, open, got, buffer, result>>

(* The BufWriter writes what it holds: when it is full, or at into_inner.    *)
Spill(r) ==
    /\ pc[r] \in {"blocks", "flush"} /\ buffer[r] # <<>>
    /\ fs' = Slices(fs, open[r], buffer[r])
    /\ buffer' = [buffer EXCEPT ![r] = <<>>]
    /\ UNCHANGED <<foreign, pc, todo, pos, open, got, result>>
SpillFails(r) ==
    /\ pc[r] \in {"blocks", "flush"} /\ buffer[r] # <<>> /\ May("write")
    /\ Fail(r)

SetPermissions(r) ==
    /\ At(r, "permissions")
    /\ fs' = Put(fs, open[r], [fs[open[r]] EXCEPT !.mode = NodeOf(r).mode])
    /\ Goto(r, "flush")
    /\ UNCHANGED <<foreign, todo, pos, open, got, buffer, result>>

(* Mutant: the time is set while data is still in the BufWriter. *)
FlushedEarly(r) ==
    /\ At(r, "flush") /\ Goto(r, "times")
    /\ fs' = Put(fs, open[r], [fs[open[r]] EXCEPT !.mtime = NodeOf(r).mtime])
    /\ UNCHANGED <<foreign, todo, pos, open, got, buffer, result>>

(* into_inner has written everything. *)
Flushed(r) ==
    /\ At(r, "flush") /\ buffer[r] = <<>> /\ Goto(r, "times")
    /\ UNCHANGED <<fs, foreign, todo, pos, open, got, buffer, result>>

SetModified(r) ==
    /\ At(r, "times")
    /\ fs' = Put(fs, open[r], [fs[open[r]] EXCEPT !.mtime = NodeOf(r).mtime])
    /\ NextEntry(r)
    /\ UNCHANGED <<foreign, todo, open, got, buffer, result>>
SetFails(r) == pc[r] \in {"permissions", "times"} /\ May("times") /\ Fail(r)

Crash(r) ==
    /\ Started(r) /\ May("crash") /\ End(r, "killed")
    /\ UNCHANGED <<fs, foreign, todo, pos, open, got, buffer>>

RunStep(r) ==
    \/ Start(r) \/ Open(r) \/ OpenFails(r) \/ MakeRoot(r) \/ MakeRootFails(r)
    \/ Succeed(r) \/ SafePath(r) \/ SafePathFails(r) \/ TooLarge(r)
    \/ MakeDir(r) \/ MakeLink(r) \/ MakeLinkFails(r)
    \/ CreateFile(r) \/ TimeOverflows(r) \/ CreateFileFails(r)
    \/ ReadBlock(r) \/ ReadBlockFails(r) \/ BlocksDone(r) \/ Spill(r) \/ SpillFails(r) \/ SetPermissions(r)
    \/ Flushed(r) \/ SetModified(r) \/ SetFails(r)

AllEnded == (\A r \in Proc : Ended(r)) /\ UNCHANGED extractVars

ExtractNext == (\E r \in Proc : RunStep(r) \/ Crash(r)) \/ AllEnded

ExtractSpec == ExtractInit /\ [][ExtractNext]_extractVars

-----------------------------------------------------------------------------
(* An entry lies below one that is no directory: an append whose tree has a  *)
(* directory where an earlier one had something else puts it there.          *)
Clash(entries) ==
    \E e, f \in entries : Under(f.path, Parent(e.path)) /\ f.node # Dir

(* Archives of trees that do not clash: append keeps the paths of an index   *)
(* distinct whatever the trees are.                                          *)
Consistent(a) ==
    /\ \A i, j \in DOMAIN a : i # j => a[i].path # a[j].path
    /\ ~Clash({a[i] : i \in DOMAIN a})
UsableArchives == \A a \in Archives : Consistent(a)

(* Everything a run has come past is there as the index says: the data in    *)
(* full, the permissions, and the time, which no late write of the buffer    *)
(* has moved (reader.rs extract_file sets it after into_inner).              *)
EarlierEntriesStand ==
    \A r \in Proc : \A i \in 1..(pos[r] - 1) :
        fs[todo[r][i].path] = todo[r][i].node

(* A run that reports success leaves exactly the selected entries and the    *)
(* directories above them, though the index lists a file and not its         *)
(* directory when the filter has kept only the file; nothing of a run that   *)
(* failed before, and nothing of the user's, is mixed in.                    *)
SuccessIsExact ==
    [][\A r \in Proc : result[r] # "ok" /\ result'[r] = "ok" =>
         Files(fs) = {q \in Path \ {Top} : \E p \in Paths(todo[r]) : Under(q, p)}]_extractVars

(* A file that a failed run leaves half written is a prefix of the file: the *)
(* blocks are written in their order, and a block that does not check out is *)
(* not written.                                                              *)
PartialIsPrefix ==
    \A r \in Proc : Len(todo[r]) >= pos[r] /\ open[r] = Cur(r).path
        /\ (Writing(r) \/ result[r] \in {"error", "killed"}) =>
            fs[open[r]] = Absent \/ NodeOf(r).type # "file"
                \/ IsPrefix(fs[open[r]].data, NodeOf(r).data)

=============================================================================
