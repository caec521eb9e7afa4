------------------------------ MODULE Traversal ------------------------------
(* From a directory to the entries of the index: compress lists the whole    *)
(* tree before it reads anything, and then looks at each listed path again   *)
(* when its turn comes.  An append lists another tree and skips the paths    *)
(* that the index already has.  Meanwhile files may go away.                 *)
EXTENDS FileTree, Lists

CONSTANTS
    Trees,       \* directories that may be given to compress
    MoreTrees,   \* directories that may be given to append
    MaxAppends,  \* bound: appends to one archive
    MaxVanish,   \* bound: files or directories that go away meanwhile
    Unreadable   \* can reading a directory or a file fail?

ASSUME TreesAssumption == \A t \in Trees \cup MoreTrees : IsTree(t)
ASSUME AppendsAssumption == MaxAppends \in Nat
ASSUME VanishAssumption == MaxVanish \in Nat
ASSUME UnreadableAssumption == Unreadable \in BOOLEAN

VARIABLES
    input,      \* the tree, as it is on disk
    recursive,  \* was a directory given, and not a single file?
    phase,      \* "scan", "record", "ok" or "failed"
    stack,      \* directories that are still to be listed, the next one last
    out,        \* paths that were listed
    recorded,   \* how many of them have been recorded
    files,      \* index.files: the entries
    appends,    \* appends so far
    gone        \* paths that went away

vars == <<input, recursive, phase, stack, out, recorded, files, appends, gone>>

(* By name, as names.sort_by_key does; the children of one directory differ  *)
(* in their last component only.                                             *)
Sorted(ps) ==
    CHOOSE s \in [1..Cardinality(ps) -> ps] :
        \A i, j \in DOMAIN s : i < j => Last(s[i]) < Last(s[j])

(* The path names a file, or a link that does not lead to a directory: it is *)
(* the only entry, under its name.  compress refuses a link that leads       *)
(* nowhere (exists), append takes it.                                        *)
LeadsTo(t, p) == LET q == FinalPath(t, p) IN IF q = Outside THEN "outside" ELSE t[q].type
SingleFiles(t, ends) ==
    {p \in Path : /\ Len(p) = 1 /\ t[p].type \in {"file", "link"}
                  /\ LeadsTo(t, p) \in {"file", "special", "outside"} \cup ends}

(* A command begins: a directory goes on the stack, a single file is listed  *)
(* at once.                                                                  *)
Begin(trees) ==
    /\ input' \in trees
    /\ \/ recursive' = TRUE /\ stack' = <<Top>> /\ out' = <<>>
       \/ /\ recursive' = FALSE /\ stack' = <<>>
          /\ \E p \in SingleFiles(input', {"absent"}) : out' = <<p>>
    /\ phase' = "scan" /\ recorded' = 0 /\ gone' = {}

Init ==
    /\ input \in Trees
    /\ \/ recursive = TRUE /\ stack = <<Top>> /\ out = <<>>
       \/ /\ recursive = FALSE /\ stack = <<>>
          /\ \E p \in SingleFiles(input, {}) : out = <<p>>
    /\ phase = "scan" /\ recorded = 0 /\ files = <<>> /\ appends = 0 /\ gone = {}

-----------------------------------------------------------------------------
(* retrieve_all_files                                                        *)

Listed(d) == Sorted({p \in Children(input, d) : input[p].type # "special"})

(* Mutant: a directory is put on the stack and not in the list.              *)
ScanDirForgets ==
    /\ phase = "scan" /\ stack # <<>> /\ input[Last(stack)] = Dir
    /\ LET found == Listed(Last(stack))
           dirs == Sift(found, {p \in Path : input[p] = Dir})
       IN /\ out' = out \o Sift(found, {p \in Path : input[p] # Dir})
          /\ stack' = Front(stack) \o dirs
    /\ UNCHANGED <<input, recursive, phase, recorded, files, appends, gone>>

(* Mutant: the children of a directory go in front of the list. *)
ScanDirInFront ==
    /\ phase = "scan" /\ stack # <<>> /\ input[Last(stack)] = Dir
    /\ LET found == Listed(Last(stack))
           dirs == Sift(found, {p \in Path : input[p] = Dir})
       IN /\ out' = found \o out
          /\ stack' = Front(stack) \o dirs
    /\ UNCHANGED <<input, recursive, phase, recorded, files, appends, gone>>

ScanDir ==
    /\ phase = "scan" /\ stack # <<>> /\ input[Last(stack)] = Dir
    /\ LET found == Listed(Last(stack))
           dirs == Sift(found, {p \in Path : input[p] = Dir})
       IN /\ out' = out \o found
          /\ stack' = Front(stack) \o dirs
    /\ UNCHANGED <<input, recursive, phase, recorded, files, appends, gone>>

(* read_dir fails, or the directory went away after its parent was listed.   *)
ScanFails ==
    /\ phase = "scan" /\ stack # <<>>
    /\ Unreadable \/ input[Last(stack)] # Dir
    /\ phase' = "failed"
    /\ UNCHANGED <<input, recursive, stack, out, recorded, files, appends, gone>>

(* Mutant: an append records every path it lists. *)
ScanDoneKeepsAll ==
    /\ phase = "scan" /\ stack = <<>> /\ phase' = "record"
    /\ UNCHANGED <<input, recursive, stack, out, recorded, files, appends, gone>>

(* append drops the paths that the index has. *)
ScanDone ==
    /\ phase = "scan" /\ stack = <<>>
    /\ out' = Sift(out, Path \ Paths(files))
    /\ phase' = "record"
    /\ UNCHANGED <<input, recursive, stack, recorded, files, appends, gone>>

-----------------------------------------------------------------------------
(* read_file_to_bytes                                                        *)

(* Mutant: a path that is no longer there is passed over. *)
RecordSkips ==
    /\ phase = "record" /\ recorded < Len(out)
    /\ recorded' = recorded + 1
    /\ LET p == out[recorded + 1]
       IN files' = IF input[p] # Absent THEN Append(files, Entry(p, input[p])) ELSE files
    /\ UNCHANGED <<input, recursive, phase, stack, out, appends, gone>>

(* Each path is looked at again: what it is now is what the entry says. *)
Record ==
    /\ phase = "record" /\ recorded < Len(out)
    /\ LET p == out[recorded + 1]
       IN /\ input[p] # Absent
          /\ files' = Append(files, Entry(p, input[p]))
    /\ recorded' = recorded + 1
    /\ UNCHANGED <<input, recursive, phase, stack, out, appends, gone>>

RecordFails ==
    /\ phase = "record" /\ recorded < Len(out)
    /\ Unreadable \/ input[out[recorded + 1]] = Absent
    /\ phase' = "failed"
    /\ UNCHANGED <<input, recursive, stack, out, recorded, files, appends, gone>>

RecordDone ==
    /\ phase = "record" /\ recorded = Len(out)
    /\ phase' = "ok"
    /\ UNCHANGED <<input, recursive, stack, out, recorded, files, appends, gone>>

(* The archive is there; something else is appended to it. *)
AppendMore ==
    /\ phase = "ok" /\ appends < MaxAppends
    /\ Begin(MoreTrees)
    /\ appends' = appends + 1
    /\ UNCHANGED files

(* Another program removes a file, or a directory with what is in it. *)
Vanish ==
    /\ phase \in {"scan", "record"} /\ Cardinality(gone) < MaxVanish
    /\ \E p \in Path \ {Top} :
         input[p] # Absent /\ input' = Without(input, p) /\ gone' = gone \cup {p}
    /\ UNCHANGED <<recursive, phase, stack, out, recorded, files, appends>>

Stopped ==
    /\ phase \in {"ok", "failed"}
    /\ UNCHANGED vars

Step == \/ ScanDir \/ ScanFails \/ ScanDone \/ Record \/ RecordFails \/ RecordDone
Next == Step \/ AppendMore \/ Vanish \/ Stopped

Spec == Init /\ [][Next]_vars
-----------------------------------------------------------------------------
Wanted == {p \in Path \ {Top} : input[p].type \in {"dir", "file", "link"}}

(* retrieve_all_files of a tree that nobody touches lists everything that is *)
(* in it exactly once, whatever the shape: what is below a link, also one to *)
(* a directory above, is not visited (a cycle would never end).              *)
ListsEachOnce ==
    phase = "record" /\ gone = {} /\ appends = 0 =>
        /\ \A i, j \in DOMAIN out : i # j => out[i] # out[j]
        /\ recursive => {out[i] : i \in DOMAIN out} = Wanted

(* The index never has two entries for one path, over any number of appends  *)
(* of trees that overlap with it (the "seen" set of append_file).            *)
EntriesDistinct ==
    \A i, j \in DOMAIN files : i # j => files[i].path # files[j].path

(* An entry comes after the entry of its directory: extraction in the order  *)
(* of the index finds the directory.                                         *)
ParentsFirst ==
    \A i \in DOMAIN files :
        Len(files[i].path) > 1 =>
            \E j \in 1..(i-1) : files[j].path = Parent(files[i].path)

(* compress and append never succeed without something they listed: a file   *)
(* that goes away between the listing and its reading is an error.           *)
NothingListedIsLost ==
    phase = "ok" => {out[i] : i \in DOMAIN out} \subseteq Paths(files)

=============================================================================
