------------------------------ MODULE RoundTrip ------------------------------
(* From a tree to a tree: what compress and the appends after it have put    *)
(* into the index is extracted, with nothing failing, into an empty          *)
(* directory.  Composes Traversal and Extract.                               *)
EXTENDS Traversal, Extract

ASSUME ProcAssumption == Proc # {}

VARIABLES
    stage   \* "make" the archive, then "extract" it

(* The only run of decompress that does anything. *)
Run == CHOOSE r \in Proc : TRUE
allVars == <<vars, stage, extractVars>>

RInit ==
    /\ Init /\ stage = "make"
    /\ foreign = Empty /\ fs = Empty
    /\ pc = [r \in Proc |-> "idle"] /\ result = [r \in Proc |-> "none"]
    /\ todo = [r \in Proc |-> <<>>] /\ pos = [r \in Proc |-> 1]
    /\ open = [r \in Proc |-> Top] /\ got = [r \in Proc |-> 0]
    /\ buffer = [r \in Proc |-> <<>>]

Make == stage = "make" /\ Step /\ UNCHANGED <<stage, extractVars>>
MakeMore == stage = "make" /\ (AppendMore \/ Vanish) /\ UNCHANGED <<stage, extractVars>>

(* The archive is opened by decompress, with a filter or without one. *)
Handover ==
    /\ stage = "make" /\ phase = "ok" /\ stage' = "extract"
    /\ \E chosen \in Selections(files) : todo' = [todo EXCEPT ![Run] = chosen]
    /\ UNCHANGED <<vars, fs, foreign, pc, pos, open, got, buffer, result>>

ExtractStep == stage = "extract" /\ RunStep(Run) /\ UNCHANGED <<vars, stage>>

Over ==
    /\ phase = "failed" \/ pc[Run] = "done"
    /\ UNCHANGED allVars

RNext == Make \/ MakeMore \/ Handover \/ ExtractStep \/ Over
RSpec == RInit /\ [][RNext]_allVars
-----------------------------------------------------------------------------
Whole == todo[Run] = files
Chosen == {todo[Run][i] : i \in DOMAIN todo[Run]}

Outward(e) == e.node.type = "link" /\ LinkGoal(Parent(e.path), e.node) = Outside
Ancient(e) == e.node.type = "file" /\ e.node.mtime = BeforeEpoch

(* What was put in comes out of an archive without clashes, after any number *)
(* of appends: each path as the first command that had it has recorded it,   *)
(* with the data, permissions and times of files and the targets of links,   *)
(* and nothing else.  With one command that is the tree it was given, less   *)
(* sockets and the like (tests/compressors.rs:53, tests/multithread.rs:123). *)
ComesBack ==
    result[Run] = "ok" /\ Whole /\ ~Clash(Chosen) =>
        /\ \A e \in Chosen : fs[e.path] = e.node
        /\ Files(fs) = Paths(files)
        /\ recursive /\ appends = 0 /\ gone = {} =>
             \A p \in Path \ {Top} :
                fs[p] = IF input[p] = Special THEN Absent ELSE input[p]

(* Nothing fails but what the entries themselves make fail, and no file is   *)
(* above the limit on the size of a file.                                    *)
NothingFails ==
    /\ Faults = {}
    /\ \A t \in Trees \cup MoreTrees : \A p \in Path :
         t[p].type = "file" => Len(t[p].data) <= MaxFileSize

(* With nothing failing and the limits kept, extraction fails for these      *)
(* reasons only, whatever the filter leaves out (the directories it has left *)
(* out are made anyway): a clash, a link that leads out of the tree that was *)
(* archived, or a file from before 1970, which panics; and for the last two  *)
(* it always does.  No other tree that compress accepts is refused.          *)
FailsOnlyFor ==
    /\ result[Run] = "error" => Clash(Chosen) \/ \E e \in Chosen : Outward(e)
    /\ result[Run] = "panic" => \E e \in Chosen : Ancient(e)
    /\ result[Run] = "ok" /\ ~Clash(Chosen) =>
         \A e \in Chosen : ~Outward(e) /\ ~Ancient(e)

(* Where a path leads in the end, with every link on the way followed.       *)
RealPath(t, p) ==
    LET above == MakeDirs(t, Parent(p)).at
    IN IF above = Outside THEN Outside ELSE FinalPath(t, Append(above, Last(p)))

(* tests/compressors.rs:53: "asserts every file comes back byte for byte".   *)
(* The same of every archive that compress and append make and decompress    *)
(* extracts with success: who reads the file at its path, through links or   *)
(* not, as fs::read does in the test, gets its data.                         *)
EveryFileComesBack ==
    result[Run] = "ok" =>
        \A e \in Chosen : e.node.type = "file" =>
            LET q == RealPath(fs, e.path)
            IN q # Outside /\ fs[q].type = "file" /\ fs[q].data = e.node.data

=============================================================================
