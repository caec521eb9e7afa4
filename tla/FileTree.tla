------------------------------ MODULE FileTree ------------------------------
(* What lies below one directory: the tree that compress and append list and *)
(* the tree that extraction writes.  A name is a number, so that names have  *)
(* an order; a path is the sequence of names from the directory down.        *)
EXTENDS Integers, FiniteSets, SequencesExt

CONSTANTS
    Name,       \* names in a directory
    MaxDepth,   \* bound: components of a path
    Attribute   \* permissions and times of files

ASSUME NameAssumption == Name \subseteq Nat \ {0} /\ IsFiniteSet(Name)
ASSUME DepthAssumption == MaxDepth \in Nat
ASSUME AttributeAssumption == {"umask", "now", "own"} \subseteq Attribute

Path == UNION {[1..n -> Name] : n \in 0..MaxDepth}
Top == <<>>
Parent(p) == Front(p)

(* What can be at a path.  A file's data is the sequence of slices it is     *)
(* read in; the target of a link goes up some directories and then down.     *)
(* A file that the program makes has the permissions that the umask leaves   *)
(* and the time that it is "now"; those of the user's own files are "own".   *)
Absent == [type |-> "absent"]
Dir == [type |-> "dir"]
File(data, mode, mtime) ==
    [type |-> "file", data |-> data, mode |-> mode, mtime |-> mtime]
Link(up, down) == [type |-> "link", up |-> up, down |-> down]
Special == [type |-> "special"]

Storable == {Dir}   \* what an archive can keep
        \cup [type : {"file"}, data : Seq(Nat), mode : Attribute, mtime : Attribute]
        \cup [type : {"link"}, up : Nat, down : Seq(Nat)]
Node == Storable \cup {Absent, Special}
IsTree(t) ==
    t \in [Path -> Node] /\ \A p \in Path \ {Top} : t[p] # Absent => t[Parent(p)] = Dir

(* Entries of an index. *)
Entry(p, node) == [path |-> p, node |-> node]
Paths(entries) == {entries[i].path : i \in DOMAIN entries}

Under(p, q) == IsPrefix(p, q)
Children(t, d) == {p \in Path \ {Top} : Parent(p) = d /\ t[p] # Absent}
Without(t, p) == [q \in Path |-> IF Under(p, q) THEN Absent ELSE t[q]]
Put(t, p, node) == [t EXCEPT ![p] = node]

(* The path that a link in directory d leads to, before any link on the way  *)
(* is followed; Outside when it climbs above the top.                        *)
Outside == <<0>>
LinkGoal(d, link) ==
    IF link.up > Len(d) THEN Outside
    ELSE SubSeq(d, 1, Len(d) - link.up) \o link.down

(* The path itself once the links at its end have been followed, Outside     *)
(* when the chain is longer than the kernel allows.                          *)
MaxLinks == 40
FinalPath(t, p) ==
    LET follow[n \in 0..MaxLinks] ==
            [q \in Path |->
                IF t[q].type # "link" THEN q
                ELSE LET goal == LinkGoal(Parent(q), t[q])
                     IN IF n = 0 \/ goal \notin Path THEN Outside ELSE follow[n-1][goal]]
    IN IF p \in Path THEN follow[MaxLinks][p] ELSE Outside

(* mkdir -p: makes the directories that are missing and follows links to     *)
(* directories.  "at" is the real path of the last one, Outside if it fails. *)
MakeDirs(t, p) ==
    LET step(s, q, r) ==
            IF r = Outside THEN [tree |-> s.tree, at |-> Outside]
            ELSE IF s.tree[r] = Dir THEN [tree |-> s.tree, at |-> r]
            ELSE IF s.tree[r] = Absent /\ r = q THEN [tree |-> Put(s.tree, r, Dir), at |-> r]
            ELSE [tree |-> s.tree, at |-> Outside]
        made[i \in 0..Len(p)] ==
            IF i = 0 THEN [tree |-> t, at |-> Top]
            ELSE LET s == made[i-1]
                     q == Append(s.at, p[i])
                 IN step(s, q, IF s.at = Outside THEN Outside ELSE FinalPath(s.tree, q))
    IN made[Len(p)]
=============================================================================
