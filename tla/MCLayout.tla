------------------------------ MODULE MCLayout ------------------------------
(* Small instances of Layout, with the figures of Listing, for TLC. *)
EXTENDS Listing

File(p, n) == [path |-> p, ftype |-> "File", size |-> n, actual |-> n]
Changed(p, n, m) == [path |-> p, ftype |-> "File", size |-> n, actual |-> m]
Dir(p) == [path |-> p, ftype |-> "Dir", size |-> 0, actual |-> 0]
Link(p) == [path |-> p, ftype |-> "Symlink", size |-> 0, actual |-> 0]

(* Files below, at and above one and two blocks, empty ones at a boundary    *)
(* and inside a block, entries without bytes, a file that grows and one that *)
(* shrinks while it is read, and listings that share paths.                  *)
Mixed ==
    {<<File("a", n), Dir("d"), File("b", m), File("h", 1)>> : n \in 0..3, m \in {0, 1, 4}}
    \cup {<<File("a", n), File("c", 0), File("e", 5)>> : n \in {1, 2}}
    \cup {<<Changed("f", 1, 3), Link("l"), File("a", 2)>>,
          <<File("g", 3), Changed("f", 3, 1)>>,
          <<Dir("b")>>}

(* Stored sizes of blocks that shrank, that grew by a tag, and that did both. *)
Sizes == {<<1>>, <<1, 4>>}

OneFile == {<<File("hello", n)>> : n \in 1..5}
=============================================================================
