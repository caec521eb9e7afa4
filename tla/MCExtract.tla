------------------------------ MODULE MCExtract ------------------------------
(* Small instances of Extract for TLC. *)
EXTENDS Extract

CONSTANTS r1, r2

TwoRuns == {r1, r2}
TwoNames == {1, 2}

E(p, node) == [path |-> p, node |-> node]
Full == File(<<11, 12>>, "src", "src")
Small == File(<<21>>, "src", "src")
Big == File(<<41, 42, 43>>, "src", "src")
Void == File(<<>>, "src", "src")
Ancient == File(<<31>>, "src", BeforeEpoch)

(* A tree with a directory, files in it and a link; one with a link that     *)
(* leaves the output directory; one with a file beyond the limit; one with a *)
(* file from before 1970.                                                    *)
Tree1 == << E(<<1>>, Dir), E(<<2>>, Link(0, <<1>>)), E(<<1, 1>>, Full), E(<<1, 2>>, Void) >>
Tree2 == << E(<<1>>, Small), E(<<2>>, Dir), E(<<2, 1>>, Link(2, <<1>>)) >>
Tree3 == << E(<<1>>, Small), E(<<2>>, Big) >>
Tree4 == << E(<<1>>, Small), E(<<2>>, Ancient) >>
AllTrees == {Tree1, Tree2, Tree3, Tree4}
ASSUME UsableArchives

AllFaults == {"open", "mkdir", "create", "block", "write", "times", "crash"}
=============================================================================
