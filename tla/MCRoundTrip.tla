----------------------------- MODULE MCRoundTrip -----------------------------
(* Small instances of RoundTrip for TLC. *)
EXTENDS RoundTrip

TwoNames == {1, 2}

OldFile == File(<<11, 12>>, "src", "src")
NewFile == File(<<21>>, "src", "src")
OldOne == File(<<31>>, "src", BeforeEpoch)
LinkUp == Link(0, <<2>>)       \* at the top level: to the sibling 2
LinkTop == Link(1, <<>>)       \* in a directory: to the top, a cycle
LinkOut == Link(1, <<1>>)      \* at the top level: out of the tree

(* Trees of two levels over two names with these nodes. *)
TreesOf(one, two, oneOne, oneTwo, twoOne) ==
    {t \in {[p \in Path |->
                CASE p = Top -> Dir [] p = <<1>> -> a [] p = <<2>> -> b
                  [] p = <<1, 1>> -> c [] p = <<1, 2>> -> d [] p = <<2, 1>> -> e
                  [] OTHER -> Absent] :
               a \in one, b \in two, c \in oneOne, d \in oneTwo, e \in twoOne} : IsTree(t)}

FirstTrees ==
    TreesOf({Absent, Dir, OldFile, LinkUp, LinkOut}, {Absent, Dir, OldFile, OldOne, Special},
            {Absent, OldFile, LinkTop}, {Absent, Dir}, {Absent, OldFile})
(* A file two directories down, which a filter may keep without them. *)
Deep == [p \in Path |-> IF p \in {Top, <<1>>, <<1, 1>>} THEN Dir
                        ELSE IF p = <<1, 1, 1>> THEN NewFile ELSE Absent]
AddedTrees ==
    {Deep} \cup TreesOf({Dir, NewFile}, {Absent}, {Absent, Dir, NewFile}, {Absent}, {Absent})

ASSUME NothingFails
=============================================================================
