--------------------------- MODULE MCSharedArchive ---------------------------
(* Small instances of SharedArchive for TLC. *)
EXTENDS SharedArchive, TLC

CONSTANTS p1, p2, p3, r1

ThreeAppends == {p1, p2, p3}
TwoAppends == {p1, p2}
OneReader == {r1}
NoReader == {}
Ids == (p1 :> 1) @@ (p2 :> 2) @@ (p3 :> 3)
Lengths == (p1 :> 1) @@ (p2 :> 3) @@ (p3 :> 2)
TwoIds == (p1 :> 1) @@ (p2 :> 2)
TwoLengths == (p1 :> 1) @@ (p2 :> 3)
=============================================================================
