----------------------------- MODULE MCCompress -----------------------------
(* Small instances of Compress for TLC. *)
EXTENDS CompressRefinement

CONSTANTS w1, w2

TwoWorkers == {w1, w2}

AllFaults == {"read", "process", "write", "finish", "unlink", "crash"}
=============================================================================
