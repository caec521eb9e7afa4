------------------------------ MODULE MCAppend ------------------------------
(* Small instances of Append for TLC. *)
EXTENDS Append

CONSTANTS w1, w2

TwoWorkers == {w1, w2}

AllFaults == {"read", "process", "write", "finish", "unlink", "copy", "retrieve",
              "rename", "crash"}
OnlyCopy == {"copy"}
=============================================================================
