----------------------------- MODULE OrderedLog -----------------------------
(* What the pipeline promises, without threads, queues or files: blocks are  *)
(* produced, stored strictly in the order they were produced, and the whole  *)
(* is either committed, with every produced block stored, or given up.       *)
EXTENDS Integers, Sequences

VARIABLES
    produced,   \* number of blocks produced so far
    log,        \* ids of the stored blocks
    status      \* "open", "committed" or "aborted"

logVars == <<produced, log, status>>

(* The log may start with blocks of an earlier run. *)
LogInit ==
    /\ log = [i \in 1..Len(log) |-> i - 1] /\ produced = Len(log)
    /\ status = "open"

Produce ==
    /\ status = "open"
    /\ produced' = produced + 1
    /\ UNCHANGED <<log, status>>

(* The next block in order is stored.  After an abort the writer may still   *)
(* store blocks it already has: nobody will read them.                       *)
Store ==
    /\ status # "committed" /\ Len(log) < produced
    /\ log' = Append(log, Len(log))
    /\ UNCHANGED <<produced, status>>

Commit ==
    /\ status = "open" /\ Len(log) = produced
    /\ status' = "committed"
    /\ UNCHANGED <<produced, log>>

Abort ==
    /\ status = "open"
    /\ status' = "aborted"
    /\ UNCHANGED <<produced, log>>

LogNext == Produce \/ Store \/ Commit \/ Abort

LogSpec == LogInit /\ [][LogNext]_logVars
=============================================================================
