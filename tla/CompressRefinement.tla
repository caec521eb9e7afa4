------------------------- MODULE CompressRefinement -------------------------
(* Compress implements OrderedLog: the index is the log, and the outcome of  *)
(* the command is the fate of the log.                                       *)
EXTENDS Compress

LogOfIndex == [i \in 1..Len(index) |-> index[i].id]
Status ==
    CASE outcome = "none" -> "open"
      [] outcome = "ok"   -> "committed"
      [] OTHER            -> "aborted"

Abstract == INSTANCE OrderedLog WITH
    produced <- block_id, log <- LogOfIndex, status <- Status

(* Every behaviour of compress is one of the ordered log: blocks reach the   *)
(* index only in production order, nothing is stored after success, and      *)
(* success is reported only when every produced block is in the index.       *)
ImplementsOrderedLog == Abstract!LogSpec
=============================================================================
