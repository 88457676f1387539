------------------------------ MODULE MCRmtSh ------------------------------
(***************************************************************************)
(* One session with buffers so small that chunks, compaction and overflow  *)
(* of both happen with a few bytes, or two that share the connection and   *)
(* are started again.                                                      *)
(***************************************************************************)
EXTENDS RmtSh, TLC

Symmetry == Permutations(Sessions)
=============================================================================
