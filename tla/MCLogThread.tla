----------------------------- MODULE MCLogThread -----------------------------
(***************************************************************************)
(* A buffer of four bytes, two old files, lines that fill half of the      *)
(* buffer or less, and lines that have to be cut.                          *)
(***************************************************************************)
EXTENDS LogThread
=============================================================================
