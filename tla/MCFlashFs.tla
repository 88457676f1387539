----------------------------- MODULE MCFlashFs -----------------------------
(***************************************************************************)
(* Instances of the flash file system: two names, one of them a log file,  *)
(* and a section of a few records, so that every few operations there is a *)
(* collection, an emergency collection or no space left.                   *)
(***************************************************************************)
EXTENDS FlashFs
=============================================================================
