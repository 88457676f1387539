----------------------------- MODULE MCRalPipe -----------------------------
(***************************************************************************)
(* Instances of the pipe protocol: a read returns two cells, so that a     *)
(* message that is not the first is cut, and CONFIG takes a whole read.    *)
(***************************************************************************)
EXTENDS RalPipe
=============================================================================
