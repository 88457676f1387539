------------------------------- MODULE MCRxQ -------------------------------
(***************************************************************************)
(* An instance of the receive store: three jobs and four bytes, so that    *)
(* jobs and bytes run out one before the other, both arrays are compacted  *)
(* and a frame dropped as a mirror has frames before and behind it.        *)
(***************************************************************************)
EXTENDS RxQ
=============================================================================
