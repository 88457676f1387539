----------------------------- MODULE MCEngines -----------------------------
(***************************************************************************)
(* A station with both engines, and stations that run only one of them.    *)
(* The limits of the code are scaled down: each is still passed.           *)
(***************************************************************************)
EXTENDS Engines

StartOptions == {{}, {"noTC"}, {"noCUPS"}}
=============================================================================
