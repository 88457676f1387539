------------------------------ MODULE MCTimerQ ------------------------------
(***************************************************************************)
(* Three timers, set for now, for the next moment and for a later one.     *)
(***************************************************************************)
EXTENDS TimerQ
=============================================================================
