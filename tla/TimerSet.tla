------------------------------ MODULE TimerSet ------------------------------
(***************************************************************************)
(* What rt.c promises of its timers: a timer that is set has one deadline, *)
(* and fires at or after it, once, the timer with the earliest deadline    *)
(* first.  Setting a timer again moves it.                                 *)
(***************************************************************************)
EXTENDS Integers

CONSTANTS Timers

VARIABLES
  due,   \* deadline of each timer, Off if it is not set
  now,   \* rt_getTime()
  fired  \* the timer whose callback runs, or who else runs

Off == -1
Init == due = [t \in Timers |-> Off] /\ now = 0 /\ fired \notin Timers

Set(t) == due'[t] # Off /\ due' = [due EXCEPT ![t] = due'[t]] /\ UNCHANGED <<now, fired>>
Clr(t) == due' = [due EXCEPT ![t] = Off] /\ UNCHANGED <<now, fired>>

Fire(t) ==
  /\ due[t] # Off /\ due[t] <= now
  /\ \A u \in Timers : due[u] # Off => due[t] <= due[u]
  /\ due' = [due EXCEPT ![t] = Off] /\ fired' = t
  /\ UNCHANGED now

Quiet == fired' \notin Timers /\ UNCHANGED <<due, now>>
Tick == now' = now + 1 /\ UNCHANGED <<due, fired>>

Next ==
  \/ \E t \in Timers : Set(t) \/ Clr(t) \/ Fire(t)
  \/ Quiet \/ Tick

Spec == Init /\ [][Next]_<<due, now, fired>>
=============================================================================
