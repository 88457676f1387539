------------------------------- MODULE TimerQ -------------------------------
(***************************************************************************)
(* The timers of rt.c: a list linked through the timers themselves, sorted *)
(* by deadline, that aio_loop works off before each select().  A callback  *)
(* may set and clear any timer, its own and the next one included.         *)
(*                                                                         *)
(* now is what rt_getTime() returns; it goes on at any moment.             *)
(***************************************************************************)
EXTENDS Integers, Sequences, SequencesExt, FiniteSets

CONSTANTS
  Timers,
  Ahead,    \* how far ahead of now callers set a timer; 0: rt_yieldTo
  MaxTime   \* bound: the clock stops here

ASSUME TimerQAssumption ==
  /\ {"queue", "select", "io", "NIL", "END"} \cap Timers = {}
  /\ MaxTime \in Nat /\ Ahead \subseteq Nat

VARIABLES
  timerQ,    \* first timer of the list, or END
  tmrnext,   \* next of each timer, NIL: "not queued for timeout"
  deadline,
  now,
  at         \* who runs: "queue" (rt_processTimerQ), a timer, "select", "io"

timerVars == <<timerQ, tmrnext, deadline, now, at>>
-----------------------------------------------------------------------------
TMR_NIL == "NIL"
TMR_END == "END"

(* A queue v is its first timer and the links.  Pointers to a link (pp in   *)
(* the code) are TMR_NIL, for timerQ, or a timer, for its next.            *)
Q == [first |-> timerQ, next |-> tmrnext]
Link(v, pp) == IF pp = TMR_NIL THEN v.first ELSE v.next[pp]
WithLink(v, pp, p) ==
  IF pp = TMR_NIL THEN [v EXCEPT !.first = p] ELSE [v EXCEPT !.next[pp] = p]

(* The timers met when the links are followed *)
Met(v) ==
  LET from[p \in Timers \cup {TMR_NIL, TMR_END}] ==
        IF p \notin Timers THEN <<>> ELSE <<p>> \o from[v.next[p]]
  IN  from[v.first]

(* Fault: timers of the same deadline are not passed. *)
PassedLess(v, d) ==
  {p \in ToSet(Met(v)) : deadline[p] < d}

(* Fault: the order is turned around. *)
PassedLater(v, d) ==
  {p \in ToSet(Met(v)) : deadline[p] > d}

(* The timers that the search for the place of a deadline passes *)
Passed(v, d) ==
  LET q == Met(v) IN {q[k] : k \in {i \in DOMAIN q : \A j \in 1 .. i : deadline[q[j]] <= d}}

(* The pointer the search ends with when n timers have been passed *)
Reached(v, n) == IF n = 0 THEN TMR_NIL ELSE Met(v)[n]

(* rt_clrTimer, which does assert(0) if the timer is not met *)
Unlinked(v, t) ==
  IF v.next[t] = TMR_NIL THEN v
  ELSE LET n  == CHOOSE k \in DOMAIN Met(v) : Met(v)[k] = t
           pp == Reached(v, n - 1)
       IN  [WithLink(v, pp, v.next[t]) EXCEPT !.next[t] = TMR_NIL]

Inserted(v, t, d) ==
  LET pp == Reached(v, Cardinality(Passed(v, d)))
  IN  WithLink([v EXCEPT !.next[t] = Link(v, pp)], pp, t)

Becomes(v) == timerQ' = v.first /\ tmrnext' = v.next
-----------------------------------------------------------------------------
TimerInit ==
  /\ timerQ = TMR_END
  /\ tmrnext = [t \in Timers |-> TMR_NIL] /\ deadline = [t \in Timers |-> 0]
  /\ now = 0 /\ at = "io"

Due == timerQ # TMR_END /\ deadline[timerQ] <= now

Callback == at \in Timers \cup {"io"}

(* rt_setTimer, rt_setTimerCb; rt_yieldTo with 0 *)
SetTimer(t, ahead) ==
  /\ Callback
  /\ Becomes(Inserted(Unlinked(Q, t), t, now + ahead))
  /\ deadline' = [deadline EXCEPT ![t] = now + ahead]
  /\ UNCHANGED <<now, at>>

ClrTimer(t) ==
  /\ Callback
  /\ Becomes(Unlinked(Q, t))
  /\ UNCHANGED <<deadline, now, at>>

(* rt_processTimerQ: the callback of an expired timer *)
Expire ==
  /\ at = "queue" /\ Due
  /\ timerQ' = tmrnext[timerQ] /\ tmrnext' = [tmrnext EXCEPT ![timerQ] = TMR_NIL] /\ at' = timerQ
  /\ UNCHANGED <<deadline, now>>

Return ==
  /\ Callback
  /\ at' = "queue"
  /\ UNCHANGED <<timerQ, tmrnext, deadline, now>>

(* aio_loop: nothing is due, select() waits for the first deadline or I/O. *)
Sleep ==
  /\ at = "queue" /\ ~Due
  /\ at' = "select"
  /\ UNCHANGED <<timerQ, tmrnext, deadline, now>>

TimedOut ==
  /\ at = "select" /\ Due
  /\ at' = "queue"
  /\ UNCHANGED <<timerQ, tmrnext, deadline, now>>

Io ==
  /\ at = "select"
  /\ at' = "io"
  /\ UNCHANGED <<timerQ, tmrnext, deadline, now>>

Tick ==
  /\ now < MaxTime
  /\ now' = now + 1
  /\ UNCHANGED <<timerQ, tmrnext, deadline, at>>

TimerNext ==
  \/ \E t \in Timers : ClrTimer(t) \/ \E ahead \in Ahead : SetTimer(t, ahead)
  \/ Expire \/ Return \/ Sleep \/ TimedOut \/ Io \/ Tick

(* Callbacks return, and the loop goes on. *)
TimerSpec ==
  /\ TimerInit /\ [][TimerNext]_timerVars
  /\ WF_timerVars(Return) /\ WF_timerVars(Expire \/ Sleep \/ TimedOut)
-----------------------------------------------------------------------------
IsQueued(t) == t \in ToSet(Met(Q))

Promised == INSTANCE TimerSet WITH
  due <- [t \in Timers |-> IF IsQueued(t) THEN deadline[t] ELSE -1], fired <- at

(* The list is a set of timers that fire at their deadlines, earliest      *)
(* first, each once (rt_processTimerQ, rt_setTimer, rt_clrTimer).          *)
ImplementsTimers == Promised!Spec

(* A timer that is due fires, although others yield to themselves for ever *)
(* (rt_yieldTo, rt_setTimer), unless it is itself set anew all the time.   *)
TimersFire ==
  \A t \in Timers :
    <>[](IsQueued(t) /\ deadline[t] <= now)
      => []<><<\E ahead \in Ahead : SetTimer(t, ahead)>>_timerVars
=============================================================================
