------------------------------ MODULE TxSched ------------------------------
(***************************************************************************)
(* The transmit scheduler of s2e.c: what happens to a downlink frame from  *)
(* the moment the network server asks for it until it went out or was      *)
(* dropped.  Every TX unit has a queue of txjobs ordered by TX time and a  *)
(* timer; the timer handler, s2e_nextTxAction, feeds the head of the queue *)
(* to the radio shortly before its time.  A job that cannot be sent goes   *)
(* through its alternatives: other antennas first, then a later TX time.   *)
(*                                                                         *)
(* The station is single threaded.  s2e_nextTxAction loops over the queue  *)
(* and the radio answers in between, so one run of the handler is a        *)
(* sequence of steps here; variable handler says which run is in progress  *)
(* and everything else waits for its end.  The memory of the jobs is the   *)
(* subject of TxQ; here a job is a record and a queue a sequence of jobs.  *)
(***************************************************************************)
EXTENDS Integers, Sequences, FiniteSets, SequencesExt

CONSTANTS
  NumUnits,            \* TX units 0 .. NumUnits-1
  AltAntennas,         \* ral_altAntennas: [Units -> SUBSET Units]
  Chnls,               \* downlink frequencies, each with its data rate
  Airtime,             \* [Chnls -> airtime of a frame]
  Requests,            \* the frames the server may ask for, see Request
  MaxJobs,             \* bound: frames asked for
  MaxNow,              \* bound: frames are asked for up to this time
  MaxLate,             \* bound: delay of a timer callback behind its deadline
  Drift,               \* changes of the time sync seen by a recalculated xtime
  Region,              \* "EU868", "IL915", "PerChnl" (KR920, AS923), "AU915", "other"
  Band, BandRate,      \* EU868: band of a frequency, inverse duty cycle of a band
  ChnlRate,            \* dc_chnlRate
  UnsyncedAtStart,     \* units whose first time sync is still to come
  TX_MIN_GAP, TX_AIM_GAP, TX_MAX_AHEAD, TXCHECK_FUDGE,
  CLASS_C_BACKOFF_BY, CLASS_C_BACKOFF_MAX,
  RX2_DELAY            \* rt_seconds(1), from RX1 to RX2

Units == 0 .. NumUnits - 1
NoChnl == "nochnl"     \* freq / rx2freq is 0
Off == -1              \* the timer is not set

PRIO_PENALTY_ALTTXTIME  == 10
PRIO_PENALTY_ALTANTENNA == 10

(* What a dnmsg, dnsched or beacon asks for: class A, C, P (class B ping    *)
(* slot, on GPS time) or B (beacon, on GPS time), the unit that is to send, *)
(* the TX time relative to now, and the RX1 and RX2 frequencies.           *)
Request == [cls : {"A", "C", "P", "B"}, rctx : Units, lead : Int,
            chnl : Chnls \cup {NoChnl}, chnl2 : Chnls \cup {NoChnl},
            prio : Nat, deveui : BOOLEAN]

ASSUME UnitsAssumption ==
  /\ NumUnits \in Nat \ {0}
  /\ AltAntennas \in [Units -> SUBSET Units]
  /\ \A u \in Units : u \notin AltAntennas[u]
ASSUME RequestsAssumption ==
  /\ Requests \subseteq Request
  /\ NoChnl \notin Chnls
  /\ \A r \in Requests : r.chnl = NoChnl => r.chnl2 # NoChnl /\ r.cls \in {"A", "C"}
  /\ \A r \in Requests : r.cls = "B" => r.chnl2 = NoChnl
ASSUME TimesAssumption ==
  /\ Airtime \in [Chnls -> Nat \ {0}]
  /\ {TX_MAX_AHEAD, TXCHECK_FUDGE, RX2_DELAY} \subseteq Nat
  /\ TX_MIN_GAP \in Nat \ {0} /\ TX_AIM_GAP \in Nat /\ TX_AIM_GAP >= TX_MIN_GAP
  /\ CLASS_C_BACKOFF_BY \in Nat \ {0} /\ CLASS_C_BACKOFF_MAX \in Nat
  /\ {MaxJobs, MaxNow, MaxLate} \subseteq Nat /\ ChnlRate \in Nat
(* PPS and the crystal of the concentrator differ by microseconds, the gap  *)
(* is 10 ms: what GPS time a frame starts at never changes by as much.     *)
ASSUME DriftAssumption ==
  /\ Drift \subseteq Int
  /\ \A a, b \in Drift \cup {0} : a - b <= TX_MIN_GAP

VARIABLES
  now,        \* rt_getTime
  synced,     \* units with a valid timesyncs[]
  jobs,       \* number of frames asked for so far: the last diid
  job,        \* [1..MaxJobs -> txjob or Gone]
  queue,      \* txunits[].head and the chain behind it
  timer,      \* txunits[].timer: deadline or Off
  dcBand,     \* txunits[].dc_eu868bands
  dcChnl,     \* txunits[].dc_perChnl
  handler,    \* <<>> or <<"decide", u>> or <<"displace", u>>: run of nextTxAction
  (* history *)
  asked,      \* [1..MaxJobs -> request with absolute TX time or Gone]
  sent,       \* frames handed to a radio and not aborted
  dntxed      \* [1..MaxJobs -> dntxed messages: to the server, lost for want of a buffer]

vars == <<now, synced, jobs, job, queue, timer, dcBand, dcChnl, handler, asked, sent, dntxed>>
-----------------------------------------------------------------------------
Diids == 1 .. MaxJobs
Gone  == [phase |-> "gone"]
Dropped == Gone

(* An xtime names a unit, a time on its clock (here on the local clock, as *)
(* ts_xtime2ustime maps it) and is good while it goes back to a real one.  *)
NoXtime == [unit |-> 0, t |-> 0, ok |-> FALSE]     \* xtime == 0
At(u, t) == IF u \in synced THEN [unit |-> u, t |-> t, ok |-> TRUE] ELSE NoXtime
Later(x, dt) == [x EXCEPT !.t = @ + dt]

(* ts_xtime2xtime *)
OnUnit(x, u) ==
  IF x.unit = u THEN x
  ELSE IF {x.unit, u} \subseteq synced THEN [x EXCEPT !.unit = u] ELSE NoXtime

(* Fault: the airtime was not calculated. *)
EndNoAirtime(j) == j.txtime

End(j) == j.txtime + Airtime[j.chnl]
Earliest == now + TX_AIM_GAP

(* s2ctx->canTx: s2e_canTxEU868, s2e_canTxPerChnlDC or s2e_canTxOK *)
CanTx(j) ==
  CASE Region = "EU868"   -> j.txtime >= dcBand[j.unit][Band[j.chnl]]
    [] Region = "PerChnl" -> j.txtime >= dcChnl[j.unit][j.chnl]
    [] OTHER              -> TRUE

DcEnabled == Region \in {"EU868", "IL915", "PerChnl"}   \* resetDC was called

UpdateDC(j) ==
  /\ dcBand' = IF Region = "AU915" /\ DcEnabled
               THEN [dcBand EXCEPT ![j.unit][Band[j.chnl]] =
                       j.txtime + Airtime[j.chnl] * BandRate[Band[j.chnl]]]
               ELSE dcBand
  /\ dcChnl' = IF DcEnabled
               THEN [dcChnl EXCEPT ![j.unit][j.chnl] = j.txtime + Airtime[j.chnl] * ChnlRate]
               ELSE dcChnl

calcPriority(j) ==
  j.prio
  - (IF j.chnl2 # NoChnl \/ (j.cls = "C" /\ j.retries < CLASS_C_BACKOFF_MAX)
     THEN PRIO_PENALTY_ALTTXTIME ELSE 0)
  - (IF j.alts # {} THEN PRIO_PENALTY_ALTANTENNA ELSE 0)
-----------------------------------------------------------------------------
(* altTxTime: switch to a later TX time *)

(* Class C, RX2 open: from now on any time will do. *)
RX2Anytime(j) ==
  IF j.unit \notin synced THEN Dropped
  ELSE [j EXCEPT !.txtime = Earliest, !.xt = At(j.unit, Earliest), !.retries = 1,
                 !.chnl = j.chnl2, !.chnl2 = NoChnl]

(* As many steps as it takes from the TX time to the earliest one, one at   *)
(* least.                                                                  *)
BackoffSteps(j) ==
  LET late == Earliest - j.txtime
  IN  IF late <= 1 THEN 1 ELSE 1 + ((late - 1) \div CLASS_C_BACKOFF_BY)
BackedOffBy(j, steps) ==
  LET dt == steps * CLASS_C_BACKOFF_BY
  IN  [j EXCEPT !.txtime = @ + dt, !.xt = Later(@, dt), !.retries = @ + steps]

(* Class C: back off by as many steps as it takes, one at least. *)
BackedOff(j) ==
  IF j.retries + BackoffSteps(j) - 1 > CLASS_C_BACKOFF_MAX THEN Dropped
  ELSE BackedOffBy(j, BackoffSteps(j))

(* Fault: RX2 on the RX1 frequency. *)
RX2WindowRX1Freq(j) ==
  IF j.txtime + RX2_DELAY < Earliest THEN Dropped
  ELSE [j EXCEPT !.txtime = @ + RX2_DELAY, !.xt = Later(@, RX2_DELAY), !.chnl2 = NoChnl]

(* Class A: RX2 is one second after RX1. *)
RX2Window(j) ==
  IF j.txtime + RX2_DELAY < Earliest THEN Dropped
  ELSE [j EXCEPT !.txtime = @ + RX2_DELAY, !.xt = Later(@, RX2_DELAY),
                 !.chnl = j.chnl2, !.chnl2 = NoChnl]

altTxTime(j) ==
  CASE j.cls = "C" /\ j.chnl2 # NoChnl             -> RX2Anytime(j)
    [] j.cls = "C" /\ j.chnl2 = NoChnl             -> BackedOff(j)
    [] j.cls \in {"A", "B"} /\ j.chnl2 # NoChnl    -> RX2Window(j)
    [] OTHER                                       -> Dropped
-----------------------------------------------------------------------------
(* s2e_addTxjob *)

OnAntenna(j, u, alts) == [j EXCEPT !.unit = u, !.alts = alts]
Home(j) == OnAntenna(j, j.rctx, AltAntennas[j.rctx])

(* check_alt: the next alternative antenna, or a later TX time at home *)
NextAlternative(j) ==
  IF j.alts # {}
  THEN LET u == CHOOSE v \in j.alts : \A w \in j.alts : v <= w
       IN  OnAntenna(j, u, j.alts \ {u})
  ELSE LET k == altTxTime(j) IN IF k = Dropped THEN Dropped ELSE Home(k)

(* Never stop a running TX. *)
Collides(j, q) ==
  /\ q # <<>>
  /\ job[q[1]].phase # "waiting"
  /\ j.txtime < End(job[q[1]]) + TX_MIN_GAP

(* The first of j and its alternatives that can be placed, Dropped if there *)
(* is none.  A job has up to NumUnits antennas at each of its TX times: the *)
(* first one, RX2 and CLASS_C_BACKOFF_MAX + 1 times after backing off.      *)
Placement(j, q) ==
  LET most == NumUnits * (CLASS_C_BACKOFF_MAX + 3)
      settled(k) == k = Dropped \/ (CanTx(k) /\ ~Collides(k, q[k.unit]))
      try(k) == IF settled(k) THEN k ELSE NextAlternative(k)
      tried[i \in 0 .. most] == IF i = 0 THEN {j} ELSE {try(k) : k \in tried[i - 1]}
  IN  CHOOSE k \in tried[most] : TRUE

(* Where a job with TX time t goes in queue qu, by ascending txtime *)
Position(t, qu) ==
  LET later(e) == t < job[e].txtime
  IN  IF \E i \in DOMAIN qu : later(qu[i]) THEN SelectInSeq(qu, later) ELSE Len(qu) + 1

(* rt_yieldTo: a new head means that the handler has to look at it. *)
Kicked(u, pos) == IF pos = 1 THEN [timer EXCEPT ![u] = now] ELSE timer

(* Enter a job into the queues q, or drop it. *)
AddTxjob(d, j, q) ==
  LET p == IF j = Dropped THEN Dropped ELSE Placement(j, q)
      pos == Position(p.txtime, q[p.unit])
  IN  /\ job' = [job EXCEPT ![d] = p]
      /\ IF p = Dropped THEN queue' = q /\ timer' = timer
         ELSE /\ queue' = [q EXCEPT ![p.unit] = InsertAt(@, pos, d)]
              /\ timer' = Kicked(p.unit, pos)

Relocate(d, j, q) == AddTxjob(d, NextAlternative(j), q)
-----------------------------------------------------------------------------
Init ==
  /\ now = 0
  /\ synced = Units \ UnsyncedAtStart
  /\ jobs = 0
  /\ job = [d \in Diids |-> Gone]
  /\ queue = [u \in Units |-> <<>>]
  /\ timer = [u \in Units |-> Off]
  /\ dcBand = [u \in Units |-> [b \in {Band[c] : c \in Chnls} |-> 0]]
  /\ dcChnl = [u \in Units |-> [c \in Chnls |-> 0]]
  /\ handler = <<>>
  /\ asked = [d \in Diids |-> Gone]
  /\ sent = {}
  /\ dntxed = [d \in Diids |-> [out |-> 0, lost |-> 0]]

(* handle_dnmsg, handle_dnsched and the beacon timer: a job made from r.   *)
(* Classes P and B keep gpstime, here the local time it was first taken    *)
(* for.                                                                    *)
Made(r) ==
  LET x == At(r.rctx, now + r.lead)
  IN  [phase |-> "waiting", cls |-> r.cls, rctx |-> r.rctx, unit |-> r.rctx,
       alts |-> AltAntennas[r.rctx], txtime |-> x.t, xt |-> x, chnl |-> r.chnl,
       chnl2 |-> r.chnl2, retries |-> 0, prio |-> r.prio, deveui |-> r.deveui,
       gps |-> now + r.lead]

(* No RX1: handle_dnmsg goes to RX2 at once.  No conversion to local time: *)
(* it drops the message.  Late: s2e_addTxjob tries a later TX time.        *)
Opened(r) ==
  LET m == Made(r)
      k == IF m.chnl = NoChnl THEN altTxTime(m) ELSE m
  IN  IF k = Dropped \/ k.xt = NoXtime \/ k.txtime > now + TX_MAX_AHEAD THEN Dropped
      ELSE IF k.txtime < Earliest THEN altTxTime(k) ELSE k

Receive(r) ==
  /\ handler = <<>>
  /\ jobs < MaxJobs /\ now <= MaxNow
  /\ jobs' = jobs + 1
  /\ asked' = [asked EXCEPT ![jobs + 1] =
                 [phase |-> "asked", cls |-> r.cls, t |-> now + r.lead,
                  chnl |-> r.chnl, chnl2 |-> r.chnl2, deveui |-> r.deveui]]
  /\ AddTxjob(jobs + 1, Opened(r), queue)
  /\ UNCHANGED <<now, synced, dcBand, dcChnl, handler, sent, dntxed>>

(* The first time sync with the radio of unit u arrives. *)
Sync(u) ==
  /\ handler = <<>>
  /\ u \notin synced
  /\ synced' = synced \cup {u}
  /\ UNCHANGED <<now, jobs, job, queue, timer, dcBand, dcChnl, handler, asked, sent, dntxed>>

(* Time passes, but callbacks are not held up for ever. *)
Tick ==
  /\ handler = <<>>
  /\ (\E u \in Units : timer[u] # Off) \/ (jobs < MaxJobs /\ now < MaxNow)
  /\ \A u \in Units : timer[u] # Off => now - timer[u] < MaxLate
  /\ now' = now + 1
  /\ UNCHANGED <<synced, jobs, job, queue, timer, dcBand, dcChnl, handler, asked, sent, dntxed>>
-----------------------------------------------------------------------------
(* s2e_txtimeout: rt_processTimerQ runs the callback of the oldest deadline *)
TxTimeout(u) ==
  /\ handler = <<>>
  /\ timer[u] # Off /\ timer[u] <= now
  /\ \A v \in Units : timer[v] # Off => timer[u] <= timer[v]
  /\ timer' = [timer EXCEPT ![u] = Off]
  /\ handler' = <<"decide", u>>
  /\ UNCHANGED <<now, synced, jobs, job, queue, dcBand, dcChnl, asked, sent, dntxed>>

Deciding(u) == handler = <<"decide", u>>
HeadJob(u) == queue[u][1]
Curr(u) == job[HeadJob(u)]
HeadIs(u, phases) == Deciding(u) /\ queue[u] # <<>> /\ Curr(u).phase \in phases

(* Fault: the job is not unqueued. *)
WithHead(u) == queue
WithoutHead(u) == [queue EXCEPT ![u] = Tail(@)]

(* Fault: the return value of the handler is lost. *)
ReturnNothing(u, t) == handler' = <<>> /\ timer' = timer

(* The handler returns t and s2e_txtimeout sets the timer. *)
Return(u, t) ==
  /\ handler' = <<>>
  /\ timer' = [timer EXCEPT ![u] = t]

EmptyQueue(u) ==
  /\ Deciding(u) /\ queue[u] = <<>>
  /\ handler' = <<>>
  /\ UNCHANGED <<now, synced, jobs, job, queue, timer, dcBand, dcChnl, asked, sent, dntxed>>

(* send_dntxed: getSendbuf may have no room, and the message is not sent.  *)
SendDntxed(d) ==
  dntxed' \in IF job[d].deveui
             THEN {[dntxed EXCEPT ![d].out = @ + 1], [dntxed EXCEPT ![d].lost = @ + 1]}
             ELSE {dntxed}

(* TX is over: drop the job, account for it unless this was done before. *)
TxDone(u) ==
  /\ HeadIs(u, {"txing", "checked"})
  /\ now >= End(Curr(u))
  /\ IF Curr(u).phase = "txing"
     THEN UpdateDC(Curr(u)) /\ SendDntxed(HeadJob(u))
     ELSE UNCHANGED <<dcBand, dcChnl, dntxed>>
  /\ job' = [job EXCEPT ![HeadJob(u)] = Gone]
  /\ queue' = WithoutHead(u)
  /\ UNCHANGED <<now, synced, jobs, timer, handler, asked, sent>>

(* The handler is only entered through the timer, which is never set anew  *)
(* while the head is in transmission (RunningUndisturbed).  So its returns *)
(* "too early to check" and "still being transmitted" are not taken.       *)
CheckDue(u) ==
  /\ HeadIs(u, {"txing"})
  /\ now < End(Curr(u))
  /\ Curr(u).txtime - now <= -TXCHECK_FUDGE

(* Fault: TXFLAG_TXCHECKED is not set. *)
TxConfirmedAgain(u) ==
  /\ CheckDue(u)
  /\ UpdateDC(Curr(u))
  /\ SendDntxed(HeadJob(u))
  /\ Return(u, End(Curr(u)))
  /\ UNCHANGED <<now, synced, jobs, job, queue, asked, sent>>

(* ral_txstatus says TXSTATUS_EMITTING *)
TxConfirmed(u) ==
  /\ CheckDue(u)
  /\ UpdateDC(Curr(u))
  /\ job' = [job EXCEPT ![HeadJob(u)].phase = "checked"]
  /\ SendDntxed(HeadJob(u))
  /\ Return(u, End(Curr(u)))
  /\ UNCHANGED <<now, synced, jobs, queue, asked, sent>>

(* It does not: ral_txabort, try an alternative. *)
TxFailed(u) ==
  /\ CheckDue(u)
  /\ sent' = {e \in sent : e.diid # HeadJob(u)}
  /\ Relocate(HeadJob(u), [Curr(u) EXCEPT !.phase = "waiting"], WithoutHead(u))
  /\ UNCHANGED <<now, synced, jobs, dcBand, dcChnl, handler, asked, dntxed>>

(* Missed the TX start time. *)
TxMissed(u) ==
  /\ HeadIs(u, {"waiting"})
  /\ Curr(u).txtime - now < TX_MIN_GAP
  /\ Relocate(HeadJob(u), Curr(u), WithoutHead(u))
  /\ UNCHANGED <<now, synced, jobs, dcBand, dcChnl, handler, asked, sent, dntxed>>

(* The head is too far out. *)
TxAhead(u) ==
  /\ HeadIs(u, {"waiting"})
  /\ Curr(u).txtime - now > TX_AIM_GAP
  /\ Return(u, Curr(u).txtime - TX_AIM_GAP)
  /\ UNCHANGED <<now, synced, jobs, job, queue, dcBand, dcChnl, asked, sent, dntxed>>

(* Time to feed the radio *)
TxDue(u) ==
  /\ HeadIs(u, {"waiting"})
  /\ Curr(u).txtime - now \in TX_MIN_GAP .. TX_AIM_GAP

(* The head with its xtime brought up to date: a job on GPS time gets it,   *)
(* and its TX time, from gpstime by the latest PPS (if there is one),      *)
(* others get it converted to the clock of this unit.                      *)
Recalculated(j) ==
  IF j.cls \in {"P", "B"}
  THEN {[j EXCEPT !.xt = NoXtime, !.txtime = 0]} \cup
       {[j EXCEPT !.xt = At(j.unit, j.gps + dt), !.txtime = At(j.unit, j.gps + dt).t]
          : dt \in Drift}
  ELSE {[j EXCEPT !.xt = OnUnit(@, j.unit)]}

(* Some job behind the head has priority over it and overlaps with it. *)
Hindered(j, u) ==
  \E i \in 2 .. Len(queue[u]) :
    /\ calcPriority(j) < calcPriority(job[queue[u][i]])
    /\ \A k \in 2 .. i : End(j) >= job[queue[u][k]].txtime - TX_MIN_GAP

(* Fault: the duty cycle was checked when the job was queued. *)
FeedableAnyDC(j, u) == j.xt # NoXtime /\ ~Hindered(j, u)

Feedable(j, u) == j.xt # NoXtime /\ CanTx(j) /\ ~Hindered(j, u)

(* ral_tx accepts the frame. *)
TxStart(u) ==
  /\ TxDue(u)
  /\ \E j \in Recalculated(Curr(u)) :
       /\ Feedable(j, u)
       /\ job' = [job EXCEPT ![HeadJob(u)] = [j EXCEPT !.phase = "txing"]]
       /\ sent' = sent \cup {[diid |-> HeadJob(u), unit |-> u, from |-> j.txtime,
                              till |-> j.txtime + Airtime[j.chnl],
                              chnl |-> j.chnl, xt |-> j.xt, lead |-> j.txtime - now]}
  /\ handler' = <<"displace", u>>
  /\ UNCHANGED <<now, synced, jobs, queue, timer, dcBand, dcChnl, asked, dntxed>>

(* No valid xtime, no duty cycle, a more important frame, or ral_tx refuses *)
(* (channel busy, radio layer failed): try an alternative.                 *)
TxRefused(u) ==
  /\ TxDue(u)
  /\ \E j \in Recalculated(Curr(u)) : Relocate(HeadJob(u), j, WithoutHead(u))
  /\ UNCHANGED <<now, synced, jobs, dcBand, dcChnl, handler, asked, sent, dntxed>>

Displaced(u) ==
  /\ Len(queue[u]) > 1
  /\ End(Curr(u)) >= job[queue[u][2]].txtime - TX_MIN_GAP

(* Unqueue the job that follows the started one if the two overlap. *)
Displace(u) ==
  /\ handler = <<"displace", u>>
  /\ Displaced(u)
  /\ Relocate(queue[u][2], job[queue[u][2]], [queue EXCEPT ![u] = RemoveAt(@, 2)])
  /\ UNCHANGED <<now, synced, jobs, dcBand, dcChnl, handler, asked, sent, dntxed>>

DisplaceDone(u) ==
  /\ handler = <<"displace", u>>
  /\ ~Displaced(u)
  /\ Return(u, Curr(u).txtime + TXCHECK_FUDGE)
  /\ UNCHANGED <<now, synced, jobs, job, queue, dcBand, dcChnl, asked, sent, dntxed>>

HandlerStep(u) ==
  \/ EmptyQueue(u) \/ TxDone(u) \/ TxConfirmed(u) \/ TxFailed(u)
  \/ TxMissed(u) \/ TxAhead(u) \/ TxStart(u) \/ TxRefused(u)
  \/ Displace(u) \/ DisplaceDone(u)

Next ==
  \/ \E r \in Requests : Receive(r)
  \/ \E u \in Units : Sync(u)
  \/ Tick
  \/ \E u \in Units : TxTimeout(u)
  \/ \E u \in Units : HandlerStep(u)

(* The event loop keeps running: time goes on, expired timers are served   *)
(* and a handler that was entered is run to its end.                       *)
Loop == Tick \/ \E u \in Units : TxTimeout(u) \/ HandlerStep(u)

Spec == Init /\ [][Next]_vars /\ WF_vars(Loop)
-----------------------------------------------------------------------------
Xtime == [unit : Units, t : Int, ok : BOOLEAN]
Txjob == [phase : {"waiting", "txing", "checked"}, cls : {"A", "C", "P", "B"},
          rctx : Units, unit : Units, alts : SUBSET Units, txtime : Nat,
          xt : Xtime,
          chnl : Chnls, chnl2 : Chnls \cup {NoChnl},
          retries : 0 .. CLASS_C_BACKOFF_MAX + 1, prio : Nat, deveui : BOOLEAN, gps : Int]

(* Shapes of the data; in particular a class C job never backs off more    *)
(* than CLASS_C_BACKOFF_MAX + 1 times.                                     *)
TypeOK ==
  /\ now \in Nat /\ synced \subseteq Units /\ jobs \in 0 .. MaxJobs
  /\ \A d \in Diids : job[d] \in Txjob \cup {Gone}
  /\ queue \in [Units -> Seq(1 .. jobs)]
  /\ timer \in [Units -> Nat \cup {Off}]
  /\ handler \in {<<>>} \cup ({"decide", "displace"} \X Units)

Queued(d) == {u \in Units : d \in Range(queue[u])}

(* A job is in the queue of its TX unit and in no other, once, until it is *)
(* gone; and only the head of a queue is ever in transmission.             *)
QueuesRight ==
  /\ \A d \in Diids : Queued(d) = IF job[d] = Gone THEN {} ELSE {job[d].unit}
  /\ \A u \in Units : IsInjective(queue[u])
  /\ \A u \in Units : \A i \in 2 .. Len(queue[u]) : job[queue[u][i]].phase = "waiting"

(* The queues are ordered by TX time, as s2e_nextTxAction assumes when it  *)
(* stops at the first job that does not overlap; a TX time recalculated at *)
(* the head may break this only until the overlapping jobs are displaced.  *)
QueuesOrdered ==
  \A u \in Units : handler # <<"displace", u>> => \A i \in 2 .. Len(queue[u]) :
    job[queue[u][i - 1]].txtime <= job[queue[u][i]].txtime

(* No lost wakeup: between callbacks every queue that holds a job has its  *)
(* timer set, and early enough to feed the radio, to check on it, or to    *)
(* drop a frame that is done.                                              *)
WakeupSet ==
  handler = <<>> =>
    \A u \in Units : queue[u] # <<>> =>
      /\ timer[u] # Off
      /\ \/ timer[u] <= now
         \/ Curr(u).phase = "waiting" /\ timer[u] <= Curr(u).txtime - TX_AIM_GAP
         \/ Curr(u).phase = "txing" /\ timer[u] <= Curr(u).txtime + TXCHECK_FUDGE
         \/ Curr(u).phase = "checked" /\ timer[u] <= End(Curr(u))

(* A frame in the air is left alone: nothing enters the queue before it and *)
(* its handler is not called before the check of the radio, or after this  *)
(* check before the end of the frame.                                      *)
RunningUndisturbed ==
  \A u \in Units : Deciding(u) /\ queue[u] # <<>> =>
    /\ Curr(u).phase = "txing" => now >= Curr(u).txtime + TXCHECK_FUDGE
    /\ Curr(u).phase = "checked" => now >= End(Curr(u))

(* The queues of s2e_addTxjob and s2e_nextTxAction are sound: every job is *)
(* in its queue and no other, in order, the timer that will take it out    *)
(* again is set, and the handler lets a running frame be.                  *)
QueueSound == QueuesRight /\ QueuesOrdered /\ WakeupSet /\ RunningUndisturbed

(* "min distance between two frames being TXed" (TX_MIN_GAP, s2conf.h): on *)
(* a TX unit a frame starts TX_MIN_GAP after the end of the one before.    *)
GapKept ==
  \A e, f \in sent : e.unit = f.unit /\ e # f =>
    e.till + TX_MIN_GAP <= f.from \/ f.till + TX_MIN_GAP <= e.from

(* Two frames are never in the air of one TX unit at a time. *)
NoOverlap ==
  \A e, f \in sent : e.unit = f.unit /\ e # f => e.till <= f.from \/ f.till <= e.from

(* "aim for this TX lead time, if delayed should not fall under min"        *)
(* (TX_AIM_GAP, s2conf.h): the radio gets a frame TX_MIN_GAP ahead.        *)
LeadKept == \A e \in sent : e.lead >= TX_MIN_GAP

(* A device only hears a frame where it listens: class A at RX1 or RX2,    *)
(* ping slots and beacons at the time asked for (up to clock drift), and   *)
(* class C at RX1, on the RX2 frequency any time or, if it has no RX2, on  *)
(* the RX1 frequency later.                                                *)
InWindow(e) ==
  LET a == asked[e.diid]
      rx1 == e.from = a.t /\ e.chnl = a.chnl
  IN  CASE a.cls = "A" -> rx1 \/ (e.from = a.t + RX2_DELAY /\ e.chnl = a.chnl2)
        [] a.cls \in {"P", "B"} -> e.chnl = a.chnl /\ \E dt \in Drift : e.from = a.t + dt
        [] a.cls = "C" -> rx1 \/ e.chnl = a.chnl2
                             \/ (a.chnl2 = NoChnl /\ e.chnl = a.chnl /\ e.from > a.t)
WindowsMet == \A e \in sent : InWindow(e)

(* The xtime handed to the radio is one of the current session on the      *)
(* clock of the sending unit and is the TX time of the job: the two are    *)
(* moved side by side by every relocation ("valid xtime is never 0").      *)
XtimeTrue == \A e \in sent : e.xt = [unit |-> e.unit, t |-> e.from, ok |-> TRUE]

(* What the radio is given it gets in time, apart from the frames before   *)
(* and after it, for a window of the device, on its own clock.             *)
SentRight == LeadKept /\ GapKept /\ WindowsMet /\ XtimeTrue

(* The same where GPS time drifts and the lead may shrink, one frame after *)
(* the other.                                                              *)
OnAirRight == NoOverlap /\ WindowsMet /\ XtimeTrue

(* A frame is confirmed to the server at most once, and never when no       *)
(* radio has it or one was found silent and the frame moved on or dropped; *)
(* of a frame that leaves its queue handed to a radio, send_dntxed was     *)
(* tried exactly once: the server misses it only for want of a buffer.     *)
DntxedRight ==
  \A d \in Diids :
    LET onAir == \E e \in sent : e.diid = d
    IN  /\ dntxed[d].out <= 1
        /\ dntxed[d].out = 1 => onAir /\ asked[d].deveui
        /\ onAir /\ job[d] = Gone /\ asked[d].deveui => dntxed[d].out + dntxed[d].lost = 1
        /\ Cardinality({e \in sent : e.diid = d}) <= 1

(* Duty cycle per channel (KR920, AS923): after a frame a channel of a TX  *)
(* unit rests for its airtime times dc_chnlRate.                           *)
Rested(e, f, rate) == f.from >= e.from + (e.till - e.from) * rate
ChnlDutyCycle ==
  \A e, f \in sent : e.unit = f.unit /\ e.chnl = f.chnl /\ e.from < f.from => Rested(e, f, ChnlRate)

(* Duty cycle per band (EU868): "definitely no duty cycle, thus the frame   *)
(* can't be sent for sure" (s2e.c, s2e_addTxjob).                          *)
BandDutyCycle ==
  \A e, f \in sent : e.unit = f.unit /\ Band[e.chnl] = Band[f.chnl] /\ e.from < f.from
                     => Rested(e, f, BandRate[Band[e.chnl]])

(* Every frame asked for leaves the queues at last, sent or dropped: the   *)
(* loops of s2e_nextTxAction and s2e_addTxjob run out of alternatives.     *)
AllServed == \A d \in Diids : (job[d] # Gone) ~> (job[d] = Gone)
=============================================================================
