--------------------------- MODULE TxSchedProofs ---------------------------
(***************************************************************************)
(* Proofs about the transmit scheduler of s2e.c, for any number of TX      *)
(* units, requests, jobs, gaps and airtimes.  The inductive invariant says *)
(* of the queues, the timers, the frames in the air and the confirmations  *)
(* what holds between any two steps of the handler, and of every job how   *)
(* it goes back to what was asked for.  Placement runs through a chain of  *)
(* alternatives; that the chain is shorter than its bound is proved by a   *)
(* rank that falls with each of them.                                      *)
(***************************************************************************)
EXTENDS TxSched, TLAPS, WellFoundedInduction, FiniteSetTheorems, SequenceTheorems

(* The queue of its unit holds a job until it is gone, and no other does.  *)
Homed(jb, q) ==
  \A d \in Diids, u \in Units :
    (\E i \in DOMAIN q[u] : q[u][i] = d) <=> (jb[d] # Gone /\ jb[d].unit = u)

Once(q) == \A u \in Units : \A i, k \in DOMAIN q[u] : q[u][i] = q[u][k] => i = k

Following(jb, q) == \A u \in Units : \A i \in 2 .. Len(q[u]) : jb[q[u][i]].phase = "waiting"

(* In order of TX time, but for a head in X, which may have moved. *)
Ordered(jb, q, X) ==
  \A u \in Units : \A i \in 2 .. Len(q[u]) :
    i > 2 \/ u \notin X => jb[q[u][i - 1]].txtime <= jb[q[u][i]].txtime

(* Such a head is being sent. *)
HeadSent(jb, q, X) == \A u \in X : q[u] # <<>> /\ jb[q[u][1]].phase = "txing"

Queues(jb, q, X) ==
  /\ jb \in [Diids -> Txjob \cup {Gone}]
  /\ q \in [Units -> Seq(Diids)]
  /\ Homed(jb, q) /\ Once(q) /\ Following(jb, q)
  /\ Ordered(jb, q, X) /\ HeadSent(jb, q, X)

Displacing == {u \in Units : handler = <<"displace", u>>}
QueuesInv == Queues(job, queue, Displacing)
-----------------------------------------------------------------------------
(* The timer of a unit whose handler is not running is set to the deadline *)
(* that the head of the queue calls for.                                   *)
Timely(jb, q, tm, u) ==
  /\ tm[u] # Off
  /\ jb[q[u][1]].phase = "waiting" => tm[u] <= now \/ tm[u] <= jb[q[u][1]].txtime - TX_AIM_GAP
  /\ jb[q[u][1]].phase = "txing" => tm[u] = jb[q[u][1]].txtime + TXCHECK_FUDGE
  /\ jb[q[u][1]].phase = "checked" => tm[u] = End(jb[q[u][1]])

(* The handler finds a head in transmission only when it is due. *)
Due(jb, q, u) ==
  /\ jb[q[u][1]].phase = "txing" => now >= jb[q[u][1]].txtime + TXCHECK_FUDGE
  /\ jb[q[u][1]].phase = "checked" => now >= End(jb[q[u][1]])

Served == {u \in Units : handler \in {<<"decide", u>>, <<"displace", u>>}}

(* B are the units whose handler is running. *)
Timers(jb, q, tm, B) ==
  /\ tm \in [Units -> Nat \cup {Off}]
  /\ \A u \in Units \ B : q[u] # <<>> => Timely(jb, q, tm, u)

TimersInv ==
  /\ Timers(job, queue, timer, Served)
  /\ \A u \in Units : Deciding(u) /\ queue[u] # <<>> => Due(job, queue, u)
-----------------------------------------------------------------------------
(* The frames handed over: each is of a job in transmission, or gone once  *)
(* the frame was over; and one TX unit sends one after the other.          *)
OnAir(e) ==
  /\ e.diid \in 1 .. jobs /\ e.unit \in Units /\ e.chnl \in Chnls /\ e.from \in Nat
  /\ e.till = e.from + Airtime[e.chnl]
  /\ \/ job[e.diid] = Gone /\ e.till <= now
     \/ /\ job[e.diid].phase \in {"txing", "checked"}
        /\ job[e.diid].unit = e.unit /\ job[e.diid].txtime = e.from
        /\ job[e.diid].chnl = e.chnl

SentInv ==
  /\ \A e \in sent : OnAir(e)
  /\ \A d \in Diids : job[d].phase \in {"txing", "checked"} => \E e \in sent : e.diid = d
  /\ \A e, f \in sent : e.diid = f.diid => e = f

(* A frame is accounted for when the radio was seen to send it, or when its *)
(* end is past and nobody looked.                                          *)
Confirmed(d) ==
  /\ \E e \in sent : e.diid = d
  /\ job[d].phase \in {"gone", "checked"}
  /\ asked[d].deveui

DntxedInv == \A d \in Diids : dntxed[d].out + dntxed[d].lost = IF Confirmed(d) THEN 1 ELSE 0
-----------------------------------------------------------------------------
(* The first time sync of a unit comes before it can be anyone's           *)
(* alternative, and before class A frames without RX1 are asked for on it. *)
InSync ==
  /\ \A u \in Units : AltAntennas[u] \cap UnsyncedAtStart = {}
  /\ \A r \in Requests : r.cls = "A" /\ r.chnl = NoChnl => r.rctx \notin UnsyncedAtStart

Asked == [phase : {"asked"}, cls : {"A", "C", "P", "B"}, t : Int,
          chnl : Chnls \cup {NoChnl}, chnl2 : Chnls \cup {NoChnl}, deveui : BOOLEAN]

(* The xtime of a class A or C job is its TX time, on a clock in sync, and *)
(* so are the clocks of the antennas it may go to.                         *)
OnClock(j) ==
  /\ j.xt.ok /\ j.xt.t = j.txtime
  /\ {j.xt.unit, j.unit, j.rctx} \cup j.alts \subseteq synced

InWindowA(j, a) ==
  \/ j.txtime = a.t /\ j.chnl = a.chnl /\ j.chnl2 = a.chnl2
  \/ j.txtime = a.t + RX2_DELAY /\ j.chnl = a.chnl2 /\ j.chnl2 = NoChnl
InWindowC(j, a) ==
  \/ j.txtime = a.t /\ j.chnl = a.chnl /\ j.chnl2 = a.chnl2
  \/ j.chnl = a.chnl2 /\ j.chnl2 = NoChnl
  \/ j.txtime > a.t /\ j.chnl = a.chnl /\ j.chnl2 = NoChnl /\ a.chnl2 = NoChnl
OnGps(j) == j.txtime = 0 \/ \E dt \in Drift \cup {0} : j.txtime = j.gps + dt

(* Job j is a way to send what a asks for. *)
Serves(j, a) ==
  /\ j.cls = a.cls /\ j.deveui = a.deveui
  /\ j.cls \in {"P", "B"} => OnGps(j) /\ j.gps = a.t /\ j.chnl = a.chnl
  /\ j.cls \in {"P", "B"} => j.gps >= TX_MIN_GAP
  /\ j.cls = "B" => j.chnl2 = NoChnl
  /\ InSync /\ j.cls = "A" => OnClock(j) /\ InWindowA(j, a)
  /\ InSync /\ j.cls = "C" => OnClock(j) /\ InWindowC(j, a)

JobsInv ==
  /\ \A d \in 1 .. jobs : asked[d] \in Asked
  /\ \A d \in 1 .. jobs : job[d] # Gone => Serves(job[d], asked[d])
  /\ \A d \in Diids : d > jobs => job[d] = Gone
-----------------------------------------------------------------------------
(* A channel rests after the frames that are over or were seen to be sent; *)
(* one that is not yet starts when the channel is free.                    *)
Charged(e) ==
  IF job[e.diid].phase = "txing" THEN e.from >= dcChnl[e.unit][e.chnl]
  ELSE dcChnl[e.unit][e.chnl] >= e.from + (e.till - e.from) * ChnlRate

ChnlInv == Region = "PerChnl" => ChnlDutyCycle /\ \A e \in sent : Charged(e)

Reports == [out : Nat, lost : Nat]

Types ==
  /\ now \in Nat /\ synced \subseteq Units /\ jobs \in 0 .. MaxJobs
  /\ (Units \ UnsyncedAtStart) \subseteq synced
  /\ asked \in [Diids -> Asked \cup {Gone}]
  /\ dntxed \in [Diids -> Reports]
  /\ dcChnl \in [Units -> [Chnls -> Int]]
  /\ handler \in {<<>>} \cup ({"decide", "displace"} \X Units)

IInv ==
  /\ Types /\ QueuesInv /\ TimersInv /\ SentInv /\ DntxedInv /\ JobsInv
  /\ NoOverlap /\ ChnlInv
-----------------------------------------------------------------------------
(* Lemmas about numbers and sequences *)

LEMMA Least ==
  ASSUME NEW S \in SUBSET Nat, S # {}
  PROVE  \E m \in S : \A n \in S : m <= n
<1> DEFINE R == OpToRel(<, Nat)
<1>1. IsWellFoundedOn(R, Nat)
  BY NatLessThanWellFounded
<1>2. PICK m \in S : \A n \in S : <<n, m>> \notin R
  <2> HIDE DEF R
  <2> QED
    BY <1>1, WFMin
<1>3. ASSUME NEW n \in S PROVE m <= n
  <2>1. ~(n < m)
    BY <1>2 DEF OpToRel
  <2> QED
    BY <2>1
<1> QED
  BY <1>3

LEMMA Induct ==
  ASSUME NEW S \in SUBSET Nat, 0 \in S, \A n \in S : n + 1 \in S
  PROVE  S = Nat
<1> SUFFICES ASSUME Nat \ S # {} PROVE FALSE
  OBVIOUS
<1>1. PICK m \in Nat \ S : \A n \in Nat \ S : m <= n
  BY Least
<1>2. m - 1 \in S
  BY <1>1
<1> QED
  BY <1>1, <1>2

(* Enough back-off steps to reach the earliest TX time, no more. *)
LEMMA Quotient ==
  ASSUME NEW a \in Nat, NEW b \in Nat \ {0}
  PROVE  a \div b \in Nat /\ (1 + (a \div b)) * b > a
<1> DEFINE q == a \div b
           r == a % b
<1>1. q \in Nat /\ r \in Int /\ a = b * q + r /\ r < b /\ 0 <= r
  OBVIOUS
<1>2. (1 + q) * b = b * q + b
  BY <1>1
<1> QED
  BY <1>1, <1>2

LEMMA Product ==
  ASSUME NEW a \in Nat \ {0}, NEW b \in Nat \ {0}
  PROVE  a * b \in Nat \ {0}
OBVIOUS
-----------------------------------------------------------------------------
(* Lemmas about the alternatives of a job *)

(* A job as it is made, before the message is found to make sense *)
Loose == [phase : {"waiting"}, cls : {"A", "C", "P", "B"},
          rctx : Units, unit : Units, alts : SUBSET Units, txtime : Int,
          xt : Xtime,
          chnl : Chnls \cup {NoChnl}, chnl2 : Chnls \cup {NoChnl},
          retries : 0 .. CLASS_C_BACKOFF_MAX + 1, prio : Nat, deveui : BOOLEAN, gps : Int]

Sensible(j) == j.chnl = NoChnl => j.chnl2 # NoChnl /\ j.cls \in {"A", "C"}

(* TX times that are left to a job *)
Left(j) ==
  IF j.cls = "C"
  THEN IF j.chnl2 # NoChnl THEN CLASS_C_BACKOFF_MAX + 1 ELSE CLASS_C_BACKOFF_MAX + 1 - j.retries
  ELSE IF j.chnl2 # NoChnl THEN 1 ELSE 0

LEMMA WaitingLoose ==
  ASSUME NEW j \in Txjob, j.phase = "waiting"
  PROVE  j \in Loose /\ Sensible(j) /\ j.chnl # NoChnl
BY RequestsAssumption DEF Txjob, Loose, Sensible

LEMMA Backoff ==
  ASSUME now \in Nat, NEW j \in Loose
  PROVE  /\ BackoffSteps(j) \in Nat \ {0}
         /\ BackoffSteps(j) * CLASS_C_BACKOFF_BY \in Nat \ {0}
         /\ j.txtime + BackoffSteps(j) * CLASS_C_BACKOFF_BY >= Earliest
<1> DEFINE late == Earliest - j.txtime
           by == CLASS_C_BACKOFF_BY
<1>1. late \in Int /\ by \in Nat \ {0} /\ Earliest \in Nat /\ j.txtime \in Int
  BY TimesAssumption DEF Loose, Earliest
<1>2. CASE late <= 1
  <2>1. BackoffSteps(j) = 1
    BY <1>2 DEF BackoffSteps
  <2>2. 1 * by = by
    BY <1>1
  <2> QED
    BY <1>1, <1>2, <2>1, <2>2
<1>3. CASE late > 1
  <2> DEFINE q == (late - 1) \div by
  <2>1. BackoffSteps(j) = 1 + q
    BY <1>1, <1>3 DEF BackoffSteps
  <2>2. late - 1 \in Nat
    BY <1>1, <1>3
  <2>3. q \in Nat /\ (1 + q) * by > late - 1
    BY <1>1, <2>2, Quotient
  <2>4. (1 + q) * by \in Nat \ {0}
    BY <1>1, <2>3, Product
  <2> HIDE DEF q
  <2> QED
    BY <1>1, <2>1, <2>3, <2>4
<1> QED
  BY <1>1, <1>2, <1>3

(* Records with many fields are changed a few at a time. *)
LEMMA MovedLoose ==
  ASSUME NEW j \in Loose, NEW t \in Int, NEW x \in Xtime
  PROVE  [j EXCEPT !.txtime = t, !.xt = x] \in Loose
BY DEF Loose

LEMMA LooseTxjob ==
  ASSUME NEW j \in Loose, j.txtime >= 0, j.chnl # NoChnl
  PROVE  j \in Txjob /\ j.phase = "waiting"
BY DEF Loose, Txjob

LEMMA ServesC ==
  ASSUME NEW j, NEW k, NEW a, j.cls = "C", k.cls = "C", k.deveui = j.deveui,
         InSync /\ OnClock(j) => OnClock(k),
         InWindowC(j, a) => InWindowC(k, a)
  PROVE  Serves(j, a) => Serves(k, a)
BY DEF Serves

(* altTxTime gives a job of the same device with fewer TX times left. *)
LEMMA AltTxTime ==
  ASSUME now \in Nat, synced \subseteq Units,
         NEW j \in Loose, Sensible(j), altTxTime(j) # Dropped
  PROVE  /\ altTxTime(j) \in Txjob /\ altTxTime(j).phase = "waiting"
         /\ Left(altTxTime(j)) < Left(j)
         /\ \A a \in Asked : (j.cls = "B" => j.chnl2 = NoChnl) /\ Serves(j, a)
                             => Serves(altTxTime(j), a)
<1>1. /\ Earliest \in Nat /\ CLASS_C_BACKOFF_BY \in Nat \ {0} /\ CLASS_C_BACKOFF_MAX \in Nat
      /\ RX2_DELAY \in Nat
  BY TimesAssumption DEF Earliest
<1>2. NoChnl \notin Chnls
  BY RequestsAssumption
<1>3. /\ j.unit \in Units /\ j.xt \in Xtime /\ j.txtime \in Int
      /\ {j.chnl, j.chnl2} \subseteq Chnls \cup {NoChnl}
      /\ j.retries \in 0 .. CLASS_C_BACKOFF_MAX + 1
  BY DEF Loose
<1>4. CASE j.cls = "C" /\ j.chnl2 # NoChnl
  <2> DEFINE k == [j EXCEPT !.txtime = Earliest, !.xt = At(j.unit, Earliest), !.retries = 1,
                            !.chnl = j.chnl2, !.chnl2 = NoChnl]
  <2>1. altTxTime(j) = RX2Anytime(j)
    BY <1>4 DEF altTxTime
  <2>2. j.unit \in synced /\ altTxTime(j) = k
    BY <2>1 DEF RX2Anytime
  <2>3. At(j.unit, Earliest) = [unit |-> j.unit, t |-> Earliest, ok |-> TRUE]
    BY <2>2 DEF At
  <2>4. k \in Txjob /\ k.phase = "waiting"
    <3> DEFINE k1 == [j EXCEPT !.txtime = Earliest, !.xt = At(j.unit, Earliest)]
               k2 == [k1 EXCEPT !.retries = 1]
               k3 == [k2 EXCEPT !.chnl = j.chnl2, !.chnl2 = NoChnl]
    <3>1. k = k3 /\ k.txtime = Earliest /\ k.chnl = j.chnl2
      BY DEF Loose
    <3>2. k1 \in Loose
      <4>1. Earliest \in Int /\ At(j.unit, Earliest) \in Xtime
        BY <1>1, <1>3, <2>3 DEF Xtime
      <4> QED
        BY <4>1, MovedLoose
    <3> HIDE DEF k1
    <3>3. k2 \in Loose
      BY <1>1, <3>2 DEF Loose
    <3> HIDE DEF k2
    <3>4. k3 \in Loose
      BY <1>3, <3>3 DEF Loose
    <3> HIDE DEF k3, k
    <3> QED
      BY <1>1, <1>4, <1>3, <3>1, <3>4, LooseTxjob
  <2>5. Left(k) < Left(j)
    BY <1>1, <1>4 DEF Left, Loose
  <2>6. OnClock(j) => OnClock(k)
    BY <2>2, <2>3 DEF OnClock, Loose
  <2>7. \A a \in Asked : InWindowC(j, a) => InWindowC(k, a)
    BY <1>2, <1>4 DEF InWindowC, Loose, Asked
  <2>8. k.cls = "C" /\ k.deveui = j.deveui
    BY <1>4 DEF Loose
  <2> HIDE DEF k
  <2> QED
    BY <1>4, <2>2, <2>4, <2>5, <2>6, <2>7, <2>8, ServesC
<1>5. CASE j.cls = "C" /\ j.chnl2 = NoChnl
  <2> DEFINE steps == BackoffSteps(j)
             dt == steps * CLASS_C_BACKOFF_BY
             k == [j EXCEPT !.txtime = @ + dt, !.xt = Later(@, dt), !.retries = @ + steps]
  <2>1. altTxTime(j) = BackedOff(j)
    BY <1>5 DEF altTxTime
  <2>2. altTxTime(j) = k /\ j.retries + steps - 1 <= CLASS_C_BACKOFF_MAX
    BY <1>1, <2>1, Backoff DEF BackedOff, BackedOffBy, Loose
  <2>3. steps \in Nat \ {0} /\ dt \in Nat \ {0} /\ j.txtime + dt >= Earliest
    BY Backoff
  <2> HIDE DEF steps, dt
  <2>4. Later(j.xt, dt) = [unit |-> j.xt.unit, t |-> j.xt.t + dt, ok |-> j.xt.ok]
    BY <1>3 DEF Later, Xtime
  <2>5. k \in Txjob /\ k.phase = "waiting"
    <3> DEFINE k1 == [j EXCEPT !.txtime = @ + dt, !.xt = Later(@, dt)]
               k2 == [k1 EXCEPT !.retries = @ + steps]
    <3>1. k = k2 /\ k.txtime = j.txtime + dt /\ k.chnl = j.chnl /\ k1.retries = j.retries
      BY DEF Loose
    <3>2. k1 \in Loose
      <4>1. j.txtime + dt \in Int /\ Later(j.xt, dt) \in Xtime
        BY <1>3, <2>3, <2>4 DEF Xtime
      <4> QED
        BY <4>1, MovedLoose
    <3> HIDE DEF k1
    <3>3. k2 \in Loose
      BY <1>1, <1>3, <2>2, <2>3, <3>1, <3>2 DEF Loose
    <3> HIDE DEF k2, k
    <3> QED
      BY <1>1, <1>5, <1>3, <2>3, <3>1, <3>3, LooseTxjob DEF Sensible
  <2>6. Left(k) < Left(j)
    BY <1>1, <1>5, <2>3 DEF Left, Loose
  <2>7. OnClock(j) => OnClock(k)
    BY <2>4 DEF OnClock, Loose
  <2>8. ASSUME NEW a \in Asked, InWindowC(j, a) PROVE InWindowC(k, a)
    BY <1>2, <1>5, <2>3, <2>8 DEF InWindowC, Loose, Asked
  <2>9. k.cls = "C" /\ k.deveui = j.deveui
    BY <1>5 DEF Loose
  <2> HIDE DEF k
  <2> QED
    BY <1>5, <2>2, <2>5, <2>6, <2>7, <2>8, <2>9, ServesC
<1>6. CASE j.cls \in {"A", "B"} /\ j.chnl2 # NoChnl
  <2> DEFINE k == [j EXCEPT !.txtime = @ + RX2_DELAY, !.xt = Later(@, RX2_DELAY),
                            !.chnl = j.chnl2, !.chnl2 = NoChnl]
  <2>1. altTxTime(j) = RX2Window(j)
    BY <1>6 DEF altTxTime
  <2>2. altTxTime(j) = k /\ j.txtime + RX2_DELAY >= Earliest
    BY <1>1, <2>1 DEF RX2Window, Loose
  <2>3. Later(j.xt, RX2_DELAY) = [unit |-> j.xt.unit, t |-> j.xt.t + RX2_DELAY, ok |-> j.xt.ok]
    BY <1>3 DEF Later, Xtime
  <2>4. k \in Txjob /\ k.phase = "waiting"
    <3> DEFINE k1 == [j EXCEPT !.txtime = @ + RX2_DELAY, !.xt = Later(@, RX2_DELAY)]
               k3 == [k1 EXCEPT !.chnl = j.chnl2, !.chnl2 = NoChnl]
    <3>1. k = k3 /\ k.txtime = j.txtime + RX2_DELAY /\ k.chnl = j.chnl2
      BY DEF Loose
    <3>2. k1 \in Loose
      <4>1. j.txtime + RX2_DELAY \in Int /\ Later(j.xt, RX2_DELAY) \in Xtime
        BY <1>1, <1>3, <2>3 DEF Xtime
      <4> QED
        BY <4>1, MovedLoose
    <3> HIDE DEF k1
    <3>4. k3 \in Loose
      BY <1>3, <3>2 DEF Loose
    <3> HIDE DEF k3, k
    <3> QED
      BY <1>1, <1>6, <1>3, <2>2, <3>1, <3>4, LooseTxjob
  <2>5. Left(k) < Left(j)
    BY <1>1, <1>6 DEF Left, Loose
  <2>6. ASSUME NEW a \in Asked, j.cls = "B" => j.chnl2 = NoChnl, Serves(j, a)
        PROVE  Serves(k, a)
    <3>1. j.cls = "A" /\ k.cls = "A" /\ k.deveui = j.deveui
      BY <1>6, <2>6 DEF Loose
    <3>2. OnClock(j) => OnClock(k)
      BY <1>1, <2>3 DEF OnClock, Loose
    <3>3. InWindowA(j, a) => InWindowA(k, a)
      BY <1>1, <1>2, <1>6 DEF InWindowA, Loose, Asked
    <3> HIDE DEF k
    <3> QED
      BY <2>6, <3>1, <3>2, <3>3 DEF Serves
  <2> HIDE DEF k
  <2> QED
    BY <2>2, <2>4, <2>5, <2>6
<1>7. CASE j.cls = "P" \/ (j.cls \in {"A", "B"} /\ j.chnl2 = NoChnl)
  BY <1>7 DEF altTxTime
<1> QED
  BY <1>4, <1>5, <1>6, <1>7 DEF Loose

(* Alternatives that are left to a job: the antennas, NumUnits at most, at *)
(* each of its TX times.                                                   *)
Rank(j) == Cardinality(j.alts) + NumUnits * Left(j)

LEMMA LeftNat ==
  ASSUME NEW j \in Loose
  PROVE  Left(j) \in Nat /\ Left(j) <= CLASS_C_BACKOFF_MAX + 1
BY TimesAssumption DEF Left, Loose

LEMMA Antennas ==
  ASSUME NEW U \in SUBSET Units
  PROVE  /\ IsFiniteSet(U) /\ Cardinality(U) \in Nat /\ Cardinality(U) <= NumUnits
         /\ \A u \in Units : u \notin U => Cardinality(U) < NumUnits
<1>1. IsFiniteSet(Units) /\ Cardinality(Units) = NumUnits
  BY UnitsAssumption, FS_Interval DEF Units
<1>2. IsFiniteSet(U) /\ Cardinality(U) <= NumUnits
  BY <1>1, FS_Subset
<1>3. Cardinality(U) \in Nat
  BY <1>2, FS_CardinalityType
<1>4. ASSUME NEW u \in Units, u \notin U PROVE Cardinality(U) < NumUnits
  <2>1. U \in SUBSET (Units \ {u}) /\ IsFiniteSet(Units \ {u}) /\ Cardinality(Units \ {u}) = NumUnits - 1
    BY <1>1, <1>4, FS_RemoveElement
  <2>2. Cardinality(U) <= NumUnits - 1
    BY <2>1, FS_Subset
  <2> QED
    BY <1>3, <2>2, UnitsAssumption
<1> QED
  BY <1>2, <1>3, <1>4

LEMMA RankNat ==
  ASSUME NEW j \in Txjob, j.phase = "waiting"
  PROVE  Rank(j) \in Nat /\ Rank(j) < NumUnits * (CLASS_C_BACKOFF_MAX + 3)
<1>1. Left(j) \in Nat /\ Left(j) <= CLASS_C_BACKOFF_MAX + 1
  BY WaitingLoose, LeftNat
<1>2. Cardinality(j.alts) \in Nat /\ Cardinality(j.alts) <= NumUnits
  BY Antennas DEF Txjob
<1>3. NumUnits \in Nat \ {0} /\ CLASS_C_BACKOFF_MAX \in Nat
  BY UnitsAssumption, TimesAssumption
<1>4. \A n, l, m \in Nat : n # 0 /\ l <= m + 1 => n * l \in Nat /\ n * l + n < n * (m + 3)
  OBVIOUS
<1> QED
  BY <1>1, <1>2, <1>3, <1>4 DEF Rank

LEMMA OnAntennaJob ==
  ASSUME NEW j \in Txjob, j.phase = "waiting", NEW u \in Units, NEW alts \in SUBSET Units
  PROVE  /\ OnAntenna(j, u, alts) \in Txjob /\ OnAntenna(j, u, alts).phase = "waiting"
         /\ OnAntenna(j, u, alts).alts = alts /\ Left(OnAntenna(j, u, alts)) = Left(j)
         /\ \A a \in Asked : Serves(j, a) /\ (InSync /\ OnClock(j) => {u} \cup alts \subseteq synced)
                             => Serves(OnAntenna(j, u, alts), a)
<1> DEFINE k == OnAntenna(j, u, alts)
<1>1. k \in Txjob /\ k.phase = "waiting" /\ k.alts = alts
  BY DEF OnAntenna, Txjob
<1>2. /\ k.cls = j.cls /\ k.chnl = j.chnl /\ k.chnl2 = j.chnl2 /\ k.retries = j.retries
      /\ k.txtime = j.txtime /\ k.xt = j.xt /\ k.gps = j.gps /\ k.deveui = j.deveui
      /\ k.rctx = j.rctx /\ k.unit = u
  BY DEF OnAntenna, Txjob
<1> HIDE DEF k
<1>3. Left(k) = Left(j)
  BY <1>2 DEF Left
<1>4. OnClock(j) /\ {u} \cup alts \subseteq synced => OnClock(k)
  BY <1>1, <1>2 DEF OnClock
<1>5. ASSUME NEW a \in Asked, Serves(j, a), InSync /\ OnClock(j) => {u} \cup alts \subseteq synced
      PROVE  Serves(k, a)
  <2>1. /\ InWindowA(j, a) => InWindowA(k, a)
        /\ InWindowC(j, a) => InWindowC(k, a)
        /\ OnGps(j) => OnGps(k)
    BY <1>2 DEF InWindowA, InWindowC, OnGps
  <2> QED
    BY <1>2, <1>4, <1>5, <2>1 DEF Serves
<1> QED
  BY <1>1, <1>3, <1>5 DEF k

(* An alternative has fewer alternatives. *)
LEMMA NextAlternativeJob ==
  ASSUME now \in Nat, synced \subseteq Units, (Units \ UnsyncedAtStart) \subseteq synced,
         NEW j \in Txjob, j.phase = "waiting", NextAlternative(j) # Dropped
  PROVE  /\ NextAlternative(j) \in Txjob /\ NextAlternative(j).phase = "waiting"
         /\ Rank(NextAlternative(j)) < Rank(j)
         /\ \A a \in Asked : Serves(j, a) => Serves(NextAlternative(j), a)
<1>1. j \in Loose /\ Sensible(j) /\ Left(j) \in Nat
  BY WaitingLoose, LeftNat
<1>2. NumUnits \in Nat \ {0}
  BY UnitsAssumption
<1>3. CASE j.alts # {}
  <2> DEFINE u == CHOOSE v \in j.alts : \A w \in j.alts : v <= w
  <2>1. j.alts \in SUBSET Nat /\ j.alts \in SUBSET Units
    BY DEF Txjob, Units
  <2>2. u \in j.alts
    BY <1>3, <2>1, Least
  <2>3. NextAlternative(j) = OnAntenna(j, u, j.alts \ {u})
    BY <1>3 DEF NextAlternative
  <2> HIDE DEF u
  <2>4. Cardinality(j.alts \ {u}) = Cardinality(j.alts) - 1 /\ Cardinality(j.alts) \in Nat
    BY <2>1, <2>2, Antennas, FS_RemoveElement
  <2>5. u \in Units /\ j.alts \ {u} \in SUBSET Units
    BY <2>1, <2>2
  <2>6. Rank(NextAlternative(j)) = Cardinality(j.alts) - 1 + NumUnits * Left(j)
    BY <2>3, <2>4, <2>5, OnAntennaJob DEF Rank
  <2>7. OnClock(j) => {u} \cup (j.alts \ {u}) \subseteq synced
    BY <2>2 DEF OnClock
  <2>8. NumUnits * Left(j) \in Nat
    BY <1>1, <1>2
  <2>9. Rank(NextAlternative(j)) < Rank(j)
    BY <2>4, <2>6, <2>8 DEF Rank
  <2> QED
    BY <2>3, <2>5, <2>7, <2>9, OnAntennaJob
<1>4. CASE j.alts = {}
  <2> DEFINE k == altTxTime(j)
             alts == AltAntennas[k.rctx]
  <2>1. NextAlternative(j) = Home(k) /\ k # Dropped
    BY <1>4 DEF NextAlternative
  <2>2. /\ k \in Txjob /\ k.phase = "waiting" /\ Left(k) < Left(j)
        /\ \A a \in Asked : Serves(j, a) => Serves(k, a)
    BY <1>1, <2>1, AltTxTime DEF Serves
  <2> HIDE DEF k
  <2>3. k.rctx \in Units /\ alts \in SUBSET Units /\ k.rctx \notin alts
    BY <2>2, UnitsAssumption DEF Txjob
  <2>4. NextAlternative(j) = OnAntenna(k, k.rctx, alts)
    BY <2>1 DEF Home
  <2>5. InSync /\ OnClock(k) => {k.rctx} \cup alts \subseteq synced
    BY <2>3 DEF InSync, OnClock
  <2>6. Cardinality(alts) \in Nat /\ Cardinality(alts) < NumUnits
    BY <2>3, Antennas
  <2>7. Rank(NextAlternative(j)) = Cardinality(alts) + NumUnits * Left(k)
    BY <2>2, <2>3, <2>4, OnAntennaJob DEF Rank
  <2>8. Left(k) \in Nat
    BY <2>2, WaitingLoose, LeftNat
  <2>9. \A n, l, m \in Nat : l < m => n * l + n <= n * m
    <3> TAKE n, l, m \in Nat
    <3> HAVE l < m
    <3>1. n * m = n * l + n * (m - l)
      OBVIOUS
    <3>2. n * (m - l) >= n
      OBVIOUS
    <3>3. n * m \in Nat /\ n * l \in Nat /\ n * (m - l) \in Nat
      OBVIOUS
    <3> QED
      BY <3>1, <3>2, <3>3
  <2>10. Rank(j) = NumUnits * Left(j) /\ NumUnits * Left(j) \in Nat
    BY <1>1, <1>2, <1>4, FS_EmptySet DEF Rank
  <2>11. NumUnits * Left(k) \in Nat /\ NumUnits * Left(k) + NumUnits <= NumUnits * Left(j)
    BY <1>1, <1>2, <2>2, <2>8, <2>9
  <2>12. Rank(NextAlternative(j)) < Rank(j)
    BY <1>2, <2>6, <2>7, <2>10, <2>11
  <2> QED
    BY <2>2, <2>3, <2>4, <2>5, <2>12, OnAntennaJob
<1> QED
  BY <1>3, <1>4
-----------------------------------------------------------------------------
(* What s2e_addTxjob ends with is an alternative of the job that the duty  *)
(* cycle allows and that does not collide with a running TX, or nothing.   *)
LEMMA PlacementJob ==
  ASSUME now \in Nat, synced \subseteq Units, (Units \ UnsyncedAtStart) \subseteq synced,
         NEW j \in Txjob, j.phase = "waiting", NEW q, Placement(j, q) # Dropped
  PROVE  /\ Placement(j, q) \in Txjob /\ Placement(j, q).phase = "waiting"
         /\ \A a \in Asked : Serves(j, a) => Serves(Placement(j, q), a)
         /\ CanTx(Placement(j, q)) /\ ~Collides(Placement(j, q), q[Placement(j, q).unit])
<1> DEFINE most == NumUnits * (CLASS_C_BACKOFF_MAX + 3)
           settled(k) == k = Dropped \/ (CanTx(k) /\ ~Collides(k, q[k.unit]))
           try(k) == IF settled(k) THEN k ELSE NextAlternative(k)
           tried[i \in 0 .. most] == IF i = 0 THEN {j} ELSE {try(k) : k \in tried[i - 1]}
<1>1. Placement(j, q) = CHOOSE k \in tried[most] : TRUE
  BY DEF Placement
<1>2. most \in Nat
  BY UnitsAssumption, TimesAssumption
<1> HIDE DEF most
<1>3. tried = [i \in 0 .. most |-> IF i = 0 THEN {j} ELSE {try(k) : k \in tried[i - 1]}]
  <2> HIDE DEF try
  <2> DEFINE Good(g, n) == g = [i \in 0 .. n |-> IF i = 0 THEN {j} ELSE {try(k) : k \in g[i - 1]}]
             S == {n \in Nat : \E g : Good(g, n)}
  <2>1. 0 \in S
    <3>1. Good([i \in 0 .. 0 |-> {j}], 0)
      OBVIOUS
    <3> QED
      BY <3>1
  <2>2. ASSUME NEW n \in S PROVE n + 1 \in S
    <3>1. PICK g : Good(g, n)
      OBVIOUS
    <3> DEFINE h == [i \in 0 .. n + 1 |-> IF i = n + 1 THEN {try(k) : k \in g[n]} ELSE g[i]]
    <3>2. ASSUME NEW i \in 0 .. n + 1
          PROVE  h[i] = IF i = 0 THEN {j} ELSE {try(k) : k \in h[i - 1]}
      <4>1. CASE i = n + 1
        <5>1. h[i] = {try(k) : k \in g[n]}
          BY <4>1
        <5>2. i - 1 = n /\ i # 0 /\ h[n] = g[n]
          BY <4>1
        <5> HIDE DEF h
        <5> QED
          BY <5>1, <5>2
      <4>2. CASE i # n + 1
        <5>1. i \in 0 .. n /\ h[i] = g[i]
          BY <4>2
        <5>2. i # 0 => i - 1 \in 0 .. n + 1 /\ i - 1 # n + 1 /\ h[i - 1] = g[i - 1]
          BY <4>2
        <5>3. g[i] = IF i = 0 THEN {j} ELSE {try(k) : k \in g[i - 1]}
          BY <3>1, <5>1
        <5> HIDE DEF h
        <5> QED
          BY <5>1, <5>2, <5>3
      <4> QED
        BY <4>1, <4>2
    <3>3. Good(h, n + 1)
      <4>1. h = [i \in 0 .. n + 1 |-> h[i]]
        OBVIOUS
      <4> HIDE DEF h
      <4> QED
        BY <3>2, <4>1
    <3>4. n + 1 \in Nat
      OBVIOUS
    <3> HIDE DEF h
    <3> QED
      BY <3>3, <3>4
  <2>3. S = Nat
    <3>1. S \in SUBSET Nat
      OBVIOUS
    <3> HIDE DEF S
    <3> QED
      BY <2>1, <2>2, <3>1, Induct
  <2>4. \E g : Good(g, most)
    BY <1>2, <2>3
  <2> QED
    BY <2>4
<1> DEFINE alt(k) == k \in Txjob /\ k.phase = "waiting" /\ \A a \in Asked : Serves(j, a) => Serves(k, a)
           reached(k, i) == settled(k) \/ (alt(k) /\ Rank(k) + i <= Rank(j))
           S == {i \in Nat : i <= most => \E k : tried[i] = {k} /\ (k = Dropped \/ alt(k)) /\ reached(k, i)}
<1>4. Rank(j) \in Nat /\ Rank(j) < most
  BY RankNat DEF most
<1> HIDE DEF tried
<1>5. 0 \in S
  <2>1. alt(j) /\ Rank(j) + 0 <= Rank(j) /\ tried[0] = {j}
    BY <1>2, <1>3, <1>4
  <2> QED
    BY <2>1
<1>6. ASSUME NEW i \in S PROVE i + 1 \in S
  <2> SUFFICES ASSUME i + 1 <= most
               PROVE  \E k : tried[i + 1] = {k} /\ (k = Dropped \/ alt(k)) /\ reached(k, i + 1)
    OBVIOUS
  <2>1. PICK k : tried[i] = {k} /\ (k = Dropped \/ alt(k)) /\ reached(k, i)
    BY <1>2
  <2>2. tried[i + 1] = {try(k)}
    <3>1. i + 1 \in 0 .. most /\ i + 1 # 0 /\ (i + 1) - 1 = i
      BY <1>2
    <3>2. tried[i + 1] = {try(m) : m \in tried[i]}
      <4> HIDE DEF try
      <4> QED
        BY <1>3, <3>1
    <3> HIDE DEF try
    <3> QED
      BY <2>1, <3>2
  <2>3. CASE settled(k)
    BY <2>1, <2>2, <2>3
  <2>4. CASE ~settled(k)
    <3> DEFINE m == NextAlternative(k)
    <3>1. try(k) = m /\ alt(k) /\ Rank(k) + i <= Rank(j)
      BY <2>1, <2>4
    <3>2. CASE m = Dropped
      BY <2>2, <3>1, <3>2
    <3>3. CASE m # Dropped
      <4>1. m \in Txjob /\ m.phase = "waiting" /\ Rank(m) < Rank(k) /\ alt(m)
        BY <3>1, <3>3, NextAlternativeJob
      <4>2. Rank(m) \in Nat /\ Rank(k) \in Nat
        BY <3>1, <4>1, RankNat
      <4>3. Rank(m) + (i + 1) <= Rank(j)
        BY <1>4, <3>1, <4>1, <4>2
      <4> QED
        BY <2>2, <3>1, <4>1, <4>3
    <3> QED
      BY <3>2, <3>3
  <2> QED
    BY <2>3, <2>4
<1>7. S = Nat
  <2>1. S \in SUBSET Nat
    OBVIOUS
  <2> HIDE DEF S
  <2> QED
    BY <1>5, <1>6, <2>1, Induct
<1>8. PICK k : tried[most] = {k} /\ (k = Dropped \/ alt(k)) /\ reached(k, most)
  BY <1>2, <1>7
<1>9. Placement(j, q) = k
  BY <1>1, <1>8
<1>10. ~(alt(k) /\ Rank(k) + most <= Rank(j))
  <2>1. alt(k) => Rank(k) \in Nat
    BY RankNat
  <2> QED
    BY <1>2, <1>4, <2>1
<1> QED
  BY <1>8, <1>9, <1>10
-----------------------------------------------------------------------------
(* Lemmas about queues *)

LEMMA Inserted ==
  ASSUME NEW s \in Seq(Diids), NEW e \in Diids, NEW pos \in 1 .. Len(s) + 1
  PROVE  /\ InsertAt(s, pos, e) \in Seq(Diids) /\ Len(InsertAt(s, pos, e)) = Len(s) + 1
         /\ \A i \in 1 .. Len(s) + 1 :
              InsertAt(s, pos, e)[i] = IF i < pos THEN s[i] ELSE IF i = pos THEN e ELSE s[i - 1]
<1> DEFINE a == SubSeq(s, 1, pos - 1)
           b == SubSeq(s, pos, Len(s))
           c == a \o <<e>>
<1>1. a \in Seq(Diids) /\ Len(a) = pos - 1 /\ \A i \in 1 .. pos - 1 : a[i] = s[i]
  OBVIOUS
<1>2. b \in Seq(Diids) /\ Len(b) = Len(s) + 1 - pos
  OBVIOUS
<1>3. \A i \in 1 .. Len(s) + 1 - pos : b[i] = s[pos + i - 1]
  OBVIOUS
<1>4. c \in Seq(Diids) /\ Len(c) = pos /\ \A i \in 1 .. pos : c[i] = IF i < pos THEN s[i] ELSE e
  <2> HIDE DEF a
  <2> QED
    BY <1>1
<1>5. InsertAt(s, pos, e) = c \o b
  BY DEF InsertAt
<1>6. Len(s) \in Nat /\ pos \in Nat
  OBVIOUS
<1> HIDE DEF a, b, c
<1>7. /\ c \o b \in Seq(Diids) /\ Len(c \o b) = Len(c) + Len(b)
      /\ \A i \in 1 .. Len(c) + Len(b) : (c \o b)[i] = IF i <= Len(c) THEN c[i] ELSE b[i - Len(c)]
  BY <1>2, <1>4, ConcatProperties
<1>8. \A i \in 1 .. Len(s) + 1 : (c \o b)[i] = IF i <= pos THEN c[i] ELSE b[i - pos]
  BY <1>2, <1>4, <1>6, <1>7, SMTT(30)
<1>9. ASSUME NEW i \in 1 .. Len(s) + 1
      PROVE  (c \o b)[i] = IF i < pos THEN s[i] ELSE IF i = pos THEN e ELSE s[i - 1]
  <2>0. i \in Int /\ (i <= pos \/ i > pos)
    BY <1>6
  <2>1. CASE i <= pos
    BY <1>4, <1>6, <1>8, <2>1
  <2>2. CASE i > pos
    <3>1. i - pos \in 1 .. Len(s) + 1 - pos
      BY <1>6, <2>2
    <3>2. b[i - pos] = s[pos + (i - pos) - 1]
      BY <1>3, <3>1
    <3>3. pos + (i - pos) - 1 = i - 1
      BY <1>6
    <3>4. b[i - pos] = s[i - 1]
      BY <3>2, <3>3
    <3>5. (c \o b)[i] = b[i - pos]
      <4>1. (c \o b)[i] = IF i <= pos THEN c[i] ELSE b[i - pos]
        BY <1>8
      <4>2. ~(i <= pos)
        BY <1>6, <2>0, <2>2
      <4> QED
        BY <4>1, <4>2
    <3>6. ~(i < pos) /\ i # pos
      BY <1>6, <2>0, <2>2
    <3> QED
      BY <3>4, <3>5, <3>6
  <2> QED
    BY <2>0, <2>1, <2>2
<1> QED
  BY <1>2, <1>4, <1>5, <1>6, <1>7, <1>9

LEMMA Removed ==
  ASSUME NEW s \in Seq(Diids), NEW n \in 1 .. Len(s)
  PROVE  /\ RemoveAt(s, n) \in Seq(Diids) /\ Len(RemoveAt(s, n)) = Len(s) - 1
         /\ \A i \in 1 .. Len(s) - 1 : RemoveAt(s, n)[i] = IF i < n THEN s[i] ELSE s[i + 1]
<1> DEFINE a == SubSeq(s, 1, n - 1)
           b == SubSeq(s, n + 1, Len(s))
<1>1. a \in Seq(Diids) /\ Len(a) = n - 1 /\ \A i \in 1 .. n - 1 : a[i] = s[i]
  OBVIOUS
<1>2. b \in Seq(Diids) /\ Len(b) = Len(s) - n
  OBVIOUS
<1>3. \A i \in 1 .. Len(s) - n : b[i] = s[n + i]
  OBVIOUS
<1>4. RemoveAt(s, n) = a \o b
  BY DEF RemoveAt
<1>5. Len(s) \in Nat /\ n \in Nat
  OBVIOUS
<1> HIDE DEF a, b
<1>6. /\ a \o b \in Seq(Diids) /\ Len(a \o b) = Len(a) + Len(b)
      /\ \A i \in 1 .. Len(a) + Len(b) : (a \o b)[i] = IF i <= Len(a) THEN a[i] ELSE b[i - Len(a)]
  BY <1>1, <1>2, ConcatProperties
<1>7. \A i \in 1 .. Len(s) - 1 : (a \o b)[i] = IF i < n THEN a[i] ELSE b[i - (n - 1)]
  BY <1>1, <1>2, <1>5, <1>6
<1>8. ASSUME NEW i \in 1 .. Len(s) - 1
      PROVE  (a \o b)[i] = IF i < n THEN s[i] ELSE s[i + 1]
  <2>0. i \in Int /\ (i < n \/ i >= n)
    BY <1>5
  <2>1. CASE i < n
    BY <1>1, <1>5, <1>7, <2>1
  <2>2. CASE i >= n
    <3>1. i - (n - 1) \in 1 .. Len(s) - n
      BY <1>5, <2>2
    <3>2. b[i - (n - 1)] = s[n + (i - (n - 1))]
      BY <1>3, <3>1
    <3>3. n + (i - (n - 1)) = i + 1
      BY <1>5
    <3>4. b[i - (n - 1)] = s[i + 1]
      BY <3>2, <3>3
    <3>5. (a \o b)[i] = b[i - (n - 1)]
      <4>1. (a \o b)[i] = IF i < n THEN a[i] ELSE b[i - (n - 1)]
        BY <1>7
      <4>2. ~(i < n)
        BY <1>5, <2>0, <2>2
      <4> QED
        BY <4>1, <4>2
    <3>6. ~(i < n)
      BY <1>5, <2>0, <2>2
    <3> QED
      BY <3>4, <3>5, <3>6
  <2> QED
    BY <2>0, <2>1, <2>2
<1> QED
  BY <1>1, <1>2, <1>4, <1>5, <1>6, <1>8

(* Before the position of a job the queue is not later, from there on it is. *)
LEMMA PositionIs ==
  ASSUME NEW qu \in Seq(Diids), NEW t \in Int, \A i \in DOMAIN qu : job[qu[i]].txtime \in Int
  PROVE  /\ Position(t, qu) \in 1 .. Len(qu) + 1
         /\ \A i \in 1 .. Len(qu) : i < Position(t, qu) => job[qu[i]].txtime <= t
         /\ Position(t, qu) <= Len(qu) => t < job[qu[Position(t, qu)]].txtime
<1> DEFINE later(e) == t < job[e].txtime
           I == {i \in 1 .. Len(qu) : later(qu[i])}
<1>1. DOMAIN qu = 1 .. Len(qu) /\ Len(qu) \in Nat
  OBVIOUS
<1>2. CASE I = {}
  <2>1. Position(t, qu) = Len(qu) + 1
    BY <1>1, <1>2 DEF Position
  <2>2. ASSUME NEW i \in 1 .. Len(qu) PROVE job[qu[i]].txtime <= t
    <3>1. ~(t < job[qu[i]].txtime) /\ job[qu[i]].txtime \in Int
      BY <1>1, <1>2
    <3> QED
      BY <3>1
  <2> QED
    BY <1>1, <2>1, <2>2
<1>3. CASE I # {}
  <2>1. Position(t, qu) = CHOOSE x \in I : \A y \in I : x <= y
    BY <1>1, <1>3 DEF Position, SelectInSeq, Min
  <2>2. \E m \in I : \A n \in I : m <= n
    <3>1. I \in SUBSET Nat
      BY <1>1
    <3> HIDE DEF I
    <3> QED
      BY <1>3, <3>1, Least
  <2>3. Position(t, qu) \in I /\ \A y \in I : Position(t, qu) <= y
    BY <2>1, <2>2
  <2>4. ASSUME NEW i \in 1 .. Len(qu), i < Position(t, qu) PROVE job[qu[i]].txtime <= t
    <3>1. i \notin I
      BY <1>1, <2>3, <2>4
    <3>2. ~(t < job[qu[i]].txtime) /\ job[qu[i]].txtime \in Int
      BY <1>1, <3>1
    <3> QED
      BY <3>2
  <2> QED
    BY <1>1, <2>3, <2>4, SMTT(30)
<1> QED
  BY <1>2, <1>3

LEMMA QueueShape ==
  ASSUME NEW r \in Seq(Diids)
  PROVE  DOMAIN r = 1 .. Len(r) /\ Len(r) \in Nat /\ (r = <<>>) = (Len(r) = 0)
OBVIOUS

LEMMA QueueOf ==
  ASSUME NEW jb, NEW q, NEW X, Queues(jb, q, X), NEW u \in Units
  PROVE  /\ q[u] \in Seq(Diids) /\ Len(q[u]) \in Nat /\ DOMAIN q[u] = 1 .. Len(q[u])
         /\ \A i \in 1 .. Len(q[u]) :
              /\ q[u][i] \in Diids /\ jb[q[u][i]] \in Txjob
              /\ jb[q[u][i]].unit = u /\ jb[q[u][i]] # Gone
         /\ (q[u] = <<>>) = (Len(q[u]) = 0)
<1>1. q[u] \in Seq(Diids)
  BY DEF Queues
<1>2. Len(q[u]) \in Nat /\ DOMAIN q[u] = 1 .. Len(q[u]) /\ (q[u] = <<>>) = (Len(q[u]) = 0)
  BY <1>1
<1>3. ASSUME NEW i \in 1 .. Len(q[u])
      PROVE  /\ q[u][i] \in Diids /\ jb[q[u][i]] \in Txjob
             /\ jb[q[u][i]].unit = u /\ jb[q[u][i]] # Gone
  <2>1. q[u][i] \in Diids
    BY <1>1
  <2>2. jb[q[u][i]] # Gone /\ jb[q[u][i]].unit = u
    BY <1>2, <2>1 DEF Queues, Homed
  <2>3. jb[q[u][i]] \in Txjob
    BY <2>1, <2>2 DEF Queues
  <2> QED
    BY <2>1, <2>2, <2>3
<1> QED
  BY <1>1, <1>2, <1>3

LEMMA TxjobNotGone ==
  ASSUME NEW j \in Txjob
  PROVE  j # Gone /\ j.txtime \in Int /\ j.unit \in Units /\ j.phase # "gone"
BY DEF Txjob, Gone

(* A job that is in no queue enters one. *)
LEMMA EnterQueues ==
  ASSUME NEW jb, NEW q, NEW X \in SUBSET Units, Queues(jb, q, X),
         NEW d \in Diids, jb[d] = Gone, NEW p \in Txjob, p.phase = "waiting",
         NEW pos \in 1 .. Len(q[p.unit]) + 1,
         \A i \in 1 .. Len(q[p.unit]) : i < pos => jb[q[p.unit][i]].txtime <= p.txtime,
         pos <= Len(q[p.unit]) => p.txtime < jb[q[p.unit][pos]].txtime,
         q[p.unit] # <<>> /\ jb[q[p.unit][1]].phase # "waiting" => pos > 1
  PROVE  Queues([jb EXCEPT ![d] = p], [q EXCEPT ![p.unit] = InsertAt(@, pos, d)], X)
<1> DEFINE u == p.unit
           s == q[u]
           t == InsertAt(s, pos, d)
           jn == [jb EXCEPT ![d] = p]
           qn == [q EXCEPT ![u] = t]
<1>1. u \in Units /\ p # Gone /\ p.txtime \in Int
  BY TxjobNotGone
<1>2. /\ jb \in [Diids -> Txjob \cup {Gone}] /\ q \in [Units -> Seq(Diids)]
      /\ Homed(jb, q) /\ Once(q) /\ Following(jb, q) /\ Ordered(jb, q, X) /\ HeadSent(jb, q, X)
  BY DEF Queues
<1>3. /\ s \in Seq(Diids) /\ Len(s) \in Nat /\ DOMAIN s = 1 .. Len(s)
      /\ \A i \in 1 .. Len(s) : s[i] \in Diids /\ s[i] # d /\ jb[s[i]] \in Txjob
      /\ (s = <<>>) = (Len(s) = 0)
  BY <1>1, QueueOf
<1>4. pos \in 1 .. Len(s) + 1 /\ pos \in Nat
  BY <1>3
<1>5. /\ t \in Seq(Diids) /\ Len(t) = Len(s) + 1 /\ DOMAIN t = 1 .. Len(s) + 1
      /\ \A i \in 1 .. Len(s) + 1 : t[i] = IF i < pos THEN s[i] ELSE IF i = pos THEN d ELSE s[i - 1]
  <2>1. s \in Seq(Diids)
    BY <1>3
  <2> HIDE DEF s
  <2>2. /\ t \in Seq(Diids) /\ Len(t) = Len(s) + 1
        /\ \A i \in 1 .. Len(s) + 1 : t[i] = IF i < pos THEN s[i] ELSE IF i = pos THEN d ELSE s[i - 1]
    <3>1. d \in Diids /\ pos \in 1 .. Len(s) + 1
      BY <1>4
    <3> QED
      BY ONLY <2>1, <3>1, Inserted, ZenonT(60)
  <2> HIDE DEF t
  <2> QED
    BY <2>2
<1>6. /\ jn \in [Diids -> Txjob \cup {Gone}] /\ jn[d] = p
      /\ \A e \in Diids : e # d => jn[e] = jb[e]
  BY <1>2
<1>7. qn \in [Units -> Seq(Diids)] /\ qn[u] = t /\ \A v \in Units : v # u => qn[v] = q[v]
  BY <1>1, <1>2, <1>5
<1> HIDE DEF t, qn, jn
<1>8. ASSUME NEW v \in Units, v # u
      PROVE  /\ q[v] \in Seq(Diids) /\ DOMAIN q[v] = 1 .. Len(q[v]) /\ Len(q[v]) \in Nat
             /\ \A i \in 1 .. Len(q[v]) : q[v][i] \in Diids /\ q[v][i] # d
  BY <1>8, QueueOf
<1>9. Homed(jn, qn)
  <2> SUFFICES ASSUME NEW e \in Diids, NEW v \in Units
               PROVE  (\E i \in DOMAIN qn[v] : qn[v][i] = e) <=> (jn[e] # Gone /\ jn[e].unit = v)
    BY DEF Homed
  <2>1. (\E i \in DOMAIN q[v] : q[v][i] = e) <=> (jb[e] # Gone /\ jb[e].unit = v)
    BY <1>2 DEF Homed
  <2>2. CASE v # u
    BY <1>1, <1>6, <1>7, <1>8, <2>1, <2>2
  <2>3. CASE v = u /\ e = d
    <3>1. t[pos] = d /\ pos \in DOMAIN t
      BY <1>3, <1>4, <1>5
    <3> QED
      BY <1>1, <1>6, <1>7, <2>3, <3>1
  <2>4. CASE v = u /\ e # d
    <3>1. ASSUME NEW i \in DOMAIN s, s[i] = e PROVE \E k \in DOMAIN t : t[k] = e
      <4>1. CASE i < pos
        BY <1>3, <1>4, <1>5, <3>1, <4>1
      <4>2. CASE i >= pos
        <5>0. i \in Int /\ i <= Len(s) /\ i >= 1 /\ Len(s) \in Int /\ pos \in Int
          BY <1>3, <1>4
        <5>1. i + 1 \in 1 .. Len(s) + 1 /\ ~(i + 1 < pos) /\ i + 1 # pos /\ (i + 1) - 1 = i
          BY <4>2, <5>0
        <5>2. t[i + 1] = s[i]
          BY <1>5, <5>1
        <5> QED
          BY <1>5, <3>1, <5>1, <5>2
      <4> QED
        BY <1>3, <1>4, <4>1, <4>2
    <3>2. ASSUME NEW k \in DOMAIN t, t[k] = e PROVE \E i \in DOMAIN s : s[i] = e
      <4>1. k \in 1 .. Len(s) + 1 /\ t[k] = IF k < pos THEN s[k] ELSE IF k = pos THEN d ELSE s[k - 1]
        BY <1>5
      <4>2. CASE k < pos
        BY <1>3, <1>4, <3>2, <4>1, <4>2
      <4>3. CASE k > pos
        <5>1. k - 1 \in 1 .. Len(s)
          BY <1>3, <1>4, <4>1, <4>3
        <5>2. t[k] = s[k - 1]
          BY <1>4, <4>1, <4>3
        <5> QED
          BY <1>3, <3>2, <5>1, <5>2
      <4>4. CASE k = pos
        BY <2>4, <3>2, <4>1, <4>4
      <4> QED
        BY <1>3, <1>4, <4>1, <4>2, <4>3, <4>4
    <3> QED
      BY <1>6, <1>7, <2>1, <2>4, <3>1, <3>2
  <2> QED
    BY <2>2, <2>3, <2>4
<1>10. Once(qn)
  <2> SUFFICES ASSUME NEW v \in Units, NEW i \in DOMAIN qn[v], NEW k \in DOMAIN qn[v],
                      qn[v][i] = qn[v][k]
               PROVE  i = k
    BY DEF Once
  <2>1. CASE v # u
    BY <1>2, <1>7, <2>1 DEF Once
  <2>2. CASE v = u
    <3>1. i \in 1 .. Len(s) + 1 /\ k \in 1 .. Len(s) + 1 /\ t[i] = t[k]
      BY <1>5, <1>7, <2>2
    <3>2. \A m, n \in 1 .. Len(s) : s[m] = s[n] => m = n
      BY <1>1, <1>2, <1>3 DEF Once
    <3> DEFINE f(m) == IF m < pos THEN m ELSE m - 1
    <3>3. ASSUME NEW m \in 1 .. Len(s) + 1, m # pos PROVE f(m) \in 1 .. Len(s) /\ t[m] = s[f(m)] /\ t[m] # d
      <4>1. f(m) \in 1 .. Len(s)
        BY <1>3, <1>4, <3>3
      <4>2. t[m] = s[f(m)]
        BY <1>4, <1>5, <3>3
      <4> QED
        BY <1>3, <4>1, <4>2
    <3>4. t[pos] = d
      BY <1>4, <1>5
    <3>5. CASE i = pos \/ k = pos
      BY <3>1, <3>3, <3>4, <3>5
    <3>6. CASE i # pos /\ k # pos
      <4>2. f(i) \in 1 .. Len(s) /\ t[i] = s[f(i)] /\ f(k) \in 1 .. Len(s) /\ t[k] = s[f(k)]
        BY <3>1, <3>3, <3>6
      <4>1. f(i) = f(k)
        <5> HIDE DEF f
        <5> QED
          BY <3>1, <3>2, <4>2
      <4> QED
        BY <1>3, <1>4, <3>1, <3>6, <4>1
    <3> QED
      BY <3>5, <3>6
  <2> QED
    BY <2>1, <2>2
<1>11. Following(jn, qn)
  <2> SUFFICES ASSUME NEW v \in Units, NEW i \in 2 .. Len(qn[v])
               PROVE  jn[qn[v][i]].phase = "waiting"
    BY DEF Following
  <2>1. CASE v # u
    <3>1. i \in 2 .. Len(q[v]) /\ i \in 1 .. Len(q[v])
      BY <1>7, <1>8, <2>1
    <3>2. jb[q[v][i]].phase = "waiting"
      BY <1>2, <3>1 DEF Following
    <3> QED
      BY <1>6, <1>7, <1>8, <2>1, <3>1, <3>2
  <2>2. CASE v = u
    <3>1. i \in 2 .. Len(s) + 1 /\ t[i] = IF i < pos THEN s[i] ELSE IF i = pos THEN d ELSE s[i - 1]
      BY <1>3, <1>5, <1>7, <2>2
    <3>2. \A m \in 1 .. Len(s) : m > 1 \/ pos = 1 => jb[s[m]].phase = "waiting"
      BY <1>1, <1>2, <1>3, <1>4 DEF Following
    <3>3. CASE i = pos
      BY <1>6, <1>7, <2>2, <3>1, <3>3
    <3>4. CASE i < pos
      <4>1. i \in 1 .. Len(s) /\ i > 1
        BY <1>3, <1>4, <3>1, <3>4
      <4> QED
        BY <1>3, <1>6, <1>7, <2>2, <3>1, <3>2, <3>4, <4>1
    <3>5. CASE i > pos
      <4>1. i - 1 \in 1 .. Len(s) /\ (i - 1 > 1 \/ pos = 1) /\ t[i] = s[i - 1]
        BY <1>3, <1>4, <3>1, <3>5
      <4> QED
        BY <1>3, <1>6, <1>7, <2>2, <3>2, <4>1, SMTT(30)
    <3> QED
      BY <1>4, <3>1, <3>3, <3>4, <3>5
  <2> QED
    BY <2>1, <2>2
<1>12. Ordered(jn, qn, X)
  <2> SUFFICES ASSUME NEW v \in Units, NEW i \in 2 .. Len(qn[v]), i > 2 \/ v \notin X
               PROVE  jn[qn[v][i - 1]].txtime <= jn[qn[v][i]].txtime
    BY DEF Ordered
  <2>1. CASE v # u
    <3>1. i \in 2 .. Len(q[v]) /\ i \in 1 .. Len(q[v]) /\ i - 1 \in 1 .. Len(q[v])
      BY <1>7, <1>8, <2>1
    <3>2. jb[q[v][i - 1]].txtime <= jb[q[v][i]].txtime
      BY <1>2, <3>1 DEF Ordered
    <3> QED
      BY <1>6, <1>7, <1>8, <2>1, <3>1, <3>2
  <2>2. CASE v = u
    <3>1. i \in 2 .. Len(s) + 1
      BY <1>3, <1>5, <1>7, <2>2
    <3>2. CASE i < pos
      <4>1. i \in 2 .. Len(s) /\ i - 1 \in 1 .. Len(s) /\ i \in 1 .. Len(s) /\ i - 1 < pos
        BY <1>3, <1>4, <3>1, <3>2
      <4>2. t[i] = s[i] /\ t[i - 1] = s[i - 1]
        <5>1. i \in 1 .. Len(s) + 1 /\ i - 1 \in 1 .. Len(s) + 1
          BY <1>3, <4>1
        <5>2. t[i] = s[i]
          BY <1>5, <3>2, <5>1
        <5>3. t[i - 1] = s[i - 1]
          BY <1>5, <4>1, <5>1
        <5> QED
          BY <5>2, <5>3
      <4>3. jb[s[i - 1]].txtime <= jb[s[i]].txtime
        BY <1>1, <1>2, <2>2, <4>1 DEF Ordered
      <4>4. jn[s[i - 1]] = jb[s[i - 1]] /\ jn[s[i]] = jb[s[i]]
        BY <1>3, <1>6, <4>1
      <4>5. qn[v][i - 1] = s[i - 1] /\ qn[v][i] = s[i]
        BY <1>7, <2>2, <4>2
      <4> QED
        BY <4>3, <4>4, <4>5
    <3>3. CASE i = pos
      <4>1. i - 1 \in 1 .. Len(s) /\ i - 1 < pos /\ i \in 1 .. Len(s) + 1 /\ i - 1 \in 1 .. Len(s) + 1
        BY <1>3, <1>4, <3>1, <3>3
      <4>2. t[i] = d /\ t[i - 1] = s[i - 1]
        BY <1>5, <3>3, <4>1
      <4>3. jb[s[i - 1]].txtime <= p.txtime
        BY <4>1
      <4>4. jn[s[i - 1]] = jb[s[i - 1]] /\ jn[d] = p
        BY <1>3, <1>6, <4>1
      <4>5. qn[v][i - 1] = s[i - 1] /\ qn[v][i] = d
        BY <1>7, <2>2, <4>2
      <4> QED
        BY <4>3, <4>4, <4>5
    <3>4. CASE i = pos + 1
      <4>1. pos \in 1 .. Len(s) /\ i \in 1 .. Len(s) + 1 /\ i - 1 = pos /\ ~(i < pos) /\ i # pos
        BY <1>3, <1>4, <3>1, <3>4
      <4>2. t[i] = s[pos] /\ t[i - 1] = d
        BY <1>4, <1>5, <4>1
      <4>3. p.txtime < jb[s[pos]].txtime /\ jb[s[pos]].txtime \in Int
        BY <1>3, <1>4, <4>1, TxjobNotGone
      <4>4. p.txtime <= jb[s[pos]].txtime
        BY <1>1, <4>3
      <4> QED
        BY <1>3, <1>6, <1>7, <2>2, <4>1, <4>2, <4>4
    <3>5. CASE i > pos + 1
      <4> DEFINE k == i - 1
      <4>0. i \in Int /\ pos \in Int /\ Len(s) \in Int /\ i >= 2 /\ i <= Len(s) + 1 /\ pos >= 1
        BY <1>3, <1>4, <3>1
      <4>1. /\ k \in 2 .. Len(s) /\ k \in 1 .. Len(s) /\ k - 1 \in 1 .. Len(s)
            /\ i \in 1 .. Len(s) + 1 /\ k \in 1 .. Len(s) + 1
            /\ ~(i < pos) /\ i # pos /\ ~(k < pos) /\ k # pos
        BY <3>5, <4>0
      <4>2. t[i] = s[k] /\ t[k] = s[k - 1]
        <5>1. t[i] = s[i - 1]
          BY <1>5, <4>1
        <5> HIDE DEF k
        <5>2. t[k] = s[k - 1]
          BY <1>5, <4>1
        <5> QED
          BY <5>1, <5>2 DEF k
      <4>3. k > 2 \/ u \notin X
        <5>1. CASE u \in X
          <6>1. s # <<>> /\ jb[s[1]].phase = "txing"
            BY <1>2, <5>1 DEF HeadSent
          <6>2. pos > 1
            BY <6>1
          <6> QED
            BY <3>5, <4>0, <6>2
        <5> QED
          BY <5>1
      <4> HIDE DEF k
      <4>4. jb[s[k - 1]].txtime <= jb[s[k]].txtime
        BY <1>1, <1>2, <4>1, <4>3 DEF Ordered
      <4>5. jn[t[k]].txtime <= jn[t[i]].txtime
        BY <1>3, <1>6, <4>1, <4>2, <4>4
      <4> QED
        BY <1>7, <2>2, <4>5 DEF k
    <3> QED
      BY <1>3, <1>4, <3>1, <3>2, <3>3, <3>4, <3>5
  <2> QED
    BY <2>1, <2>2
<1>13. HeadSent(jn, qn, X)
  <2> SUFFICES ASSUME NEW v \in X
               PROVE  qn[v] # <<>> /\ jn[qn[v][1]].phase = "txing"
    BY DEF HeadSent
  <2>1. v \in Units /\ q[v] # <<>> /\ jb[q[v][1]].phase = "txing"
    BY <1>2 DEF HeadSent
  <2>2. CASE v # u
    <3>1. 1 \in 1 .. Len(q[v])
      BY <1>8, <2>1, <2>2
    <3> QED
      BY <1>6, <1>7, <1>8, <2>1, <2>2, <3>1
  <2>3. CASE v = u
    <3>1. pos > 1 /\ 1 \in 1 .. Len(s)
      BY <1>3, <2>1, <2>3
    <3>2. t[1] = s[1] /\ t # <<>>
      BY <1>3, <1>4, <1>5, <3>1
    <3> QED
      BY <1>3, <1>6, <1>7, <2>1, <2>3, <3>1, <3>2
  <2> QED
    BY <2>2, <2>3
<1> QED
  BY <1>6, <1>7, <1>9, <1>10, <1>11, <1>12, <1>13 DEF Queues, qn, jn, t

(* A job leaves its queue: the head, or the next one behind a head in X. *)
LEMMA LeaveQueues ==
  ASSUME NEW jb, NEW q, NEW X \in SUBSET Units, Queues(jb, q, X), NEW u \in Units,
         NEW n \in 1 .. Len(q[u]), (n = 1 /\ u \notin X) \/ (n = 2 /\ u \in X),
         NEW r \in Seq(Diids), Len(r) = Len(q[u]) - 1,
         \A i \in 1 .. Len(q[u]) - 1 : r[i] = IF i < n THEN q[u][i] ELSE q[u][i + 1]
  PROVE  Queues([jb EXCEPT ![q[u][n]] = Gone], [q EXCEPT ![u] = r], X)
<1> DEFINE s == q[u]
           d == s[n]
           jn == [jb EXCEPT ![d] = Gone]
           qn == [q EXCEPT ![u] = r]
<1>2. /\ jb \in [Diids -> Txjob \cup {Gone}] /\ q \in [Units -> Seq(Diids)]
      /\ Homed(jb, q) /\ Once(q) /\ Following(jb, q) /\ Ordered(jb, q, X) /\ HeadSent(jb, q, X)
  BY DEF Queues
<1>3. /\ s \in Seq(Diids) /\ Len(s) \in Nat /\ DOMAIN s = 1 .. Len(s)
      /\ \A i \in 1 .. Len(s) : s[i] \in Diids /\ jb[s[i]].unit = u /\ jb[s[i]] # Gone
      /\ (s = <<>>) = (Len(s) = 0)
  BY QueueOf
<1>4. n \in 1 .. Len(s) /\ n \in Nat /\ d \in Diids /\ jb[d].unit = u /\ jb[d] # Gone
  BY <1>3
<1>5. /\ DOMAIN r = 1 .. Len(r) /\ Len(r) \in Nat /\ Len(r) = Len(s) - 1 /\ (r = <<>>) = (Len(r) = 0)
      /\ \A i \in 1 .. Len(r) : r[i] = IF i < n THEN s[i] ELSE s[i + 1]
  <2>1. DOMAIN r = 1 .. Len(r) /\ Len(r) \in Nat /\ (r = <<>>) = (Len(r) = 0)
    BY QueueShape, Zenon
  <2>2. Len(r) = Len(s) - 1 /\ \A i \in 1 .. Len(s) - 1 : r[i] = IF i < n THEN s[i] ELSE s[i + 1]
    OBVIOUS
  <2> HIDE DEF s
  <2> QED
    BY <2>1, <2>2
<1>6. /\ jn \in [Diids -> Txjob \cup {Gone}] /\ jn[d] = Gone
      /\ \A e \in Diids : e # d => jn[e] = jb[e]
  BY <1>2, <1>4
<1>7. qn \in [Units -> Seq(Diids)] /\ qn[u] = r /\ \A v \in Units : v # u => qn[v] = q[v]
  BY <1>2
<1>8. \A m, k \in 1 .. Len(s) : s[m] = s[k] => m = k
  BY <1>2, <1>3 DEF Once
<1> DEFINE f(i) == IF i < n THEN i ELSE i + 1
<1>9. ASSUME NEW i \in 1 .. Len(r) PROVE f(i) \in 1 .. Len(s) /\ f(i) # n /\ r[i] = s[f(i)] /\ s[f(i)] # d
  <2>1. i \in Int /\ i >= 1 /\ i <= Len(s) - 1 /\ Len(s) \in Int /\ n \in Int
    BY <1>3, <1>4, <1>5
  <2>2. f(i) \in 1 .. Len(s) /\ f(i) # n
    BY <2>1
  <2>3. r[i] = s[f(i)]
    BY <1>5
  <2> HIDE DEF f
  <2> QED
    BY <1>4, <1>8, <2>2, <2>3
<1>10. ASSUME NEW v \in Units, v # u
       PROVE  /\ q[v] \in Seq(Diids) /\ DOMAIN q[v] = 1 .. Len(q[v]) /\ Len(q[v]) \in Nat
              /\ \A i \in 1 .. Len(q[v]) : q[v][i] \in Diids /\ q[v][i] # d
  BY <1>4, <1>10, QueueOf
<1> HIDE DEF qn, jn, s, d
<1>11. Homed(jn, qn)
  <2> SUFFICES ASSUME NEW e \in Diids, NEW v \in Units
               PROVE  (\E i \in DOMAIN qn[v] : qn[v][i] = e) <=> (jn[e] # Gone /\ jn[e].unit = v)
    BY DEF Homed
  <2>1. (\E i \in DOMAIN q[v] : q[v][i] = e) <=> (jb[e] # Gone /\ jb[e].unit = v)
    BY <1>2 DEF Homed
  <2>2. CASE v # u
    BY <1>6, <1>7, <1>10, <2>1, <2>2
  <2>3. CASE v = u /\ e = d
    BY <1>5, <1>6, <1>7, <1>9, <2>3
  <2>4. CASE v = u /\ e # d
    <3>1. ASSUME NEW i \in DOMAIN s, s[i] = e PROVE \E k \in DOMAIN r : r[k] = e
      <4>1. i \in 1 .. Len(s) /\ i # n
        BY <1>3, <2>4, <3>1 DEF d
      <4>2. i \in Int /\ i >= 1 /\ i <= Len(s) /\ Len(s) \in Int /\ n \in Int /\ n <= Len(s) /\ n >= 1
        BY <1>3, <1>4, <4>1
      <4>3. CASE i < n
        <5>1. i \in 1 .. Len(r)
          BY <1>5, <4>2, <4>3
        <5> QED
          BY <1>5, <3>1, <4>3, <5>1
      <4>4. CASE i > n
        <5>1. i - 1 \in 1 .. Len(r) /\ ~(i - 1 < n) /\ (i - 1) + 1 = i
          BY <1>5, <4>2, <4>4
        <5>2. r[i - 1] = s[i]
          BY <1>5, <5>1
        <5> QED
          BY <1>5, <3>1, <5>1, <5>2
      <4> QED
        BY <4>1, <4>2, <4>3, <4>4
    <3>2. ASSUME NEW k \in DOMAIN r, r[k] = e PROVE \E i \in DOMAIN s : s[i] = e
      BY <1>3, <1>5, <1>9, <3>2
    <3> QED
      BY <1>6, <1>7, <2>1, <2>4, <3>1, <3>2 DEF s
  <2> QED
    BY <2>2, <2>3, <2>4
<1>12. Once(qn)
  <2> SUFFICES ASSUME NEW v \in Units, NEW i \in DOMAIN qn[v], NEW k \in DOMAIN qn[v],
                      qn[v][i] = qn[v][k]
               PROVE  i = k
    BY DEF Once
  <2>1. CASE v # u
    BY <1>2, <1>7, <2>1 DEF Once
  <2>2. CASE v = u
    <3>1. i \in 1 .. Len(r) /\ k \in 1 .. Len(r) /\ r[i] = r[k] /\ i \in Int /\ k \in Int /\ n \in Int
      BY <1>4, <1>5, <1>7, <2>2
    <3>2. f(i) = f(k)
      <4>1. f(i) \in 1 .. Len(s) /\ r[i] = s[f(i)] /\ f(k) \in 1 .. Len(s) /\ r[k] = s[f(k)]
        BY <1>9, <3>1
      <4> HIDE DEF f
      <4> QED
        BY <1>8, <3>1, <4>1
    <3> QED
      BY <3>1, <3>2
  <2> QED
    BY <2>1, <2>2
<1>13. Following(jn, qn)
  <2> SUFFICES ASSUME NEW v \in Units, NEW i \in 2 .. Len(qn[v])
               PROVE  jn[qn[v][i]].phase = "waiting"
    BY DEF Following
  <2>1. CASE v # u
    <3>1. i \in 2 .. Len(q[v]) /\ i \in 1 .. Len(q[v])
      BY <1>7, <1>10, <2>1
    <3>2. jb[q[v][i]].phase = "waiting"
      BY <1>2, <3>1 DEF Following
    <3> QED
      BY <1>6, <1>7, <1>10, <2>1, <3>1, <3>2
  <2>2. CASE v = u
    <3>1. i \in 1 .. Len(r) /\ i > 1 /\ i \in Int /\ n \in Int
      BY <1>4, <1>5, <1>7, <2>2
    <3>2. f(i) \in 1 .. Len(s) /\ r[i] = s[f(i)] /\ s[f(i)] # d /\ f(i) > 1
      BY <1>9, <3>1
    <3> HIDE DEF f
    <3>3. f(i) \in 2 .. Len(s)
      BY <1>3, <3>2
    <3>4. jb[s[f(i)]].phase = "waiting"
      BY <1>2, <3>3 DEF Following, s
    <3> QED
      BY <1>3, <1>6, <1>7, <2>2, <3>2, <3>4
  <2> QED
    BY <2>1, <2>2
<1>14. Ordered(jn, qn, X)
  <2> SUFFICES ASSUME NEW v \in Units, NEW i \in 2 .. Len(qn[v]), i > 2 \/ v \notin X
               PROVE  jn[qn[v][i - 1]].txtime <= jn[qn[v][i]].txtime
    BY DEF Ordered
  <2>1. CASE v # u
    <3>1. i \in 2 .. Len(q[v]) /\ i \in 1 .. Len(q[v]) /\ i - 1 \in 1 .. Len(q[v])
      BY <1>7, <1>10, <2>1
    <3>2. jb[q[v][i - 1]].txtime <= jb[q[v][i]].txtime
      BY <1>2, <3>1 DEF Ordered
    <3> QED
      BY <1>6, <1>7, <1>10, <2>1, <3>1, <3>2
  <2>2. CASE v = u
    <3>1. i \in 1 .. Len(r) /\ i - 1 \in 1 .. Len(r) /\ i >= 2 /\ i \in Int /\ n \in Int
      BY <1>4, <1>5, <1>7, <2>2
    <3>2. i - 1 >= n /\ f(i) = i + 1 /\ f(i - 1) = i
      BY <2>2, <3>1
    <3>3. r[i] = s[i + 1] /\ r[i - 1] = s[i] /\ s[i + 1] # d /\ s[i] # d
      BY <1>9, <3>1, <3>2
    <3>4. i + 1 \in 2 .. Len(s) /\ i \in 1 .. Len(s) /\ i + 1 \in 1 .. Len(s) /\ (i + 1) - 1 = i
      BY <1>3, <1>5, <3>1
    <3>5. i + 1 > 2
      BY <3>1
    <3>6. jb[s[i]].txtime <= jb[s[i + 1]].txtime
      BY <1>2, <3>4, <3>5 DEF Ordered, s
    <3> QED
      BY <1>3, <1>6, <1>7, <2>2, <3>3, <3>4, <3>6
  <2> QED
    BY <2>1, <2>2
<1>15. HeadSent(jn, qn, X)
  <2> SUFFICES ASSUME NEW v \in X
               PROVE  qn[v] # <<>> /\ jn[qn[v][1]].phase = "txing"
    BY DEF HeadSent
  <2>1. v \in Units /\ q[v] # <<>> /\ jb[q[v][1]].phase = "txing"
    BY <1>2 DEF HeadSent
  <2>2. CASE v # u
    <3>1. 1 \in 1 .. Len(q[v])
      BY <1>10, <2>1, <2>2
    <3> QED
      BY <1>6, <1>7, <1>10, <2>1, <2>2, <3>1
  <2>3. CASE v = u
    <3>1. n = 2 /\ 1 \in 1 .. Len(r)
      BY <1>3, <1>4, <1>5, <2>3
    <3>2. f(1) = 1
      BY <3>1
    <3>3. r[1] = s[1] /\ r # <<>> /\ s[1] # d /\ 1 \in 1 .. Len(s)
      BY <1>3, <1>5, <1>9, <3>1, <3>2
    <3> QED
      BY <1>3, <1>6, <1>7, <2>1, <2>3, <3>3 DEF s
  <2> QED
    BY <2>2, <2>3
<1> QED
  BY <1>6, <1>7, <1>11, <1>12, <1>13, <1>14, <1>15 DEF Queues, qn, jn, d, s

(* The head of a queue is started or seen to be sent. *)
LEMMA ChangeHead ==
  ASSUME NEW jb, NEW q, NEW X \in SUBSET Units, Queues(jb, q, X), NEW u \in Units, q[u] # <<>>,
         NEW j \in Txjob, j.unit = u, NEW Y \in SUBSET Units,
         \/ Y = X \cup {u} /\ j.phase = "txing"
         \/ Y = X /\ u \notin X /\ j.txtime = jb[q[u][1]].txtime
  PROVE  Queues([jb EXCEPT ![q[u][1]] = j], q, Y)
<1> DEFINE d == q[u][1]
           jn == [jb EXCEPT ![d] = j]
<1>1. /\ jb \in [Diids -> Txjob \cup {Gone}] /\ q \in [Units -> Seq(Diids)]
      /\ Homed(jb, q) /\ Once(q) /\ Following(jb, q) /\ Ordered(jb, q, X) /\ HeadSent(jb, q, X)
  BY DEF Queues
<1>2. /\ d \in Diids /\ jb[d].unit = u /\ jb[d] # Gone /\ j # Gone
      /\ 1 \in 1 .. Len(q[u]) /\ DOMAIN q[u] = 1 .. Len(q[u])
  BY QueueOf, TxjobNotGone
<1>3. /\ jn \in [Diids -> Txjob \cup {Gone}] /\ jn[d] = j
      /\ \A e \in Diids : e # d => jn[e] = jb[e]
  BY <1>1, <1>2
<1> HIDE DEF jn
<1>4. Homed(jn, q)
  BY <1>1, <1>2, <1>3 DEF Homed
<1>5. ASSUME NEW v \in Units, NEW i \in 1 .. Len(q[v]), q[v][i] = d PROVE v = u /\ i = 1
  <2>1. jb[d].unit = v
    BY <1>5, QueueOf
  <2> QED
    BY <1>1, <1>2, <1>5, <2>1 DEF Once
<1>6. ASSUME NEW v \in Units, NEW i \in 2 .. Len(q[v])
      PROVE  /\ i \in 1 .. Len(q[v]) /\ i - 1 \in 1 .. Len(q[v]) /\ q[v][i] # d
             /\ jn[q[v][i]] = jb[q[v][i]]
             /\ i - 1 > 1 \/ v # u => jn[q[v][i - 1]] = jb[q[v][i - 1]]
             /\ v = u /\ u \notin Y => jn[q[v][i - 1]].txtime = jb[q[v][i - 1]].txtime
  <2>1. Len(q[v]) \in Nat /\ \A m \in 1 .. Len(q[v]) : q[v][m] \in Diids
    BY QueueOf
  <2>2. i \in 1 .. Len(q[v]) /\ i - 1 \in 1 .. Len(q[v]) /\ i # 1 /\ i \in Int
    BY <2>1
  <2>3. q[v][i] # d /\ jn[q[v][i]] = jb[q[v][i]]
    BY <1>3, <1>5, <2>1, <2>2
  <2>4. i - 1 > 1 \/ v # u => jn[q[v][i - 1]] = jb[q[v][i - 1]]
    <3>1. i - 1 > 1 => i - 1 # 1
      BY <2>2
    <3> QED
      BY <1>3, <1>5, <2>1, <2>2, <3>1
  <2>5. v = u /\ u \notin Y => jn[q[v][i - 1]].txtime = jb[q[v][i - 1]].txtime
    <3> SUFFICES ASSUME v = u, u \notin Y PROVE jn[q[v][i - 1]].txtime = jb[q[v][i - 1]].txtime
      OBVIOUS
    <3>1. CASE q[v][i - 1] = d
      BY <1>3, <3>1
    <3>2. CASE q[v][i - 1] # d
      BY <1>3, <2>1, <2>2, <3>2
    <3> QED
      BY <3>1, <3>2
  <2> QED
    BY <2>2, <2>3, <2>4, <2>5
<1>7. Following(jn, q)
  BY <1>1, <1>6 DEF Following
<1>8. Ordered(jn, q, Y)
  <2> SUFFICES ASSUME NEW v \in Units, NEW i \in 2 .. Len(q[v]), i > 2 \/ v \notin Y
               PROVE  jn[q[v][i - 1]].txtime <= jn[q[v][i]].txtime
    BY DEF Ordered
  <2>1. i \in Int /\ (i > 2 => i - 1 > 1)
    <3>1. i \in Int
      OBVIOUS
    <3> QED
      BY <3>1
  <2>2. i > 2 \/ v \notin X
    OBVIOUS
  <2>3. jb[q[v][i - 1]].txtime <= jb[q[v][i]].txtime
    BY <1>1, <2>2 DEF Ordered
  <2>4. jn[q[v][i - 1]].txtime = jb[q[v][i - 1]].txtime /\ jn[q[v][i]] = jb[q[v][i]]
    BY <1>6, <2>1
  <2> QED
    BY <2>3, <2>4
<1>9. HeadSent(jn, q, Y)
  <2> SUFFICES ASSUME NEW v \in Y
               PROVE  q[v] # <<>> /\ jn[q[v][1]].phase = "txing"
    BY DEF HeadSent
  <2>1. CASE v = u
    BY <1>3, <2>1
  <2>2. CASE v # u
    <3>1. v \in X /\ v \in Units /\ q[v] # <<>> /\ jb[q[v][1]].phase = "txing"
      BY <1>1, <2>2 DEF HeadSent
    <3>2. 1 \in 1 .. Len(q[v]) /\ q[v][1] \in Diids
      BY <3>1, QueueOf
    <3> QED
      BY <1>3, <1>5, <2>2, <3>1, <3>2
  <2> QED
    BY <2>1, <2>2
<1> QED
  BY <1>1, <1>3, <1>4, <1>7, <1>8, <1>9 DEF Queues, jn, d

(* A head that does not overlap with the next job is in order. *)
LEMMA SettleHead ==
  ASSUME NEW jb, NEW q, NEW X \in SUBSET Units, Queues(jb, q, X), NEW u \in Units,
         Len(q[u]) > 1 => jb[q[u][1]].txtime <= jb[q[u][2]].txtime
  PROVE  Queues(jb, q, X \ {u})
<1>1. ASSUME NEW v \in Units, NEW i \in 2 .. Len(q[v]), i > 2 \/ v \notin X \ {u}
      PROVE  jb[q[v][i - 1]].txtime <= jb[q[v][i]].txtime
  <2>1. CASE i > 2 \/ v \notin X
    BY <2>1 DEF Queues, Ordered
  <2>2. CASE i = 2 /\ v = u
    <3>1. Len(q[u]) \in Nat
      BY QueueOf
    <3>2. Len(q[u]) > 1 /\ i - 1 = 1
      BY <2>2, <3>1
    <3> QED
      BY <2>2, <3>2
  <2>3. i \in Int /\ i >= 2
    OBVIOUS
  <2> QED
    BY <1>1, <2>1, <2>2, <2>3
<1> QED
  BY <1>1 DEF Queues, Ordered, HeadSent
-----------------------------------------------------------------------------
(* The state of the clocks that the lemmas about jobs need *)
Clocks == now \in Nat /\ synced \subseteq Units /\ (Units \ UnsyncedAtStart) \subseteq synced

(* jb are the jobs without the one that was unqueued. *)
Without(jb, d) == jb = [job EXCEPT ![d] = Gone]

(* Job j of frame d entered queues q of the jobs jb, or was dropped. *)
Settled(d, j, q, jb, X) ==
  /\ Queues(job', queue', X)
  /\ job' = [job EXCEPT ![d] = job'[d]] /\ \A e \in Diids : e # d => job'[e] = job[e]
  /\ \/ job'[d] = Gone
     \/ /\ job'[d] \in Txjob /\ job'[d].phase = "waiting" /\ j # Dropped
        /\ \A a \in Asked : Serves(j, a) => Serves(job'[d], a)
  /\ \A v \in Units : queue'[v] # <<>> /\ job'[queue'[v][1]].phase # "waiting"
       => q[v] # <<>> /\ queue'[v][1] = q[v][1] /\ q[v][1] # d
  /\ \A B \in SUBSET Units : Timers(jb, q, timer, B) => Timers(job', queue', timer', B)

(* s2e_addTxjob keeps the queues sound and a frame in the air at its head, *)
(* and it sets the timer of a unit that has a new head.                    *)
LEMMA AddJob ==
  ASSUME Clocks, job \in [Diids -> Txjob \cup {Gone}],
         NEW q, NEW X \in SUBSET Units, NEW d \in Diids, NEW jb, Without(jb, d),
         Queues(jb, q, X), NEW j, j = Dropped \/ (j \in Txjob /\ j.phase = "waiting"),
         AddTxjob(d, j, q)
  PROVE  Settled(d, j, q, jb, X)
<1> DEFINE p == IF j = Dropped THEN Dropped ELSE Placement(j, q)
           pos == Position(p.txtime, q[p.unit])
           u == p.unit
           s == q[u]
<1>1. /\ job' = [job EXCEPT ![d] = p]
      /\ IF p = Dropped THEN queue' = q /\ timer' = timer
         ELSE /\ queue' = [q EXCEPT ![u] = InsertAt(@, pos, d)]
              /\ timer' = Kicked(u, pos)
  BY DEF AddTxjob
<1>2. p # Dropped => /\ p \in Txjob /\ p.phase = "waiting" /\ j # Dropped
                     /\ \A a \in Asked : Serves(j, a) => Serves(p, a)
                     /\ ~Collides(p, q[p.unit])
  BY PlacementJob DEF Clocks
<1> HIDE DEF p
<1>3. job' = [jb EXCEPT ![d] = p] /\ job'[d] = p /\ \A e \in Diids : e # d => job'[e] = job[e] /\ jb[e] = job[e]
  BY <1>1 DEF Without
<1>4. jb[d] = Gone /\ Gone.phase = "gone"
  BY DEF Gone, Without
<1>5. ASSUME NEW v \in Units
      PROVE  /\ q[v] \in Seq(Diids) /\ Len(q[v]) \in Nat /\ (q[v] = <<>>) = (Len(q[v]) = 0)
             /\ DOMAIN q[v] = 1 .. Len(q[v])
             /\ \A i \in 1 .. Len(q[v]) : /\ q[v][i] \in Diids /\ q[v][i] # d
                                          /\ jb[q[v][i]] = job[q[v][i]] /\ job'[q[v][i]] = job[q[v][i]]
                                          /\ job[q[v][i]] \in Txjob
  <2>1. /\ q[v] \in Seq(Diids) /\ Len(q[v]) \in Nat /\ (q[v] = <<>>) = (Len(q[v]) = 0)
        /\ DOMAIN q[v] = 1 .. Len(q[v])
        /\ \A i \in 1 .. Len(q[v]) : q[v][i] \in Diids /\ jb[q[v][i]] # Gone /\ jb[q[v][i]] \in Txjob
    BY QueueOf
  <2> QED
    BY <1>3, <1>4, <2>1
<1>6. CASE p = Dropped
  <2>1. queue' = q /\ timer' = timer /\ job'[d] = Gone
    BY <1>1, <1>3, <1>6 DEF Dropped
  <2>2. job' = jb
    <3>1. p = Gone
      BY <1>6 DEF Dropped
    <3> QED
      BY <1>1, <3>1 DEF Without
  <2>3. ASSUME NEW v \in Units, q[v] # <<>> PROVE q[v][1] # d
    BY <1>5, <2>3
  <2> QED
    BY <1>1, <1>3, <2>1, <2>2, <2>3 DEF Settled
<1>7. CASE p # Dropped
  <2>1. p \in Txjob /\ p.phase = "waiting" /\ u \in Units /\ p.txtime \in Int
    BY <1>2, <1>7, TxjobNotGone
  <2> HIDE DEF u
  <2>2. \A i \in 1 .. Len(s) : job[s[i]].txtime \in Int /\ jb[s[i]] = job[s[i]]
    BY <1>5, <2>1, TxjobNotGone
  <2>3. /\ pos \in 1 .. Len(s) + 1
        /\ \A i \in 1 .. Len(s) : i < pos => job[s[i]].txtime <= p.txtime
        /\ pos <= Len(s) => p.txtime < job[s[pos]].txtime
    <3>1. s \in Seq(Diids) /\ \A i \in DOMAIN s : job[s[i]].txtime \in Int
      BY <1>5, <2>1, <2>2
    <3>2. pos = Position(p.txtime, s)
      BY DEF u
    <3> HIDE DEF s, pos
    <3> QED
      BY <2>1, <3>1, <3>2, PositionIs
  <2>4. s # <<>> /\ jb[s[1]].phase # "waiting" => pos > 1
    <3> SUFFICES ASSUME s # <<>>, jb[s[1]].phase # "waiting", pos = 1 PROVE FALSE
      BY <1>5, <2>1, <2>3
    <3>1. 1 \in 1 .. Len(s) /\ jb[s[1]] = job[s[1]] /\ job[s[1]] \in Txjob
      BY <1>5, <2>1
    <3>2. p.txtime < job[s[1]].txtime
      BY <1>5, <2>1, <2>3, <3>1
    <3>3. ~(p.txtime < End(job[s[1]]) + TX_MIN_GAP)
      BY <1>2, <1>7, <3>1 DEF Collides, u
    <3>4. End(job[s[1]]) \in Int /\ End(job[s[1]]) >= job[s[1]].txtime /\ job[s[1]].txtime \in Int
      <4>1. job[s[1]].txtime \in Int /\ Airtime[job[s[1]].chnl] \in Nat
        BY <3>1, TimesAssumption, SMTT(30) DEF Txjob
      <4> QED
        BY <4>1 DEF End
    <3>5. TX_MIN_GAP \in Nat
      BY TimesAssumption
    <3> QED
      BY <2>1, <3>2, <3>3, <3>4, <3>5
  <2> DEFINE r == InsertAt(s, pos, d)
  <2>5. queue' = [q EXCEPT ![u] = r] /\ timer' = Kicked(u, pos)
    BY <1>1, <1>7
  <2>6. Queues(job', queue', X)
    <3>1. \A i \in 1 .. Len(s) : i < pos => jb[s[i]].txtime <= p.txtime
      BY <2>2, <2>3
    <3>2. pos <= Len(s) => p.txtime < jb[s[pos]].txtime
      BY <1>5, <2>1, <2>2, <2>3
    <3> DEFINE ps == pos
    <3>3. /\ ps \in 1 .. Len(q[p.unit]) + 1
          /\ \A i \in 1 .. Len(q[p.unit]) : i < ps => jb[q[p.unit][i]].txtime <= p.txtime
          /\ ps <= Len(q[p.unit]) => p.txtime < jb[q[p.unit][ps]].txtime
          /\ q[p.unit] # <<>> /\ jb[q[p.unit][1]].phase # "waiting" => ps > 1
          /\ job' = [jb EXCEPT ![d] = p]
          /\ queue' = [q EXCEPT ![p.unit] = InsertAt(@, ps, d)]
      BY <1>3, <2>3, <2>4, <2>5, <3>1, <3>2 DEF u
    <3> HIDE DEF ps
    <3>4. Queues([jb EXCEPT ![d] = p], [q EXCEPT ![p.unit] = InsertAt(@, ps, d)], X)
      BY <1>4, <2>1, <3>3, EnterQueues
    <3> QED
      BY <3>3, <3>4
  <2>7. /\ r # <<>> /\ (pos = 1 => r[1] = d) /\ (pos > 1 => s # <<>> /\ r[1] = s[1])
    <3>1. s \in Seq(Diids) /\ Len(s) \in Nat /\ (s = <<>>) = (Len(s) = 0)
      BY <1>5, <2>1
    <3>2. pos \in 1 .. Len(s) + 1
      BY <2>3
    <3> HIDE DEF pos, s
    <3>3. r \in Seq(Diids) /\ Len(r) = Len(s) + 1
      BY <3>1, <3>2, Inserted
    <3>4. r # <<>>
      <4> HIDE DEF r
      <4> QED
        BY <3>1, <3>3
    <3>5. 1 \in 1 .. Len(s) + 1
      BY <3>1
    <3>6. r[1] = IF 1 < pos THEN s[1] ELSE IF 1 = pos THEN d ELSE s[1 - 1]
      BY <3>1, <3>2, <3>5, Inserted
    <3> HIDE DEF r
    <3> QED
      BY <3>1, <3>2, <3>4, <3>6
  <2>8. queue'[u] = r /\ \A v \in Units : v # u => queue'[v] = q[v]
    <3>1. q \in [Units -> Seq(Diids)]
      BY DEF Queues
    <3> HIDE DEF r
    <3> QED
      BY <2>1, <2>5, <3>1
  <2>9. pos \in Int /\ (pos = 1 \/ pos > 1)
    <3>1. Len(s) \in Nat
      BY <1>5, <2>1
    <3> HIDE DEF pos, s
    <3> QED
      BY <2>3, <3>1
  <2> HIDE DEF r, pos
  <2>10. ASSUME NEW v \in Units, queue'[v] # <<>>, job'[queue'[v][1]].phase # "waiting"
         PROVE  q[v] # <<>> /\ queue'[v][1] = q[v][1] /\ q[v][1] # d
    <3>1. v # u => q[v] # <<>> /\ queue'[v][1] = q[v][1]
      BY <2>8, <2>10
    <3>2. v = u => q[v] # <<>> /\ queue'[v][1] = q[v][1]
      BY <1>3, <2>1, <2>7, <2>8, <2>9, <2>10
    <3> QED
      BY <1>5, <3>1, <3>2
  <2>11. ASSUME NEW B \in SUBSET Units, Timers(jb, q, timer, B)
         PROVE  Timers(job', queue', timer', B)
    <3>1. timer \in [Units -> Nat \cup {Off}] /\ \A v \in Units \ B : q[v] # <<>> => Timely(jb, q, timer, v)
      BY <2>11 DEF Timers
    <3>2. now \in Nat /\ now # Off
      BY DEF Clocks, Off
    <3>3. /\ timer' \in [Units -> Nat \cup {Off}]
          /\ \A v \in Units : v # u \/ pos # 1 => timer'[v] = timer[v]
          /\ pos = 1 => timer'[u] = now
      BY <2>1, <2>5, <3>1, <3>2 DEF Kicked
    <3>4. ASSUME NEW v \in Units \ B, queue'[v] # <<>>
          PROVE  Timely(job', queue', timer', v)
      <4>1. CASE v = u /\ pos = 1
        BY <1>3, <2>1, <2>7, <2>8, <3>2, <3>3, <4>1 DEF Timely
      <4>2. CASE v # u \/ pos # 1
        <5>1. q[v] # <<>> /\ queue'[v][1] = q[v][1]
          BY <2>7, <2>8, <2>9, <3>4, <4>2
        <5>2. job'[queue'[v][1]] = jb[q[v][1]]
          <6>1. 1 \in 1 .. Len(q[v])
            BY <1>5, <5>1
          <6> QED
            BY <1>5, <5>1, <6>1
        <5> QED
          BY <3>1, <3>3, <4>2, <5>1, <5>2 DEF Timely
      <4> QED
        BY <4>1, <4>2
    <3> QED
      BY <3>3, <3>4 DEF Timers
  <2> QED
    BY <1>1, <1>2, <1>3, <1>7, <2>1, <2>6, <2>10, <2>11 DEF Settled
<1> QED
  BY <1>6, <1>7
-----------------------------------------------------------------------------
(* Jobs and frames over a step *)

(* A TX time is for good, a clock in sync stays so. *)
LEMMA ServesStill ==
  ASSUME synced \subseteq synced', \A d \in 1 .. jobs : asked[d] \in Asked,
         NEW d \in 1 .. jobs, job'[d] = job[d], asked'[d] = asked[d], Serves(job[d], asked[d])
  PROVE  Serves(job[d], asked[d])'
<1>1. OnClock(job[d]) => OnClock(job[d])'
  BY DEF OnClock
<1> QED
  BY <1>1 DEF Serves, OnGps, InWindowA, InWindowC

(* A job that is not in the air, or whose frame is aborted, is placed.     *)
LEMMA Placed ==
  ASSUME Types, SentInv, DntxedInv, JobsInv, NoOverlap, ChnlInv,
         NEW d \in Diids, job[d].phase # "checked", job[d] = Gone => d > jobs,
         jobs' \in Nat, jobs <= jobs', 1 .. jobs' = (1 .. jobs) \cup {d},
         \A e \in Diids : e # d => job'[e] = job[e],
         job'[d] = Gone \/ (job'[d].phase = "waiting" /\ Serves(job'[d], asked'[d])),
         asked'[d] \in Asked, \A e \in Diids : e # d => asked'[e] = asked[e],
         sent' = {e \in sent : e.diid # d}, dntxed' = dntxed, dcChnl' = dcChnl,
         now' = now, synced' = synced
  PROVE  SentInv' /\ DntxedInv' /\ JobsInv' /\ NoOverlap' /\ ChnlInv'
<1>1. jobs \in Nat /\ 1 .. jobs \subseteq Diids /\ jobs \in Int
  BY TimesAssumption, SMTT(30) DEF Types, Diids
<1>2. job'[d].phase \in {"gone", "waiting"} /\ Gone.phase = "gone"
  BY DEF Gone
<1>3. ASSUME NEW e \in sent'
      PROVE  e \in sent /\ e.diid \in Diids /\ e.diid # d /\ job'[e.diid] = job[e.diid] /\ OnAir(e)
  BY <1>1 DEF SentInv, OnAir
<1>4. SentInv'
  <2>1. ASSUME NEW e \in sent' PROVE OnAir(e)'
    BY <1>3 DEF OnAir, Gone
  <2>2. ASSUME NEW e \in Diids, job'[e].phase \in {"txing", "checked"}
        PROVE  \E f \in sent' : f.diid = e
    BY <1>2, <2>2 DEF SentInv
  <2>3. \A e, f \in sent' : e.diid = f.diid => e = f
    BY DEF SentInv
  <2> QED
    BY <2>1, <2>2, <2>3 DEF SentInv
<1>5. DntxedInv'
  <2>1. ~Confirmed(d) /\ ~Confirmed(d)'
    <3>1. job[d] = Gone => \A e \in sent : e.diid # d
      BY <1>1 DEF SentInv, OnAir
    <3>2. job[d].phase # "gone" \/ \A e \in sent : e.diid # d
      BY <3>1 DEF SentInv, OnAir
    <3> QED
      BY <3>2 DEF Confirmed
  <2>2. ASSUME NEW e \in Diids, e # d PROVE Confirmed(e)' = Confirmed(e)
    BY <2>2 DEF Confirmed
  <2> QED
    BY <2>1, <2>2 DEF DntxedInv
<1>6. JobsInv'
  <2>1. ASSUME NEW e \in 1 .. jobs', job'[e] # Gone PROVE asked'[e] \in Asked /\ Serves(job[e], asked[e])'
    <3>1. CASE e = d
      BY <2>1, <3>1 DEF Serves, OnClock, OnGps, InWindowA, InWindowC
    <3>2. CASE e # d
      BY <1>1, <2>1, <3>2, ServesStill DEF JobsInv
    <3> QED
      BY <3>1, <3>2
  <2>2. ASSUME NEW e \in 1 .. jobs' PROVE asked'[e] \in Asked
    BY <1>1 DEF JobsInv
  <2>3. ASSUME NEW e \in Diids, e > jobs' PROVE job'[e] = Gone
    <3>1. e # d /\ e > jobs
      BY <1>1, <2>3 DEF Diids
    <3> QED
      BY <3>1 DEF JobsInv
  <2> QED
    BY <2>1, <2>2, <2>3 DEF JobsInv
<1>7. NoOverlap'
  BY <1>3 DEF NoOverlap
<1>8. ChnlInv'
  <2>1. ChnlDutyCycle => ChnlDutyCycle'
    BY <1>3 DEF ChnlDutyCycle, Rested
  <2>2. ASSUME NEW e \in sent' PROVE Charged(e) => Charged(e)'
    BY <1>3 DEF Charged
  <2> QED
    BY <1>3, <2>1, <2>2 DEF ChnlInv
<1> QED
  BY <1>4, <1>5, <1>6, <1>7, <1>8
-----------------------------------------------------------------------------
(* The handler of unit u and the head of its queue *)

LEMMA Handling ==
  ASSUME Types, NEW u \in Units, Deciding(u)
  PROVE  Displacing = {} /\ Served = {u} /\ handler # <<>>
BY DEF Deciding, Displacing, Served

LEMMA Started ==
  ASSUME Types, NEW u \in Units, handler = <<"displace", u>>
  PROVE  Displacing = {u} /\ Served = {u} /\ ~Deciding(u)
BY DEF Deciding, Displacing, Served

LEMMA HeadIsJob ==
  ASSUME Types, QueuesInv, JobsInv, NEW u \in Units, NEW n \in 1 .. Len(queue[u])
  PROVE  /\ queue[u][n] \in Diids /\ queue[u][n] \in 1 .. jobs
         /\ job[queue[u][n]] \in Txjob /\ job[queue[u][n]].unit = u /\ job[queue[u][n]] # Gone
         /\ asked[queue[u][n]] \in Asked /\ Serves(job[queue[u][n]], asked[queue[u][n]])
         /\ n > 1 => job[queue[u][n]].phase = "waiting"
<1> DEFINE d == queue[u][n]
<1>1. d \in Diids /\ job[d] \in Txjob /\ job[d].unit = u /\ job[d] # Gone /\ Len(queue[u]) \in Nat
  BY QueueOf DEF QueuesInv
<1>2. d \in 1 .. jobs
  <2>1. d \in Int /\ d >= 1 /\ jobs \in Int
    BY <1>1, TimesAssumption DEF Diids, Types
  <2>2. ~(d > jobs)
    BY <1>1 DEF JobsInv
  <2> HIDE DEF d
  <2> QED
    BY <2>1, <2>2
<1>3. n > 1 => job[d].phase = "waiting"
  <2>1. n > 1 => n \in 2 .. Len(queue[u])
    BY <1>1
  <2> QED
    BY <2>1 DEF QueuesInv, Queues, Following
<1> QED
  BY <1>1, <1>2, <1>3 DEF JobsInv

(* The n-th job of u leaves its queue; what is left is sound, and the      *)
(* timers of the other units are right.                                    *)
LEMMA Unqueued ==
  ASSUME Types, QueuesInv, JobsInv, TimersInv, NEW u \in Units, NEW n \in 1 .. Len(queue[u]),
         (n = 1 /\ u \notin Displacing) \/ (n = 2 /\ u \in Displacing), u \in Served,
         NEW r, r = RemoveAt(queue[u], n) \/ (n = 1 /\ r = Tail(queue[u]))
  PROVE  /\ Queues([job EXCEPT ![queue[u][n]] = Gone], [queue EXCEPT ![u] = r], Displacing)
         /\ Timers([job EXCEPT ![queue[u][n]] = Gone], [queue EXCEPT ![u] = r], timer, Served)
         /\ n = 2 => r # <<>> /\ r[1] = queue[u][1]
         /\ n = 1 /\ r # <<>> => job[r[1]].phase = "waiting"
<1> DEFINE s == queue[u]
           d == s[n]
           jb == [job EXCEPT ![d] = Gone]
           q == [queue EXCEPT ![u] = r]
<1>1. Queues(job, queue, Displacing) /\ Displacing \in SUBSET Units
  BY DEF QueuesInv, Displacing
<1>2. s \in Seq(Diids) /\ Len(s) \in Nat /\ n \in 1 .. Len(s)
  BY <1>1, QueueOf
<1>3. /\ r \in Seq(Diids) /\ Len(r) = Len(s) - 1
      /\ \A i \in 1 .. Len(s) - 1 : r[i] = IF i < n THEN s[i] ELSE s[i + 1]
  <2> HIDE DEF s
  <2>1. CASE r = RemoveAt(s, n)
    BY <1>2, <2>1, Removed
  <2>2. CASE n = 1 /\ r = Tail(s)
    <3>1. s # <<>>
      BY <1>2, <2>2
    <3>2. Tail(s) \in Seq(Diids) /\ Len(Tail(s)) = Len(s) - 1 /\ \A i \in 1 .. Len(s) - 1 : Tail(s)[i] = s[i + 1]
      BY <1>2, <3>1
    <3>3. \A i \in 1 .. Len(s) - 1 : ~(i < 1)
      BY <1>2
    <3> QED
      BY <2>2, <3>2, <3>3
  <2> QED
    BY <2>1, <2>2 DEF s
<1>4. Queues(jb, q, Displacing)
  BY <1>1, <1>2, <1>3, LeaveQueues
<1>5. Timers(jb, q, timer, Served)
  <2>1. Timers(job, queue, timer, Served)
    BY DEF TimersInv
  <2>2. ASSUME NEW v \in Units \ Served, q[v] # <<>> PROVE Timely(jb, q, timer, v)
    <3>1. v # u /\ q[v] = queue[v]
      BY <1>1 DEF Queues
    <3>2. 1 \in 1 .. Len(queue[v]) /\ queue[v][1] \in Diids /\ job[queue[v][1]].unit = v
      BY <1>1, <2>2, <3>1, QueueOf
    <3>3. job[d].unit = u
      BY <1>1, <1>2, QueueOf
    <3>4. jb[queue[v][1]] = job[queue[v][1]]
      BY <1>1, <3>1, <3>2, <3>3 DEF Queues
    <3> QED
      BY <2>1, <2>2, <3>1, <3>4 DEF Timers, Timely
  <2> QED
    BY <2>1, <2>2 DEF Timers
<1>6. n = 2 => r # <<>> /\ r[1] = s[1]
  <2> SUFFICES ASSUME n = 2 PROVE r # <<>> /\ r[1] = s[1]
    OBVIOUS
  <2>1. 1 \in 1 .. Len(s) - 1 /\ 1 < n /\ Len(r) # 0
    BY <1>2, <1>3
  <2> QED
    BY <1>3, <2>1
<1>7. ASSUME n = 1, r # <<>> PROVE job[r[1]].phase = "waiting"
  <2>1. Len(r) # 0
    BY <1>3, <1>7
  <2>2. 1 \in 1 .. Len(s) - 1 /\ 1 + 1 = 2 /\ 2 \in 2 .. Len(s) /\ ~(1 < n)
    BY <1>2, <1>3, <1>7, <2>1
  <2>3. r[1] = s[2]
    BY <1>3, <2>2
  <2> QED
    BY <1>1, <2>2, <2>3 DEF Queues, Following
<1> QED
  BY <1>4, <1>5, <1>6, <1>7

(* The n-th job of u is unqueued and tried again as j. *)
LEMMA Relocated ==
  ASSUME IInv, NEW u \in Units, u \in Served, NEW n \in 1 .. Len(queue[u]),
         (n = 1 /\ u \notin Displacing) \/ (n = 2 /\ u \in Displacing),
         NEW r, r = RemoveAt(queue[u], n) \/ (n = 1 /\ r = Tail(queue[u])),
         NEW d, d = queue[u][n], job[d].phase # "checked",
         NEW j \in Txjob, j.phase = "waiting", Serves(j, asked[d]),
         Relocate(d, j, [queue EXCEPT ![u] = r]),
         sent' = {e \in sent : e.diid # d},
         UNCHANGED <<now, synced, jobs, dcChnl, handler, asked, dntxed>>
  PROVE  IInv'
<1>1. Types /\ QueuesInv /\ TimersInv /\ SentInv /\ DntxedInv /\ JobsInv /\ NoOverlap /\ ChnlInv
  BY DEF IInv
<1>2. /\ d \in Diids /\ d \in 1 .. jobs /\ job[d] # Gone /\ asked[d] \in Asked
      /\ job \in [Diids -> Txjob \cup {Gone}] /\ queue \in [Units -> Seq(Diids)]
  BY <1>1, HeadIsJob DEF QueuesInv, Queues
<1>3. Clocks
  BY <1>1 DEF Types, Clocks
<1> DEFINE k == NextAlternative(j)
           q == [queue EXCEPT ![u] = r]
           jb == [job EXCEPT ![d] = Gone]
<1>4. k = Dropped \/ (k \in Txjob /\ k.phase = "waiting" /\ Serves(k, asked[d]))
  BY <1>2, <1>3, NextAlternativeJob DEF Clocks
<1>5. /\ Queues(jb, q, Displacing) /\ Timers(jb, q, timer, Served) /\ Without(jb, d)
      /\ n = 1 /\ r # <<>> => job[r[1]].phase = "waiting"
      /\ Displacing \in SUBSET Units /\ Served \in SUBSET Units
  BY <1>1, Unqueued DEF Without, Displacing, Served
<1>6. AddTxjob(d, k, q)
  BY DEF Relocate
<1>7. q[u] = r
  BY <1>2
<1> HIDE DEF k, q, jb
<1>8. /\ Queues(job', queue', Displacing)
      /\ \A e \in Diids : e # d => job'[e] = job[e]
      /\ job'[d] = Gone \/ (job'[d] \in Txjob /\ job'[d].phase = "waiting" /\ Serves(job'[d], asked[d]))
      /\ \A v \in Units : queue'[v] # <<>> /\ job'[queue'[v][1]].phase # "waiting"
           => q[v] # <<>> /\ queue'[v][1] = q[v][1] /\ q[v][1] # d
      /\ Timers(job', queue', timer', Served)
  <2>1. k = Dropped \/ (k \in Txjob /\ k.phase = "waiting")
    BY <1>4
  <2>2. Settled(d, k, q, jb, Displacing)
    BY <1>2, <1>3, <1>5, <1>6, <2>1, AddJob
  <2> QED
    BY <1>2, <1>4, <1>5, <2>2 DEF Settled
<1>9. Types'
  BY <1>1 DEF Types
<1>10. QueuesInv'
  BY <1>8, SMTT(30) DEF QueuesInv, Displacing
<1>11. TimersInv'
  <2>1. Timers(job, queue, timer, Served)'
    BY <1>8 DEF Timers, Timely, Served, End
  <2>2. ASSUME NEW v \in Units, Deciding(v), queue'[v] # <<>>
        PROVE  job'[queue'[v][1]].phase = "waiting"
    <3> SUFFICES ASSUME job'[queue'[v][1]].phase # "waiting" PROVE FALSE
      OBVIOUS
    <3>1. v = u /\ n = 1
      BY <2>2 DEF Deciding, Served, Displacing
    <3>2. r # <<>> /\ queue'[u][1] = r[1] /\ r[1] # d
      BY <1>7, <1>8, <2>2, <3>1
    <3>3. r[1] \in Diids
      <4>1. 1 \in 1 .. Len(q[u]) /\ q[u][1] \in Diids
        BY <1>5, <1>7, <3>2, QueueOf
      <4> QED
        BY <1>7, <4>1
    <3> QED
      BY <1>5, <1>8, <3>1, <3>2, <3>3
  <2> QED
    <3>1. ASSUME NEW v \in Units, Deciding(v)', queue'[v] # <<>>
          PROVE  Due(job, queue, v)'
      <4>1. Deciding(v)
        BY <3>1 DEF Deciding
      <4>2. job'[queue'[v][1]].phase = "waiting"
        BY <2>2, <3>1, <4>1
      <4> QED
        BY <4>2 DEF Due
    <3> QED
      BY <2>1, <3>1 DEF TimersInv
<1>12. SentInv' /\ DntxedInv' /\ JobsInv' /\ NoOverlap' /\ ChnlInv'
  <2>1. 1 .. jobs' = (1 .. jobs) \cup {d} /\ jobs' \in Nat /\ jobs <= jobs'
    BY <1>1, <1>2 DEF Types
  <2>2. /\ asked'[d] \in Asked /\ \A e \in Diids : e # d => asked'[e] = asked[e]
        /\ asked'[d] = asked[d]
    BY <1>2
  <2> QED
    BY <1>1, <1>2, <1>8, <2>1, <2>2, Placed
<1> QED
  BY <1>9, <1>10, <1>11, <1>12 DEF IInv
-----------------------------------------------------------------------------
(* A frame is asked for *)

Ask(r) == [phase |-> "asked", cls |-> r.cls, t |-> now + r.lead,
           chnl |-> r.chnl, chnl2 |-> r.chnl2, deveui |-> r.deveui]

LEMMA MadeJob ==
  ASSUME Clocks, NEW r \in Requests
  PROVE  /\ Made(r) \in Loose /\ Sensible(Made(r)) /\ Ask(r) \in Asked
         /\ Made(r).cls = r.cls /\ Made(r).chnl = r.chnl /\ Made(r).chnl2 = r.chnl2
         /\ Made(r).unit = r.rctx /\ r.rctx \in Units
         /\ r.rctx \in synced => /\ Made(r).txtime = Made(r).gps
                                 /\ r.cls \in {"A", "C"} => Serves(Made(r), Ask(r))
                                 /\ r.cls \in {"P", "B"} /\ Made(r).gps >= TX_MIN_GAP => Serves(Made(r), Ask(r))
         /\ r.rctx \notin synced => /\ Made(r).xt = NoXtime
                                    /\ r.cls = "A" /\ ~InSync => Serves(Made(r), Ask(r))
<1> DEFINE m == Made(r)
           a == Ask(r)
           x == At(r.rctx, now + r.lead)
<1>1. /\ r.cls \in {"A", "C", "P", "B"} /\ r.rctx \in Units /\ r.lead \in Int
      /\ r.chnl \in Chnls \cup {NoChnl} /\ r.chnl2 \in Chnls \cup {NoChnl} /\ r.prio \in Nat
      /\ r.deveui \in BOOLEAN
  BY RequestsAssumption DEF Request
<1>2. now + r.lead \in Int /\ 0 \in Units /\ CLASS_C_BACKOFF_MAX \in Nat
      /\ AltAntennas[r.rctx] \in SUBSET Units
  BY <1>1, UnitsAssumption, TimesAssumption, SMTT(30) DEF Clocks, Units
<1>3. x \in Xtime
  BY <1>1, <1>2 DEF At, Xtime, NoXtime
<1>4. /\ m.cls = r.cls /\ m.rctx = r.rctx /\ m.unit = r.rctx /\ m.alts = AltAntennas[r.rctx]
      /\ m.txtime = x.t /\ m.xt = x /\ m.chnl = r.chnl /\ m.chnl2 = r.chnl2
      /\ m.deveui = r.deveui /\ m.gps = now + r.lead
  BY DEF Made
<1>5. m \in Loose
  <2>1. x.t \in Int /\ 0 \in 0 .. CLASS_C_BACKOFF_MAX + 1
    BY <1>2, <1>3 DEF Xtime
  <2> HIDE DEF x
  <2> QED
    BY <1>1, <1>2, <1>3, <2>1 DEF Made, Loose, x
<1>6. Sensible(m)
  BY <1>4, RequestsAssumption DEF Sensible
<1>7. a \in Asked
  BY <1>1, <1>2 DEF Ask, Asked
<1>8. /\ a.cls = r.cls /\ a.t = now + r.lead /\ a.chnl = r.chnl /\ a.chnl2 = r.chnl2
      /\ a.deveui = r.deveui
  BY DEF Ask
<1>9. r.cls = "B" => r.chnl2 = NoChnl
  BY RequestsAssumption
<1> HIDE DEF m, a
<1>10. ASSUME r.rctx \in synced
       PROVE  /\ m.txtime = m.gps
              /\ r.cls \in {"A", "C"} => Serves(m, a)
              /\ r.cls \in {"P", "B"} /\ m.gps >= TX_MIN_GAP => Serves(m, a)
  <2>1. x = [unit |-> r.rctx, t |-> now + r.lead, ok |-> TRUE]
    BY <1>10 DEF At
  <2>2. m.txtime = m.gps /\ m.txtime = a.t
    BY <1>4, <1>8, <2>1
  <2>3. InSync => OnClock(m)
    <3>1. InSync => AltAntennas[r.rctx] \subseteq synced
      BY <1>1, <1>2 DEF InSync, Clocks
    <3> QED
      BY <1>4, <1>10, <2>1, <3>1 DEF OnClock
  <2>4. InWindowA(m, a) /\ InWindowC(m, a)
    BY <1>4, <1>8, <2>2 DEF InWindowA, InWindowC
  <2>5. OnGps(m)
    <3>1. m.gps + 0 = m.gps
      BY <1>2, <1>4
    <3> QED
      BY <2>2, <3>1 DEF OnGps
  <2> QED
    BY <1>1, <1>4, <1>8, <1>9, <2>2, <2>3, <2>4, <2>5 DEF Serves
<1>11. ASSUME r.rctx \notin synced
       PROVE  m.xt = NoXtime /\ (r.cls = "A" /\ ~InSync => Serves(m, a))
  BY <1>4, <1>8, <1>11 DEF At, Serves
<1> QED
  BY <1>1, <1>4, <1>5, <1>6, <1>7, <1>10, <1>11 DEF m, a

LEMMA OpenedJob ==
  ASSUME Clocks, NEW r \in Requests, Opened(r) # Dropped
  PROVE  Opened(r) \in Txjob /\ Opened(r).phase = "waiting" /\ Serves(Opened(r), Ask(r))
<1> DEFINE m == Made(r)
           k == IF m.chnl = NoChnl THEN altTxTime(m) ELSE m
           a == Ask(r)
<1>1. /\ m \in Loose /\ Sensible(m) /\ a \in Asked
      /\ m.cls = r.cls /\ m.chnl = r.chnl /\ m.chnl2 = r.chnl2 /\ m.unit = r.rctx /\ r.rctx \in Units
      /\ r.rctx \in synced => /\ m.txtime = m.gps
                              /\ r.cls \in {"A", "C"} => Serves(m, a)
                              /\ r.cls \in {"P", "B"} /\ m.gps >= TX_MIN_GAP => Serves(m, a)
      /\ r.rctx \notin synced => m.xt = NoXtime /\ (r.cls = "A" /\ ~InSync => Serves(m, a))
  BY MadeJob
<1>2. now \in Nat /\ synced \subseteq Units /\ TX_MIN_GAP \in Nat /\ TX_AIM_GAP \in Nat /\ TX_AIM_GAP >= TX_MIN_GAP
  BY TimesAssumption DEF Clocks
<1>3. /\ k # Dropped /\ k.xt # NoXtime /\ ~(k.txtime > now + TX_MAX_AHEAD)
      /\ Opened(r) = IF k.txtime < Earliest THEN altTxTime(k) ELSE k
  BY DEF Opened
<1>4. r.cls = "B" => r.chnl2 = NoChnl
  BY RequestsAssumption
<1>5. m.cls \in {"A", "C", "P", "B"} /\ m.txtime \in Int
  BY <1>1 DEF Loose
<1> HIDE DEF m, a
<1>6. CASE r.cls \in {"P", "B"}
  <2>1. k = m /\ m.chnl # NoChnl
    BY <1>1, <1>6 DEF Sensible
  <2>2. altTxTime(m) = Dropped
    BY <1>1, <1>4, <1>6 DEF altTxTime
  <2>3. Opened(r) = m /\ ~(m.txtime < Earliest)
    BY <1>3, <2>1, <2>2
  <2>4. r.rctx \in synced
    BY <1>1, <1>3, <2>1
  <2>5. m.gps >= TX_MIN_GAP /\ m.txtime >= 0
    BY <1>1, <1>2, <1>5, <2>3, <2>4 DEF Earliest
  <2> QED
    BY <1>1, <1>6, <2>1, <2>3, <2>4, <2>5, LooseTxjob DEF m, a
<1>7. CASE r.cls \in {"A", "C"}
  <2>1. Serves(m, a)
    <3>1. CASE r.rctx \in synced
      BY <1>1, <1>7, <3>1
    <3>2. CASE r.rctx \notin synced
      <4>1. m.chnl = NoChnl /\ m.chnl2 # NoChnl /\ altTxTime(m) # Dropped
        BY <1>1, <1>3, <3>2 DEF Sensible
      <4>2. r.cls # "C"
        <5> SUFFICES ASSUME r.cls = "C" PROVE FALSE
          OBVIOUS
        <5>1. altTxTime(m) = RX2Anytime(m)
          BY <1>1, <4>1 DEF altTxTime
        <5> QED
          BY <1>1, <3>2, <4>1, <5>1 DEF RX2Anytime
      <4>3. ~InSync
        BY <1>1, <1>7, <3>2, <4>1, <4>2 DEF InSync, Clocks
      <4> QED
        BY <1>1, <1>7, <3>2, <4>2, <4>3
    <3> QED
      BY <3>1, <3>2
  <2>2. CASE m.chnl # NoChnl
    <3>1. k = m
      BY <2>2
    <3>2. CASE m.txtime < Earliest
      <4>1. Opened(r) = altTxTime(m)
        BY <1>3, <3>1, <3>2
      <4> QED
        BY <1>1, <1>2, <1>7, <2>1, <4>1, AltTxTime DEF m, a
    <3>3. CASE ~(m.txtime < Earliest)
      <4>1. Opened(r) = m /\ m.txtime >= 0
        BY <1>2, <1>3, <1>5, <3>1, <3>3 DEF Earliest
      <4> QED
        BY <1>1, <2>1, <2>2, <4>1, LooseTxjob DEF m, a
    <3> QED
      BY <3>2, <3>3
  <2>3. CASE m.chnl = NoChnl
    <3>1. k = altTxTime(m)
      BY <2>3
    <3>2. k \in Txjob /\ k.phase = "waiting" /\ Serves(k, a)
      BY <1>1, <1>2, <1>3, <1>7, <2>1, <3>1, AltTxTime
    <3> HIDE DEF k
    <3>3. k \in Loose /\ Sensible(k) /\ (k.cls = "B" => k.chnl2 = NoChnl)
      BY <3>2, WaitingLoose DEF Serves
    <3>4. CASE k.txtime < Earliest
      <4>1. Opened(r) = altTxTime(k)
        BY <1>3, <3>4
      <4> QED
        BY <1>1, <1>2, <3>2, <3>3, <4>1, AltTxTime DEF a
    <3>5. CASE ~(k.txtime < Earliest)
      BY <1>3, <3>2, <3>5 DEF a
    <3> QED
      BY <3>4, <3>5
  <2> QED
    BY <2>2, <2>3
<1> QED
  BY <1>1, <1>5, <1>6, <1>7

LEMMA ReceiveStep ==
  ASSUME IInv, NEW r \in Requests, Receive(r)
  PROVE  IInv'
<1> DEFINE d == jobs + 1
           k == Opened(r)
<1>1. Types /\ QueuesInv /\ TimersInv /\ SentInv /\ DntxedInv /\ JobsInv /\ NoOverlap /\ ChnlInv
  BY DEF IInv
<1>2. /\ handler = <<>> /\ jobs < MaxJobs /\ jobs' = jobs + 1
      /\ asked' = [asked EXCEPT ![d] = Ask(r)]
      /\ AddTxjob(d, k, queue)
      /\ UNCHANGED <<now, synced, dcBand, dcChnl, handler, sent, dntxed>>
  BY DEF Receive, Ask
<1>3. Clocks /\ jobs \in Nat /\ jobs \in Int /\ MaxJobs \in Int
  BY <1>1, TimesAssumption DEF Types, Clocks
<1>4. d \in Diids /\ d \in Nat /\ d > jobs
  BY <1>2, <1>3 DEF Diids
<1>5. job[d] = Gone /\ job \in [Diids -> Txjob \cup {Gone}] /\ asked \in [Diids -> Asked \cup {Gone}]
  BY <1>1, <1>4 DEF JobsInv, QueuesInv, Queues, Types
<1>6. Ask(r) \in Asked
  BY <1>3, MadeJob
<1>7. k = Dropped \/ (k \in Txjob /\ k.phase = "waiting" /\ Serves(k, Ask(r)))
  BY <1>3, OpenedJob
<1>8. /\ Queues(job, queue, Displacing) /\ Timers(job, queue, timer, Served) /\ Without(job, d)
      /\ Displacing = {} /\ Served = {}
  BY <1>1, <1>2, <1>5 DEF QueuesInv, TimersInv, Displacing, Served, Without
<1> HIDE DEF k, d
<1>9. /\ Queues(job', queue', {})
      /\ \A e \in Diids : e # d => job'[e] = job[e]
      /\ job'[d] = Gone \/ (job'[d] \in Txjob /\ job'[d].phase = "waiting" /\ Serves(job'[d], Ask(r)))
      /\ Timers(job', queue', timer', {})
  <2>1. Settled(d, k, queue, job, {})
    BY <1>2, <1>3, <1>4, <1>5, <1>7, <1>8, AddJob
  <2> QED
    BY <1>6, <1>7, <1>8, <2>1 DEF Settled
<1>10. Displacing' = {} /\ Served' = {} /\ \A v \in Units : ~Deciding(v)'
  BY <1>2 DEF Displacing, Served, Deciding
<1>11. Types'
  BY <1>1, <1>2, <1>3, <1>4, <1>5, <1>6 DEF Types, d
<1>12. QueuesInv'
  BY <1>9, <1>10 DEF QueuesInv
<1>13. TimersInv'
  BY <1>2, <1>9, <1>10 DEF TimersInv, Timers, Timely, End
<1>14. SentInv' /\ DntxedInv' /\ JobsInv' /\ NoOverlap' /\ ChnlInv'
  <2>1. 1 .. jobs' = (1 .. jobs) \cup {d} /\ jobs' \in Nat /\ jobs <= jobs'
    BY <1>2, <1>3 DEF d
  <2>2. sent' = {e \in sent : e.diid # d}
    <3>1. \A e \in sent : e.diid # d
      BY <1>1, <1>3, <1>4 DEF SentInv, OnAir
    <3> QED
      BY <1>2, <3>1
  <2>3. asked'[d] = Ask(r) /\ \A e \in Diids : e # d => asked'[e] = asked[e]
    BY <1>2, <1>4, <1>5
  <2>4. job[d].phase # "checked" /\ (job[d] = Gone => d > jobs)
    BY <1>4, <1>5 DEF Gone
  <2>5. job'[d] = Gone \/ (job'[d].phase = "waiting" /\ Serves(job'[d], asked'[d]))
    BY <1>9, <2>3
  <2> QED
    BY <1>1, <1>2, <1>4, <1>6, <1>9, <2>1, <2>2, <2>3, <2>4, <2>5, Placed
<1> QED
  BY <1>11, <1>12, <1>13, <1>14 DEF IInv
-----------------------------------------------------------------------------
(* The handler gives up on a job or tries it again *)

LEMMA NotOnAir ==
  ASSUME SentInv, NEW d, job[d].phase = "waiting"
  PROVE  \A e \in sent : e.diid # d
BY DEF SentInv, OnAir, Gone

LEMMA TxMissedStep ==
  ASSUME IInv, NEW u \in Units, TxMissed(u)
  PROVE  IInv'
<1> DEFINE d == queue[u][1]
           r == Tail(queue[u])
<1>1. Deciding(u) /\ queue[u] # <<>> /\ job[d].phase = "waiting"
  BY DEF TxMissed, HeadIs, Curr, HeadJob
<1>2. Displacing = {} /\ Served = {u}
  BY <1>1, Handling DEF IInv
<1>3. 1 \in 1 .. Len(queue[u])
  BY <1>1, QueueOf DEF IInv, QueuesInv
<1>4. job[d] \in Txjob /\ Serves(job[d], asked[d])
  BY <1>3, HeadIsJob DEF IInv
<1>5. /\ Relocate(d, job[d], [queue EXCEPT ![u] = r])
      /\ UNCHANGED <<now, synced, jobs, dcChnl, handler, asked, sent, dntxed>>
  BY DEF TxMissed, HeadJob, Curr, WithoutHead
<1>6. sent' = {e \in sent : e.diid # d}
  BY <1>1, <1>5, NotOnAir DEF IInv
<1> QED
  BY <1>1, <1>2, <1>3, <1>4, <1>5, <1>6, Relocated

LEMMA TxFailedStep ==
  ASSUME IInv, NEW u \in Units, TxFailed(u)
  PROVE  IInv'
<1> DEFINE d == queue[u][1]
           r == Tail(queue[u])
           j == [job[d] EXCEPT !.phase = "waiting"]
<1>1. Deciding(u) /\ queue[u] # <<>> /\ job[d].phase = "txing"
  BY DEF TxFailed, CheckDue, HeadIs, Curr, HeadJob
<1>2. Displacing = {} /\ Served = {u}
  BY <1>1, Handling DEF IInv
<1>3. 1 \in 1 .. Len(queue[u])
  BY <1>1, QueueOf DEF IInv, QueuesInv
<1>4. job[d] \in Txjob /\ Serves(job[d], asked[d])
  BY <1>3, HeadIsJob DEF IInv
<1>5. j \in Txjob /\ j.phase = "waiting"
  BY <1>4 DEF Txjob
<1>6. Serves(j, asked[d])
  <2>1. /\ j.cls = job[d].cls /\ j.deveui = job[d].deveui /\ j.chnl = job[d].chnl
        /\ j.chnl2 = job[d].chnl2 /\ j.gps = job[d].gps /\ j.txtime = job[d].txtime
        /\ j.xt = job[d].xt /\ j.unit = job[d].unit /\ j.rctx = job[d].rctx /\ j.alts = job[d].alts
    BY <1>4, SMTT(30) DEF Txjob
  <2> HIDE DEF j
  <2>2. /\ OnClock(job[d]) => OnClock(j)
        /\ OnGps(job[d]) => OnGps(j)
    BY <2>1 DEF OnClock, OnGps
  <2>3. /\ InWindowA(job[d], asked[d]) => InWindowA(j, asked[d])
        /\ InWindowC(job[d], asked[d]) => InWindowC(j, asked[d])
    BY <2>1 DEF InWindowA, InWindowC
  <2> QED
    BY <1>4, <2>1, <2>2, <2>3 DEF Serves
<1>7. /\ Relocate(d, j, [queue EXCEPT ![u] = r])
      /\ UNCHANGED <<now, synced, jobs, dcChnl, handler, asked, dntxed>>
      /\ sent' = {e \in sent : e.diid # d}
  BY DEF TxFailed, HeadJob, Curr, WithoutHead
<1> HIDE DEF j, d
<1> QED
  BY <1>1, <1>2, <1>3, <1>5, <1>6, <1>7, Relocated DEF d

LEMMA DisplaceStep ==
  ASSUME IInv, NEW u \in Units, Displace(u)
  PROVE  IInv'
<1> DEFINE d == queue[u][2]
           r == RemoveAt(queue[u], 2)
<1>1. handler = <<"displace", u>> /\ Len(queue[u]) > 1
  BY DEF Displace, Displaced
<1>2. Displacing = {u} /\ Served = {u}
  BY <1>1, Started DEF IInv
<1>3. 2 \in 1 .. Len(queue[u])
  <2>1. Len(queue[u]) \in Nat
    BY QueueOf DEF IInv, QueuesInv
  <2> QED
    BY <1>1, <2>1
<1>4. job[d] \in Txjob /\ Serves(job[d], asked[d]) /\ job[d].phase = "waiting"
  BY <1>3, HeadIsJob DEF IInv
<1>5. /\ Relocate(d, job[d], [queue EXCEPT ![u] = r])
      /\ UNCHANGED <<now, synced, jobs, dcChnl, handler, asked, sent, dntxed>>
  BY DEF Displace
<1>6. sent' = {e \in sent : e.diid # d}
  BY <1>4, <1>5, NotOnAir DEF IInv
<1> QED
  BY <1>2, <1>3, <1>4, <1>5, <1>6, Relocated

(* A job brought up to date is for the same channel of the same unit; with *)
(* an xtime, it is at its time on the clock of this unit, and no earlier   *)
(* than now.                                                               *)
LEMMA RecalculatedJob ==
  ASSUME Clocks, NEW j \in Txjob, j.phase = "waiting", NEW a \in Asked, Serves(j, a),
         NEW k \in Recalculated(j)
  PROVE  /\ k \in Txjob /\ k.phase = "waiting"
         /\ k.unit = j.unit /\ k.chnl = j.chnl
         /\ Serves(k, a)
         /\ k.xt # NoXtime =>
              /\ j.txtime - now >= TX_MIN_GAP => k.txtime >= now
              /\ j.cls \in {"P", "B"} => \E dt \in Drift : k.txtime = k.gps + dt
              /\ InSync => k.xt = [unit |-> k.unit, t |-> k.txtime, ok |-> TRUE]
              /\ j.cls \notin {"P", "B"} => k.txtime = j.txtime
<1>1. /\ j.unit \in Units /\ j.xt \in Xtime /\ j.txtime \in Nat /\ j.gps \in Int
      /\ j.cls \in {"A", "C", "P", "B"} /\ 0 \in Units
  BY UnitsAssumption DEF Txjob, Units
<1>2. now \in Nat /\ TX_MIN_GAP \in Nat \ {0} /\ Drift \subseteq Int /\ synced \subseteq Units
  BY TimesAssumption, DriftAssumption DEF Clocks
<1>3. CASE j.cls \notin {"P", "B"}
  <2> DEFINE x == OnUnit(j.xt, j.unit)
             m == [j EXCEPT !.xt = x]
  <2>1. k = m
    BY <1>3 DEF Recalculated
  <2>2. x \in Xtime
    BY <1>1, <1>2 DEF OnUnit, Xtime, NoXtime
  <2>3. OnClock(j) => x = [unit |-> j.unit, t |-> j.txtime, ok |-> TRUE]
    <3> SUFFICES ASSUME OnClock(j) PROVE x = [unit |-> j.unit, t |-> j.txtime, ok |-> TRUE]
      OBVIOUS
    <3>1. j.xt.ok = TRUE /\ j.xt.t = j.txtime /\ {j.xt.unit, j.unit} \subseteq synced
      BY <1>1 DEF OnClock, Xtime
    <3>2. j.xt = [unit |-> j.xt.unit, t |-> j.txtime, ok |-> TRUE]
      BY <1>1, <3>1 DEF Xtime
    <3>3. x = IF j.xt.unit = j.unit THEN j.xt ELSE [j.xt EXCEPT !.unit = j.unit]
      BY <3>1 DEF OnUnit
    <3> QED
      BY <1>1, <3>1, <3>2, <3>3 DEF Xtime
  <2> HIDE DEF x
  <2>4. m \in Txjob /\ m.phase = "waiting"
    BY <2>2 DEF Txjob
  <2>5. /\ m.unit = j.unit /\ m.chnl = j.chnl /\ m.cls = j.cls /\ m.deveui = j.deveui
        /\ m.chnl2 = j.chnl2 /\ m.gps = j.gps /\ m.txtime = j.txtime /\ m.xt = x
        /\ m.rctx = j.rctx /\ m.alts = j.alts
    BY DEF Txjob
  <2> HIDE DEF m
  <2>6. OnClock(j) => OnClock(m)
    BY <2>3, <2>5 DEF OnClock
  <2>7. /\ InWindowA(j, a) => InWindowA(m, a)
        /\ InWindowC(j, a) => InWindowC(m, a)
    BY <2>5 DEF InWindowA, InWindowC
  <2>8. Serves(m, a)
    BY <1>3, <2>5, <2>6, <2>7 DEF Serves
  <2>9. InSync => OnClock(j)
    BY <1>1, <1>3 DEF Serves
  <2>10. j.txtime - now >= TX_MIN_GAP => j.txtime >= now
    BY <1>1, <1>2
  <2> QED
    BY <1>3, <2>1, <2>3, <2>4, <2>5, <2>8, <2>9, <2>10
<1>4. CASE j.cls \in {"P", "B"}
  <2>1. /\ j.gps >= TX_MIN_GAP /\ j.gps = a.t /\ j.chnl = a.chnl /\ OnGps(j)
        /\ j.cls = a.cls /\ j.deveui = a.deveui /\ (j.cls = "B" => j.chnl2 = NoChnl)
    BY <1>4 DEF Serves
  <2>2. ASSUME NEW t \in Nat, NEW x \in Xtime, k = [j EXCEPT !.xt = x, !.txtime = t],
               t = 0 \/ \E dt \in Drift : t = j.gps + dt
        PROVE  /\ k \in Txjob /\ k.phase = "waiting" /\ k.unit = j.unit /\ k.chnl = j.chnl
               /\ Serves(k, a) /\ k.txtime = t /\ k.xt = x /\ k.gps = j.gps
    <3> DEFINE m == [j EXCEPT !.xt = x, !.txtime = t]
    <3>1. m \in Txjob /\ m.phase = "waiting"
      BY <1>1, <2>2 DEF Txjob
    <3>2. /\ m.unit = j.unit /\ m.chnl = j.chnl /\ m.cls = j.cls /\ m.deveui = j.deveui
          /\ m.chnl2 = j.chnl2 /\ m.gps = j.gps /\ m.txtime = t /\ m.xt = x
      BY DEF Txjob
    <3> HIDE DEF m
    <3>3. OnGps(m)
      BY <2>2, <3>2 DEF OnGps
    <3> QED
      BY <1>4, <2>1, <2>2, <3>1, <3>2, <3>3 DEF Serves, m
  <2>3. \/ k = [j EXCEPT !.xt = NoXtime, !.txtime = 0]
        \/ \E dt \in Drift : k = [j EXCEPT !.xt = At(j.unit, j.gps + dt), !.txtime = At(j.unit, j.gps + dt).t]
    BY <1>4 DEF Recalculated
  <2>4. NoXtime \in Xtime /\ NoXtime.t = 0
    BY <1>1 DEF Xtime, NoXtime
  <2>5. CASE \/ k = [j EXCEPT !.xt = NoXtime, !.txtime = 0]
             \/ \E dt \in Drift : k = [j EXCEPT !.xt = At(j.unit, j.gps + dt), !.txtime = At(j.unit, j.gps + dt).t]
                                  /\ j.unit \notin synced
    <3>1. k = [j EXCEPT !.xt = NoXtime, !.txtime = 0]
      BY <2>4, <2>5 DEF At
    <3>2. 0 \in Nat
      OBVIOUS
    <3>3. /\ k \in Txjob /\ k.phase = "waiting" /\ k.unit = j.unit /\ k.chnl = j.chnl
          /\ Serves(k, a) /\ k.xt = NoXtime
      BY <2>2, <2>4, <3>1, <3>2
    <3> QED
      BY <3>3
  <2>6. ASSUME j.unit \in synced, NEW dt \in Drift,
               k = [j EXCEPT !.xt = At(j.unit, j.gps + dt), !.txtime = At(j.unit, j.gps + dt).t]
        PROVE  /\ k \in Txjob /\ k.phase = "waiting" /\ k.unit = j.unit /\ k.chnl = j.chnl /\ Serves(k, a)
               /\ j.txtime - now >= TX_MIN_GAP => k.txtime >= now
               /\ k.txtime = k.gps + dt
               /\ k.xt = [unit |-> k.unit, t |-> k.txtime, ok |-> TRUE]
    <3> DEFINE t == j.gps + dt
               x == At(j.unit, t)
    <3>1. x = [unit |-> j.unit, t |-> t, ok |-> TRUE] /\ dt \in Int
      BY <1>2, <2>6 DEF At
    <3>2. t \in Nat
      <4>1. 0 - dt <= TX_MIN_GAP
        BY <2>6, DriftAssumption
      <4> QED
        BY <1>1, <1>2, <2>1, <3>1, <4>1
    <3>3. x \in Xtime /\ k = [j EXCEPT !.xt = x, !.txtime = t]
      <4>1. k = [j EXCEPT !.xt = x, !.txtime = x.t]
        BY <2>6
      <4> HIDE DEF x, t
      <4>2. x.t = t /\ x \in Xtime
        BY <1>1, <3>1, <3>2 DEF Xtime
      <4> QED
        BY <4>1, <4>2
    <3>4. \E dtt \in Drift : t = j.gps + dtt
      BY <2>6
    <3> HIDE DEF x, t
    <3>5. /\ k \in Txjob /\ k.phase = "waiting" /\ k.unit = j.unit /\ k.chnl = j.chnl
          /\ Serves(k, a) /\ k.txtime = t /\ k.xt = x /\ k.gps = j.gps
      BY <2>2, <3>2, <3>3, <3>4
    <3>6. ASSUME j.txtime - now >= TX_MIN_GAP PROVE t >= now
      <4>1. j.txtime # 0
        BY <1>1, <1>2, <3>6
      <4>2. PICK dtt \in Drift \cup {0} : j.txtime = j.gps + dtt
        BY <2>1, <4>1 DEF OnGps
      <4>3. dtt - dt <= TX_MIN_GAP /\ dtt \in Int
        BY <1>2, <2>6, DriftAssumption
      <4> QED
        BY <1>1, <1>2, <3>1, <3>6, <4>2, <4>3 DEF t
    <3> QED
      BY <3>1, <3>5, <3>6 DEF t
  <2> QED
    BY <1>4, <2>3, <2>5, <2>6
<1> QED
  BY <1>3, <1>4

LEMMA TxRefusedStep ==
  ASSUME IInv, NEW u \in Units, TxRefused(u)
  PROVE  IInv'
<1> DEFINE d == queue[u][1]
           r == Tail(queue[u])
<1>1. Deciding(u) /\ queue[u] # <<>> /\ job[d].phase = "waiting"
  BY DEF TxRefused, TxDue, HeadIs, Curr, HeadJob
<1>2. Displacing = {} /\ Served = {u}
  BY <1>1, Handling DEF IInv
<1>3. 1 \in 1 .. Len(queue[u])
  BY <1>1, QueueOf DEF IInv, QueuesInv
<1>4. job[d] \in Txjob /\ asked[d] \in Asked /\ Serves(job[d], asked[d])
  BY <1>3, HeadIsJob DEF IInv
<1>5. PICK j \in Recalculated(job[d]) : Relocate(d, j, [queue EXCEPT ![u] = r])
  BY DEF TxRefused, HeadJob, Curr, WithoutHead
<1>6. UNCHANGED <<now, synced, jobs, dcChnl, handler, asked, sent, dntxed>>
  BY DEF TxRefused
<1>7. sent' = {e \in sent : e.diid # d}
  BY <1>1, <1>6, NotOnAir DEF IInv
<1>8. j \in Txjob /\ j.phase = "waiting" /\ Serves(j, asked[d])
  BY <1>1, <1>4, RecalculatedJob DEF IInv, Types, Clocks
<1> QED
  BY <1>1, <1>2, <1>3, <1>5, <1>6, <1>7, <1>8, Relocated
-----------------------------------------------------------------------------
(* The steps that leave the jobs alone *)

LEMMA InitIInv == Init => IInv
<1> SUFFICES ASSUME Init PROVE IInv
  OBVIOUS
<1>1. /\ now = 0 /\ synced = Units \ UnsyncedAtStart /\ jobs = 0 /\ handler = <<>> /\ sent = {}
      /\ job = [d \in Diids |-> Gone] /\ queue = [u \in Units |-> <<>>]
      /\ timer = [u \in Units |-> Off] /\ dcChnl = [u \in Units |-> [c \in Chnls |-> 0]]
      /\ asked = [d \in Diids |-> Gone] /\ dntxed = [d \in Diids |-> [out |-> 0, lost |-> 0]]
  BY DEF Init
<1>2. Types
  <2>1. dntxed \in [Diids -> Reports]
    BY <1>1 DEF Reports
  <2> QED
    BY <1>1, <2>1, TimesAssumption DEF Types
<1>3. QueuesInv
  <2>1. Displacing = {}
    BY <1>1 DEF Displacing
  <2>2. queue \in [Units -> Seq(Diids)] /\ \A u \in Units : queue[u] = <<>> /\ DOMAIN queue[u] = {} /\ Len(queue[u]) = 0
    BY <1>1
  <2>3. 2 .. 0 = {}
    OBVIOUS
  <2>4. Homed(job, queue) /\ Once(queue)
    BY <1>1, <2>2 DEF Homed, Once
  <2>5. Following(job, queue) /\ Ordered(job, queue, Displacing) /\ HeadSent(job, queue, Displacing)
    BY <2>1, <2>2, <2>3 DEF Following, Ordered, HeadSent
  <2> QED
    BY <1>1, <2>2, <2>4, <2>5 DEF QueuesInv, Queues
<1>4. TimersInv
  BY <1>1 DEF TimersInv, Timers, Deciding
<1>5. \A d \in Diids : job[d] = Gone /\ Gone.phase = "gone"
  BY <1>1 DEF Gone
<1>6. SentInv /\ DntxedInv
  BY <1>1, <1>5 DEF SentInv, DntxedInv, Confirmed
<1>7. JobsInv
  BY <1>1, <1>5 DEF JobsInv
<1>8. NoOverlap /\ ChnlInv
  BY <1>1 DEF NoOverlap, ChnlInv, ChnlDutyCycle
<1> QED
  BY <1>2, <1>3, <1>4, <1>6, <1>7, <1>8 DEF IInv

LEMMA SyncStep ==
  ASSUME IInv, NEW u \in Units, Sync(u)
  PROVE  IInv'
<1>1. /\ synced' = synced \cup {u}
      /\ UNCHANGED <<now, jobs, job, queue, timer, dcChnl, handler, asked, sent, dntxed>>
  BY DEF Sync
<1>2. Types' /\ QueuesInv'
  BY <1>1 DEF IInv, Types, QueuesInv, Displacing
<1>3. TimersInv'
  BY <1>1 DEF IInv, TimersInv, Timers, Timely, Due, Served, Deciding, End
<1>4. SentInv' /\ DntxedInv'
  BY <1>1 DEF IInv, SentInv, OnAir, DntxedInv, Confirmed
<1>5. JobsInv'
  BY <1>1, ServesStill DEF IInv, JobsInv
<1>6. NoOverlap' /\ ChnlInv'
  BY <1>1 DEF IInv, NoOverlap, ChnlInv, ChnlDutyCycle, Charged, Rested
<1> QED
  BY <1>2, <1>3, <1>4, <1>5, <1>6 DEF IInv

(* The handler starts, ends or waits: jobs and frames are as they were. *)
LEMMA JobsStill ==
  ASSUME IInv, now' \in Nat, now' >= now,
         UNCHANGED <<synced, jobs, job, dcChnl, asked, sent, dntxed>>
  PROVE  SentInv' /\ DntxedInv' /\ JobsInv' /\ NoOverlap' /\ ChnlInv'
<1>1. now \in Nat /\ \A c \in Chnls : Airtime[c] \in Nat
  BY TimesAssumption DEF IInv, Types
<1>2. SentInv'
  BY <1>1 DEF IInv, SentInv, OnAir
<1>3. DntxedInv'
  BY DEF IInv, DntxedInv, Confirmed
<1>4. JobsInv'
  BY ServesStill DEF IInv, JobsInv
<1>5. NoOverlap' /\ ChnlInv'
  BY DEF IInv, NoOverlap, ChnlInv, ChnlDutyCycle, Charged, Rested
<1> QED
  BY <1>2, <1>3, <1>4, <1>5

LEMMA HeadOf ==
  ASSUME IInv, NEW u \in Units, queue[u] # <<>>
  PROVE  /\ 1 \in 1 .. Len(queue[u]) /\ queue[u][1] \in Diids /\ queue[u][1] \in 1 .. jobs
         /\ job[queue[u][1]] \in Txjob /\ job[queue[u][1]].unit = u
         /\ job[queue[u][1]].txtime \in Nat /\ End(job[queue[u][1]]) \in Nat
         /\ asked[queue[u][1]] \in Asked /\ Serves(job[queue[u][1]], asked[queue[u][1]])
<1>1. 1 \in 1 .. Len(queue[u])
  BY QueueOf DEF IInv, QueuesInv
<1>2. \A j \in Txjob : j.txtime \in Nat /\ End(j) \in Nat
  BY TimesAssumption DEF Txjob, End
<1> QED
  BY <1>1, <1>2, HeadIsJob DEF IInv

LEMMA TickStep ==
  ASSUME IInv, Tick
  PROVE  IInv'
<1>1. /\ now' = now + 1 /\ handler = <<>>
      /\ UNCHANGED <<synced, jobs, job, queue, timer, dcChnl, handler, asked, sent, dntxed>>
  BY DEF Tick
<1>2. now \in Nat /\ now' \in Nat /\ now' >= now
  BY <1>1 DEF IInv, Types
<1>3. Types' /\ QueuesInv'
  BY <1>1, <1>2 DEF IInv, Types, QueuesInv, Displacing
<1>4. TimersInv'
  <2>1. Served = {} /\ Served' = {} /\ \A u \in Units : ~Deciding(u)'
    BY <1>1 DEF Served, Deciding
  <2>2. ASSUME NEW u \in Units, queue[u] # <<>> PROVE Timely(job, queue, timer, u)'
    <3>1. Timely(job, queue, timer, u) /\ timer[u] \in Nat \cup {Off}
      BY <2>1, <2>2 DEF IInv, TimersInv, Timers
    <3>2. timer[u] \in Int
      BY <3>1 DEF Off
    <3> QED
      BY <1>1, <1>2, <3>1, <3>2 DEF Timely, End
  <2> QED
    BY <1>1, <2>1, <2>2 DEF IInv, TimersInv, Timers
<1> QED
  BY <1>1, <1>2, <1>3, <1>4, JobsStill DEF IInv

LEMMA TxTimeoutStep ==
  ASSUME IInv, NEW u \in Units, TxTimeout(u)
  PROVE  IInv'
<1>1. /\ handler = <<>> /\ handler' = <<"decide", u>> /\ timer[u] # Off /\ timer[u] <= now
      /\ timer' = [timer EXCEPT ![u] = Off]
      /\ UNCHANGED <<now, synced, jobs, job, queue, dcChnl, asked, sent, dntxed>>
  BY DEF TxTimeout
<1>2. now \in Nat /\ now' = now
  BY <1>1 DEF IInv, Types
<1>3. Displacing = {} /\ Displacing' = {} /\ Served = {} /\ Served' = {u} /\ \A v \in Units : Deciding(v)' => v = u
  BY <1>1 DEF Displacing, Served, Deciding
<1>4. Types' /\ QueuesInv'
  BY <1>1, <1>2, <1>3 DEF IInv, Types, QueuesInv
<1>5. TimersInv'
  <2>1. timer \in [Units -> Nat \cup {Off}] /\ \A v \in Units : queue[v] # <<>> => Timely(job, queue, timer, v)
    BY <1>3 DEF IInv, TimersInv, Timers
  <2>2. timer' \in [Units -> Nat \cup {Off}] /\ \A v \in Units : v # u => timer'[v] = timer[v]
    BY <1>1, <2>1
  <2>3. Timers(job, queue, timer, Served)'
    BY <1>1, <1>3, <2>1, <2>2 DEF Timers, Timely, End
  <2>4. queue[u] # <<>> => Due(job, queue, u)'
    <3>1. timer[u] \in Nat
      BY <1>1, <2>1
    <3> QED
      BY <1>1, <2>1, <3>1 DEF Due, Timely, End
  <2> QED
    BY <1>1, <1>3, <2>3, <2>4 DEF TimersInv
<1> QED
  BY <1>1, <1>2, <1>4, <1>5, JobsStill DEF IInv

LEMMA EmptyQueueStep ==
  ASSUME IInv, NEW u \in Units, EmptyQueue(u)
  PROVE  IInv'
<1>1. /\ Deciding(u) /\ queue[u] = <<>> /\ handler' = <<>>
      /\ UNCHANGED <<now, synced, jobs, job, queue, timer, dcChnl, asked, sent, dntxed>>
  BY DEF EmptyQueue
<1>2. now \in Nat /\ now' = now
  BY <1>1 DEF IInv, Types
<1>3. Displacing = {} /\ Displacing' = {} /\ Served = {u} /\ Served' = {} /\ \A v \in Units : ~Deciding(v)'
  BY <1>1, Handling DEF IInv, Displacing, Served, Deciding
<1>4. Types' /\ QueuesInv'
  BY <1>1, <1>2, <1>3 DEF IInv, Types, QueuesInv
<1>5. TimersInv'
  BY <1>1, <1>3 DEF IInv, TimersInv, Timers, Timely, End
<1> QED
  BY <1>1, <1>2, <1>4, <1>5, JobsStill DEF IInv

(* The handler returns deadline t. *)
LEMMA Returned ==
  ASSUME IInv, NEW u \in Units, u \in Served, NEW t \in Nat, Return(u, t),
         queue' = queue, now' = now, \A v \in Units \ {u} : queue[v] # <<>> => job'[queue[v][1]] = job[queue[v][1]],
         queue[u] # <<>> => LET j == job'[queue[u][1]]
                            IN  \/ j.phase = "waiting" /\ t <= j.txtime - TX_AIM_GAP
                                \/ j.phase = "txing" /\ t = j.txtime + TXCHECK_FUDGE
                                \/ j.phase = "checked" /\ t = End(j)
  PROVE  TimersInv' /\ Displacing' = {}
<1>1. handler' = <<>> /\ timer' = [timer EXCEPT ![u] = t]
  BY DEF Return
<1>2. Served = {u}
  BY DEF IInv, Types, Served
<1>3. Displacing' = {} /\ Served' = {} /\ \A v \in Units : ~Deciding(v)'
  BY <1>1 DEF Displacing, Served, Deciding
<1>4. /\ timer \in [Units -> Nat \cup {Off}]
      /\ \A v \in Units \ {u} : queue[v] # <<>> => Timely(job, queue, timer, v)
  BY <1>2 DEF IInv, TimersInv, Timers
<1>5. /\ timer' \in [Units -> Nat \cup {Off}] /\ timer'[u] = t /\ t # Off
      /\ \A v \in Units \ {u} : timer'[v] = timer[v]
  BY <1>1, <1>4 DEF Off
<1>6. ASSUME NEW v \in Units, queue[v] # <<>> PROVE Timely(job, queue, timer, v)'
  <2>1. CASE v = u
    BY <1>5, <1>6, <2>1 DEF Timely, End
  <2>2. CASE v # u
    BY <1>4, <1>5, <1>6, <2>2 DEF Timely, End
  <2> QED
    BY <2>1, <2>2
<1> QED
  BY <1>3, <1>5, <1>6 DEF TimersInv, Timers

LEMMA TxAheadStep ==
  ASSUME IInv, NEW u \in Units, TxAhead(u)
  PROVE  IInv'
<1> DEFINE d == queue[u][1]
           t == job[d].txtime - TX_AIM_GAP
<1>1. /\ Deciding(u) /\ queue[u] # <<>> /\ job[d].phase = "waiting" /\ job[d].txtime - now > TX_AIM_GAP
      /\ Return(u, t)
      /\ UNCHANGED <<now, synced, jobs, job, queue, dcChnl, asked, sent, dntxed>>
  BY DEF TxAhead, HeadIs, Curr, HeadJob
<1>2. now \in Nat /\ now' = now /\ TX_AIM_GAP \in Nat /\ job[d].txtime \in Nat
  BY <1>1, TimesAssumption, HeadOf DEF IInv, Types
<1>3. t \in Nat
  BY <1>1, <1>2
<1>4. u \in Served /\ Displacing = {}
  BY <1>1, Handling DEF IInv
<1> HIDE DEF d
<1>5. TimersInv' /\ Displacing' = {}
  BY <1>1, <1>2, <1>3, <1>4, Returned, SMTT(30) DEF d
<1>6. Types' /\ QueuesInv'
  BY <1>1, <1>2, <1>4, <1>5 DEF IInv, Types, QueuesInv, Return
<1> QED
  BY <1>1, <1>2, <1>5, <1>6, JobsStill DEF IInv

LEMMA DisplaceDoneStep ==
  ASSUME IInv, NEW u \in Units, DisplaceDone(u)
  PROVE  IInv'
<1> DEFINE d == queue[u][1]
           t == job[d].txtime + TXCHECK_FUDGE
<1>1. /\ handler = <<"displace", u>> /\ ~Displaced(u) /\ Return(u, t)
      /\ UNCHANGED <<now, synced, jobs, job, queue, dcChnl, asked, sent, dntxed>>
  BY DEF DisplaceDone, Curr, HeadJob
<1>2. Displacing = {u} /\ Served = {u}
  BY <1>1, Started DEF IInv
<1>3. queue[u] # <<>> /\ job[d].phase = "txing"
  BY <1>2 DEF IInv, QueuesInv, Queues, HeadSent
<1>4. now \in Nat /\ now' = now /\ {TXCHECK_FUDGE, TX_MIN_GAP} \subseteq Nat /\ job[d] \in Txjob
  BY <1>1, <1>3, TimesAssumption, HeadOf DEF IInv, Types
<1>5. job[d].txtime \in Nat /\ Airtime[job[d].chnl] \in Nat /\ t \in Nat
  BY <1>4, TimesAssumption DEF Txjob
<1>6. Len(queue[u]) > 1 => job[d].txtime <= job[queue[u][2]].txtime
  <2> SUFFICES ASSUME Len(queue[u]) > 1 PROVE job[d].txtime <= job[queue[u][2]].txtime
    OBVIOUS
  <2>1. 2 \in 1 .. Len(queue[u])
    <3>1. Len(queue[u]) \in Nat
      BY QueueOf DEF IInv, QueuesInv
    <3> QED
      BY <3>1
  <2>2. job[queue[u][2]].txtime \in Int
    BY <2>1, HeadIsJob, TxjobNotGone DEF IInv
  <2>3. ~(End(job[d]) >= job[queue[u][2]].txtime - TX_MIN_GAP)
    BY <1>1 DEF Displaced, Curr, HeadJob
  <2>4. End(job[d]) = job[d].txtime + Airtime[job[d].chnl]
    BY DEF End
  <2> HIDE DEF d
  <2>5. \A a, b, g \in Nat, x \in Int : ~(a + b >= x - g) => a <= x
    OBVIOUS
  <2> QED
    BY <1>4, <1>5, <2>2, <2>3, <2>4, <2>5
<1>7. Queues(job, queue, {})
  <2>1. Queues(job, queue, Displacing \ {u}) /\ Displacing \ {u} = {}
    BY <1>2, <1>6, SettleHead DEF IInv, QueuesInv
  <2> QED
    BY <2>1
<1> HIDE DEF d
<1>8. TimersInv' /\ Displacing' = {}
  BY <1>1, <1>2, <1>3, <1>4, <1>5, Returned DEF d
<1>9. Types' /\ QueuesInv'
  BY <1>1, <1>4, <1>7, <1>8 DEF IInv, Types, QueuesInv, Return
<1> QED
  BY <1>1, <1>4, <1>8, <1>9, JobsStill DEF IInv
-----------------------------------------------------------------------------
(* The steps of a frame in the air *)

(* Only the head of the queue of its unit is in the air. *)
LEMMA HeadOnly ==
  ASSUME IInv, NEW e \in sent, job[e.diid].phase \in {"txing", "checked"}
  PROVE  queue[e.unit] # <<>> /\ e.diid = queue[e.unit][1]
<1>1. /\ e.diid \in 1 .. jobs /\ e.unit \in Units /\ job[e.diid].unit = e.unit /\ job[e.diid] # Gone
  BY DEF IInv, SentInv, OnAir, Gone
<1>2. e.diid \in Diids
  BY <1>1, TimesAssumption DEF IInv, Types, Diids
<1>3. PICK i \in DOMAIN queue[e.unit] : queue[e.unit][i] = e.diid
  BY <1>1, <1>2 DEF IInv, QueuesInv, Queues, Homed
<1>4. i \in 1 .. Len(queue[e.unit]) /\ Len(queue[e.unit]) \in Nat /\ queue[e.unit] # <<>>
  BY <1>1, <1>3, QueueOf DEF IInv, QueuesInv
<1>5. i = 1
  <2>1. i # 1 => i > 1
    BY <1>4
  <2>2. i > 1 => job[queue[e.unit][i]].phase = "waiting"
    BY <1>1, <1>4, HeadIsJob DEF IInv
  <2> QED
    BY <1>3, <2>1, <2>2
<1> QED
  BY <1>3, <1>4, <1>5

(* The frame of the head is known to be sent, or is over. *)
LEMMA Accounted ==
  ASSUME IInv, NEW u \in Units, queue[u] # <<>>, NEW d, d = queue[u][1],
         job[d].phase \in {"txing", "checked"},
         IF job[d].phase = "txing" THEN UpdateDC(job[d]) /\ SendDntxed(d)
         ELSE UNCHANGED <<dcBand, dcChnl, dntxed>>,
         \/ job'[d] = Gone /\ now >= End(job[d])
         \/ /\ job'[d].phase = "checked" /\ job'[d].unit = job[d].unit /\ job'[d].chnl = job[d].chnl
            /\ job'[d].txtime = job[d].txtime /\ Serves(job'[d], asked[d]),
         \A e \in Diids : e # d => job'[e] = job[e],
         UNCHANGED <<now, synced, jobs, asked, sent>>
  PROVE  /\ dcChnl' \in [Units -> [Chnls -> Int]] /\ dntxed' \in [Diids -> Reports]
         /\ SentInv' /\ DntxedInv' /\ JobsInv' /\ NoOverlap' /\ ChnlInv'
<1>1. /\ d \in Diids /\ d \in 1 .. jobs /\ job[d] \in Txjob /\ job[d].unit = u
      /\ job[d].txtime \in Nat /\ End(job[d]) \in Nat /\ job[d] # Gone
      /\ asked[d] \in Asked /\ asked[d].deveui = job[d].deveui
  BY HeadOf, TxjobNotGone DEF Serves
<1>2. /\ dcChnl \in [Units -> [Chnls -> Int]] /\ dntxed \in [Diids -> Reports] /\ now \in Nat /\ jobs \in Nat
      /\ 1 .. jobs \subseteq Diids
  BY TimesAssumption DEF IInv, Types, Diids
<1>3. job[d].chnl \in Chnls /\ Airtime[job[d].chnl] \in Nat /\ ChnlRate \in Nat
  BY <1>1, TimesAssumption DEF Txjob
<1>4. PICK e \in sent : e.diid = d
  BY <1>1 DEF IInv, SentInv
<1>5. /\ e.unit = u /\ e.from = job[d].txtime /\ e.chnl = job[d].chnl /\ e.till = End(job[d])
      /\ \A f \in sent : f.diid = d => f = e
  BY <1>1, <1>4 DEF IInv, SentInv, OnAir, Gone, End
<1>6. job'[d].phase \in {"gone", "checked"} /\ Gone.phase = "gone"
  BY DEF Gone
<1> DEFINE amount == job[d].txtime + Airtime[job[d].chnl] * ChnlRate
<1>7. amount \in Int /\ amount >= job[d].txtime
  <2>1. Airtime[job[d].chnl] * ChnlRate \in Nat
    BY <1>3
  <2> QED
    BY <1>1, <2>1
<1>8. /\ dcChnl' \in [Units -> [Chnls -> Int]]
      /\ \A v \in Units, c \in Chnls : v # u \/ c # job[d].chnl => dcChnl'[v][c] = dcChnl[v][c]
      /\ job[d].phase = "txing" /\ Region = "PerChnl" => dcChnl'[u][job[d].chnl] = amount
      /\ job[d].phase # "txing" => dcChnl' = dcChnl
  <2>1. CASE job[d].phase # "txing"
    BY <1>2, <2>1, SMTT(30)
  <2>2. CASE job[d].phase = "txing"
    <3>1. dcChnl' = IF DcEnabled THEN [dcChnl EXCEPT ![u][job[d].chnl] = amount] ELSE dcChnl
      BY <1>1, <2>2 DEF UpdateDC
    <3>2. Region = "PerChnl" => DcEnabled
      BY DEF DcEnabled
    <3> HIDE DEF amount
    <3> QED
      BY <1>1, <1>2, <1>3, <1>7, <2>2, <3>1, <3>2
  <2> QED
    BY <2>1, <2>2
<1>9. SentInv'
  <2>1. ASSUME NEW f \in sent PROVE OnAir(f)'
    <3>1. OnAir(f) /\ f.diid \in Diids
      BY <1>2 DEF IInv, SentInv, OnAir
    <3>2. CASE f.diid # d
      BY <3>1, <3>2 DEF OnAir
    <3>3. CASE f.diid = d
      <4>1. f = e
        BY <1>5, <3>3
      <4>2. \/ job'[e.diid] = Gone /\ e.till <= now
            \/ /\ job'[e.diid].phase \in {"txing", "checked"}
               /\ job'[e.diid].unit = e.unit /\ job'[e.diid].txtime = e.from
               /\ job'[e.diid].chnl = e.chnl
        BY <1>1, <1>2, <1>4, <1>5
      <4> QED
        BY <3>1, <4>1, <4>2 DEF OnAir
    <3> QED
      BY <3>2, <3>3
  <2>2. ASSUME NEW c \in Diids, job'[c].phase \in {"txing", "checked"} PROVE \E f \in sent : f.diid = c
    BY <1>4, <2>2 DEF IInv, SentInv
  <2> QED
    BY <2>1, <2>2 DEF IInv, SentInv
<1>10. DntxedInv' /\ dntxed' \in [Diids -> Reports]
  <2>1. Confirmed(d)' = asked[d].deveui
    BY <1>1, <1>4, <1>6 DEF Confirmed, Asked
  <2>2. ASSUME NEW c \in Diids, c # d PROVE Confirmed(c)' = Confirmed(c)
    BY <2>2 DEF Confirmed
  <2>3. dntxed[d].out + dntxed[d].lost = IF job[d].phase = "checked" /\ asked[d].deveui THEN 1 ELSE 0
    BY <1>1, <1>4 DEF IInv, DntxedInv, Confirmed
  <2>4. /\ dntxed' \in [Diids -> Reports] /\ \A c \in Diids : c # d => dntxed'[c] = dntxed[c]
        /\ dntxed'[d].out + dntxed'[d].lost = IF asked[d].deveui THEN 1 ELSE 0
    <3>1. CASE job[d].phase = "txing" /\ job[d].deveui
      <4>1. PICK r \in Reports : /\ dntxed' = [dntxed EXCEPT ![d] = r]
                                 /\ r.out + r.lost = dntxed[d].out + dntxed[d].lost + 1
        <5>1. dntxed[d] \in Reports /\ dntxed[d].out \in Nat /\ dntxed[d].lost \in Nat
          BY <1>1, <1>2 DEF Reports
        <5>2. CASE dntxed' = [dntxed EXCEPT ![d].out = @ + 1]
          <6> DEFINE r == [dntxed[d] EXCEPT !.out = @ + 1]
          <6>1. r = [out |-> dntxed[d].out + 1, lost |-> dntxed[d].lost]
            BY <5>1 DEF Reports
          <6>2. r \in Reports /\ r.out + r.lost = dntxed[d].out + dntxed[d].lost + 1
            BY <5>1, <6>1 DEF Reports
          <6>3. dntxed' = [dntxed EXCEPT ![d] = r]
            BY <5>2, Zenon
          <6> HIDE DEF r
          <6> QED
            BY ONLY <6>2, <6>3
        <5>3. CASE dntxed' = [dntxed EXCEPT ![d].lost = @ + 1]
          <6> DEFINE r == [dntxed[d] EXCEPT !.lost = @ + 1]
          <6>1. r = [out |-> dntxed[d].out, lost |-> dntxed[d].lost + 1]
            BY <5>1 DEF Reports
          <6>2. r \in Reports /\ r.out + r.lost = dntxed[d].out + dntxed[d].lost + 1
            BY <5>1, <6>1 DEF Reports
          <6>3. dntxed' = [dntxed EXCEPT ![d] = r]
            BY <5>3, Zenon
          <6> HIDE DEF r
          <6> QED
            BY ONLY <6>2, <6>3
        <5> QED
          BY <3>1, <5>2, <5>3 DEF SendDntxed
      <4>2. dntxed[d].out + dntxed[d].lost = 0 /\ asked[d].deveui
        BY <1>1, <2>3, <3>1
      <4>3. dntxed' \in [Diids -> Reports] /\ dntxed'[d] = r /\ \A c \in Diids : c # d => dntxed'[c] = dntxed[c]
        BY <1>1, <1>2, <4>1
      <4> QED
        BY ONLY <4>1, <4>2, <4>3
    <3>2. CASE ~ (job[d].phase = "txing" /\ job[d].deveui)
      <4>1. dntxed' = dntxed
        BY <3>2 DEF SendDntxed
      <4>2. asked[d].deveui => job[d].phase = "checked"
        BY <1>1, <3>2
      <4>3. dntxed[d].out + dntxed[d].lost = IF asked[d].deveui THEN 1 ELSE 0
        BY ONLY <2>3, <4>2
      <4> QED
        BY <1>2, <4>1, <4>3
    <3> QED
      BY <3>1, <3>2
  <2>5. ASSUME NEW c \in Diids
        PROVE  dntxed'[c].out + dntxed'[c].lost = IF Confirmed(c)' THEN 1 ELSE 0
    <3>1. CASE c = d
      BY <2>1, <2>4, <3>1, Zenon
    <3>2. CASE c # d
      <4>1. dntxed[c].out + dntxed[c].lost = IF Confirmed(c) THEN 1 ELSE 0
        BY DEF IInv, DntxedInv
      <4> QED
        BY <2>2, <2>4, <3>2, <4>1, Zenon
    <3> QED
      BY <3>1, <3>2
  <2> QED
    BY <2>4, <2>5 DEF DntxedInv
<1>11. JobsInv'
  <2>1. ASSUME NEW c \in 1 .. jobs, job'[c] # Gone PROVE Serves(job[c], asked[c])'
    <3>1. CASE c = d
      BY <2>1, <3>1 DEF Serves, OnClock, OnGps, InWindowA, InWindowC, Gone
    <3>2. CASE c # d
      BY <1>2, <2>1, <3>2, ServesStill DEF IInv, JobsInv
    <3> QED
      BY <3>1, <3>2
  <2>2. ASSUME NEW c \in Diids, c > jobs PROVE job'[c] = Gone
    BY <1>1, <2>2 DEF IInv, JobsInv
  <2> QED
    BY <2>1, <2>2 DEF IInv, JobsInv
<1>12. ChnlInv'
  <2> SUFFICES ASSUME Region = "PerChnl" PROVE ChnlDutyCycle' /\ \A f \in sent : Charged(f)'
    BY DEF ChnlInv
  <2>1. ChnlDutyCycle /\ \A f \in sent : Charged(f) /\ OnAir(f)
    BY DEF IInv, ChnlInv, SentInv
  <2>2. ChnlDutyCycle'
    BY <2>1 DEF ChnlDutyCycle, Rested
  <2>3. ASSUME NEW f \in sent PROVE Charged(f)'
    <3>1. f.diid \in Diids /\ f.unit \in Units /\ f.chnl \in Chnls /\ f.from \in Nat /\ f.till = f.from + Airtime[f.chnl]
      BY <1>2, <2>1 DEF OnAir
    <3>2. CASE f.diid = d
      <4>1. f = e
        BY <1>5, <3>2
      <4>2. CASE job[d].phase = "txing"
        <5>1. dcChnl'[e.unit][e.chnl] = amount /\ e.till - e.from = Airtime[e.chnl]
          <6>1. dcChnl'[e.unit][e.chnl] = amount
            BY <1>1, <1>3, <1>5, <1>8, <4>2
          <6> DEFINE x == e.from
                     y == e.till
                     a == Airtime[e.chnl]
          <6>2. x = job[d].txtime /\ y = End(job[d]) /\ e.chnl = job[d].chnl
            BY <1>5
          <6>3. x \in Nat /\ a \in Nat /\ y = x + a
            BY <1>1, <1>3, <6>2 DEF End
          <6> HIDE DEF x, y, a
          <6>4. y - x = a
            BY <6>3
          <6> QED
            BY <6>1, <6>4 DEF x, y, a
        <5> QED
          BY <1>4, <1>5, <1>6, <1>7, <4>1, <5>1 DEF Charged
      <4>3. CASE job[d].phase # "txing"
        <5>1. dcChnl' = dcChnl
          BY <1>8, <4>3
        <5> QED
          BY <1>4, <1>6, <2>1, <4>1, <4>3, <5>1 DEF Charged
      <4> QED
        BY <4>2, <4>3
    <3>3. CASE f.diid # d /\ ~(f.unit = u /\ f.chnl = job[d].chnl /\ job[d].phase = "txing")
      <4>1. dcChnl'[f.unit][f.chnl] = dcChnl[f.unit][f.chnl] /\ job'[f.diid] = job[f.diid]
        BY <1>8, <3>1, <3>3
      <4> QED
        BY <2>1, <4>1 DEF Charged
    <3>4. CASE f.diid # d /\ f.unit = u /\ f.chnl = job[d].chnl /\ job[d].phase = "txing"
      <4>1. job[f.diid].phase # "txing"
        BY <3>4, HeadOnly
      <4>2. dcChnl[u][f.chnl] >= f.from + (f.till - f.from) * ChnlRate
        BY <2>1, <3>4, <4>1 DEF Charged
      <4>3. job[d].txtime >= dcChnl[u][f.chnl]
        BY <1>4, <1>5, <2>1, <3>4 DEF Charged
      <4>4. dcChnl'[f.unit][f.chnl] = amount /\ job'[f.diid] = job[f.diid]
        BY <1>8, <3>1, <3>4
      <4>5. f.till - f.from = Airtime[f.chnl] /\ Airtime[f.chnl] * ChnlRate \in Nat /\ f.from \in Nat
        BY <1>3, <3>1, <3>4
      <4>6. dcChnl[u][f.chnl] \in Int
        BY <1>2, <3>1, <3>4
      <4> HIDE DEF amount
      <4>7. amount >= f.from + Airtime[f.chnl] * ChnlRate
        BY <1>1, <1>7, <4>2, <4>3, <4>5, <4>6, SMTT(30)
      <4> QED
        BY <3>4, <4>1, <4>4, <4>5, <4>7 DEF Charged
    <3> QED
      BY <3>2, <3>3, <3>4
  <2> QED
    BY <2>2, <2>3
<1>13. NoOverlap'
  BY DEF IInv, NoOverlap
<1> QED
  BY <1>8, <1>9, <1>10, <1>11, <1>12, <1>13

LEMMA TxDoneStep ==
  ASSUME IInv, NEW u \in Units, TxDone(u)
  PROVE  IInv'
<1> DEFINE d == queue[u][1]
           r == Tail(queue[u])
           q == [queue EXCEPT ![u] = r]
           jb == [job EXCEPT ![d] = Gone]
<1>1. /\ Deciding(u) /\ queue[u] # <<>> /\ job[d].phase \in {"txing", "checked"}
      /\ now >= End(job[d])
      /\ IF job[d].phase = "txing" THEN UpdateDC(job[d]) /\ SendDntxed(d)
         ELSE UNCHANGED <<dcBand, dcChnl, dntxed>>
      /\ job' = jb /\ queue' = q
      /\ UNCHANGED <<now, synced, jobs, timer, handler, asked, sent>>
  BY DEF TxDone, HeadIs, Curr, HeadJob, WithoutHead
<1>2. Types /\ QueuesInv /\ TimersInv /\ JobsInv
  BY DEF IInv
<1>3. Displacing = {} /\ Served = {u} /\ 1 \in 1 .. Len(queue[u]) /\ d \in Diids
  BY <1>1, <1>2, Handling, HeadOf
<1>4. job \in [Diids -> Txjob \cup {Gone}] /\ queue \in [Units -> Seq(Diids)]
  BY <1>2 DEF QueuesInv, Queues
<1>5. /\ Queues(jb, q, Displacing) /\ Timers(jb, q, timer, Served)
      /\ r # <<>> => job[r[1]].phase = "waiting"
  BY <1>2, <1>3, Unqueued
<1>6. /\ job'[d] = Gone /\ \A e \in Diids : e # d => job'[e] = job[e]
      /\ queue'[u] = r
  BY <1>1, <1>3, <1>4
<1> HIDE DEF d, q, jb, r
<1>7. /\ dcChnl' \in [Units -> [Chnls -> Int]] /\ dntxed' \in [Diids -> Reports]
      /\ SentInv' /\ DntxedInv' /\ JobsInv' /\ NoOverlap' /\ ChnlInv'
  BY <1>1, <1>6, Accounted DEF d
<1>8. Types'
  BY <1>1, <1>2, <1>7 DEF Types
<1>9. QueuesInv'
  BY <1>1, <1>5 DEF QueuesInv, Displacing
<1>10. TimersInv'
  <2>1. Timers(job, queue, timer, Served)'
    BY <1>1, <1>5 DEF Timers, Timely, Served, End
  <2>2. ASSUME NEW v \in Units, Deciding(v), queue'[v] # <<>> PROVE job'[queue'[v][1]].phase = "waiting"
    <3>1. v = u
      BY <1>1, <2>2 DEF Deciding
    <3>2. r # <<>> /\ queue'[v][1] = r[1]
      BY <1>6, <2>2, <3>1
    <3>3. r[1] \in Diids /\ jb[r[1]] # Gone
      <4>1. 1 \in 1 .. Len(q[u]) /\ q[u][1] \in Diids /\ jb[q[u][1]] # Gone
        BY <1>1, <1>5, <1>6, <3>2, QueueOf
      <4> QED
        BY <1>1, <1>6, <4>1
    <3>4. r[1] # d
      BY <1>1, <1>6, <3>3
    <3> QED
      BY <1>5, <1>6, <3>2, <3>3, <3>4
  <2> QED
    BY <1>1, <2>1, <2>2 DEF TimersInv, Due, Deciding
<1> QED
  BY <1>7, <1>8, <1>9, <1>10 DEF IInv

LEMMA TxConfirmedStep ==
  ASSUME IInv, NEW u \in Units, TxConfirmed(u)
  PROVE  IInv'
<1> DEFINE d == queue[u][1]
           j == [job[d] EXCEPT !.phase = "checked"]
<1>1. /\ Deciding(u) /\ queue[u] # <<>> /\ job[d].phase = "txing"
      /\ UpdateDC(job[d]) /\ SendDntxed(d) /\ Return(u, End(job[d]))
      /\ job' = [job EXCEPT ![d].phase = "checked"]
      /\ UNCHANGED <<now, synced, jobs, queue, asked, sent>>
  BY DEF TxConfirmed, CheckDue, HeadIs, Curr, HeadJob
<1>2. Types /\ QueuesInv /\ TimersInv /\ JobsInv
  BY DEF IInv
<1>3. /\ Displacing = {} /\ Served = {u} /\ 1 \in 1 .. Len(queue[u]) /\ d \in Diids
      /\ job[d] \in Txjob /\ job[d].unit = u /\ End(job[d]) \in Nat /\ Serves(job[d], asked[d])
  BY <1>1, <1>2, Handling, HeadOf
<1>4. job \in [Diids -> Txjob \cup {Gone}]
  BY <1>2 DEF QueuesInv, Queues
<1>5. job' = [job EXCEPT ![d] = j] /\ job'[d] = j /\ \A e \in Diids : e # d => job'[e] = job[e]
  BY <1>1, <1>3, <1>4
<1>6. /\ j \in Txjob /\ j.phase = "checked" /\ j.unit = u
      /\ j.cls = job[d].cls /\ j.deveui = job[d].deveui /\ j.chnl = job[d].chnl
      /\ j.chnl2 = job[d].chnl2 /\ j.gps = job[d].gps /\ j.txtime = job[d].txtime
      /\ j.xt = job[d].xt /\ j.rctx = job[d].rctx /\ j.alts = job[d].alts
  BY <1>3 DEF Txjob
<1> HIDE DEF j
<1>7. Serves(j, asked[d]) /\ End(j) = End(job[d])
  <2>1. /\ OnClock(job[d]) => OnClock(j)
        /\ OnGps(job[d]) => OnGps(j)
    BY <1>3, <1>6 DEF OnClock, OnGps
  <2>2. /\ InWindowA(job[d], asked[d]) => InWindowA(j, asked[d])
        /\ InWindowC(job[d], asked[d]) => InWindowC(j, asked[d])
    BY <1>6 DEF InWindowA, InWindowC
  <2> QED
    BY <1>3, <1>6, <2>1, <2>2 DEF Serves, End
<1>8. Queues(job', queue', {})
  <2>1. Queues([job EXCEPT ![queue[u][1]] = j], queue, {})
    <3>1. Queues(job, queue, {}) /\ {} \in SUBSET Units /\ u \notin {} /\ j.txtime = job[queue[u][1]].txtime
      BY <1>2, <1>3, <1>6 DEF QueuesInv
    <3> QED
      BY <1>1, <1>6, <3>1, ChangeHead
  <2> QED
    BY <1>1, <1>5, <2>1
<1>9. \A v \in Units \ {u} : queue[v] # <<>> => job'[queue[v][1]] = job[queue[v][1]]
  BY <1>3, <1>5, HeadOf, SMTT(30)
<1> HIDE DEF d
<1>10. TimersInv' /\ Displacing' = {}
  BY <1>1, <1>3, <1>5, <1>6, <1>7, <1>9, Returned DEF d
<1>11. /\ dcChnl' \in [Units -> [Chnls -> Int]] /\ dntxed' \in [Diids -> Reports]
       /\ SentInv' /\ DntxedInv' /\ JobsInv' /\ NoOverlap' /\ ChnlInv'
  <2>1. /\ job'[d].phase = "checked" /\ job'[d].unit = job[d].unit /\ job'[d].chnl = job[d].chnl
        /\ job'[d].txtime = job[d].txtime /\ Serves(job'[d], asked[d])
    BY <1>3, <1>5, <1>6, <1>7
  <2> QED
    BY <1>1, <1>5, <2>1, Accounted DEF d
<1>12. Types' /\ QueuesInv'
  BY <1>1, <1>2, <1>8, <1>10, <1>11 DEF Types, QueuesInv, Return
<1> QED
  BY <1>10, <1>11, <1>12 DEF IInv

(* The radio gets a frame: none is in the air, and the channel is free. *)
LEMMA TxStartStep ==
  ASSUME IInv, NEW u \in Units, TxStart(u)
  PROVE  IInv'
<1>0. PICK d : d = queue[u][1]
  OBVIOUS
<1>1. /\ Deciding(u) /\ queue[u] # <<>> /\ job[d].phase = "waiting"
      /\ job[d].txtime - now \in TX_MIN_GAP .. TX_AIM_GAP
      /\ handler' = <<"displace", u>>
      /\ UNCHANGED <<now, synced, jobs, queue, timer, dcBand, dcChnl, asked, dntxed>>
  BY <1>0 DEF TxStart, TxDue, HeadIs, Curr, HeadJob
<1>2. PICK j \in Recalculated(job[d]) :
        /\ Feedable(j, u)
        /\ job' = [job EXCEPT ![d] = [j EXCEPT !.phase = "txing"]]
        /\ sent' = sent \cup {[diid |-> d, unit |-> u, from |-> j.txtime,
                               till |-> j.txtime + Airtime[j.chnl],
                               chnl |-> j.chnl, xt |-> j.xt, lead |-> j.txtime - now]}
  BY <1>0 DEF TxStart, HeadJob, Curr
<1>3. Types /\ QueuesInv /\ TimersInv /\ SentInv /\ DntxedInv /\ JobsInv /\ NoOverlap /\ ChnlInv
  BY DEF IInv
<1>4. /\ Displacing = {} /\ Served = {u} /\ d \in Diids /\ d \in 1 .. jobs
      /\ job[d] \in Txjob /\ job[d].unit = u /\ asked[d] \in Asked /\ Serves(job[d], asked[d])
  BY <1>0, <1>1, <1>3, Handling, HeadOf
<1>5. now \in Nat /\ TX_MIN_GAP \in Nat /\ job[d].txtime \in Nat /\ job[d].txtime - now >= TX_MIN_GAP
  BY <1>1, <1>3, <1>4, TimesAssumption DEF Types, Txjob
<1>6. j.xt # NoXtime /\ CanTx(j)
  BY <1>2 DEF Feedable
<1>7. /\ j \in Txjob /\ j.unit = u /\ j.txtime >= now /\ Serves(j, asked[d])
  BY <1>1, <1>3, <1>4, <1>5, <1>6, RecalculatedJob DEF Types, Clocks
<1> DEFINE k == [j EXCEPT !.phase = "txing"]
<1>7a. PICK e : e = [diid |-> d, unit |-> u, from |-> j.txtime,
                    till |-> j.txtime + Airtime[j.chnl],
                    chnl |-> j.chnl, xt |-> j.xt, lead |-> j.txtime - now]
  OBVIOUS
<1>8. /\ k \in Txjob /\ k.phase = "txing" /\ k.unit = u
      /\ k.cls = j.cls /\ k.deveui = j.deveui /\ k.chnl = j.chnl
      /\ k.chnl2 = j.chnl2 /\ k.gps = j.gps /\ k.txtime = j.txtime
      /\ k.xt = j.xt /\ k.rctx = j.rctx /\ k.alts = j.alts
  BY <1>7 DEF Txjob
<1>9. /\ e.diid = d /\ e.unit = u /\ e.from = j.txtime /\ e.till = j.txtime + Airtime[j.chnl] /\ e.chnl = j.chnl
      /\ e.chnl \in Chnls /\ Airtime[e.chnl] \in Nat /\ e.from \in Nat /\ e.till \in Nat
  BY <1>7, <1>7a, TimesAssumption DEF Txjob
<1>10. job' = [job EXCEPT ![d] = k] /\ job'[d] = k /\ \A c \in Diids : c # d => job'[c] = job[c]
  BY <1>2, <1>3, <1>4 DEF QueuesInv, Queues
<1>11. sent' = sent \cup {e}
  BY <1>2, <1>7a
<1>12. \A f \in sent : f.diid # d
  BY <1>1, <1>3, NotOnAir
<1>13. \A f \in sent : /\ f.diid \in Diids /\ OnAir(f) /\ job'[f.diid] = job[f.diid]
                       /\ f.unit = u => f.till <= now /\ job[f.diid].phase # "txing"
  <2> TAKE f \in sent
  <2>1. OnAir(f) /\ f.diid \in Diids
    BY <1>3, TimesAssumption DEF SentInv, OnAir, Types, Diids
  <2>2. f.unit = u => job[f.diid].phase \notin {"txing", "checked"}
    BY <1>0, <1>12, HeadOnly
  <2> QED
    BY <1>10, <1>12, <2>1, <2>2 DEF OnAir
<1> HIDE DEF k
<1>14. Types'
  BY <1>1, <1>3 DEF Types
<1>15. QueuesInv'
  <2>1. Displacing' = {u}
    BY <1>1 DEF Displacing
  <2>2. Queues([job EXCEPT ![queue[u][1]] = k], queue, {u})
    <3>1. {u} = Displacing \cup {u} /\ {u} \in SUBSET Units
      BY <1>4
    <3> QED
      BY <1>0, <1>1, <1>3, <1>4, <1>8, <3>1, ChangeHead DEF QueuesInv, Displacing
  <2> QED
    BY <1>0, <1>1, <1>10, <2>1, <2>2 DEF QueuesInv
<1>16. TimersInv'
  <2>1. Served' = {u} /\ \A v \in Units : ~Deciding(v)'
    BY <1>1 DEF Served, Deciding
  <2>2. \A v \in Units \ {u} : queue[v] # <<>> => job'[queue[v][1]] = job[queue[v][1]]
    BY <1>4, <1>10, HeadOf
  <2>3. /\ timer \in [Units -> Nat \cup {Off}]
        /\ \A v \in Units \ {u} : queue[v] # <<>> => Timely(job, queue, timer, v)
    BY <1>3, <1>4 DEF TimersInv, Timers
  <2> QED
    BY <1>1, <2>1, <2>2, <2>3 DEF TimersInv, Timers, Timely, End
<1>17. SentInv'
  <2>1. ASSUME NEW f \in sent PROVE OnAir(f)'
    BY <1>1, <1>13 DEF OnAir
  <2>2. OnAir(e)'
    BY <1>1, <1>4, <1>8, <1>9, <1>10 DEF OnAir
  <2>3. ASSUME NEW c \in Diids, job'[c].phase \in {"txing", "checked"} PROVE \E f \in sent' : f.diid = c
    BY <1>3, <1>9, <1>10, <1>11, <2>3 DEF SentInv
  <2>4. \A f, g \in sent' : f.diid = g.diid => f = g
    BY <1>3, <1>9, <1>11, <1>12 DEF SentInv
  <2> QED
    BY <1>11, <2>1, <2>2, <2>3, <2>4 DEF SentInv
<1>18. DntxedInv'
  <2>1. ~Confirmed(d) /\ ~Confirmed(d)'
    BY <1>8, <1>10, <1>12 DEF Confirmed
  <2>2. ASSUME NEW c \in Diids, c # d PROVE Confirmed(c)' = Confirmed(c)
    BY <1>1, <1>9, <1>10, <1>11, <2>2 DEF Confirmed
  <2> QED
    BY <1>1, <1>3, <2>1, <2>2 DEF DntxedInv
<1>19. JobsInv'
  <2>1. ASSUME NEW c \in 1 .. jobs, job'[c] # Gone PROVE Serves(job[c], asked[c])'
    <3>1. CASE c = d
      BY <1>1, <1>7, <1>8, <1>10, <3>1 DEF Serves, OnClock, OnGps, InWindowA, InWindowC
    <3>2. CASE c # d
      <4>1. c \in Diids
        BY <1>3, TimesAssumption DEF Types, Diids
      <4> QED
        BY <1>1, <1>3, <1>10, <2>1, <3>2, <4>1, ServesStill DEF JobsInv
    <3> QED
      BY <3>1, <3>2
  <2>2. ASSUME NEW c \in Diids, c > jobs PROVE job'[c] = Gone
    <3>1. c # d
      BY <1>3, <1>4, <2>2 DEF Types
    <3> QED
      BY <1>3, <1>10, <2>2, <3>1 DEF JobsInv
  <2> QED
    BY <1>1, <1>3, <2>1, <2>2 DEF JobsInv
<1>20. NoOverlap'
  <2>1. \A f \in sent : f.unit = u => f.till <= e.from
    BY <1>5, <1>7, <1>9, <1>13, TimesAssumption DEF OnAir
  <2> QED
    BY <1>3, <1>9, <1>11, <2>1 DEF NoOverlap
<1>21. ChnlInv'
  <2> SUFFICES ASSUME Region = "PerChnl" PROVE ChnlDutyCycle' /\ \A f \in sent' : Charged(f)'
    BY DEF ChnlInv
  <2>1. ChnlDutyCycle /\ \A f \in sent : Charged(f)
    BY <1>3 DEF ChnlInv
  <2>2. e.from >= dcChnl[e.unit][e.chnl] /\ dcChnl[e.unit][e.chnl] \in Int
    <3>1. j.txtime >= dcChnl[j.unit][j.chnl]
      BY <1>6 DEF CanTx
    <3> QED
      BY <1>3, <1>7, <1>9, <3>1 DEF Types
  <2>3. ASSUME NEW f \in sent' PROVE Charged(f)'
    <3>1. CASE f \in sent
      BY <1>1, <1>13, <2>1, <3>1 DEF Charged
    <3>2. CASE f = e
      BY <1>1, <1>8, <1>9, <1>10, <2>2, <3>2 DEF Charged
    <3> QED
      BY <1>11, <3>1, <3>2
  <2>4. ASSUME NEW f \in sent, f.unit = e.unit, f.chnl = e.chnl
        PROVE  ~(e.from < f.from) /\ Rested(f, e, ChnlRate)
    <3>1. /\ f.till <= now /\ job[f.diid].phase # "txing" /\ f.from \in Nat
          /\ f.till = f.from + Airtime[f.chnl] /\ Airtime[f.chnl] \in Nat
      BY <1>9, <1>13, <2>4 DEF OnAir
    <3>2. dcChnl[e.unit][e.chnl] >= f.from + (f.till - f.from) * ChnlRate
      BY <2>1, <2>4, <3>1 DEF Charged
    <3>3. (f.till - f.from) * ChnlRate \in Int
      BY <3>1, TimesAssumption
    <3>4. ~(e.from < f.from)
      BY <1>5, <1>7, <1>9, <3>1
    <3> QED
      BY <1>9, <2>2, <3>1, <3>2, <3>3, <3>4 DEF Rested
  <2>5. ~(e.from < e.from)
    BY <1>9
  <2>6. ChnlDutyCycle'
    <3> SUFFICES ASSUME NEW f \in sent', NEW g \in sent', f.unit = g.unit, f.chnl = g.chnl, f.from < g.from
                 PROVE  Rested(f, g, ChnlRate)
      BY DEF ChnlDutyCycle
    <3> QED
      BY <1>11, <2>1, <2>4, <2>5 DEF ChnlDutyCycle
  <2> QED
    BY <2>3, <2>6
<1> QED
  BY <1>14, <1>15, <1>16, <1>17, <1>18, <1>19, <1>20, <1>21 DEF IInv
-----------------------------------------------------------------------------
(* The theorems *)

LEMMA StepIInv ==
  ASSUME IInv, [Next]_vars
  PROVE  IInv'
<1>1. CASE UNCHANGED vars
  <2>1. UNCHANGED <<now, synced, jobs, job, queue, timer, dcChnl, handler, asked, sent, dntxed>>
    BY <1>1 DEF vars
  <2>2. now \in Nat /\ now' \in Nat /\ now' >= now
    BY <2>1 DEF IInv, Types
  <2>3. Types' /\ QueuesInv' /\ TimersInv'
    BY <2>1 DEF IInv, Types, QueuesInv, Displacing, TimersInv, Timers, Timely, Due, Served, Deciding, End
  <2> QED
    BY <2>1, <2>2, <2>3, JobsStill DEF IInv
<1>2. CASE Next
  <2>1. CASE \E r \in Requests : Receive(r)
    BY <2>1, ReceiveStep
  <2>2. CASE \E u \in Units : Sync(u)
    BY <2>2, SyncStep
  <2>3. CASE Tick
    BY <2>3, TickStep
  <2>4. CASE \E u \in Units : TxTimeout(u)
    BY <2>4, TxTimeoutStep
  <2>5. ASSUME NEW u \in Units, HandlerStep(u) PROVE IInv'
    BY <2>5, EmptyQueueStep, TxDoneStep, TxConfirmedStep, TxFailedStep, TxMissedStep, TxAheadStep,
       TxStartStep, TxRefusedStep, DisplaceStep, DisplaceDoneStep DEF HandlerStep
  <2> QED
    BY <1>2, <2>1, <2>2, <2>3, <2>4, <2>5 DEF Next
<1> QED
  BY <1>1, <1>2

(* Everything the scheduler of s2e.c keeps from one step of the handler to *)
(* the next, together.                                                     *)
THEOREM Scheduled == Spec => []IInv
<1>1. Init => IInv
  BY InitIInv
<1>2. IInv /\ [Next]_vars => IInv'
  BY StepIInv
<1> QED
  BY <1>1, <1>2, PTL DEF Spec

(* The shapes of the data: altTxTime, s2e_addTxjob and s2e_nextTxAction    *)
(* make only jobs that s2e_nextTxAction can send.                          *)
THEOREM TypesRight == Spec => []TypeOK
<1>1. ASSUME IInv PROVE TypeOK
  <2>1. queue \in [Units -> Seq(1 .. jobs)]
    <3>1. queue \in [Units -> Seq(Diids)]
      BY <1>1 DEF IInv, QueuesInv, Queues
    <3>2. ASSUME NEW u \in Units PROVE queue[u] \in Seq(1 .. jobs)
      <4>1. queue[u] \in Seq(Diids) /\ \A i \in 1 .. Len(queue[u]) : queue[u][i] \in 1 .. jobs
        BY <1>1, <3>1, HeadIsJob DEF IInv
      <4> DEFINE s == queue[u]
      <4> HIDE DEF s
      <4>2. s \in Seq(Diids) => s = [i \in 1 .. Len(s) |-> s[i]] /\ Len(s) \in Nat
        OBVIOUS
      <4>3. s \in [1 .. Len(s) -> 1 .. jobs] /\ Len(s) \in Nat
        BY <4>1, <4>2 DEF s
      <4> QED
        BY <4>3, SeqDef DEF s
    <3> QED
      BY <3>1, <3>2
  <2>2. \A d \in Diids : job[d] \in Txjob \cup {Gone}
    BY <1>1 DEF IInv, QueuesInv, Queues
  <2>3. timer \in [Units -> Nat \cup {Off}]
    BY <1>1 DEF IInv, TimersInv, Timers
  <2> QED
    BY <1>1, <2>1, <2>2, <2>3 DEF IInv, Types, TypeOK
<1>2. IInv => TypeOK
  BY <1>1
<1> QED
  BY <1>2, Scheduled, PTL

(* s2e_addTxjob and s2e_nextTxAction keep every job in the one queue of    *)
(* its unit, in order, with the timer set that takes it out again, and a   *)
(* frame in the air is left alone.                                         *)
THEOREM QueuesSound == Spec => []QueueSound
<1> SUFFICES ASSUME IInv PROVE QueueSound
  BY Scheduled, PTL
<1>1. QueuesRight
  <2>1. ASSUME NEW d \in Diids, NEW u \in Units PROVE (d \in Range(queue[u])) <=> (job[d] # Gone /\ job[d].unit = u)
    <3>1. (\E i \in DOMAIN queue[u] : queue[u][i] = d) <=> (job[d] # Gone /\ job[d].unit = u)
      BY DEF IInv, QueuesInv, Queues, Homed
    <3> QED
      BY <3>1 DEF Range
  <2>2. ASSUME NEW d \in Diids PROVE job[d] # Gone => job[d].unit \in Units
    BY TxjobNotGone DEF IInv, QueuesInv, Queues
  <2>3. \A d \in Diids : Queued(d) = IF job[d] = Gone THEN {} ELSE {job[d].unit}
    BY <2>1, <2>2 DEF Queued
  <2>4. \A u \in Units : IsInjective(queue[u])
    BY DEF IInv, QueuesInv, Queues, Once, IsInjective
  <2>5. \A u \in Units : \A i \in 2 .. Len(queue[u]) : job[queue[u][i]].phase = "waiting"
    BY DEF IInv, QueuesInv, Queues, Following
  <2> QED
    BY <2>3, <2>4, <2>5 DEF QueuesRight
<1>2. QueuesOrdered
  BY DEF IInv, QueuesInv, Queues, Ordered, Displacing, QueuesOrdered
<1>3. WakeupSet
  <2> SUFFICES ASSUME handler = <<>>, NEW u \in Units, queue[u] # <<>>
               PROVE  /\ timer[u] # Off
                      /\ \/ timer[u] <= now
                         \/ Curr(u).phase = "waiting" /\ timer[u] <= Curr(u).txtime - TX_AIM_GAP
                         \/ Curr(u).phase = "txing" /\ timer[u] <= Curr(u).txtime + TXCHECK_FUDGE
                         \/ Curr(u).phase = "checked" /\ timer[u] <= End(Curr(u))
    BY DEF WakeupSet
  <2>1. u \notin Served
    BY DEF Served
  <2>2. Timely(job, queue, timer, u) /\ timer[u] \in Nat \cup {Off}
    BY <2>1 DEF IInv, TimersInv, Timers
  <2>3. Curr(u) \in Txjob /\ End(Curr(u)) \in Int /\ Curr(u).txtime \in Int /\ TXCHECK_FUDGE \in Int
    BY HeadOf, TimesAssumption DEF Curr, HeadJob
  <2>4. Curr(u).phase \in {"waiting", "txing", "checked"}
    BY <2>3 DEF Txjob
  <2> QED
    BY <2>2, <2>3, <2>4 DEF Timely, Curr, HeadJob
<1>4. RunningUndisturbed
  BY DEF IInv, TimersInv, Due, RunningUndisturbed, Curr, HeadJob
<1> QED
  BY <1>1, <1>2, <1>3, <1>4 DEF QueueSound

(* send_dntxed: tried once for a frame that was handed to a radio and not   *)
(* found silent, never for another one, and no frame is sent twice.        *)
THEOREM DntxedOnce == Spec => []DntxedRight
<1> SUFFICES ASSUME IInv PROVE DntxedRight
  BY Scheduled, PTL
<1> SUFFICES ASSUME NEW d \in Diids
             PROVE  LET onAir == \E e \in sent : e.diid = d
                    IN  /\ dntxed[d].out <= 1
                        /\ dntxed[d].out = 1 => onAir /\ asked[d].deveui
                        /\ onAir /\ job[d] = Gone /\ asked[d].deveui
                             => dntxed[d].out + dntxed[d].lost = 1
                        /\ Cardinality({e \in sent : e.diid = d}) <= 1
  BY DEF DntxedRight
<1>1. /\ dntxed[d].out + dntxed[d].lost = IF Confirmed(d) THEN 1 ELSE 0
      /\ dntxed[d].out \in Nat /\ dntxed[d].lost \in Nat
  BY DEF IInv, DntxedInv, Types, Reports
<1>2. Cardinality({e \in sent : e.diid = d}) <= 1
  <2>1. \A e, f \in sent : e.diid = f.diid => e = f
    BY DEF IInv, SentInv
  <2>2. CASE \E e \in sent : e.diid = d
    <3>1. PICK e \in sent : e.diid = d
      BY <2>2
    <3>2. {f \in sent : f.diid = d} = {e}
      BY <2>1, <3>1
    <3> QED
      BY <3>2, FS_Singleton
  <2>3. CASE ~ \E e \in sent : e.diid = d
    <3>1. {f \in sent : f.diid = d} = {}
      BY <2>3
    <3> QED
      BY <3>1, FS_EmptySet
  <2> QED
    BY <2>2, <2>3
<1> QED
  BY <1>1, <1>2 DEF Confirmed, Gone

(* update_DC and s2e_canTxPerChnlDC: where duty cycle is per channel, a    *)
(* channel of a unit rests after every frame.                              *)
THEOREM ChnlRests == ASSUME Region = "PerChnl" PROVE Spec => []ChnlDutyCycle
<1>1. IInv => ChnlDutyCycle
  BY DEF IInv, ChnlInv
<1> QED
  BY <1>1, Scheduled, PTL

(* Two frames are never in the air of one TX unit at a time: the timer of  *)
(* s2e_txtimeout leaves a frame alone until it is over.                    *)
THEOREM OneInTheAir == Spec => []NoOverlap
<1>1. IInv => NoOverlap
  BY DEF IInv
<1> QED
  BY <1>1, Scheduled, PTL
-----------------------------------------------------------------------------
(* What the radio gets *)

Aimed(e) == InWindow(e) /\ e.xt = [unit |-> e.unit, t |-> e.from, ok |-> TRUE]
AimedInv == \A e \in sent : Aimed(e)

(* A frame is for a window of its device, on the clock of the unit, after  *)
(* all that this unit sent before; and it is no later than a GPS time that *)
(* stays what it is.                                                       *)
LEMMA Handed ==
  ASSUME IInv, NEW u \in Units, TxStart(u)
  PROVE  /\ asked' = asked
         /\ \E e : /\ sent' = sent \cup {e} /\ e.unit = u /\ e.lead = e.from - now
                   /\ e.from \in Nat /\ e.from >= now /\ e.till \in Nat /\ e.till >= e.from
                   /\ \A f \in sent : f.unit = u => f.till <= now /\ f.till \in Nat
                   /\ InSync => Aimed(e)
                   /\ Drift \subseteq {0} => e.lead >= TX_MIN_GAP
<1> DEFINE d == queue[u][1]
<1>1. /\ Deciding(u) /\ queue[u] # <<>> /\ job[d].phase = "waiting"
      /\ job[d].txtime - now \in TX_MIN_GAP .. TX_AIM_GAP /\ asked' = asked
  BY DEF TxStart, TxDue, HeadIs, Curr, HeadJob
<1>2. PICK j \in Recalculated(job[d]) :
        /\ Feedable(j, u)
        /\ sent' = sent \cup {[diid |-> d, unit |-> u, from |-> j.txtime,
                               till |-> j.txtime + Airtime[j.chnl],
                               chnl |-> j.chnl, xt |-> j.xt, lead |-> j.txtime - now]}
  BY DEF TxStart, HeadJob, Curr
<1>3. /\ d \in Diids /\ d \in 1 .. jobs /\ job[d] \in Txjob /\ job[d].unit = u
      /\ asked[d] \in Asked /\ Serves(job[d], asked[d])
  BY <1>1, HeadOf
<1>4. now \in Nat /\ TX_MIN_GAP \in Nat \ {0} /\ job[d].txtime \in Nat /\ job[d].txtime - now >= TX_MIN_GAP
  BY <1>1, <1>3, TimesAssumption DEF IInv, Types, Txjob
<1>5. j.xt # NoXtime
  BY <1>2 DEF Feedable
<1>6. /\ j \in Txjob /\ j.unit = u /\ j.txtime >= now /\ Serves(j, asked[d]) /\ j.chnl = job[d].chnl
      /\ job[d].cls \in {"P", "B"} => \E dt \in Drift : j.txtime = j.gps + dt
      /\ InSync => j.xt = [unit |-> j.unit, t |-> j.txtime, ok |-> TRUE]
      /\ job[d].cls \notin {"P", "B"} => j.txtime = job[d].txtime
  BY <1>1, <1>3, <1>4, <1>5, RecalculatedJob, SMTT(30) DEF IInv, Types, Clocks
<1> DEFINE e == [diid |-> d, unit |-> u, from |-> j.txtime,
                 till |-> j.txtime + Airtime[j.chnl],
                 chnl |-> j.chnl, xt |-> j.xt, lead |-> j.txtime - now]
<1>7. /\ e.diid = d /\ e.unit = u /\ e.from = j.txtime /\ e.till = j.txtime + Airtime[j.chnl] /\ e.chnl = j.chnl
      /\ e.xt = j.xt /\ e.lead = e.from - now /\ e.from \in Nat /\ Airtime[j.chnl] \in Nat
  BY <1>6, TimesAssumption DEF Txjob
<1>8. sent' = sent \cup {e}
  BY <1>2
<1> HIDE DEF e, d
<1>9. ASSUME NEW f \in sent, f.unit = u PROVE f.till <= now /\ f.till \in Nat
  <2>1. OnAir(f) /\ f.diid # d
    BY <1>1, NotOnAir DEF IInv, SentInv
  <2>2. job[f.diid].phase \notin {"txing", "checked"}
    BY <1>9, <2>1, HeadOnly DEF d
  <2>3. Airtime[f.chnl] \in Nat
    BY <2>1, TimesAssumption DEF OnAir
  <2> QED
    BY <2>1, <2>2, <2>3 DEF OnAir
<1>10. ASSUME InSync PROVE InWindow(e)
  <2>1. j.cls = asked[d].cls /\ asked[d].cls \in {"A", "C", "P", "B"} /\ j.cls = job[d].cls
    BY <1>3, <1>6 DEF Serves, Asked
  <2>2. CASE j.cls = "A"
    <3>1. InWindowA(j, asked[d])
      BY <1>6, <1>10, <2>2 DEF Serves
    <3> QED
      BY <1>7, <2>1, <2>2, <3>1 DEF InWindow, InWindowA
  <2>3. CASE j.cls = "C"
    <3>1. InWindowC(j, asked[d])
      BY <1>6, <1>10, <2>3 DEF Serves
    <3> QED
      BY <1>7, <2>1, <2>3, <3>1 DEF InWindow, InWindowC
  <2>4. CASE j.cls \in {"P", "B"}
    <3>1. j.gps = asked[d].t /\ j.chnl = asked[d].chnl
      BY <1>6, <2>4 DEF Serves
    <3> QED
      BY <1>6, <1>7, <2>1, <2>4, <3>1 DEF InWindow
  <2> QED
    BY <2>1, <2>2, <2>3, <2>4
<1>11. ASSUME Drift \subseteq {0} PROVE j.txtime = job[d].txtime
  <2>1. CASE job[d].cls \notin {"P", "B"}
    BY <1>6, <2>1
  <2>2. CASE job[d].cls \in {"P", "B"}
    <3>1. j.gps = asked[d].t /\ job[d].gps = asked[d].t /\ OnGps(job[d]) /\ j.cls = job[d].cls
      BY <1>3, <1>6, <2>2 DEF Serves
    <3>2. job[d].txtime # 0
      BY <1>4
    <3>3. job[d].txtime = job[d].gps + 0 /\ j.txtime = j.gps + 0
      BY <1>6, <1>11, <2>2, <3>1, <3>2 DEF OnGps
    <3> QED
      BY <3>1, <3>3
  <2> QED
    BY <2>1, <2>2
<1>12. InSync => Aimed(e)
  BY <1>6, <1>7, <1>10 DEF Aimed
<1>13. Drift \subseteq {0} => e.lead >= TX_MIN_GAP
  BY <1>4, <1>7, <1>11
<1>14. e.till \in Nat /\ e.till >= e.from /\ e.from >= now
  BY <1>6, <1>7
<1> QED
  BY <1>1, <1>7, <1>8, <1>9, <1>12, <1>13, <1>14

(* Other steps hand nothing over, and what was asked for stays. *)
LEMMA OnlyStartSends ==
  ASSUME IInv, [Next]_vars
  PROVE  /\ \A e \in sent : asked'[e.diid] = asked[e.diid]
         /\ sent' \subseteq sent \/ \E u \in Units : TxStart(u)
<1>1. \A e \in sent : e.diid \in 1 .. jobs
  BY DEF IInv, SentInv, OnAir
<1>2. jobs \in Nat /\ asked \in [Diids -> Asked \cup {Gone}] /\ 1 .. jobs \subseteq Diids
  BY TimesAssumption DEF IInv, Types, Diids
<1>3. CASE UNCHANGED vars
  BY <1>3 DEF vars
<1>4. ASSUME NEW r \in Requests, Receive(r)
      PROVE  sent' = sent /\ \A e \in sent : asked'[e.diid] = asked[e.diid]
  <2>1. ASSUME NEW i \in 1 .. jobs PROVE asked'[i] = asked[i]
    <3>1. i # jobs + 1 /\ i \in Diids
      BY <1>2
    <3> QED
      BY <1>2, <1>4, <3>1 DEF Receive
  <2> QED
    BY <1>1, <1>4, <2>1 DEF Receive
<1>5. ASSUME NEW u \in Units, Sync(u) \/ TxTimeout(u) PROVE UNCHANGED <<asked, sent>>
  BY <1>5 DEF Sync, TxTimeout
<1>6. ASSUME NEW u \in Units, HandlerStep(u) PROVE asked' = asked /\ (sent' \subseteq sent \/ TxStart(u))
  BY <1>6 DEF HandlerStep, EmptyQueue, TxDone, TxConfirmed, TxFailed, TxMissed, TxAhead, TxRefused,
              Displace, DisplaceDone, TxStart
<1>7. Tick => UNCHANGED <<asked, sent>>
  BY DEF Tick
<1> QED
  BY <1>3, <1>4, <1>5, <1>6, <1>7 DEF Next

LEMMA StepAimed ==
  ASSUME InSync, IInv, AimedInv, [Next]_vars
  PROVE  AimedInv'
<1>1. \A e \in sent : asked'[e.diid] = asked[e.diid]
  BY OnlyStartSends
<1>2. ASSUME NEW e \in sent PROVE Aimed(e)'
  <2> DEFINE W(a) ==
        LET rx1 == e.from = a.t /\ e.chnl = a.chnl
        IN  CASE a.cls = "A" -> rx1 \/ (e.from = a.t + RX2_DELAY /\ e.chnl = a.chnl2)
              [] a.cls \in {"P", "B"} -> e.chnl = a.chnl /\ \E dt \in Drift : e.from = a.t + dt
              [] a.cls = "C" -> rx1 \/ e.chnl = a.chnl2
                                   \/ (a.chnl2 = NoChnl /\ e.chnl = a.chnl /\ e.from > a.t)
  <2>1. InWindow(e) = W(asked[e.diid]) /\ InWindow(e)' = W(asked'[e.diid])
    BY DEF InWindow
  <2> HIDE DEF W
  <2>2. InWindow(e)' = InWindow(e)
    BY <1>1, <1>2, <2>1
  <2> QED
    BY <1>2, <2>2 DEF AimedInv, Aimed
<1>3. CASE sent' \subseteq sent
  BY <1>2, <1>3 DEF AimedInv
<1>4. CASE \E u \in Units : TxStart(u)
  <2>1. PICK u \in Units : TxStart(u)
    BY <1>4
  <2>2. PICK e : asked' = asked /\ sent' = sent \cup {e} /\ Aimed(e)
    BY <2>1, Handed
  <2>3. Aimed(e)'
    BY <2>2 DEF Aimed, InWindow
  <2> QED
    BY <1>2, <2>2, <2>3 DEF AimedInv
<1> QED
  BY <1>3, <1>4, OnlyStartSends

(* The device hears what the radio sends: with the first time sync in time *)
(* (InSync), every relocation of s2e_addTxjob and every recalculated xtime *)
(* leads to a window of the device, on the clock of the sending unit.      *)
THEOREM OnAirSound == ASSUME InSync PROVE Spec => []OnAirRight
<1>1. Init => IInv /\ AimedInv
  BY InitIInv DEF Init, AimedInv
<1>2. IInv /\ AimedInv /\ [Next]_vars => (IInv /\ AimedInv)'
  BY StepIInv, StepAimed
<1>3. IInv /\ AimedInv => OnAirRight
  BY DEF IInv, AimedInv, Aimed, OnAirRight, WindowsMet, XtimeTrue
<1> QED
  BY <1>1, <1>2, <1>3, PTL DEF Spec

(* Where GPS time does not drift, the radio also gets every frame          *)
(* TX_MIN_GAP ahead and as long after the end of the one before.           *)
THEOREM SentSound == ASSUME InSync, Drift \subseteq {0} PROVE Spec => []SentRight
<1> DEFINE J == IInv /\ AimedInv /\ LeadKept /\ GapKept
<1>1. Init => J
  BY InitIInv DEF Init, AimedInv, LeadKept, GapKept
<1>2. ASSUME J, [Next]_vars PROVE J'
  <2>1. IInv' /\ AimedInv'
    BY <1>2, StepIInv, StepAimed
  <2>2. CASE sent' \subseteq sent
    BY <1>2, <2>1, <2>2 DEF LeadKept, GapKept
  <2>3. CASE \E u \in Units : TxStart(u)
    <3>1. PICK u \in Units : TxStart(u)
      BY <2>3
    <3>2. PICK e : /\ sent' = sent \cup {e} /\ e.unit = u /\ e.lead = e.from - now
                   /\ e.from \in Nat /\ e.lead >= TX_MIN_GAP
                   /\ \A f \in sent : f.unit = u => f.till <= now /\ f.till \in Nat
      BY <1>2, <3>1, Handed
    <3>3. LeadKept'
      BY <1>2, <3>2 DEF LeadKept
    <3>4. \A f \in sent : f.unit = u => f.till + TX_MIN_GAP <= e.from
      <4>1. now \in Nat /\ TX_MIN_GAP \in Nat
        BY <1>2, TimesAssumption DEF IInv, Types
      <4> QED
        BY <3>2, <4>1
    <3>5. GapKept'
      BY <1>2, <3>2, <3>4 DEF GapKept
    <3> QED
      BY <2>1, <3>3, <3>5
  <2> QED
    BY <1>2, <2>2, <2>3, OnlyStartSends
<1>3. J => SentRight
  BY DEF AimedInv, Aimed, SentRight, WindowsMet, XtimeTrue
<1>4. J /\ [Next]_vars => J'
  BY <1>2
<1> QED
  BY <1>1, <1>3, <1>4, PTL DEF Spec
=============================================================================
