-------------------------------- MODULE RxQ --------------------------------
(***************************************************************************)
(* The receive store of xq.c (RXQ) with its users: the radio layer, which  *)
(* fills an rxjob and adds it (s2e_addRxjob drops mirror frames on the     *)
(* way), and s2e_flushRxjobs, which passes the oldest frame on to the      *)
(* network server while the connection has send buffers.                   *)
(*                                                                         *)
(* The jobs first .. next-1 are in use and their frames lie back to back   *)
(* in rxdata.  The used part of both arrays wanders towards the end, and   *)
(* is moved to the beginning when it has got there.                        *)
(***************************************************************************)
EXTENDS Integers, Sequences, FiniteSets, SequencesExt

CONSTANTS
  MaxJobs,       \* MAX_RXJOBS
  MaxData,       \* MAX_RXDATA
  MaxLen,        \* MAX_RXFRAME_LEN
  Byte,          \* values of a byte, 0 among them
  DataRates,     \* values of rxjob.dr
  Signals        \* values of 8*snr-rssi, the quality of a reception

ASSUME RxSizes ==
  /\ MaxJobs \in Nat \ {0}
  /\ MaxLen \in Nat /\ MaxData \in Nat /\ MaxData >= MaxLen
ASSUME RxDomains == 0 \in Byte /\ DataRates \subseteq Nat /\ Signals \subseteq Int

Slots == 0 .. MaxJobs - 1
Addr  == 0 .. MaxData - 1
Data  == UNION {[1 .. n -> Byte] : n \in 0 .. MaxLen}
Frames == [dr : DataRates, data : Data, sig : Signals]

(* A slot outside first .. next-1: it is filled in anew before it is read. *)
Unused == [off |-> 0, len |-> 0, dr |-> -1, sig |-> 0]

VARIABLES
  rxq,           \* rxq_t: [first, next, jobs, rxdata]
  out            \* history: the frame handed on last

vars == <<rxq, out>>

NoFrame == [dr |-> -1, data |-> <<>>, sig |-> 0]

(* rxq_ini *)
Init ==
  /\ rxq = [first |-> 0, next |-> 0, jobs |-> [i \in Slots |-> Unused],
            rxdata |-> [a \in Addr |-> 0]]
  /\ out = NoFrame
-----------------------------------------------------------------------------
InUse(q) == q.first .. q.next - 1
End(q) == LET last == q.jobs[q.next - 1] IN last.off + last.len

(* memmove of the n bytes at src to dst *)
Moved(data, dst, src, n) ==
  [a \in Addr |-> IF a \in dst .. dst + n - 1 THEN data[a - dst + src] ELSE data[a]]

(* Fault: first is not reset. *)
JobsDownOnly(q) ==
  [q EXCEPT !.jobs = [i \in Slots |-> IF i + q.first < q.next THEN q.jobs[i + q.first] ELSE Unused],
            !.next = q.next - q.first]

(* The two compactions of rxq_nextJob *)
JobsDown(q) ==
  [q EXCEPT !.jobs = [i \in Slots |-> IF i + q.first < q.next THEN q.jobs[i + q.first] ELSE Unused],
            !.next = q.next - q.first, !.first = 0]

(* Fault: the offset of the last job is not corrected. *)
DataDownButLast(q) ==
  LET off == q.jobs[q.first].off
  IN  [q EXCEPT !.rxdata = Moved(@, 0, off, End(q) - off),
                !.jobs = [i \in Slots |-> IF i \in q.first .. q.next - 2
                                          THEN [q.jobs[i] EXCEPT !.off = @ - off]
                                          ELSE q.jobs[i]]]

DataDown(q) ==
  LET off == q.jobs[q.first].off
  IN  [q EXCEPT !.rxdata = Moved(@, 0, off, End(q) - off),
                !.jobs = [i \in Slots |-> IF i \in InUse(q)
                                          THEN [q.jobs[i] EXCEPT !.off = @ - off]
                                          ELSE q.jobs[i]]]

IsEmpty(q) == q.first = q.next
NoSlot(q) == q.next >= MaxJobs
NoData(q) == ~IsEmpty(q) /\ End(q) + MaxLen > MaxData

(* rxq_nextJob leaves the store like this, whether it finds room or not. *)
Prepared(q) ==
  IF IsEmpty(q) THEN [q EXCEPT !.first = 0, !.next = 0]
  ELSE IF NoSlot(q) /\ q.first = 0 THEN q
  ELSE LET c == IF NoSlot(q) THEN JobsDown(q) ELSE q
       IN  IF NoData(c) THEN DataDown(c) ELSE c

(* It returns a job rather than NULL. *)
HasRoom(q) == ~NoSlot(q) /\ ~NoData(q)

(* Frame f is filled into the job earmarked in q and this is committed. *)
Committed(q, f) ==
  LET end == IF IsEmpty(q) THEN 0 ELSE End(q)
  IN  [q EXCEPT !.jobs[q.next] = [off |-> end, len |-> Len(f.data), dr |-> f.dr, sig |-> f.sig],
                !.rxdata = [a \in Addr |-> IF a \in end .. end + Len(f.data) - 1
                                           THEN f.data[a - end + 1] ELSE @[a]],
                !.next = @ + 1]

(* ... or it is not: the bytes are there, the job is not. *)
WalkedAway(q, f) == [q EXCEPT !.rxdata = Committed(q, f).rxdata]

(* Fault: the offsets of the jobs behind p are left as they are. *)
DroppedUnshifted(q, p) ==
  LET pend == q.jobs[p].off + q.jobs[p].len
  IN  [q EXCEPT !.rxdata = Moved(@, q.jobs[p].off, pend, End(q) - pend),
                !.jobs = [i \in Slots |-> IF i = q.next - 1 THEN Unused
                                          ELSE IF i \in p .. q.next - 2 THEN q.jobs[i + 1]
                                          ELSE q.jobs[i]],
                !.next = @ - 1]

(* rxq_dropJob of p, which is not the last job.  The code also copies the  *)
(* slot behind the last job, which is out of use (and out of the array if  *)
(* all slots are in use).                                                  *)
Dropped(q, p) ==
  LET pend == q.jobs[p].off + q.jobs[p].len
  IN  [q EXCEPT !.rxdata = Moved(@, q.jobs[p].off, pend, End(q) - pend),
                !.jobs = [i \in Slots |-> IF i = q.next - 1 THEN Unused
                                          ELSE IF i \in p .. q.next - 2
                                          THEN [q.jobs[i + 1] EXCEPT !.off = @ - q.jobs[p].len]
                                          ELSE q.jobs[i]],
                !.next = @ - 1]

FrameOf(q, i) ==
  LET j == q.jobs[i]
  IN  [dr |-> j.dr, data |-> [n \in 1 .. j.len |-> q.rxdata[j.off + n - 1]], sig |-> j.sig]

(* Fault: only the oldest frame is compared. *)
MirrorsOfFirst(q, f) ==
  {i \in InUse(q) : i = q.first /\ FrameOf(q, i).dr = f.dr /\ FrameOf(q, i).data = f.data}

(* The frames in store that f is a mirror of, as s2e_addRxjob compares them *)
Mirrors(q, f) == {i \in InUse(q) : FrameOf(q, i).dr = f.dr /\ FrameOf(q, i).data = f.data}

(* s2e_addRxjob: the first mirror or the new frame is dropped. *)
Added(q, f) ==
  IF Mirrors(q, f) = {} THEN Committed(q, f)
  ELSE LET p == CHOOSE i \in Mirrors(q, f) : \A k \in Mirrors(q, f) : i <= k
       IN  IF f.sig > q.jobs[p].sig THEN Dropped(Committed(q, f), p) ELSE WalkedAway(q, f)
-----------------------------------------------------------------------------
(* The radio layer got a frame with a good CRC (rxpolling, or the message  *)
(* of a slave process in read_slave_pipe).                                 *)
Receive(f) ==
  /\ LET q == Prepared(rxq) IN rxq' = IF HasRoom(q) THEN Added(q, f) ELSE q
  /\ UNCHANGED out

(* It got one that it does not want (CRC, size, data rate). *)
Discard ==
  /\ rxq' = Prepared(rxq)
  /\ UNCHANGED out

(* s2e_flushRxjobs, one round, with a send buffer: the frame is sent, or   *)
(* s2e_parse_lora_frame filters it out, or its encoding does not fit.      *)
Flush ==
  /\ ~IsEmpty(rxq)
  /\ out' \in {FrameOf(rxq, rxq.first), out}
  /\ rxq' = [rxq EXCEPT !.first = @ + 1, !.jobs[rxq.first] = Unused]

Next == (\E f \in Frames : Receive(f)) \/ Discard \/ Flush

Spec == Init /\ [][Next]_vars
-----------------------------------------------------------------------------
(* Shapes of the data; the indices stay in the array and first does not    *)
(* overtake next.                                                          *)
TypeOK ==
  /\ rxq.first \in 0 .. MaxJobs /\ rxq.next \in rxq.first .. MaxJobs
  /\ rxq.rxdata \in [Addr -> Byte]
  /\ \A i \in InUse(rxq) : rxq.jobs[i] \in [off : 0 .. MaxData, len : 0 .. MaxLen,
                                            dr : DataRates, sig : Signals]

(* The frames in use lie back to back inside rxdata, in the order of their *)
(* jobs: a moved job takes its offset along and no frame runs over the end.*)
FramesTiled ==
  \A i \in InUse(rxq) :
    /\ rxq.jobs[i].off + rxq.jobs[i].len <= MaxData
    /\ i > rxq.first => rxq.jobs[i].off = rxq.jobs[i - 1].off + rxq.jobs[i - 1].len

(* Mirrored receptions are found among all the frames that wait.           *)
NoMirrors ==
  \A i, k \in InUse(rxq) : i # k => k \notin Mirrors(rxq, FrameOf(rxq, i))

Waiting(q) == [n \in 1 .. q.next - q.first |-> FrameOf(q, q.first + n - 1)]
BytesOf(s) == Cardinality({p \in (1 .. Len(s)) \X (1 .. MaxLen) : p[2] <= Len(s[p[1]].data)})

(* No slot is left, or not the bytes for the longest frame. *)
Full(s) == s # <<>> /\ (Len(s) = MaxJobs \/ BytesOf(s) + MaxLen > MaxData)

Fifo == INSTANCE RxFifo WITH
  Full <- Full,
  fifo <- Waiting(rxq),
  open <- HasRoom(Prepared(rxq))

(* The store is a FIFO of the frames received: moving jobs and data around *)
(* loses, mixes up and reorders nothing, and a frame is refused if and     *)
(* only if those that wait leave no room for one, never by fragmentation.  *)
ImplementsFifo == Fifo!Spec
=============================================================================
