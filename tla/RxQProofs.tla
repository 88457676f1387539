----------------------------- MODULE RxQProofs -----------------------------
(***************************************************************************)
(* Proofs about the receive store of xq.c, for any number of slots, any    *)
(* data area and any frames: the layout of rxdata stays sound, no waiting  *)
(* frame is lost, altered or overtaken, and none waits twice.              *)
(*                                                                         *)
(* FramesTiled relates neighbours only, but a compaction subtracts the     *)
(* offset of the first job from all the others: that no other job lies     *)
(* before it is what Ordered adds, and Live that a job in use is filled.   *)
(***************************************************************************)
EXTENDS RxQ, SequenceTheorems, FiniteSetTheorems, FunctionTheorems, WellFoundedInduction, TLAPS

Job == [off : 0 .. MaxData, len : 0 .. MaxLen, dr : DataRates \cup {-1}, sig : Signals \cup {0}]
Store == [first : 0 .. MaxJobs, next : 0 .. MaxJobs, jobs : [Slots -> Job], rxdata : [Addr -> Byte]]

(* Frames of different jobs do not overlap, however far apart the jobs.    *)
Ordered(q) ==
  \A i, k \in InUse(q) : i < k => q.jobs[i].off + q.jobs[i].len <= q.jobs[k].off

BackToBack(q) ==
  \A i \in InUse(q) : i > q.first => q.jobs[i].off = q.jobs[i - 1].off + q.jobs[i - 1].len

InArea(q) == \A i \in InUse(q) : q.jobs[i].off + q.jobs[i].len <= MaxData

Live(q) == \A i \in InUse(q) : q.jobs[i].dr \in DataRates /\ q.jobs[i].sig \in Signals

Sound(q) ==
  /\ q \in Store /\ q.first <= q.next
  /\ Live(q) /\ InArea(q) /\ BackToBack(q) /\ Ordered(q)

LEMMA Sizes ==
  /\ MaxJobs \in Nat /\ MaxJobs > 0 /\ MaxLen \in Nat /\ MaxData \in Nat /\ MaxLen <= MaxData
BY RxSizes

LEMMA UnusedJob == Unused \in Job
BY Sizes DEF Unused, Job

LEMMA InUseSlots ==
  ASSUME NEW q \in Store
  PROVE  /\ q.first \in Nat /\ q.next \in Nat /\ q.next <= MaxJobs
         /\ InUse(q) \subseteq Slots
         /\ \A i \in Slots : q.jobs[i] \in Job
         /\ \A i \in Slots : /\ q.jobs[i].off \in Nat /\ q.jobs[i].len \in Nat
                             /\ q.jobs[i].len <= MaxLen /\ q.jobs[i].off <= MaxData
         /\ \A i \in InUse(q) : i \in Int /\ q.first <= i /\ i < q.next
BY Sizes, SMTT(30) DEF Store, InUse, Slots, Job

LEMMA InitSound == Init => Sound(rxq)
<1> SUFFICES ASSUME Init PROVE Sound(rxq)
  OBVIOUS
<1>1. rxq \in Store
  BY Sizes, UnusedJob, RxDomains DEF Init, Store
<1>2. InUse(rxq) = {}
  BY DEF Init, InUse
<1> QED
  BY <1>1, <1>2 DEF Sound, Live, InArea, BackToBack, Ordered, Init
-----------------------------------------------------------------------------
(* rxq_nextJob *)

LEMMA EmptiedSound ==
  ASSUME NEW q, Sound(q)
  PROVE  Sound([q EXCEPT !.first = 0, !.next = 0])
<1> DEFINE r == [q EXCEPT !.first = 0, !.next = 0]
<1>1. r \in Store /\ r.first = 0 /\ r.next = 0
  <2>1. q \in Store /\ 0 \in 0 .. MaxJobs
    BY Sizes DEF Sound
  <2> QED
    BY <2>1 DEF Store
<1>2. InUse(r) = {}
  BY <1>1 DEF InUse
<1> QED
  BY <1>1, <1>2 DEF Sound, Live, InArea, BackToBack, Ordered

LEMMA JobsDownShape ==
  ASSUME NEW q \in Store, q.first <= q.next
  PROVE  LET r == JobsDown(q) IN
         /\ r \in Store
         /\ r.first = 0 /\ r.next = q.next - q.first /\ r.rxdata = q.rxdata
         /\ \A i \in InUse(r) : r.jobs[i] = q.jobs[i + q.first] /\ i + q.first \in InUse(q)
<1> DEFINE js == [i \in Slots |-> IF i + q.first < q.next THEN q.jobs[i + q.first] ELSE Unused]
           r == JobsDown(q)
<1>1. js \in [Slots -> Job]
  <2> SUFFICES ASSUME NEW i \in Slots PROVE js[i] \in Job
    OBVIOUS
  <2>1. i + q.first < q.next => i + q.first \in Slots
    BY InUseSlots, Sizes DEF Slots
  <2> QED
    BY <2>1, InUseSlots, UnusedJob
<1>2. /\ r.first = 0 /\ r.next = q.next - q.first /\ r.jobs = js /\ r.rxdata = q.rxdata
      /\ DOMAIN r = DOMAIN q
  BY DEF JobsDown, Store
<1>3. r \in Store
  <2>1. q.next - q.first \in 0 .. MaxJobs /\ 0 \in 0 .. MaxJobs
    BY InUseSlots, Sizes
  <2>2. r = [q EXCEPT !.jobs = js, !.next = q.next - q.first, !.first = 0]
    BY DEF JobsDown
  <2> HIDE DEF js, r
  <2> QED
    BY <1>1, <2>1, <2>2 DEF Store
<1>4. ASSUME NEW i \in InUse(r)
      PROVE  r.jobs[i] = q.jobs[i + q.first] /\ i + q.first \in InUse(q)
  <2>1. i \in Int /\ 0 <= i /\ i < q.next - q.first
    BY <1>2, <1>3, InUseSlots
  <2>2. i \in Slots
    BY <1>3, <1>4, InUseSlots
  <2>3. i + q.first < q.next /\ i + q.first \in InUse(q)
    BY <2>1, InUseSlots DEF InUse
  <2> QED
    BY <1>2, <2>2, <2>3
<1> QED
  BY <1>2, <1>3, <1>4

LEMMA JobsDownSound ==
  ASSUME NEW q, Sound(q)
  PROVE  Sound(JobsDown(q))
<1> DEFINE r == JobsDown(q)
<1>1. q \in Store /\ q.first <= q.next
  BY DEF Sound
<1>2. /\ r \in Store /\ r.first = 0 /\ r.next = q.next - q.first
      /\ \A i \in InUse(r) : r.jobs[i] = q.jobs[i + q.first] /\ i + q.first \in InUse(q)
  BY <1>1, JobsDownShape
<1>3. r.first <= r.next
  BY <1>1, <1>2, InUseSlots
<1> HIDE DEF r
<1>4. Live(r) /\ InArea(r)
  BY <1>2 DEF Sound, Live, InArea
<1>5. BackToBack(r)
  <2> SUFFICES ASSUME NEW i \in InUse(r), i > r.first
               PROVE  r.jobs[i].off = r.jobs[i - 1].off + r.jobs[i - 1].len
    BY DEF BackToBack
  <2>1. i - 1 \in InUse(r) /\ i \in Int
    BY <1>2, InUseSlots DEF InUse
  <2>2. i + q.first > q.first /\ (i + q.first) - 1 = (i - 1) + q.first
    BY <1>1, <1>2, <2>1, InUseSlots
  <2> QED
    BY <1>2, <2>1, <2>2 DEF Sound, BackToBack
<1>6. Ordered(r)
  <2> SUFFICES ASSUME NEW i \in InUse(r), NEW k \in InUse(r), i < k
               PROVE  r.jobs[i].off + r.jobs[i].len <= r.jobs[k].off
    BY DEF Ordered
  <2>1. i + q.first < k + q.first
    BY <1>1, <1>2, InUseSlots
  <2> QED
    BY <1>2, <2>1 DEF Sound, Ordered
<1> QED
  BY <1>2, <1>3, <1>4, <1>5, <1>6 DEF Sound, r

(* Frames lie behind the first one and before the end of the last one.     *)
LEMMA Extent ==
  ASSUME NEW q, Sound(q), q.first # q.next
  PROVE  /\ q.first \in InUse(q) /\ q.next - 1 \in InUse(q)
         /\ End(q) \in Nat /\ End(q) <= MaxData
         /\ \A i \in InUse(q) : /\ q.jobs[q.first].off <= q.jobs[i].off
                                /\ q.jobs[i].off + q.jobs[i].len <= End(q)
<1>1. q \in Store /\ q.first < q.next
  BY InUseSlots DEF Sound
<1>2. q.first \in InUse(q) /\ q.next - 1 \in InUse(q)
  BY <1>1, InUseSlots DEF InUse
<1>3. End(q) = q.jobs[q.next - 1].off + q.jobs[q.next - 1].len
  BY DEF End
<1>4. End(q) \in Nat /\ End(q) <= MaxData
  BY <1>1, <1>2, <1>3, InUseSlots DEF Sound, InArea
<1>5. ASSUME NEW i \in InUse(q)
      PROVE  /\ q.jobs[q.first].off <= q.jobs[i].off
             /\ q.jobs[i].off + q.jobs[i].len <= End(q)
  <2>1. i \in Int /\ q.first <= i /\ i <= q.next - 1 /\ q.first \in Int /\ q.next \in Int
    BY <1>1, InUseSlots
  <2>2. /\ q.jobs[i].off \in Nat /\ q.jobs[i].len \in Nat
        /\ q.jobs[q.first].off \in Nat /\ q.jobs[q.first].len \in Nat
        /\ q.jobs[q.next - 1].off \in Nat /\ q.jobs[q.next - 1].len \in Nat
    BY <1>1, <1>2, InUseSlots
  <2>3. q.first < i => q.jobs[q.first].off + q.jobs[q.first].len <= q.jobs[i].off
    BY <1>2 DEF Sound, Ordered
  <2>4. i < q.next - 1 => q.jobs[i].off + q.jobs[i].len <= q.jobs[q.next - 1].off
    BY <1>2 DEF Sound, Ordered
  <2>5. q.jobs[q.first].off <= q.jobs[i].off
    BY <2>1, <2>2, <2>3
  <2>6. q.jobs[i].off + q.jobs[i].len <= q.jobs[q.next - 1].off + q.jobs[q.next - 1].len
    BY <2>1, <2>2, <2>4
  <2> QED
    BY <1>3, <2>5, <2>6
<1> QED
  BY <1>2, <1>4, <1>5

(* What both kinds of moves leave behind: bytes. *)
LEMMA MovedBytes ==
  ASSUME NEW data \in [Addr -> Byte], NEW dst \in Nat, NEW src \in Nat, NEW n \in Int,
         dst <= src, src + n <= MaxData
  PROVE  /\ Moved(data, dst, src, n) \in [Addr -> Byte]
         /\ \A a \in Addr : a < dst => Moved(data, dst, src, n)[a] = data[a]
         /\ \A a \in dst .. dst + n - 1 : Moved(data, dst, src, n)[a] = data[a - dst + src]
<1>1. \A a \in dst .. dst + n - 1 : a \in Addr /\ a - dst + src \in Addr
  BY Sizes DEF Addr
<1>2. Moved(data, dst, src, n) \in [Addr -> Byte]
  BY <1>1 DEF Moved
<1>3. ASSUME NEW a \in Addr, a < dst PROVE Moved(data, dst, src, n)[a] = data[a]
  BY <1>3, Sizes DEF Moved, Addr
<1>4. ASSUME NEW a \in dst .. dst + n - 1
      PROVE  Moved(data, dst, src, n)[a] = data[a - dst + src]
  BY <1>1 DEF Moved
<1> QED
  BY <1>2, <1>3, <1>4

LEMMA DataDownShape ==
  ASSUME NEW q, Sound(q), q.first # q.next
  PROVE  LET r == DataDown(q)
             off == q.jobs[q.first].off
         IN  /\ r \in Store
             /\ r.first = q.first /\ r.next = q.next
             /\ r.rxdata = Moved(q.rxdata, 0, off, End(q) - off)
             /\ \A i \in InUse(q) : r.jobs[i] = [q.jobs[i] EXCEPT !.off = @ - off]
<1> DEFINE off == q.jobs[q.first].off
           js == [i \in Slots |-> IF i \in InUse(q) THEN [q.jobs[i] EXCEPT !.off = @ - off]
                                                     ELSE q.jobs[i]]
           bs == Moved(q.rxdata, 0, off, End(q) - off)
           r == DataDown(q)
<1>1. q \in Store /\ off \in Nat
  BY Extent, InUseSlots DEF Sound
<1>2. bs \in [Addr -> Byte]
  <2> DEFINE n == End(q) - off
  <2>1. q.rxdata \in [Addr -> Byte] /\ n \in Int /\ off + n <= MaxData /\ 0 \in Nat /\ 0 <= off
    BY <1>1, Extent DEF Store
  <2> HIDE DEF n, off
  <2>2. Moved(q.rxdata, 0, off, n) \in [Addr -> Byte]
    BY <1>1, <2>1, MovedBytes
  <2> QED
    BY <2>2 DEF bs, n
<1>3. js \in [Slots -> Job]
  <2> SUFFICES ASSUME NEW i \in Slots PROVE js[i] \in Job
    OBVIOUS
  <2>1. q.jobs[i] \in Job
    BY <1>1, InUseSlots
  <2>2. ASSUME i \in InUse(q) PROVE [q.jobs[i] EXCEPT !.off = @ - off] \in Job
    <3>1. off <= q.jobs[i].off /\ q.jobs[i].off \in 0 .. MaxData
      BY <2>1, <2>2, Extent DEF Job
    <3>2. q.jobs[i].off - off \in 0 .. MaxData
      BY <1>1, <3>1, Sizes
    <3> QED
      BY <2>1, <3>2 DEF Job
  <2> QED
    BY <2>1, <2>2
<1>4. r = [q EXCEPT !.rxdata = bs, !.jobs = js]
  BY DEF DataDown
<1> HIDE DEF js, bs, r
<1>5. r \in Store /\ r.first = q.first /\ r.next = q.next /\ r.rxdata = bs /\ r.jobs = js
  BY <1>1, <1>2, <1>3, <1>4 DEF Store
<1>6. \A i \in InUse(q) : js[i] = [q.jobs[i] EXCEPT !.off = @ - off]
  BY <1>1, InUseSlots DEF js
<1> QED
  BY <1>5, <1>6 DEF r, bs

LEMMA DataDownSound ==
  ASSUME NEW q, Sound(q), q.first # q.next
  PROVE  Sound(DataDown(q)) /\ End(DataDown(q)) <= End(q)
<1> DEFINE r == DataDown(q)
           off == q.jobs[q.first].off
<1>1. /\ q \in Store /\ q.first <= q.next
      /\ r \in Store /\ r.first = q.first /\ r.next = q.next /\ InUse(r) = InUse(q)
      /\ \A i \in InUse(q) : r.jobs[i] = [q.jobs[i] EXCEPT !.off = @ - off]
  BY DataDownShape DEF Sound, InUse
<1> HIDE DEF r
<1>2. ASSUME NEW i \in InUse(q)
      PROVE  /\ r.jobs[i].off = q.jobs[i].off - off /\ r.jobs[i].len = q.jobs[i].len
             /\ r.jobs[i].dr = q.jobs[i].dr /\ r.jobs[i].sig = q.jobs[i].sig
             /\ q.jobs[i].off \in Nat /\ q.jobs[i].len \in Nat /\ off \in Nat
  <2>1. q.jobs[i] \in Job /\ off \in Nat /\ q.jobs[i].off \in Nat /\ q.jobs[i].len \in Nat
    BY <1>1, Extent, InUseSlots
  <2> QED
    BY <1>1, <2>1 DEF Job
<1>3. Live(r) /\ InArea(r)
  <2> HIDE DEF off
  <2>1. Live(r)
    BY <1>1, <1>2 DEF Sound, Live
  <2>2. ASSUME NEW i \in InUse(q) PROVE r.jobs[i].off + r.jobs[i].len <= MaxData
    <3>1. q.jobs[i].off + q.jobs[i].len <= MaxData
      BY DEF Sound, InArea
    <3> QED
      BY <1>2, <3>1, Sizes
  <2> QED
    BY <1>1, <2>1, <2>2 DEF InArea
<1>4. BackToBack(r)
  <2> SUFFICES ASSUME NEW i \in InUse(q), i > q.first
               PROVE  r.jobs[i].off = r.jobs[i - 1].off + r.jobs[i - 1].len
    BY <1>1 DEF BackToBack
  <2>1. i - 1 \in InUse(q)
    BY <1>1, InUseSlots DEF InUse
  <2>2. q.jobs[i].off = q.jobs[i - 1].off + q.jobs[i - 1].len
    BY DEF Sound, BackToBack
  <2> QED
    BY <1>2, <2>1, <2>2
<1>5. Ordered(r)
  BY <1>1, <1>2 DEF Sound, Ordered
<1>6. End(r) <= End(q)
  BY <1>1, <1>2, Extent DEF End
<1> QED
  BY <1>1, <1>3, <1>4, <1>5, <1>6 DEF Sound, r

LEMMA PreparedSound ==
  ASSUME NEW q, Sound(q)
  PROVE  Sound(Prepared(q))
<1>1. CASE IsEmpty(q)
  BY <1>1, EmptiedSound DEF Prepared
<1>2. CASE ~IsEmpty(q) /\ NoSlot(q) /\ q.first = 0
  BY <1>2 DEF Prepared
<1>3. CASE ~IsEmpty(q) /\ ~(NoSlot(q) /\ q.first = 0)
  <2> DEFINE c == IF NoSlot(q) THEN JobsDown(q) ELSE q
  <2>1. Sound(c)
    BY JobsDownSound
  <2>2. Prepared(q) = IF NoData(c) THEN DataDown(c) ELSE c
    BY <1>3 DEF Prepared
  <2>3. NoData(c) => c.first # c.next
    BY DEF NoData, IsEmpty
  <2> HIDE DEF c
  <2> QED
    BY <2>1, <2>2, <2>3, DataDownSound
<1> QED
  BY <1>1, <1>2, <1>3
-----------------------------------------------------------------------------
(* rxq_commitJob *)

LEMMA FrameData ==
  ASSUME NEW f \in Frames
  PROVE  /\ Len(f.data) \in Nat /\ Len(f.data) <= MaxLen
         /\ f.data \in [1 .. Len(f.data) -> Byte]
         /\ f.dr \in DataRates /\ f.sig \in Signals
<1>1. PICK n \in 0 .. MaxLen : f.data \in [1 .. n -> Byte]
  BY DEF Frames, Data
<1>2. n \in Nat
  BY Sizes
<1>3. f.data \in Seq(Byte) /\ Len(f.data) = n
  BY <1>1, <1>2
<1> QED
  BY <1>1, <1>2, <1>3 DEF Frames

Fill(q) == IF IsEmpty(q) THEN 0 ELSE End(q)

LEMMA FillFits ==
  ASSUME NEW q, Sound(q)
  PROVE  /\ Fill(q) \in Nat /\ Fill(q) <= MaxData
         /\ HasRoom(q) => Fill(q) + MaxLen <= MaxData
         /\ \A i \in InUse(q) : q.jobs[i].off + q.jobs[i].len <= Fill(q)
<1>1. CASE IsEmpty(q)
  <2>1. InUse(q) = {}
    BY <1>1, InUseSlots DEF IsEmpty, InUse, Sound
  <2> QED
    BY <1>1, <2>1, Sizes DEF Fill
<1>2. CASE ~IsEmpty(q)
  <2>1. q.first # q.next /\ Fill(q) = End(q)
    BY <1>2 DEF IsEmpty, Fill
  <2>2. End(q) \in Nat /\ End(q) <= MaxData
    BY <2>1, Extent
  <2>3. HasRoom(q) => End(q) + MaxLen <= MaxData
    BY <1>2, <2>2, Sizes DEF HasRoom, NoData
  <2> QED
    BY <2>1, <2>2, <2>3, Extent
<1> QED
  BY <1>1, <1>2

LEMMA CommittedShape ==
  ASSUME NEW q, Sound(q), HasRoom(q), NEW f \in Frames
  PROVE  LET r == Committed(q, f)
         IN  /\ r \in Store /\ r.first = q.first /\ r.next = q.next + 1
             /\ InUse(r) = InUse(q) \cup {q.next} /\ q.next \notin InUse(q)
             /\ r.jobs[q.next] = [off |-> Fill(q), len |-> Len(f.data), dr |-> f.dr, sig |-> f.sig]
             /\ \A i \in InUse(q) : r.jobs[i] = q.jobs[i]
             /\ \A a \in Addr : a < Fill(q) => r.rxdata[a] = q.rxdata[a]
             /\ \A n \in 1 .. Len(f.data) : r.rxdata[Fill(q) + n - 1] = f.data[n]
<1> DEFINE r == Committed(q, f)
           end == Fill(q)
           job == [off |-> end, len |-> Len(f.data), dr |-> f.dr, sig |-> f.sig]
           bs == [a \in Addr |-> IF a \in end .. end + Len(f.data) - 1
                                THEN f.data[a - end + 1] ELSE q.rxdata[a]]
           js == [q.jobs EXCEPT ![q.next] = job]
<1>1. /\ q \in Store /\ q.first \in Nat /\ q.next \in Nat /\ q.first <= q.next
      /\ q.next < MaxJobs /\ end \in Nat /\ end + MaxLen <= MaxData
      /\ Len(f.data) \in Nat /\ Len(f.data) <= MaxLen
  BY FillFits, FrameData, InUseSlots, Sizes DEF Sound, HasRoom, NoSlot
<1>2. q.next \in Slots /\ q.jobs \in [Slots -> Job] /\ q.rxdata \in [Addr -> Byte]
  BY <1>1, Sizes DEF Slots, Store
<1> HIDE DEF end
<1>3. job \in Job
  <2>1. end \in 0 .. MaxData /\ Len(f.data) \in 0 .. MaxLen
    BY <1>1, Sizes
  <2> QED
    BY <2>1, FrameData DEF Job
<1>4. js \in [Slots -> Job] /\ js[q.next] = job /\ \A i \in Slots : i # q.next => js[i] = q.jobs[i]
  BY <1>2, <1>3
<1>5. bs \in [Addr -> Byte]
  <2>1. ASSUME NEW a \in end .. end + Len(f.data) - 1 PROVE f.data[a - end + 1] \in Byte
    <3>1. a - end + 1 \in 1 .. Len(f.data)
      BY <1>1
    <3> QED
      BY <3>1, FrameData
  <2> QED
    BY <1>2, <2>1
<1>6. r = [q EXCEPT !.jobs = js, !.rxdata = bs, !.next = q.next + 1]
  BY DEF Committed, Fill, end
<1>7. \A a \in Addr : a < end => bs[a] = q.rxdata[a]
  BY <1>1 DEF Addr
<1>8. ASSUME NEW n \in 1 .. Len(f.data) PROVE bs[end + n - 1] = f.data[n]
  <2>1. /\ end + n - 1 \in end .. end + Len(f.data) - 1
        /\ end + n - 1 \in Addr /\ (end + n - 1) - end + 1 = n
    BY <1>1, Sizes DEF Addr
  <2> QED
    BY <2>1
<1> HIDE DEF js, bs, r
<1>9. r \in Store /\ r.first = q.first /\ r.next = q.next + 1 /\ r.rxdata = bs /\ r.jobs = js
  <2>1. q.next + 1 \in 0 .. MaxJobs
    BY <1>1, Sizes
  <2> QED
    BY <1>1, <1>4, <1>5, <1>6, <2>1 DEF Store
<1>10. InUse(r) = InUse(q) \cup {q.next} /\ q.next \notin InUse(q)
  BY <1>1, <1>9 DEF InUse
<1>11. \A i \in InUse(q) : js[i] = q.jobs[i]
  BY <1>1, <1>4, <1>10, InUseSlots
<1> QED
  BY <1>4, <1>7, <1>8, <1>9, <1>10, <1>11 DEF r, end

LEMMA CommittedSound ==
  ASSUME NEW q, Sound(q), HasRoom(q), NEW f \in Frames
  PROVE  Sound(Committed(q, f))
<1> DEFINE r == Committed(q, f)
<1>1. /\ r \in Store /\ r.first = q.first /\ r.next = q.next + 1
      /\ InUse(r) = InUse(q) \cup {q.next} /\ q.next \notin InUse(q)
      /\ r.jobs[q.next] = [off |-> Fill(q), len |-> Len(f.data), dr |-> f.dr, sig |-> f.sig]
      /\ \A i \in InUse(q) : r.jobs[i] = q.jobs[i]
  BY CommittedShape
<1>2. /\ q.first \in Nat /\ q.next \in Nat /\ q.first <= q.next /\ r.first <= r.next
      /\ \A i \in InUse(q) : i \in Int /\ q.first <= i /\ i < q.next
      /\ Fill(q) \in Nat /\ Fill(q) + MaxLen <= MaxData
      /\ Len(f.data) \in Nat /\ Len(f.data) <= MaxLen
  BY <1>1, InUseSlots, FillFits, FrameData DEF Sound
<1> HIDE DEF r
<1>3. Live(r)
  BY <1>1, FrameData DEF Sound, Live
<1>4. InArea(r)
  <2>1. r.jobs[q.next].off + r.jobs[q.next].len <= MaxData
    BY <1>1, <1>2, Sizes
  <2> QED
    BY <1>1, <2>1 DEF Sound, InArea
<1>5. BackToBack(r)
  <2> SUFFICES ASSUME NEW i \in InUse(r), i > r.first
               PROVE  r.jobs[i].off = r.jobs[i - 1].off + r.jobs[i - 1].len
    BY DEF BackToBack
  <2>1. i - 1 \in InUse(q)
    BY <1>1, <1>2 DEF InUse
  <2>2. CASE i = q.next
    <3>1. q.first # q.next
      BY <1>1, <1>2, <2>2
    <3>2. Fill(q) = q.jobs[i - 1].off + q.jobs[i - 1].len
      BY <2>2, <3>1 DEF Fill, IsEmpty, End
    <3> QED
      BY <1>1, <2>1, <2>2, <3>2
  <2>3. CASE i \in InUse(q)
    BY <1>1, <2>1, <2>3 DEF Sound, BackToBack
  <2> QED
    BY <1>1, <2>2, <2>3
<1>6. Ordered(r)
  <2> SUFFICES ASSUME NEW i \in InUse(r), NEW k \in InUse(r), i < k
               PROVE  r.jobs[i].off + r.jobs[i].len <= r.jobs[k].off
    BY DEF Ordered
  <2>1. i \in InUse(q)
    BY <1>1, <1>2
  <2>2. CASE k = q.next
    BY <1>1, <2>1, <2>2, FillFits
  <2>3. CASE k \in InUse(q)
    BY <1>1, <2>1, <2>3 DEF Sound, Ordered
  <2> QED
    BY <1>1, <2>2, <2>3
<1> QED
  BY <1>1, <1>2, <1>3, <1>4, <1>5, <1>6 DEF Sound, r
-----------------------------------------------------------------------------
(* rxq_dropJob *)

(* The job that is found at i once p is dropped. *)
Behind(p, i) == IF i < p THEN i ELSE i + 1

LEMMA DroppedShape ==
  ASSUME NEW q, Sound(q), NEW p \in InUse(q), p # q.next - 1
  PROVE  LET r == Dropped(q, p)
         IN  /\ r \in Store /\ r.first = q.first /\ r.next = q.next - 1 /\ r.first <= r.next
             /\ \A i \in InUse(r) :
                  /\ Behind(p, i) \in InUse(q) /\ Behind(p, i) # p
                  /\ r.jobs[i] = IF i < p THEN q.jobs[i]
                                 ELSE [q.jobs[i + 1] EXCEPT !.off = @ - q.jobs[p].len]
             /\ \A a \in Addr : a < q.jobs[p].off => r.rxdata[a] = q.rxdata[a]
             /\ \A a \in q.jobs[p].off .. End(q) - q.jobs[p].len - 1 :
                  r.rxdata[a] = q.rxdata[a + q.jobs[p].len]
<1> DEFINE r == Dropped(q, p)
           dst == q.jobs[p].off
           plen == q.jobs[p].len
           pend == dst + plen
           bs == Moved(q.rxdata, dst, pend, End(q) - pend)
           js == [i \in Slots |-> IF i = q.next - 1 THEN Unused
                                 ELSE IF i \in p .. q.next - 2
                                 THEN [q.jobs[i + 1] EXCEPT !.off = @ - plen]
                                 ELSE q.jobs[i]]
<1>1. /\ q \in Store /\ q.first \in Nat /\ q.next \in Nat /\ q.next <= MaxJobs
      /\ p \in Int /\ q.first <= p /\ p < q.next - 1 /\ q.first # q.next
      /\ dst \in Nat /\ plen \in Nat
  BY InUseSlots DEF Sound
<1>2. /\ End(q) \in Nat /\ End(q) <= MaxData /\ pend <= End(q)
      /\ q.rxdata \in [Addr -> Byte] /\ q.jobs \in [Slots -> Job]
  BY <1>1, Extent DEF Store
<1>3. /\ bs \in [Addr -> Byte]
      /\ \A a \in Addr : a < dst => bs[a] = q.rxdata[a]
      /\ \A a \in dst .. End(q) - plen - 1 : bs[a] = q.rxdata[a + plen]
  <2> DEFINE n == End(q) - pend
  <2>1. dst \in Nat /\ pend \in Nat /\ n \in Int /\ dst <= pend /\ pend + n <= MaxData
    BY <1>1, <1>2
  <2>2. dst + n - 1 = End(q) - plen - 1 /\ \A a \in Int : a - dst + pend = a + plen
    BY <1>1, <1>2
  <2> HIDE DEF n, pend, dst, plen
  <2>3. /\ Moved(q.rxdata, dst, pend, n) \in [Addr -> Byte]
        /\ \A a \in Addr : a < dst => Moved(q.rxdata, dst, pend, n)[a] = q.rxdata[a]
        /\ \A a \in dst .. dst + n - 1 : Moved(q.rxdata, dst, pend, n)[a] = q.rxdata[a - dst + pend]
    BY <1>2, <2>1, MovedBytes
  <2>4. bs = Moved(q.rxdata, dst, pend, n)
    BY DEF bs, n
  <2>5. ASSUME NEW a \in dst .. End(q) - plen - 1 PROVE bs[a] = q.rxdata[a + plen]
    BY <2>2, <2>3, <2>4
  <2> QED
    BY <2>3, <2>4, <2>5
<1>4. js \in [Slots -> Job]
  <2> SUFFICES ASSUME NEW i \in Slots PROVE js[i] \in Job
    OBVIOUS
  <2>1. ASSUME i \in p .. q.next - 2 PROVE [q.jobs[i + 1] EXCEPT !.off = @ - plen] \in Job
    <3>0. i \in Int /\ p <= i /\ i <= q.next - 2
      BY <1>1, <2>1
    <3>1. i + 1 \in InUse(q) /\ i + 1 \in Slots /\ p < i + 1
      BY <1>1, <3>0, Sizes DEF InUse, Slots
    <3>2. q.jobs[i + 1] \in Job
      BY <1>2, <3>1
    <3>3. dst + plen <= q.jobs[i + 1].off
      BY <3>1 DEF Sound, Ordered
    <3>4. q.jobs[i + 1].off - plen \in 0 .. MaxData
      BY <1>1, <3>2, <3>3, Sizes DEF Job
    <3> QED
      BY <3>2, <3>4 DEF Job
  <2> QED
    BY <1>2, <2>1, UnusedJob
<1>5. r = [q EXCEPT !.rxdata = bs, !.jobs = js, !.next = q.next - 1]
  BY DEF Dropped
<1>6. ASSUME NEW i \in q.first .. q.next - 2
      PROVE  /\ Behind(p, i) \in InUse(q) /\ Behind(p, i) # p
             /\ js[i] = IF i < p THEN q.jobs[i] ELSE [q.jobs[i + 1] EXCEPT !.off = @ - plen]
  <2>1. i \in Slots /\ i # q.next - 1 /\ (i \in p .. q.next - 2 <=> ~(i < p))
    BY <1>1, Sizes DEF Slots
  <2>2. js[i] = IF i < p THEN q.jobs[i] ELSE [q.jobs[i + 1] EXCEPT !.off = @ - plen]
    BY <2>1
  <2>3. Behind(p, i) \in InUse(q) /\ Behind(p, i) # p
    BY <1>1 DEF Behind, InUse
  <2> QED
    BY <2>2, <2>3
<1> HIDE DEF js, bs, r
<1>7. /\ r \in Store /\ r.first = q.first /\ r.next = q.next - 1 /\ r.first <= r.next
      /\ r.rxdata = bs /\ r.jobs = js
  <2>1. q.next - 1 \in 0 .. MaxJobs /\ q.first <= q.next - 1
    BY <1>1, Sizes
  <2> QED
    BY <1>1, <1>3, <1>4, <1>5, <2>1 DEF Store
<1>8. InUse(r) = q.first .. q.next - 2
  BY <1>1, <1>7 DEF InUse
<1> QED
  BY <1>3, <1>6, <1>7, <1>8 DEF r

LEMMA DroppedSound ==
  ASSUME NEW q, Sound(q), NEW p \in InUse(q), p # q.next - 1
  PROVE  Sound(Dropped(q, p))
<1> DEFINE r == Dropped(q, p)
           plen == q.jobs[p].len
<1>1. /\ r \in Store /\ r.first = q.first /\ r.next = q.next - 1 /\ r.first <= r.next
      /\ \A i \in InUse(r) :
           /\ Behind(p, i) \in InUse(q) /\ Behind(p, i) # p
           /\ r.jobs[i] = IF i < p THEN q.jobs[i] ELSE [q.jobs[i + 1] EXCEPT !.off = @ - plen]
  BY DroppedShape
<1> HIDE DEF r
<1>2. /\ q \in Store /\ q.first \in Int /\ q.next \in Int /\ p \in Int /\ q.first <= p
      /\ p < q.next - 1 /\ plen \in Nat /\ q.jobs[p].off \in Nat
      /\ \A i \in InUse(r) : i \in Int /\ q.first <= i /\ i < q.next - 1
  BY <1>1, InUseSlots DEF Sound
<1>3. ASSUME NEW i \in InUse(r)
      PROVE  LET j == q.jobs[Behind(p, i)]
             IN  /\ r.jobs[i].off = IF i < p THEN j.off ELSE j.off - plen
                 /\ r.jobs[i].len = j.len /\ r.jobs[i].dr = j.dr /\ r.jobs[i].sig = j.sig
                 /\ j.off \in Nat /\ j.len \in Nat
                 /\ i < p => j.off + j.len <= q.jobs[p].off
                 /\ ~(i < p) => q.jobs[p].off + plen <= j.off
  <2>1. Behind(p, i) \in InUse(q) /\ q.jobs[Behind(p, i)] \in Job
    BY <1>1, <1>2, InUseSlots
  <2>0. i \in Int /\ p \in Int
    BY <1>2
  <2>2. (i < p => Behind(p, i) < p) /\ (~(i < p) => p < Behind(p, i) /\ Behind(p, i) = i + 1)
    BY <2>0 DEF Behind
  <2>3. r.jobs[i] = IF i < p THEN q.jobs[Behind(p, i)]
                    ELSE [q.jobs[Behind(p, i)] EXCEPT !.off = @ - plen]
    BY <1>1 DEF Behind
  <2>4. /\ i < p => q.jobs[Behind(p, i)].off + q.jobs[Behind(p, i)].len <= q.jobs[p].off
        /\ ~(i < p) => q.jobs[p].off + plen <= q.jobs[Behind(p, i)].off
    BY <2>1, <2>2 DEF Sound, Ordered
  <2> HIDE DEF plen
  <2>5. /\ r.jobs[i].off = IF i < p THEN q.jobs[Behind(p, i)].off ELSE q.jobs[Behind(p, i)].off - plen
        /\ r.jobs[i].len = q.jobs[Behind(p, i)].len /\ r.jobs[i].dr = q.jobs[Behind(p, i)].dr
        /\ r.jobs[i].sig = q.jobs[Behind(p, i)].sig
    BY <2>1, <2>3 DEF Job
  <2> QED
    BY <2>1, <2>4, <2>5, InUseSlots, <1>2
<1> HIDE DEF plen
<1>4. Live(r)
  BY <1>1, <1>3 DEF Sound, Live
<1>5. InArea(r)
  <2> SUFFICES ASSUME NEW i \in InUse(r) PROVE r.jobs[i].off + r.jobs[i].len <= MaxData
    BY DEF InArea
  <2>1. q.jobs[Behind(p, i)].off + q.jobs[Behind(p, i)].len <= MaxData
    BY <1>1 DEF Sound, InArea
  <2> QED
    BY <1>2, <1>3, <2>1, Sizes
<1>6. BackToBack(r)
  <2> SUFFICES ASSUME NEW i \in InUse(r), i > r.first
               PROVE  r.jobs[i].off = r.jobs[i - 1].off + r.jobs[i - 1].len
    BY DEF BackToBack
  <2>1. i - 1 \in InUse(r) /\ i \in Int /\ i - 1 \in Int /\ (i - 1 < p <=> i <= p)
    BY <1>1, <1>2 DEF InUse
  <2>2. CASE i # p
    <3>0. i \in Int /\ p \in Int /\ q.first \in Int /\ i > q.first /\ q.first <= p
      BY <1>1, <1>2, <2>1
    <3>1. Behind(p, i - 1) = Behind(p, i) - 1 /\ Behind(p, i) > q.first
      BY <2>2, <3>0 DEF Behind
    <3>4. Behind(p, i) \in InUse(q)
      BY <1>1
    <3>2. q.jobs[Behind(p, i)].off = q.jobs[Behind(p, i - 1)].off + q.jobs[Behind(p, i - 1)].len
      BY <3>1, <3>4 DEF Sound, BackToBack
    <3> QED
      BY <1>2, <1>3, <2>1, <2>2, <3>2
  <2>3. CASE i = p
    <3>1. Behind(p, i) = p + 1 /\ Behind(p, i - 1) = p - 1 /\ p > q.first
      BY <1>1, <1>2, <2>1, <2>3 DEF Behind
    <3>4. p + 1 \in InUse(q) /\ p + 1 > q.first /\ (p + 1) - 1 = p
      BY <1>2 DEF InUse
    <3>2. q.jobs[p + 1].off = q.jobs[p].off + plen
      BY <3>4 DEF Sound, BackToBack, plen
    <3>3. q.jobs[p].off = q.jobs[p - 1].off + q.jobs[p - 1].len
      BY <3>1 DEF Sound, BackToBack
    <3> QED
      BY <1>2, <1>3, <2>1, <2>3, <3>1, <3>2, <3>3
  <2> QED
    BY <2>2, <2>3
<1>7. Ordered(r)
  <2> SUFFICES ASSUME NEW i \in InUse(r), NEW k \in InUse(r), i < k
               PROVE  r.jobs[i].off + r.jobs[i].len <= r.jobs[k].off
    BY DEF Ordered
  <2>1. Behind(p, i) < Behind(p, k)
    BY <1>2 DEF Behind
  <2>2. q.jobs[Behind(p, i)].off + q.jobs[Behind(p, i)].len <= q.jobs[Behind(p, k)].off
    BY <1>1, <2>1 DEF Sound, Ordered
  <2> QED
    BY <1>2, <1>3, <2>2
<1> QED
  BY <1>1, <1>4, <1>5, <1>6, <1>7 DEF Sound, r
-----------------------------------------------------------------------------
(* The frames that wait *)

LEMMA SameFrame ==
  ASSUME NEW q, NEW r, NEW i, NEW k, q.jobs[k].len \in Nat,
         r.jobs[i].len = q.jobs[k].len, r.jobs[i].dr = q.jobs[k].dr, r.jobs[i].sig = q.jobs[k].sig,
         \A n \in 1 .. q.jobs[k].len : r.rxdata[r.jobs[i].off + n - 1] = q.rxdata[q.jobs[k].off + n - 1]
  PROVE  FrameOf(r, i) = FrameOf(q, k)
BY DEF FrameOf

(* Where the bytes of a frame lie. *)
LEMMA Within ==
  ASSUME NEW q, Sound(q), NEW i \in InUse(q), NEW n \in 1 .. q.jobs[i].len
  PROVE  /\ q.jobs[i].off + n - 1 \in Addr /\ n \in Nat
         /\ q.jobs[i].off <= q.jobs[i].off + n - 1
         /\ q.jobs[i].off + n - 1 < q.jobs[i].off + q.jobs[i].len
<1>1. q.jobs[i].off \in Nat /\ q.jobs[i].len \in Nat /\ q.jobs[i].off + q.jobs[i].len <= MaxData
  BY InUseSlots DEF Sound, InArea
<1> QED
  BY <1>1, Sizes DEF Addr

LEMMA WaitingShape ==
  ASSUME NEW q, Sound(q)
  PROVE  /\ Waiting(q) \in Seq(Frames) /\ Len(Waiting(q)) = q.next - q.first
         /\ q.next - q.first \in Nat
         /\ Waiting(q) = [n \in 1 .. q.next - q.first |-> FrameOf(q, q.first + n - 1)]
         /\ \A n \in 1 .. q.next - q.first : q.first + n - 1 \in InUse(q)
         /\ \A i \in InUse(q) : i - q.first + 1 \in 1 .. q.next - q.first
<1>1. q \in Store /\ q.first \in Nat /\ q.next \in Nat /\ q.first <= q.next
  BY InUseSlots DEF Sound
<1>2. ASSUME NEW i \in InUse(q) PROVE FrameOf(q, i) \in Frames
  <2>1. /\ q.jobs[i].len \in 0 .. MaxLen /\ q.jobs[i].dr \in DataRates /\ q.jobs[i].sig \in Signals
        /\ q.rxdata \in [Addr -> Byte]
    BY <1>1, InUseSlots DEF Sound, Live, Store, Job
  <2>2. [n \in 1 .. q.jobs[i].len |-> q.rxdata[q.jobs[i].off + n - 1]] \in [1 .. q.jobs[i].len -> Byte]
    BY <2>1, Within
  <2>3. [n \in 1 .. q.jobs[i].len |-> q.rxdata[q.jobs[i].off + n - 1]] \in Data
    BY <2>1, <2>2 DEF Data
  <2> QED
    BY <2>1, <2>3 DEF FrameOf, Frames
<1>3. \A n \in 1 .. q.next - q.first : q.first + n - 1 \in InUse(q)
  BY <1>1 DEF InUse
<1>4. \A i \in InUse(q) : i - q.first + 1 \in 1 .. q.next - q.first
  BY <1>1 DEF InUse
<1>5. q.next - q.first \in Nat
  BY <1>1
<1>6. Waiting(q) = [n \in 1 .. q.next - q.first |-> FrameOf(q, q.first + n - 1)]
  BY DEF Waiting
<1>7. \A n \in 1 .. q.next - q.first : FrameOf(q, q.first + n - 1) \in Frames
  BY <1>2, <1>3
<1> QED
  BY <1>3, <1>4, <1>5, <1>6, <1>7, SMTT(30)

LEMMA JobsDownWaiting ==
  ASSUME NEW q, Sound(q)
  PROVE  Waiting(JobsDown(q)) = Waiting(q)
<1> DEFINE r == JobsDown(q)
<1>1. /\ r.first = 0 /\ r.next = q.next - q.first /\ r.rxdata = q.rxdata /\ Sound(r)
      /\ q.first \in Nat /\ q.next \in Nat
      /\ \A i \in InUse(r) : r.jobs[i] = q.jobs[i + q.first] /\ i + q.first \in InUse(q)
  BY JobsDownShape, JobsDownSound, InUseSlots DEF Sound
<1> HIDE DEF r
<1>2. ASSUME NEW n \in 1 .. q.next - q.first
      PROVE  FrameOf(r, r.first + n - 1) = FrameOf(q, q.first + n - 1)
  <2>1. r.first + n - 1 \in InUse(r) /\ (r.first + n - 1) + q.first = q.first + n - 1
    BY <1>1 DEF InUse
  <2>2. r.jobs[r.first + n - 1] = q.jobs[q.first + n - 1]
    BY <1>1, <2>1
  <2> QED
    BY <1>1, <2>2 DEF FrameOf
<1>3. r.next - r.first = q.next - q.first
  BY <1>1
<1> QED
  BY <1>2, <1>3 DEF Waiting, r

LEMMA DataDownWaiting ==
  ASSUME NEW q, Sound(q), q.first # q.next
  PROVE  Waiting(DataDown(q)) = Waiting(q)
<1> DEFINE r == DataDown(q)
           off == q.jobs[q.first].off
<1>1. /\ r.first = q.first /\ r.next = q.next
      /\ r.rxdata = Moved(q.rxdata, 0, off, End(q) - off)
      /\ \A i \in InUse(q) : r.jobs[i] = [q.jobs[i] EXCEPT !.off = @ - off]
  BY DataDownShape
<1>2. q \in Store /\ off \in Nat /\ q.rxdata \in [Addr -> Byte] /\ End(q) \in Nat /\ End(q) <= MaxData
  BY Extent, InUseSlots DEF Sound, Store
<1> HIDE DEF r
<1>3. ASSUME NEW i \in InUse(q) PROVE FrameOf(r, i) = FrameOf(q, i)
  <2>1. q.jobs[i] \in Job /\ q.jobs[i].len \in Nat /\ q.jobs[i].off \in Nat
    BY <1>2, InUseSlots
  <2>2. off <= q.jobs[i].off /\ q.jobs[i].off + q.jobs[i].len <= End(q)
    BY Extent
  <2> HIDE DEF off
  <2>3. /\ r.jobs[i].off = q.jobs[i].off - off /\ r.jobs[i].len = q.jobs[i].len
        /\ r.jobs[i].dr = q.jobs[i].dr /\ r.jobs[i].sig = q.jobs[i].sig
    BY <1>1, <2>1 DEF Job
  <2>4. ASSUME NEW n \in 1 .. q.jobs[i].len
        PROVE  r.rxdata[r.jobs[i].off + n - 1] = q.rxdata[q.jobs[i].off + n - 1]
    <3> DEFINE a == q.jobs[i].off - off + n - 1
               m == End(q) - off
    <3>1. a \in 0 .. 0 + m - 1 /\ a - 0 + off = q.jobs[i].off + n - 1
      BY <1>2, <2>1, <2>2
    <3>2. 0 \in Nat /\ m \in Int /\ 0 <= off /\ off + m <= MaxData
      BY <1>2
    <3> HIDE DEF a, m
    <3>3. Moved(q.rxdata, 0, off, m)[a] = q.rxdata[a - 0 + off]
      BY <1>2, <3>1, <3>2, MovedBytes
    <3> QED
      BY <1>1, <2>3, <3>1, <3>3 DEF a, m
  <2> QED
    BY <2>1, <2>3, <2>4, SameFrame
<1> QED
  BY <1>1, <1>3, WaitingShape DEF Waiting, r

LEMMA PreparedWaiting ==
  ASSUME NEW q, Sound(q)
  PROVE  Waiting(Prepared(q)) = Waiting(q)
<1>1. CASE IsEmpty(q)
  <2> DEFINE r == [q EXCEPT !.first = 0, !.next = 0]
  <2>1. r.first = 0 /\ r.next = 0
    BY DEF Sound, Store
  <2>2. q.next - q.first = 0 /\ r.next - r.first = 0
    BY <1>1, <2>1, InUseSlots DEF IsEmpty, Sound
  <2>3. Waiting(r) = Waiting(q)
    BY <2>2 DEF Waiting
  <2> QED
    BY <1>1, <2>3 DEF Prepared
<1>2. CASE ~IsEmpty(q) /\ NoSlot(q) /\ q.first = 0
  BY <1>2 DEF Prepared
<1>3. CASE ~IsEmpty(q) /\ ~(NoSlot(q) /\ q.first = 0)
  <2> DEFINE c == IF NoSlot(q) THEN JobsDown(q) ELSE q
  <2>1. Sound(c) /\ Waiting(c) = Waiting(q)
    BY JobsDownSound, JobsDownWaiting
  <2>2. Prepared(q) = IF NoData(c) THEN DataDown(c) ELSE c
    BY <1>3 DEF Prepared
  <2>3. NoData(c) => c.first # c.next
    BY DEF NoData, IsEmpty
  <2> HIDE DEF c
  <2> QED
    BY <2>1, <2>2, <2>3, DataDownWaiting
<1> QED
  BY <1>1, <1>2, <1>3

(* A frame is stored at the end, ... *)
LEMMA CommittedWaiting ==
  ASSUME NEW q, Sound(q), HasRoom(q), NEW f \in Frames
  PROVE  Waiting(Committed(q, f)) = Append(Waiting(q), f)
<1> DEFINE r == Committed(q, f)
           len == q.next - q.first
<1>1. /\ r.first = q.first /\ r.next = q.next + 1
      /\ r.jobs[q.next] = [off |-> Fill(q), len |-> Len(f.data), dr |-> f.dr, sig |-> f.sig]
      /\ \A i \in InUse(q) : r.jobs[i] = q.jobs[i]
      /\ \A a \in Addr : a < Fill(q) => r.rxdata[a] = q.rxdata[a]
      /\ \A n \in 1 .. Len(f.data) : r.rxdata[Fill(q) + n - 1] = f.data[n]
  BY CommittedShape
<1>2. /\ q \in Store /\ q.first \in Nat /\ q.next \in Nat /\ len \in Nat
      /\ Waiting(q) \in Seq(Frames) /\ Len(Waiting(q)) = len
      /\ Waiting(q) = [n \in 1 .. len |-> FrameOf(q, q.first + n - 1)]
      /\ \A n \in 1 .. len : q.first + n - 1 \in InUse(q)
  BY WaitingShape, InUseSlots DEF Sound
<1> HIDE DEF r
<1>3. ASSUME NEW i \in InUse(q) PROVE FrameOf(r, i) = FrameOf(q, i)
  <2>1. q.jobs[i].len \in Nat /\ q.jobs[i].off \in Nat /\ q.jobs[i].off + q.jobs[i].len <= Fill(q)
    BY <1>2, InUseSlots, FillFits
  <2>2. ASSUME NEW n \in 1 .. q.jobs[i].len
        PROVE  r.rxdata[q.jobs[i].off + n - 1] = q.rxdata[q.jobs[i].off + n - 1]
    <3>1. q.jobs[i].off + n - 1 \in Addr
      BY Within
    <3>2. q.jobs[i].off + n - 1 < Fill(q)
      BY <2>1, FillFits
    <3> QED
      BY <1>1, <3>1, <3>2
  <2>3. /\ r.jobs[i].len = q.jobs[i].len /\ r.jobs[i].dr = q.jobs[i].dr
        /\ r.jobs[i].sig = q.jobs[i].sig /\ r.jobs[i].off = q.jobs[i].off
    BY <1>1
  <2>4. \A n \in 1 .. q.jobs[i].len : r.rxdata[r.jobs[i].off + n - 1] = q.rxdata[q.jobs[i].off + n - 1]
    BY <2>2, <2>3
  <2> QED
    BY <2>1, <2>3, <2>4, SameFrame
<1>4. FrameOf(r, q.next) = f
  <2>1. f = [dr |-> f.dr, data |-> f.data, sig |-> f.sig]
    BY DEF Frames
  <2>2. f.data = [n \in 1 .. Len(f.data) |-> f.data[n]]
    BY FrameData
  <2>3. [n \in 1 .. Len(f.data) |-> r.rxdata[Fill(q) + n - 1]] = [n \in 1 .. Len(f.data) |-> f.data[n]]
    BY <1>1
  <2>4. FrameOf(r, q.next) = [dr |-> f.dr, data |-> [n \in 1 .. Len(f.data) |-> r.rxdata[Fill(q) + n - 1]],
                              sig |-> f.sig]
    BY <1>1 DEF FrameOf
  <2> QED
    BY <2>1, <2>2, <2>3, <2>4
<1>5. r.next - r.first = len + 1 /\ q.first + (len + 1) - 1 = q.next
  <2>1. q.next \in Int /\ q.first \in Int
    BY <1>2
  <2> QED
    BY <1>1, <2>1
<1>6. Waiting(r) = [n \in 1 .. len + 1 |-> FrameOf(r, q.first + n - 1)]
  BY <1>1, <1>5 DEF Waiting
<1>7. ASSUME NEW n \in 1 .. len + 1
      PROVE  FrameOf(r, q.first + n - 1) = Append(Waiting(q), f)[n]
  <2>1. CASE n = len + 1
    BY <1>2, <1>4, <1>5, <2>1
  <2>2. CASE n # len + 1
    <3>1. n \in 1 .. len
      BY <1>2, <2>2
    <3> QED
      BY <1>2, <1>3, <3>1
  <2> QED
    BY <2>1, <2>2
<1>8. Append(Waiting(q), f) = [n \in 1 .. len + 1 |-> Append(Waiting(q), f)[n]]
  BY <1>2
<1> QED
  BY <1>6, <1>7, <1>8 DEF r

(* ... one is taken from the middle ... *)
Without(s, m) == [n \in 1 .. Len(s) - 1 |-> IF n < m THEN s[n] ELSE s[n + 1]]

LEMMA DroppedWaiting ==
  ASSUME NEW q, Sound(q), NEW p \in InUse(q), p # q.next - 1
  PROVE  Waiting(Dropped(q, p)) = Without(Waiting(q), p - q.first + 1)
<1> DEFINE r == Dropped(q, p)
           dst == q.jobs[p].off
           plen == q.jobs[p].len
           len == q.next - q.first
<1>1. /\ r.first = q.first /\ r.next = q.next - 1
      /\ \A i \in InUse(r) :
           /\ Behind(p, i) \in InUse(q) /\ Behind(p, i) # p
           /\ r.jobs[i] = IF i < p THEN q.jobs[i] ELSE [q.jobs[i + 1] EXCEPT !.off = @ - plen]
      /\ \A a \in Addr : a < dst => r.rxdata[a] = q.rxdata[a]
      /\ \A a \in dst .. End(q) - plen - 1 : r.rxdata[a] = q.rxdata[a + plen]
  BY DroppedShape
<1>2. /\ q \in Store /\ q.first \in Nat /\ q.next \in Nat /\ len \in Nat
      /\ p \in Int /\ q.first <= p /\ p < q.next - 1 /\ q.first # q.next
      /\ dst \in Nat /\ plen \in Nat /\ End(q) \in Nat
      /\ Waiting(q) \in Seq(Frames) /\ Len(Waiting(q)) = len
      /\ Waiting(q) = [n \in 1 .. len |-> FrameOf(q, q.first + n - 1)]
  <2>1. q \in Store /\ q.first \in Nat /\ q.next \in Nat /\ q.first # q.next
    BY InUseSlots DEF Sound, InUse
  <2>2. p \in Int /\ q.first <= p /\ p < q.next
    BY <2>1, InUseSlots
  <2>3. p < q.next - 1
    BY <2>1, <2>2
  <2>4. p \in Slots /\ dst \in Nat /\ plen \in Nat
    BY <2>1, InUseSlots
  <2>5. End(q) \in Nat
    BY <2>1, Extent
  <2>6. /\ len \in Nat /\ Waiting(q) \in Seq(Frames) /\ Len(Waiting(q)) = len
        /\ Waiting(q) = [n \in 1 .. len |-> FrameOf(q, q.first + n - 1)]
    BY WaitingShape
  <2> QED
    BY <2>1, <2>2, <2>3, <2>4, <2>5, <2>6
<1> HIDE DEF r
<1>3. ASSUME NEW i \in InUse(r) PROVE FrameOf(r, i) = FrameOf(q, Behind(p, i))
  <2> DEFINE k == Behind(p, i)
             j == q.jobs[k]
  <2> SUFFICES FrameOf(r, i) = FrameOf(q, k)
    OBVIOUS
  <2>1. k \in InUse(q) /\ j \in Job /\ j.off \in Nat /\ j.len \in Nat /\ j.off + j.len <= End(q)
    BY <1>1, <1>2, InUseSlots, Extent
  <2>2. i \in Int
    BY <1>1, <1>2 DEF InUse
  <2>3. CASE i < p
    <3>1. k = i /\ r.jobs[i] = j
      BY <1>1, <2>3 DEF Behind
    <3>2. j.off + j.len <= dst
      BY <2>1, <2>3, <3>1 DEF Sound, Ordered
    <3>3. ASSUME NEW n \in 1 .. j.len
          PROVE  r.rxdata[j.off + n - 1] = q.rxdata[j.off + n - 1]
      <4>1. j.off + n - 1 \in Addr /\ j.off + n - 1 < j.off + j.len
        BY <2>1, Within
      <4> HIDE DEF dst, j
      <4>2. j.off + n - 1 < dst
        BY <1>2, <2>1, <3>2, SMTT(30)
      <4> QED
        BY <1>1, <4>1, <4>2
    <3>4. r.jobs[i].len = j.len /\ r.jobs[i].dr = j.dr /\ r.jobs[i].sig = j.sig /\ r.jobs[i].off = j.off
      BY <3>1
    <3>5. \A n \in 1 .. j.len : r.rxdata[r.jobs[i].off + n - 1] = q.rxdata[j.off + n - 1]
      BY <3>3, <3>4
    <3> HIDE DEF k
    <3> QED
      BY <2>1, <3>4, <3>5, SameFrame DEF j
  <2>4. CASE ~(i < p)
    <3>1. k = i + 1 /\ p < k
      BY <1>1, <1>2, <2>2, <2>4 DEF Behind
    <3>a. r.jobs[i] = [j EXCEPT !.off = @ - plen]
      BY <1>1, <2>4, <3>1
    <3>2. dst + plen <= j.off
      BY <2>1, <3>1 DEF Sound, Ordered
    <3> HIDE DEF dst, plen, j
    <3>3. /\ r.jobs[i].off = j.off - plen /\ r.jobs[i].len = j.len
          /\ r.jobs[i].dr = j.dr /\ r.jobs[i].sig = j.sig
      BY <2>1, <3>a DEF Job
    <3>4. ASSUME NEW n \in 1 .. j.len
          PROVE  r.rxdata[r.jobs[i].off + n - 1] = q.rxdata[j.off + n - 1]
      <4> DEFINE a == j.off - plen + n - 1
      <4>1. n \in Nat /\ n >= 1 /\ n <= j.len
        BY <2>1
      <4>a. /\ dst \in Int /\ plen \in Int /\ End(q) \in Int /\ j.off \in Int /\ j.len \in Int
            /\ j.off + j.len <= End(q)
        BY <1>2, <2>1
      <4>b. a \in Int /\ a + plen = j.off + n - 1
        BY <4>1, <4>a
      <4>c. dst <= a /\ a <= End(q) - plen - 1
        BY <3>2, <4>1, <4>a
      <4>2. a \in dst .. End(q) - plen - 1 /\ a + plen = j.off + n - 1
        BY <4>a, <4>b, <4>c
      <4>3. r.rxdata[a] = q.rxdata[a + plen]
        BY <1>1, <4>2
      <4> QED
        BY <3>3, <4>2, <4>3
    <3> HIDE DEF k
    <3> QED
      BY <2>1, <3>3, <3>4, SameFrame DEF j
  <2> QED
    BY <2>3, <2>4
<1>4. r.next - r.first = len - 1
  <2>1. q.next \in Int /\ q.first \in Int
    BY <1>2
  <2> QED
    BY <1>1, <2>1
<1>5. Waiting(r) = [n \in 1 .. len - 1 |-> FrameOf(r, q.first + n - 1)]
  BY <1>1, <1>4 DEF Waiting
<1>6. ASSUME NEW n \in 1 .. len - 1
      PROVE  FrameOf(r, q.first + n - 1)
             = IF n < p - q.first + 1 THEN Waiting(q)[n] ELSE Waiting(q)[n + 1]
  <2> HIDE DEF dst, plen
  <2>1. q.first + n - 1 \in InUse(r) /\ n \in 1 .. len /\ n + 1 \in 1 .. len /\ n \in Int
    <3>1. n \in Int /\ n >= 1 /\ n <= len - 1 /\ len \in Int /\ q.first \in Int /\ q.next \in Int
      BY <1>2
    <3>2. q.first + n - 1 \in q.first .. q.next - 1 - 1
      BY <3>1
    <3> QED
      BY <1>1, <3>1, <3>2 DEF InUse
  <2>2. CASE n < p - q.first + 1
    <3>1. q.first + n - 1 < p
      BY <1>2, <2>1, <2>2
    <3> QED
      BY <1>2, <1>3, <2>1, <2>2, <3>1 DEF Behind
  <2>3. CASE ~(n < p - q.first + 1)
    <3>1. ~(q.first + n - 1 < p) /\ (q.first + n - 1) + 1 = q.first + (n + 1) - 1
      BY <1>2, <2>1, <2>3, SMTT(30)
    <3> QED
      BY <1>2, <1>3, <2>1, <2>3, <3>1 DEF Behind
  <2> QED
    BY <2>2, <2>3
<1> QED
  BY <1>2, <1>5, <1>6 DEF Without, r

(* ... and the oldest one leaves at the front (s2e_flushRxjobs). *)
LEMMA FlushedSound ==
  ASSUME NEW q, Sound(q), ~IsEmpty(q)
  PROVE  LET r == [q EXCEPT !.first = @ + 1, !.jobs[q.first] = Unused]
         IN  /\ Sound(r) /\ Waiting(q) # <<>> /\ Waiting(r) = Tail(Waiting(q))
<1> DEFINE r == [q EXCEPT !.first = @ + 1, !.jobs[q.first] = Unused]
           js == [q.jobs EXCEPT ![q.first] = Unused]
           len == q.next - q.first
<1>1. /\ q \in Store /\ q.first \in Nat /\ q.next \in Nat /\ q.first < q.next /\ q.next <= MaxJobs
      /\ q.first \in InUse(q) /\ q.first \in Slots /\ q.jobs \in [Slots -> Job]
  BY InUseSlots, Extent DEF Sound, IsEmpty, Store
<1>2. js \in [Slots -> Job] /\ \A i \in Slots : i # q.first => js[i] = q.jobs[i]
  BY <1>1, UnusedJob
<1>3. r = [q EXCEPT !.first = q.first + 1, !.jobs = js]
  OBVIOUS
<1> HIDE DEF r, js
<1>4. /\ r \in Store /\ r.first = q.first + 1 /\ r.next = q.next /\ r.jobs = js /\ r.rxdata = q.rxdata
  <2>1. q.first + 1 \in 0 .. MaxJobs
    BY <1>1, Sizes
  <2> QED
    BY <1>1, <1>2, <1>3, <2>1 DEF Store
<1>5. ASSUME NEW i \in InUse(r)
      PROVE  i \in InUse(q) /\ r.jobs[i] = q.jobs[i] /\ FrameOf(r, i) = FrameOf(q, i)
  <2>1. i \in InUse(q) /\ i # q.first
    BY <1>1, <1>4 DEF InUse
  <2>2. r.jobs[i] = q.jobs[i]
    BY <1>1, <1>2, <1>4, <2>1, InUseSlots
  <2> QED
    BY <1>4, <2>1, <2>2 DEF FrameOf
<1>6. Live(r) /\ InArea(r) /\ Ordered(r)
  BY <1>5 DEF Sound, Live, InArea, Ordered
<1>7. BackToBack(r)
  <2> SUFFICES ASSUME NEW i \in InUse(r), i > r.first
               PROVE  r.jobs[i].off = r.jobs[i - 1].off + r.jobs[i - 1].len
    BY DEF BackToBack
  <2>1. i - 1 \in InUse(r) /\ i > q.first
    BY <1>1, <1>4 DEF InUse
  <2> QED
    BY <1>5, <2>1 DEF Sound, BackToBack
<1>8. Sound(r)
  BY <1>1, <1>4, <1>6, <1>7 DEF Sound
<1>9. /\ Waiting(q) \in Seq(Frames) /\ Len(Waiting(q)) = len /\ len \in Nat /\ len > 0
      /\ Waiting(q) = [n \in 1 .. len |-> FrameOf(q, q.first + n - 1)]
      /\ Waiting(r) = [n \in 1 .. len - 1 |-> FrameOf(r, (q.first + 1) + n - 1)]
  <2>1. r.next - r.first = len - 1
    BY <1>1, <1>4
  <2> QED
    BY <1>1, <1>4, <2>1, WaitingShape DEF Waiting
<1>10. ASSUME NEW n \in 1 .. len - 1
       PROVE  FrameOf(r, (q.first + 1) + n - 1) = Tail(Waiting(q))[n]
  <2>1. /\ (q.first + 1) + n - 1 \in InUse(r) /\ n + 1 \in 1 .. len
        /\ (q.first + 1) + n - 1 = q.first + (n + 1) - 1
    BY <1>1, <1>4 DEF InUse
  <2>2. Tail(Waiting(q))[n] = Waiting(q)[n + 1]
    BY <1>9
  <2> QED
    BY <1>5, <1>9, <2>1, <2>2
<1>11. Tail(Waiting(q)) = [n \in 1 .. len - 1 |-> Tail(Waiting(q))[n]] /\ Waiting(q) # <<>>
  BY <1>9
<1> QED
  BY <1>8, <1>9, <1>10, <1>11 DEF r
-----------------------------------------------------------------------------
(* s2e_addRxjob *)

LEMMA WalkedAwaySound ==
  ASSUME NEW q, Sound(q), HasRoom(q), NEW f \in Frames
  PROVE  Sound(WalkedAway(q, f)) /\ Waiting(WalkedAway(q, f)) = Waiting(q)
<1> DEFINE r == WalkedAway(q, f)
           c == Committed(q, f)
<1>1. c \in Store /\ \A a \in Addr : a < Fill(q) => c.rxdata[a] = q.rxdata[a]
  <2>1. Sound(q) /\ HasRoom(q) /\ f \in Frames
    OBVIOUS
  <2> QED
    BY ONLY <2>1, CommittedShape, ZenonT(60)
<1>2. q \in Store /\ q.first <= q.next
  BY DEF Sound
<1> HIDE DEF c
<1>3. r \in Store /\ r.first = q.first /\ r.next = q.next /\ r.jobs = q.jobs /\ r.rxdata = c.rxdata
  BY <1>1, <1>2 DEF WalkedAway, Store, c
<1> HIDE DEF r
<1>4. Sound(r)
  BY <1>2, <1>3 DEF Sound, Live, InArea, BackToBack, Ordered, InUse
<1>5. ASSUME NEW i \in InUse(q) PROVE FrameOf(r, i) = FrameOf(q, i)
  <2>1. q.jobs[i].len \in Nat /\ q.jobs[i].off \in Nat /\ q.jobs[i].off + q.jobs[i].len <= Fill(q)
    BY <1>2, InUseSlots, FillFits
  <2>2. ASSUME NEW n \in 1 .. q.jobs[i].len
        PROVE  r.rxdata[r.jobs[i].off + n - 1] = q.rxdata[q.jobs[i].off + n - 1]
    <3>1. q.jobs[i].off + n - 1 \in Addr /\ q.jobs[i].off + n - 1 < Fill(q)
      BY <2>1, Within, FillFits
    <3> QED
      BY <1>1, <1>3, <3>1
  <2> QED
    BY <1>3, <2>1, <2>2, SameFrame
<1>6. Waiting(r) = Waiting(q)
  BY <1>3, <1>5, WaitingShape DEF Waiting
<1> QED
  BY <1>4, <1>6 DEF r

Less == {ss \in Nat \X Nat : ss[1] < ss[2]}

LEMMA Smallest ==
  ASSUME NEW T, T \subseteq Nat, T # {}
  PROVE  \E x \in T : \A y \in T : x <= y
<1>1. IsWellFoundedOn(Less, Nat)
  BY NatLessThanWellFounded, Zenon DEF OpToRel, Less
<1>2. PICK x \in T : \A y \in T : ~(<<y, x>> \in Less)
  BY <1>1, WFMin
<1>3. \A y \in T : ~(y < x)
  BY <1>2 DEF Less
<1> QED
  BY <1>3

Alike(f, g) == f.dr = g.dr /\ f.data = g.data

(* What the frames that wait become when frame f is stored. *)
Arrives(s, f, t) ==
  \/ /\ \A n \in 1 .. Len(s) : ~Alike(s[n], f)
     /\ t = Append(s, f)
  \/ \E m \in 1 .. Len(s) :
       /\ Alike(s[m], f) /\ \A n \in 1 .. m - 1 : ~Alike(s[n], f)
       /\ t = IF f.sig > s[m].sig THEN Append(Without(s, m), f) ELSE s

LEMMA WithoutAppended ==
  ASSUME NEW S, NEW s \in Seq(S), NEW f \in S, NEW m \in 1 .. Len(s)
  PROVE  Without(Append(s, f), m) = Append(Without(s, m), f)
<1> DEFINE a == Append(s, f)
           w == Without(s, m)
           len == Len(s)
<1>1. len \in Nat /\ m \in Nat /\ m <= len /\ m >= 1
  OBVIOUS
<1>2. /\ Len(a) = len + 1 /\ a[len + 1] = f /\ \A n \in 1 .. len : a[n] = s[n]
  OBVIOUS
<1>3. w \in [1 .. len - 1 -> S]
  BY DEF Without
<1>4. w \in Seq(S) /\ Len(w) = len - 1
  BY <1>1, <1>3
<1> HIDE DEF a, len
<1>5. Without(a, m) = [n \in 1 .. len |-> IF n < m THEN a[n] ELSE a[n + 1]]
  BY <1>1, <1>2 DEF Without
<1>6. Append(w, f) = [n \in 1 .. len |-> IF n = len THEN f ELSE w[n]]
  <2> HIDE DEF w
  <2>1. Append(w, f) = [n \in 1 .. len |-> Append(w, f)[n]]
    <3>1. Append(w, f) \in Seq(S) /\ Len(Append(w, f)) = len
      BY <1>1, <1>4
    <3>2. Append(w, f) \in [1 .. len -> S]
      BY <3>1, LenProperties
    <3> QED
      BY <3>2
  <2>2. ASSUME NEW n \in 1 .. len PROVE Append(w, f)[n] = IF n = len THEN f ELSE w[n]
    BY <1>1, <1>4
  <2> QED
    BY <2>1, <2>2
<1>7. ASSUME NEW n \in 1 .. len
      PROVE  (IF n < m THEN a[n] ELSE a[n + 1]) = IF n = len THEN f ELSE w[n]
  <2>1. CASE n = len
    BY <1>1, <1>2, <2>1
  <2>2. CASE n # len
    <3>1. n \in 1 .. len - 1 /\ n + 1 \in 1 .. len
      BY <1>1, <2>2
    <3>2. w[n] = IF n < m THEN s[n] ELSE s[n + 1]
      BY <3>1 DEF Without, len
    <3> QED
      BY <1>2, <2>2, <3>1, <3>2
  <2> QED
    BY <2>1, <2>2
<1> QED
  BY <1>5, <1>6, <1>7 DEF a

LEMMA AddedSound ==
  ASSUME NEW q, Sound(q), HasRoom(q), NEW f \in Frames
  PROVE  Sound(Added(q, f)) /\ Arrives(Waiting(q), f, Waiting(Added(q, f)))
<1> DEFINE s == Waiting(q)
           len == q.next - q.first
<1>1. /\ q \in Store /\ q.first \in Nat /\ q.next \in Nat /\ len \in Nat
      /\ s \in Seq(Frames) /\ Len(s) = len
      /\ s = [n \in 1 .. len |-> FrameOf(q, q.first + n - 1)]
      /\ \A n \in 1 .. len : q.first + n - 1 \in InUse(q)
      /\ \A i \in InUse(q) : i - q.first + 1 \in 1 .. len
      /\ \A i \in InUse(q) : i \in Int /\ q.first <= i /\ i < q.next
  BY WaitingShape, InUseSlots DEF Sound
<1>2. \A n \in 1 .. len : Alike(s[n], f) <=> q.first + n - 1 \in Mirrors(q, f)
  BY <1>1 DEF Alike, Mirrors
<1> HIDE DEF s, len
<1>3. CASE Mirrors(q, f) = {}
  <2>1. Added(q, f) = Committed(q, f)
    BY <1>3 DEF Added
  <2>2. \A n \in 1 .. Len(s) : ~Alike(s[n], f)
    BY <1>1, <1>2, <1>3
  <2> QED
    BY <2>1, <2>2, CommittedSound, CommittedWaiting DEF Arrives, s
<1>4. CASE Mirrors(q, f) # {}
  <2> DEFINE p == CHOOSE i \in Mirrors(q, f) : \A k \in Mirrors(q, f) : i <= k
             m == p - q.first + 1
             c == Committed(q, f)
  <2>1. Mirrors(q, f) \subseteq Nat /\ Mirrors(q, f) \subseteq InUse(q)
    BY <1>1 DEF Mirrors
  <2>2. \E i \in Mirrors(q, f) : \A k \in Mirrors(q, f) : i <= k
    BY <1>4, <2>1, Smallest
  <2>3. p \in Mirrors(q, f) /\ \A k \in Mirrors(q, f) : p <= k
    BY <2>2
  <2>4. Added(q, f) = IF f.sig > q.jobs[p].sig THEN Dropped(c, p) ELSE WalkedAway(q, f)
    BY <1>4 DEF Added
  <2> HIDE DEF p
  <2>5. /\ p \in InUse(q) /\ p \in Int /\ q.first <= p /\ p < q.next
        /\ m \in 1 .. len /\ m \in Int /\ q.first + m - 1 = p
    BY <1>1, <2>1, <2>3
  <2>6. Alike(s[m], f) /\ s[m].sig = q.jobs[p].sig
    <3>1. s[m] = FrameOf(q, p)
      BY <1>1, <2>5
    <3>2. s[m].sig = q.jobs[p].sig
      BY <3>1 DEF FrameOf
    <3> QED
      BY <1>2, <2>3, <2>5, <3>2
  <2>7. ASSUME NEW n \in 1 .. m - 1 PROVE ~Alike(s[n], f)
    <3>1. n \in 1 .. len /\ q.first + n - 1 < p
      <4>1. n \in Int /\ 1 <= n /\ n <= p - q.first
        BY <1>1, <2>5
      <4>2. q.first + n - 1 < p
        BY <1>1, <2>5, <4>1
      <4> HIDE DEF m
      <4>3. n \in 1 .. len
        BY <1>1, <2>5
      <4> QED
        BY <4>2, <4>3
    <3>2. q.first + n - 1 \notin Mirrors(q, f)
      BY <1>1, <2>3, <2>5, <3>1, SMTT(30)
    <3> QED
      BY <1>2, <3>1, <3>2
  <2>8. CASE f.sig > q.jobs[p].sig
    <3>1. Sound(c) /\ Waiting(c) = Append(s, f)
      BY CommittedSound, CommittedWaiting DEF s
    <3>2. p \in InUse(c) /\ c.first = q.first /\ c.next = q.next + 1
      <4>1. Sound(q) /\ HasRoom(q) /\ f \in Frames
        OBVIOUS
      <4>2. InUse(c) = InUse(q) \cup {q.next} /\ c.first = q.first /\ c.next = q.next + 1
        BY ONLY <4>1, CommittedShape, ZenonT(60)
      <4> QED
        BY <2>5, <4>2
    <3> HIDE DEF c
    <3>3. p # c.next - 1
      BY <1>1, <2>5, <3>2
    <3>4. Sound(Dropped(c, p)) /\ Waiting(Dropped(c, p)) = Without(Waiting(c), p - c.first + 1)
      BY <3>1, <3>2, <3>3, DroppedSound, DroppedWaiting
    <3>5. p - c.first + 1 = m
      BY <3>2
    <3> HIDE DEF m
    <3>6. m \in 1 .. Len(s)
      BY <1>1, <2>5
    <3>7. Without(Append(s, f), m) = Append(Without(s, m), f)
      BY <1>1, <3>6, WithoutAppended
    <3>8. Waiting(Added(q, f)) = Append(Without(s, m), f) /\ Sound(Added(q, f))
      BY <2>4, <2>8, <3>1, <3>4, <3>5, <3>7
    <3> QED
      BY <2>6, <2>7, <2>8, <3>6, <3>8 DEF Arrives, s
  <2>9. CASE ~(f.sig > q.jobs[p].sig)
    <3>1. Sound(Added(q, f)) /\ Waiting(Added(q, f)) = s
      BY <2>4, <2>9, WalkedAwaySound DEF s
    <3> HIDE DEF m
    <3>2. m \in 1 .. Len(s)
      BY <1>1, <2>5
    <3> QED
      BY <2>6, <2>7, <2>9, <3>1, <3>2 DEF Arrives, s
  <2> QED
    BY <2>8, <2>9
<1> QED
  BY <1>3, <1>4
-----------------------------------------------------------------------------
(* What a step may do to the frames that wait and to the frame sent last.  *)
FifoStep ==
  LET s == Waiting(rxq)
      t == Waiting(rxq')
  IN  \/ out' = out /\ (t = s \/ \E f \in Frames : Arrives(s, f, t))
      \/ s # <<>> /\ t = Tail(s) /\ out' \in {Head(s), out}

LEMMA FlushStep ==
  ASSUME Sound(rxq), Flush
  PROVE  /\ Waiting(rxq) # <<>> /\ Waiting(rxq') = Tail(Waiting(rxq))
         /\ out' \in {Head(Waiting(rxq)), out}
<1>1. ~IsEmpty(rxq) /\ out' \in {FrameOf(rxq, rxq.first), out}
  BY DEF Flush
<1>2. Sound(rxq') /\ Waiting(rxq) # <<>> /\ Waiting(rxq') = Tail(Waiting(rxq))
  BY <1>1, FlushedSound DEF Flush
<1>3. Head(Waiting(rxq)) = FrameOf(rxq, rxq.first)
  <2>1. /\ Waiting(rxq) = [n \in 1 .. rxq.next - rxq.first |-> FrameOf(rxq, rxq.first + n - 1)]
        /\ Len(Waiting(rxq)) = rxq.next - rxq.first /\ rxq.next - rxq.first \in Nat
        /\ Waiting(rxq) \in Seq(Frames) /\ rxq.first \in Nat
    BY WaitingShape, InUseSlots DEF Sound
  <2>2. 1 \in 1 .. rxq.next - rxq.first /\ rxq.first + 1 - 1 = rxq.first
    BY <1>2, <2>1
  <2>3. Waiting(rxq)[1] = FrameOf(rxq, rxq.first)
    BY <2>1, <2>2
  <2> QED
    BY <2>3
<1> QED
  BY <1>1, <1>2, <1>3

LEMMA NextSound ==
  ASSUME Sound(rxq), [Next]_vars
  PROVE  Sound(rxq') /\ (FifoStep \/ UNCHANGED vars)
<1>1. Sound(Prepared(rxq)) /\ Waiting(Prepared(rxq)) = Waiting(rxq)
  BY PreparedSound, PreparedWaiting
<1>2. ASSUME NEW f \in Frames, Receive(f) PROVE Sound(rxq') /\ FifoStep
  <2> DEFINE q == Prepared(rxq)
  <2>1. rxq' = (IF HasRoom(q) THEN Added(q, f) ELSE q) /\ out' = out
    BY <1>2 DEF Receive
  <2>2. Sound(q) /\ Waiting(q) = Waiting(rxq)
    BY <1>1
  <2> HIDE DEF q
  <2>3. CASE HasRoom(q)
    BY <2>1, <2>2, <2>3, AddedSound DEF FifoStep
  <2>4. CASE ~HasRoom(q)
    BY <2>1, <2>2, <2>4 DEF FifoStep
  <2> QED
    BY <2>3, <2>4
<1>3. CASE Discard
  BY <1>1, <1>3 DEF Discard, FifoStep
<1>4. CASE Flush
  <2>1. Sound(rxq')
    BY <1>4, FlushedSound DEF Flush
  <2> QED
    BY <1>4, <2>1, FlushStep DEF FifoStep
<1>5. CASE UNCHANGED vars
  BY <1>5 DEF vars
<1> QED
  BY <1>2, <1>3, <1>4, <1>5 DEF Next

Distinct(s) == \A n, m \in 1 .. Len(s) : n # m => ~Alike(s[n], s[m])

LEMMA WithoutShape ==
  ASSUME NEW S, NEW s \in Seq(S), NEW m \in 1 .. Len(s)
  PROVE  /\ Without(s, m) \in Seq(S) /\ Len(Without(s, m)) = Len(s) - 1
         /\ \A n \in 1 .. Len(s) - 1 : Without(s, m)[n] = IF n < m THEN s[n] ELSE s[n + 1]
<1>1. Len(s) \in Nat /\ Len(s) >= 1
  OBVIOUS
<1>2. Without(s, m) \in [1 .. Len(s) - 1 -> S]
  BY DEF Without
<1> QED
  BY <1>1, <1>2 DEF Without

LEMMA AppendedDistinct ==
  ASSUME NEW S, NEW s \in Seq(S), NEW f \in S, Distinct(s),
         \A n \in 1 .. Len(s) : ~Alike(s[n], f)
  PROVE  Distinct(Append(s, f))
<1> SUFFICES ASSUME NEW n \in 1 .. Len(s) + 1, NEW m \in 1 .. Len(s) + 1, n # m
             PROVE  ~Alike(Append(s, f)[n], Append(s, f)[m])
  BY DEF Distinct
<1>1. /\ Append(s, f)[Len(s) + 1] = f
      /\ \A l \in 1 .. Len(s) : Append(s, f)[l] = s[l]
  OBVIOUS
<1>2. CASE n = Len(s) + 1
  <2>1. m \in 1 .. Len(s)
    BY <1>2
  <2> QED
    BY <1>1, <1>2, <2>1 DEF Alike
<1>3. CASE m = Len(s) + 1
  <2>1. n \in 1 .. Len(s)
    BY <1>3
  <2> QED
    BY <1>1, <1>3, <2>1 DEF Alike
<1>4. CASE n # Len(s) + 1 /\ m # Len(s) + 1
  <2>1. n \in 1 .. Len(s) /\ m \in 1 .. Len(s)
    BY <1>4
  <2> QED
    BY <1>1, <2>1 DEF Distinct
<1> QED
  BY <1>2, <1>3, <1>4

LEMMA ArrivesDistinct ==
  ASSUME NEW s \in Seq(Frames), NEW f \in Frames, NEW t, Distinct(s), Arrives(s, f, t)
  PROVE  Distinct(t)
<1>1. CASE /\ \A n \in 1 .. Len(s) : ~Alike(s[n], f)
           /\ t = Append(s, f)
  BY <1>1, AppendedDistinct
<1>2. CASE \E m \in 1 .. Len(s) :
             /\ Alike(s[m], f) /\ \A n \in 1 .. m - 1 : ~Alike(s[n], f)
             /\ t = IF f.sig > s[m].sig THEN Append(Without(s, m), f) ELSE s
  <2>1. PICK m \in 1 .. Len(s) :
             /\ Alike(s[m], f)
             /\ t = IF f.sig > s[m].sig THEN Append(Without(s, m), f) ELSE s
    BY <1>2
  <2> DEFINE w == Without(s, m)
             at(n) == IF n < m THEN n ELSE n + 1
  <2>2. /\ w \in Seq(Frames) /\ Len(w) = Len(s) - 1
        /\ \A n \in 1 .. Len(s) - 1 : w[n] = IF n < m THEN s[n] ELSE s[n + 1]
    BY WithoutShape
  <2> HIDE DEF w
  <2>3. ASSUME NEW n \in 1 .. Len(w) PROVE w[n] = s[at(n)] /\ at(n) \in 1 .. Len(s) /\ at(n) # m
    BY <2>2
  <2>4. \A n, l \in 1 .. Len(w) : n # l => at(n) # at(l)
    BY <2>2
  <2> HIDE DEF at
  <2>5. Distinct(w)
    BY <2>3, <2>4 DEF Distinct
  <2>6. \A n \in 1 .. Len(w) : ~Alike(w[n], f)
    BY <2>1, <2>3 DEF Distinct, Alike
  <2>7. Distinct(Append(w, f))
    BY <2>2, <2>5, <2>6, AppendedDistinct
  <2> QED
    BY <2>1, <2>7 DEF w
<1> QED
  BY <1>1, <1>2 DEF Arrives

LEMMA TailDistinct ==
  ASSUME NEW S, NEW s \in Seq(S), s # <<>>, Distinct(s)
  PROVE  Distinct(Tail(s))
<1>1. Len(Tail(s)) = Len(s) - 1 /\ \A n \in 1 .. Len(s) - 1 : Tail(s)[n] = s[n + 1] /\ n + 1 \in 1 .. Len(s)
  OBVIOUS
<1> QED
  BY <1>1 DEF Distinct

-----------------------------------------------------------------------------
(* The store takes a frame exactly when the frames that wait leave room.   *)

(* The bytes of a waiting frame, one by one, and where each of them lies   *)
BytesAt(s) == {p \in (1 .. Len(s)) \X (1 .. MaxLen) : p[2] <= Len(s[p[1]].data)}
AddrOf(q, p) == q.jobs[q.first + p[1] - 1].off + p[2] - 1

(* Every byte of rxdata from the oldest frame to the newest is a byte of   *)
(* one waiting frame.                                                      *)
LEMMA Covered ==
  ASSUME NEW q, Sound(q), q.first # q.next, NEW a \in q.jobs[q.first].off .. End(q) - 1
  PROVE  \E i \in InUse(q) : q.jobs[i].off <= a /\ a < q.jobs[i].off + q.jobs[i].len
<1> DEFINE T == {i \in InUse(q) : a < q.jobs[i].off + q.jobs[i].len}
<1>1. /\ q.first \in Nat /\ q.next \in Nat /\ InUse(q) \subseteq Slots
      /\ \A i \in Slots : q.jobs[i].off \in Nat /\ q.jobs[i].len \in Nat
      /\ \A i \in InUse(q) : i \in Int /\ q.first <= i /\ i < q.next
      /\ q.first \in InUse(q) /\ q.next - 1 \in InUse(q) /\ End(q) \in Nat
  BY InUseSlots, Extent DEF Sound
<1>2. T \subseteq Nat
  BY <1>1
<1>3. q.next - 1 \in T
  BY <1>1 DEF End
<1>4. PICK i \in T : \A k \in T : i <= k
  BY <1>2, <1>3, Smallest
<1>5. CASE i = q.first
  BY <1>1, <1>4, <1>5
<1>6. CASE i # q.first
  <2>1. i \in InUse(q) /\ i - 1 \in InUse(q) /\ i > q.first
    BY <1>1, <1>4, <1>6 DEF InUse
  <2>2. q.jobs[i].off = q.jobs[i - 1].off + q.jobs[i - 1].len
    BY <2>1 DEF Sound, BackToBack
  <2>3. i - 1 \notin T
    BY <1>1, <1>4, <2>1
  <2>4. q.jobs[i].off \in Nat
    BY <1>1, <2>1
  <2> QED
    BY <1>4, <2>1, <2>2, <2>3, <2>4
<1> QED
  BY <1>5, <1>6

LEMMA DataLength ==
  ASSUME NEW q, Sound(q), NEW n \in 1 .. Len(Waiting(q))
  PROVE  /\ q.first + n - 1 \in InUse(q) /\ Len(Waiting(q)) = q.next - q.first
         /\ Waiting(q)[n] = FrameOf(q, q.first + n - 1)
         /\ Len(Waiting(q)[n].data) = q.jobs[q.first + n - 1].len
<1>1. /\ q \in Store /\ Len(Waiting(q)) = q.next - q.first
      /\ Waiting(q) = [k \in 1 .. q.next - q.first |-> FrameOf(q, q.first + k - 1)]
      /\ q.first + n - 1 \in InUse(q)
  BY WaitingShape DEF Sound
<1>2. Waiting(q)[n] = FrameOf(q, q.first + n - 1)
  BY <1>1
<1>3. q.jobs[q.first + n - 1].len \in Nat
  BY <1>1, InUseSlots
<1>4. Len(FrameOf(q, q.first + n - 1).data) = q.jobs[q.first + n - 1].len
  BY <1>3 DEF FrameOf
<1> QED
  BY <1>1, <1>2, <1>4

LEMMA BytesInUse ==
  ASSUME NEW q, Sound(q), q.first # q.next
  PROVE  BytesOf(Waiting(q)) = End(q) - q.jobs[q.first].off
<1> DEFINE s == Waiting(q)
           B == BytesAt(s)
           low == q.jobs[q.first].off
           T == low .. End(q) - 1
           g == [p \in B |-> AddrOf(q, p)]
<1>1. /\ q.first \in Nat /\ q.next \in Nat /\ InUse(q) \subseteq Slots
      /\ \A i \in Slots : /\ q.jobs[i].off \in Nat /\ q.jobs[i].len \in Nat
                          /\ q.jobs[i].len <= MaxLen
      /\ \A i \in InUse(q) : i \in Int /\ q.first <= i /\ i < q.next
      /\ \A i \in InUse(q) : low <= q.jobs[i].off /\ q.jobs[i].off + q.jobs[i].len <= End(q)
      /\ low \in Nat /\ End(q) \in Nat /\ low <= End(q)
  <2>1. q \in Store
    BY DEF Sound
  <2>2. q.first \in InUse(q) /\ End(q) \in Nat
        /\ \A i \in InUse(q) : low <= q.jobs[i].off /\ q.jobs[i].off + q.jobs[i].len <= End(q)
    BY Extent
  <2> QED
    BY <2>1, <2>2, InUseSlots
<1>2. /\ Len(s) = q.next - q.first /\ Len(s) \in Nat
      /\ \A i \in InUse(q) : i - q.first + 1 \in 1 .. Len(s)
  BY WaitingShape
<1>3. ASSUME NEW p \in B
      PROVE  /\ p = <<p[1], p[2]>> /\ p[1] \in Nat /\ p[2] \in Nat
             /\ q.first + p[1] - 1 \in InUse(q)
             /\ 1 <= p[2] /\ p[2] <= q.jobs[q.first + p[1] - 1].len
  <2>1. /\ p = <<p[1], p[2]>> /\ p[1] \in 1 .. Len(s) /\ p[2] \in 1 .. MaxLen
        /\ p[2] <= Len(s[p[1]].data)
    BY DEF BytesAt
  <2>2. q.first + p[1] - 1 \in InUse(q) /\ Len(s[p[1]].data) = q.jobs[q.first + p[1] - 1].len
    BY <2>1, DataLength
  <2> QED
    BY <2>1, <2>2, <1>2, Sizes
<1> HIDE DEF s, B, low
<1>4. g \in [B -> T]
  <2>1. ASSUME NEW p \in B PROVE AddrOf(q, p) \in T
    <3> DEFINE i == q.first + p[1] - 1
    <3>1. i \in InUse(q) /\ p[2] \in Nat /\ 1 <= p[2] /\ p[2] <= q.jobs[i].len
      BY <1>3
    <3>2. /\ q.jobs[i].off \in Nat /\ q.jobs[i].len \in Nat
          /\ low <= q.jobs[i].off /\ q.jobs[i].off + q.jobs[i].len <= End(q)
      BY <1>1, <3>1
    <3>3. AddrOf(q, p) = q.jobs[i].off + p[2] - 1
      BY DEF AddrOf
    <3> HIDE DEF i
    <3> QED
      BY <1>1, <3>1, <3>2, <3>3
  <2> QED
    BY <2>1
<1>5. IsInjective(g)
  <2> SUFFICES ASSUME NEW p \in B, NEW r \in B, AddrOf(q, p) = AddrOf(q, r) PROVE p = r
    BY DEF IsInjective
  <2> DEFINE i == q.first + p[1] - 1
             k == q.first + r[1] - 1
  <2>1. /\ p = <<p[1], p[2]>> /\ p[1] \in Nat /\ p[2] \in Nat /\ i \in InUse(q)
        /\ 1 <= p[2] /\ p[2] <= q.jobs[i].len
        /\ r = <<r[1], r[2]>> /\ r[1] \in Nat /\ r[2] \in Nat /\ k \in InUse(q)
        /\ 1 <= r[2] /\ r[2] <= q.jobs[k].len
    BY <1>3
  <2>2. /\ i \in Int /\ k \in Int
        /\ q.jobs[i].off \in Nat /\ q.jobs[i].len \in Nat
        /\ q.jobs[k].off \in Nat /\ q.jobs[k].len \in Nat
    BY <1>1, <2>1
  <2>3. q.jobs[i].off + p[2] - 1 = q.jobs[k].off + r[2] - 1
    BY DEF AddrOf
  <2>4. /\ i < k => q.jobs[i].off + q.jobs[i].len <= q.jobs[k].off
        /\ k < i => q.jobs[k].off + q.jobs[k].len <= q.jobs[i].off
    BY <2>1 DEF Sound, Ordered
  <2>5. i = k
    <3> HIDE DEF i, k
    <3> QED
      BY <2>1, <2>2, <2>3, <2>4
  <2>6. p[2] = r[2]
    <3> HIDE DEF i, k
    <3> QED
      BY <2>1, <2>2, <2>3, <2>5
  <2>7. p[1] = r[1]
    BY <1>1, <2>1, <2>5
  <2> QED
    BY <2>1, <2>6, <2>7
<1>6. ASSUME NEW a \in T PROVE \E p \in B : g[p] = a
  <2>1. PICK i \in InUse(q) : q.jobs[i].off <= a /\ a < q.jobs[i].off + q.jobs[i].len
    BY Covered DEF low
  <2> DEFINE n == i - q.first + 1
             k == a - q.jobs[i].off + 1
  <2>2. /\ i \in Int /\ q.jobs[i].off \in Nat /\ q.jobs[i].len \in Nat
        /\ q.jobs[i].len <= MaxLen /\ a \in Int
    BY <1>1, <2>1
  <2>3. n \in 1 .. Len(s) /\ q.first + n - 1 = i
    BY <1>1, <1>2, <2>2, SMTT(30)
  <2>4. k \in 1 .. MaxLen /\ k <= q.jobs[i].len /\ q.jobs[i].off + k - 1 = a
    BY <2>1, <2>2, Sizes
  <2>5. Len(s[n].data) = q.jobs[i].len
    BY <2>3, DataLength DEF s
  <2> HIDE DEF n, k
  <2>6. <<n, k>> \in B
    BY <2>3, <2>4, <2>5 DEF B, BytesAt
  <2>7. AddrOf(q, <<n, k>>) = a
    BY <2>3, <2>4 DEF AddrOf
  <2> QED
    BY <2>6, <2>7
<1>7. ExistsBijection(B, T)
  <2> HIDE DEF g, T
  <2>1. g \in Bijection(B, T)
    BY <1>4, <1>5, <1>6 DEF Bijection, Injection, Surjection
  <2> QED
    BY <2>1 DEF ExistsBijection
<1>8. IsFiniteSet(T) /\ Cardinality(T) = End(q) - low
  <2>1. low \in Int /\ End(q) - 1 \in Int /\ low <= End(q)
    BY <1>1
  <2>2. IsFiniteSet(T) /\ Cardinality(T) = IF low > End(q) - 1 THEN 0 ELSE End(q) - 1 - low + 1
    <3> HIDE DEF low
    <3> QED
      BY <2>1, FS_Interval
  <2> QED
    BY <1>1, <2>2
<1>9. Cardinality(B) = Cardinality(T)
  <2>1. ExistsBijection(T, B)
    BY <1>7, Fun_ExistsBijSymmetric
  <2> QED
    BY <1>8, <2>1, FS_Bijection
<1> QED
  BY <1>8, <1>9 DEF BytesOf, BytesAt, B, s, low

(* rxq_nextJob finds room if and only if the frames that wait leave it:    *)
(* the two compactions leave no gap unused.                                *)
LEMMA RoomFull ==
  ASSUME NEW q, Sound(q)
  PROVE  HasRoom(Prepared(q)) <=> ~Full(Waiting(q))
<1>1. /\ q \in Store /\ q.first \in Nat /\ q.next \in Nat /\ q.first <= q.next /\ q.next <= MaxJobs
      /\ Waiting(q) \in Seq(Frames) /\ Len(Waiting(q)) = q.next - q.first
  BY InUseSlots, WaitingShape DEF Sound
<1>2. CASE IsEmpty(q)
  <2>1. /\ Prepared(q) = [q EXCEPT !.first = 0, !.next = 0]
        /\ Prepared(q).first = 0 /\ Prepared(q).next = 0
    BY <1>1, <1>2 DEF Prepared, Store
  <2>2. HasRoom(Prepared(q))
    BY <2>1, Sizes DEF HasRoom, NoSlot, NoData, IsEmpty
  <2>3. Waiting(q) = <<>>
    BY <1>1, <1>2 DEF IsEmpty
  <2> QED
    BY <2>2, <2>3 DEF Full
<1>3. CASE ~IsEmpty(q) /\ NoSlot(q) /\ q.first = 0
  <2>1. ~HasRoom(Prepared(q))
    BY <1>3 DEF Prepared, HasRoom
  <2>2. Len(Waiting(q)) = MaxJobs
    BY <1>1, <1>3, Sizes DEF NoSlot
  <2> QED
    BY <1>1, <2>1, <2>2, Sizes DEF Full
<1>4. CASE ~IsEmpty(q) /\ ~(NoSlot(q) /\ q.first = 0)
  <2> DEFINE c == IF NoSlot(q) THEN JobsDown(q) ELSE q
  <2>1. Sound(c) /\ Waiting(c) = Waiting(q)
    BY JobsDownSound, JobsDownWaiting
  <2>2. Prepared(q) = IF NoData(c) THEN DataDown(c) ELSE c
    BY <1>4 DEF Prepared
  <2>3. c.first # c.next /\ c.next < MaxJobs /\ Len(Waiting(q)) < MaxJobs
    <3>1. CASE NoSlot(q)
      <4>1. c.first = 0 /\ c.next = q.next - q.first
        BY <1>1, <3>1, JobsDownShape
      <4> HIDE DEF c
      <4> QED
        BY <1>1, <1>4, <3>1, <4>1, Sizes DEF IsEmpty
    <3>2. CASE ~NoSlot(q)
      BY <1>1, <1>4, <3>2, Sizes DEF NoSlot, IsEmpty
    <3> QED
      BY <3>1, <3>2
  <2> HIDE DEF c
  <2> DEFINE low == c.jobs[c.first].off
  <2>4. BytesOf(Waiting(q)) = End(c) - low
    BY <2>1, <2>3, BytesInUse
  <2>5. /\ c \in Store /\ low \in Nat /\ End(c) \in Nat /\ low <= End(c)
        /\ c.first \in InUse(c) /\ c.next - 1 \in InUse(c) /\ c.next \in Nat
        /\ c.jobs[c.next - 1].off \in Nat /\ c.jobs[c.next - 1].len \in Nat
        /\ End(c) = c.jobs[c.next - 1].off + c.jobs[c.next - 1].len
    <3>1. c \in Store /\ c.first \in InUse(c) /\ c.next - 1 \in InUse(c) /\ End(c) \in Nat
      BY <2>1, <2>3, Extent DEF Sound
    <3>2. /\ c.next \in Nat /\ c.jobs[c.first].off \in Nat /\ c.jobs[c.first].len \in Nat
          /\ c.jobs[c.next - 1].off \in Nat /\ c.jobs[c.next - 1].len \in Nat
      BY <3>1, InUseSlots
    <3>3. low + c.jobs[c.first].len <= End(c)
      BY <2>1, <2>3, <3>1, Extent
    <3> QED
      BY <3>1, <3>2, <3>3 DEF End
  <2>6. Waiting(q) # <<>>
    BY <1>1, <1>4 DEF IsEmpty
  <2>7. Full(Waiting(q)) <=> End(c) - low + MaxLen > MaxData
    BY <2>3, <2>4, <2>6, <1>1, Sizes DEF Full
  <2>8. CASE ~NoData(c)
    <3>1. End(c) + MaxLen <= MaxData
      BY <2>3, <2>5, <2>8, Sizes DEF NoData, IsEmpty
    <3>2. HasRoom(c)
      BY <2>3, <2>5, <2>8, Sizes DEF HasRoom, NoSlot
    <3> HIDE DEF low
    <3> QED
      BY <2>2, <2>5, <2>7, <2>8, <3>1, <3>2, Sizes
  <2>9. CASE NoData(c)
    <3> DEFINE d == DataDown(c)
    <3>1. /\ d.first = c.first /\ d.next = c.next
          /\ d.jobs[c.next - 1] = [c.jobs[c.next - 1] EXCEPT !.off = @ - low]
      BY <2>1, <2>3, <2>5, DataDownShape
    <3> HIDE DEF d
    <3>2. c.jobs[c.next - 1] \in Job
      BY <2>5, InUseSlots
    <3>3. d.jobs[d.next - 1].off = c.jobs[c.next - 1].off - low
          /\ d.jobs[d.next - 1].len = c.jobs[c.next - 1].len
      BY <3>1, <3>2 DEF Job
    <3>4. End(d) = End(c) - low
      <4> HIDE DEF low
      <4> QED
        BY <2>5, <3>3 DEF End
    <3>5. HasRoom(d) <=> ~(End(c) - low + MaxLen > MaxData)
      <4> HIDE DEF low
      <4> QED
        BY <2>3, <2>5, <3>1, <3>4, Sizes DEF HasRoom, NoSlot, NoData, IsEmpty
    <3> QED
      BY <2>2, <2>7, <2>9, <3>5 DEF d
  <2> QED
    BY <2>8, <2>9
<1> QED
  BY <1>2, <1>3, <1>4

(* RxFifo takes the mirror out as RemoveAt, the proofs about the store as   *)
(* Without, and finds it as the least index.                                *)
LEMMA RemovedIsWithout ==
  ASSUME NEW S, NEW s \in Seq(S), NEW m \in 1 .. Len(s)
  PROVE  RemoveAt(s, m) = Without(s, m)
<1> DEFINE len == Len(s)
           u == SubSeq(s, 1, m - 1)
           v == SubSeq(s, m + 1, len)
<1>1. len \in Nat /\ m \in Int /\ 1 <= m /\ m <= len /\ \A n \in 1 .. len : s[n] \in S
  OBVIOUS
<1>2. /\ u \in Seq(S) /\ Len(u) = m - 1 /\ \A n \in 1 .. m - 1 : u[n] = s[n]
  <2>1. /\ u \in Seq(S) /\ Len(u) = (IF 1 <= m - 1 THEN m - 1 - 1 + 1 ELSE 0)
        /\ \A n \in 1 .. m - 1 - 1 + 1 : u[n] = s[1 + n - 1]
    <3>1. \A n \in 1 .. m - 1 : s[n] \in S
      BY <1>1
    <3> QED
      BY <1>1, <3>1, SubSeqProperties
  <2> HIDE DEF u
  <2> QED
    BY <1>1, <2>1
<1>3. /\ v \in Seq(S) /\ Len(v) = len - m /\ \A n \in 1 .. len - m : v[n] = s[m + n]
  <2>1. /\ v \in Seq(S) /\ Len(v) = (IF m + 1 <= len THEN len - (m + 1) + 1 ELSE 0)
        /\ \A n \in 1 .. len - (m + 1) + 1 : v[n] = s[m + 1 + n - 1]
    <3>1. \A n \in m + 1 .. len : s[n] \in S
      BY <1>1
    <3> HIDE DEF len
    <3> QED
      BY <1>1, <3>1, SubSeqProperties
  <2> HIDE DEF v, len
  <2> QED
    BY <1>1, <2>1
<1>4. RemoveAt(s, m) = u \o v
  BY DEF RemoveAt
<1> HIDE DEF u, v
<1>5. /\ u \o v \in Seq(S) /\ Len(u \o v) = len - 1
      /\ \A n \in 1 .. len - 1 : (u \o v)[n] = IF n <= m - 1 THEN u[n] ELSE v[n - (m - 1)]
  <2>1. /\ u \o v \in Seq(S) /\ Len(u \o v) = Len(u) + Len(v)
        /\ \A n \in 1 .. Len(u) + Len(v) : (u \o v)[n] = IF n <= Len(u) THEN u[n] ELSE v[n - Len(u)]
    BY <1>2, <1>3, ConcatProperties
  <2>2. Len(u) + Len(v) = len - 1
    BY <1>1, <1>2, <1>3
  <2> QED
    BY <1>2, <2>1, <2>2
<1>6. /\ Without(s, m) \in Seq(S) /\ Len(Without(s, m)) = len - 1
      /\ \A n \in 1 .. len - 1 : Without(s, m)[n] = IF n < m THEN s[n] ELSE s[n + 1]
  BY WithoutShape
<1>7. ASSUME NEW n \in 1 .. len - 1 PROVE (u \o v)[n] = Without(s, m)[n]
  <2> HIDE DEF len
  <2>1. CASE n < m
    BY <1>1, <1>2, <1>5, <1>6, <2>1
  <2>2. CASE ~(n < m)
    <3>1. n - (m - 1) \in 1 .. len - m /\ m + (n - (m - 1)) = n + 1 /\ ~(n <= m - 1)
      BY <1>1, <2>2
    <3> QED
      BY <1>3, <1>5, <1>6, <2>2, <3>1
  <2> QED
    BY <2>1, <2>2
<1> HIDE DEF len
<1> QED
  BY <1>4, <1>5, <1>6, <1>7, SeqEqual

LEMMA LeastOne ==
  ASSUME NEW T, NEW m \in T, m \in Int, \A n \in T : n \in Int /\ m <= n
  PROVE  Fifo!Min(T) = m
<1>1. \A y \in T : m =< y
  OBVIOUS
<1>2. \A x \in T : (\A y \in T : x =< y) => x = m
  OBVIOUS
<1>3. (CHOOSE x \in T : \A y \in T : x =< y) = m
  BY <1>1, <1>2
<1> QED
  BY <1>3 DEF Fifo!Min

LEMMA ReceiveImplements ==
  ASSUME NEW f \in Frames, Sound(rxq), Sound(rxq'), HasRoom(Prepared(rxq)), out' = out,
         Arrives(Waiting(rxq), f, Waiting(rxq'))
  PROVE  Fifo!Receive(f)
<1> DEFINE s == Waiting(rxq)
           I == {n \in 1 .. Len(s) : Fifo!Mirror(f, s[n])}
           i == IF I # {} THEN Fifo!Min(I) ELSE 0
<1>1. s \in Seq(Frames) /\ Len(s) \in Nat
  BY WaitingShape
<1>2. \A n \in 1 .. Len(s) : n \in I <=> Alike(s[n], f)
  BY DEF Fifo!Mirror, Alike
<1>3. Waiting(rxq') = IF i = 0 THEN Append(s, f)
                      ELSE IF f.sig > s[i].sig THEN Append(RemoveAt(s, i), f) ELSE s
  <2>1. CASE \A n \in 1 .. Len(s) : ~Alike(s[n], f)
    <3>1. I = {}
      BY <1>2, <2>1
    <3>2. Waiting(rxq') = Append(s, f)
      BY <2>1 DEF Arrives
    <3> QED
      BY <3>1, <3>2
  <2>2. ASSUME NEW m \in 1 .. Len(s), Alike(s[m], f), \A n \in 1 .. m - 1 : ~Alike(s[n], f),
               Waiting(rxq') = IF f.sig > s[m].sig THEN Append(Without(s, m), f) ELSE s
        PROVE  Waiting(rxq') = IF i = 0 THEN Append(s, f)
                               ELSE IF f.sig > s[i].sig THEN Append(RemoveAt(s, i), f) ELSE s
    <3>1. m \in I /\ m \in Int /\ m > 0 /\ \A n \in I : n \in Int /\ m <= n
      BY <1>1, <1>2, <2>2
    <3> HIDE DEF I
    <3>2. Fifo!Min(I) = m
      BY <3>1, LeastOne
    <3>3. i = m
      BY <3>1, <3>2
    <3>4. RemoveAt(s, m) = Without(s, m)
      BY <1>1, RemovedIsWithout
    <3> HIDE DEF i
    <3> QED
      BY <2>2, <3>1, <3>3, <3>4
  <2> QED
    BY <2>1, <2>2 DEF Arrives
<1>4. HasRoom(Prepared(rxq))' = ~Full(Waiting(rxq)')
  BY RoomFull, Zenon DEF HasRoom
<1>5. /\ LET mirror(g) == Fifo!Mirror(f, g) IN i = Fifo!SelectInSeq(Waiting(rxq), mirror)
      /\ Fifo!RemoveAt(s, i) = RemoveAt(s, i)
  BY DEF Fifo!SelectInSeq, Fifo!RemoveAt, RemoveAt
<1>6. LET mirror(g) == Fifo!Mirror(f, g)
          k == Fifo!SelectInSeq(Waiting(rxq), mirror)
      IN  Waiting(rxq)' = IF k = 0 THEN Append(Waiting(rxq), f)
                          ELSE IF f.sig > Waiting(rxq)[k].sig
                          THEN Append(Fifo!RemoveAt(Waiting(rxq), k), f) ELSE Waiting(rxq)
  BY <1>3, <1>5
<1> QED
  BY <1>4, <1>6 DEF Fifo!Receive, Full

LEMMA StepImplements ==
  ASSUME Sound(rxq), [Next]_vars
  PROVE  [Fifo!Next]_<<Waiting(rxq), out, HasRoom(Prepared(rxq))>>
<1> DEFINE Same == /\ Waiting(rxq') = Waiting(rxq) /\ out' = out
                   /\ HasRoom(Prepared(rxq')) = HasRoom(Prepared(rxq))
<1>1. Sound(Prepared(rxq)) /\ Waiting(Prepared(rxq)) = Waiting(rxq) /\ Sound(rxq')
  BY PreparedSound, PreparedWaiting, NextSound
<1>2. ASSUME rxq' = Prepared(rxq), out' = out PROVE Same
  <2>1. Waiting(rxq') = Waiting(rxq)
    BY <1>1, <1>2
  <2>2. /\ HasRoom(Prepared(rxq)) = ~Full(Waiting(rxq))
        /\ HasRoom(Prepared(rxq')) = ~Full(Waiting(rxq'))
    BY <1>1, RoomFull, Zenon DEF HasRoom
  <2> QED
    BY <1>2, <2>1, <2>2
<1>3. ASSUME NEW f \in Frames, Receive(f) PROVE Same \/ Fifo!Receive(f)
  <2> DEFINE q == Prepared(rxq)
  <2>1. rxq' = (IF HasRoom(q) THEN Added(q, f) ELSE q) /\ out' = out
    BY <1>3 DEF Receive
  <2>2. CASE HasRoom(q)
    <3>1. Arrives(Waiting(rxq), f, Waiting(rxq'))
      BY <1>1, <2>1, <2>2, AddedSound
    <3> QED
      BY <1>1, <2>1, <2>2, <3>1, ReceiveImplements
  <2>3. CASE ~HasRoom(q)
    BY <1>2, <2>1, <2>3
  <2> QED
    BY <2>2, <2>3
<1>4. CASE Discard
  BY <1>2, <1>4 DEF Discard
<1>5. CASE Flush
  <2>2. /\ Waiting(rxq) # <<>> /\ Waiting(rxq') = Tail(Waiting(rxq))
        /\ out' \in {Head(Waiting(rxq)), out}
    BY <1>5, FlushStep
  <2>3. HasRoom(Prepared(rxq')) = ~Full(Waiting(rxq'))
    BY <1>1, RoomFull, Zenon DEF HasRoom
  <2> QED
    BY <2>2, <2>3 DEF Fifo!Next, Fifo!HandOn, Full
<1>6. CASE UNCHANGED vars
  BY <1>6 DEF vars
<1>7. ASSUME Same PROVE UNCHANGED <<Waiting(rxq), out, HasRoom(Prepared(rxq))>>
  BY <1>7
<1>8. ASSUME NEW f \in Frames, Fifo!Receive(f) PROVE Fifo!Next
  BY <1>8 DEF Fifo!Next
<1> QED
  BY <1>3, <1>4, <1>5, <1>6, <1>7, <1>8 DEF Next
-----------------------------------------------------------------------------
(* rxq_nextJob, rxq_commitJob, rxq_dropJob and s2e_flushRxjobs keep the    *)
(* jobs and their frames sound whatever is received, mirrored and sent.    *)
THEOREM Invariance == Spec => []Sound(rxq)
<1>1. Init => Sound(rxq)
  BY InitSound
<1>2. Sound(rxq) /\ [Next]_vars => Sound(rxq)'
  BY NextSound
<1> QED
  BY <1>1, <1>2, PTL DEF Spec

(* rxq_nextJob hands out room that belongs to no waiting frame: the frames *)
(* in use lie back to back and none runs over the end of rxdata.           *)
THEOREM Tiling == Spec => []FramesTiled
<1>1. Sound(rxq) => FramesTiled
  BY DEF Sound, InArea, BackToBack, FramesTiled
<1> QED
  BY <1>1, Invariance, PTL

(* No step reorders, loses or alters a waiting frame: a frame is appended  *)
(* (s2e_addRxjob), with its fainter mirror taken out or itself refused for *)
(* a clearer one, or the oldest one leaves (s2e_flushRxjobs) as it came.   *)
THEOREM FifoOrder == Spec => [][FifoStep]_vars
<1>1. Sound(rxq) /\ [Next]_vars => [FifoStep]_vars
  BY NextSound
<1> QED
  BY <1>1, Invariance, PTL DEF Spec
(* s2e_addRxjob compares with every waiting frame, so one transmission     *)
(* received on several channels waits, and is sent, once.                  *)
THEOREM NoneMirrored == Spec => []NoMirrors
<1>1. Init => Distinct(Waiting(rxq))
  <2> SUFFICES ASSUME Init PROVE Distinct(Waiting(rxq))
    OBVIOUS
  <2>1. Sound(rxq) /\ rxq.next - rxq.first = 0
    BY InitSound DEF Init
  <2>2. Len(Waiting(rxq)) = 0
    BY <2>1, WaitingShape
  <2> QED
    BY <2>2 DEF Distinct
<1>2. Sound(rxq) /\ Distinct(Waiting(rxq)) /\ [Next]_vars => Distinct(Waiting(rxq'))
  <2> SUFFICES ASSUME Sound(rxq), Distinct(Waiting(rxq)), [Next]_vars
               PROVE  Distinct(Waiting(rxq'))
    OBVIOUS
  <2>1. Waiting(rxq) \in Seq(Frames)
    BY WaitingShape
  <2>2. CASE UNCHANGED vars
    BY <2>2 DEF vars
  <2>3. CASE FifoStep
    BY <2>1, <2>3, ArrivesDistinct, TailDistinct DEF FifoStep
  <2> QED
    BY <2>2, <2>3, NextSound
<1>3. Sound(rxq) /\ Distinct(Waiting(rxq)) => NoMirrors
  <2> SUFFICES ASSUME Sound(rxq), Distinct(Waiting(rxq)),
                      NEW i \in InUse(rxq), NEW k \in InUse(rxq), i # k
               PROVE  k \notin Mirrors(rxq, FrameOf(rxq, i))
    BY DEF NoMirrors
  <2> DEFINE n == i - rxq.first + 1
             m == k - rxq.first + 1
  <2>1. /\ i \in Int /\ k \in Int /\ rxq.first \in Int
        /\ n \in 1 .. Len(Waiting(rxq)) /\ m \in 1 .. Len(Waiting(rxq))
        /\ Waiting(rxq)[n] = FrameOf(rxq, rxq.first + n - 1)
        /\ Waiting(rxq)[m] = FrameOf(rxq, rxq.first + m - 1)
    <3>1. /\ rxq \in Store /\ rxq.next - rxq.first \in Nat /\ Len(Waiting(rxq)) = rxq.next - rxq.first
          /\ Waiting(rxq) = [l \in 1 .. rxq.next - rxq.first |-> FrameOf(rxq, rxq.first + l - 1)]
      BY WaitingShape DEF Sound
    <3>2. n \in 1 .. rxq.next - rxq.first /\ m \in 1 .. rxq.next - rxq.first
      BY WaitingShape
    <3>3. i \in Int /\ k \in Int /\ rxq.first \in Int
      BY <3>1, InUseSlots
    <3> HIDE DEF n, m
    <3> QED
      BY <3>1, <3>2, <3>3
  <2>2. rxq.first + n - 1 = i /\ rxq.first + m - 1 = k /\ n # m
    BY <2>1, SMTT(30)
  <2>3. ~Alike(Waiting(rxq)[m], Waiting(rxq)[n])
    BY <2>1, <2>2 DEF Distinct
  <2> QED
    BY <2>1, <2>2, <2>3 DEF Mirrors, Alike
<1>4. Sound(rxq) /\ Distinct(Waiting(rxq)) /\ [Next]_vars => Distinct(Waiting(rxq))'
  BY <1>2
<1> QED
  BY <1>1, <1>3, <1>4, Invariance, PTL DEF Spec

(* xq.c with s2e_addRxjob and s2e_flushRxjobs is the FIFO of RxFifo: moving *)
(* jobs and data around is not seen, and rxq_nextJob returns NULL exactly   *)
(* when the frames that wait fill the slots or leave no room for the        *)
(* longest one.                                                             *)
THEOREM Implementation == Spec => ImplementsFifo
<1>1. Init => Fifo!Init
  <2> SUFFICES ASSUME Init PROVE Fifo!Init
    OBVIOUS
  <2>1. Sound(rxq) /\ rxq.next - rxq.first = 0 /\ out = NoFrame
    BY InitSound DEF Init
  <2>2. Waiting(rxq) = <<>>
    BY <2>1, WaitingShape
  <2>3. HasRoom(Prepared(rxq)) = TRUE
    <3>1. HasRoom(Prepared(rxq))
      BY <2>1, <2>2, RoomFull DEF Full
    <3> QED
      BY <3>1, Zenon DEF HasRoom
  <2> QED
    BY <2>1, <2>2, <2>3 DEF Fifo!Init, NoFrame, Fifo!None
<1>2. Sound(rxq) /\ [Next]_vars => [Fifo!Next]_<<Waiting(rxq), out, HasRoom(Prepared(rxq))>>
  BY StepImplements
<1> QED
  BY <1>1, <1>2, Invariance, PTL DEF Spec, ImplementsFifo, Fifo!Spec
=============================================================================
