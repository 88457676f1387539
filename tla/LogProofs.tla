----------------------------- MODULE LogProofs -----------------------------
(***************************************************************************)
(* The two logs of the station, for any sizes.                             *)
(*                                                                         *)
(* No accepted byte of the log of LogThread is lost, doubled or moved, for *)
(* any size of outbuf and any lengths of lines.  The argument is mutual    *)
(* exclusion: whoever writes outbuf to the file and then takes bytes out   *)
(* of it holds mxcond, so that between the two only bytes behind those can *)
(* be added.  Rotation keeps the recent log, for any size and number of    *)
(* files.                                                                  *)
(*                                                                         *)
(* In the flash of FlashFs, whose log consists of records, no cell is      *)
(* programmed that holds something else.  The argument is that an          *)
(* interrupted collection, begun again, writes the same records to the     *)
(* same cells: they depend on the old section alone.                       *)
(***************************************************************************)
EXTENDS LogThread, FlashFs, SequenceTheorems, NaturalsInduction, WellFoundedInduction, TLAPS

MainLabels ==
  {"loop", "add", "copy", "notify", "delay", "on_delay", "signal",
   "flush", "flush_fill", "flush_write", "exited"}
ThreadLabels == {"none", "start", "wait", "woken", "look", "write", "drop"}

Types ==
  /\ main \in MainLabels /\ ret \in {"loop", "exited"} /\ len \in Nat
  /\ thread \in ThreadLabels /\ tlen \in Nat
  /\ outbuf \in Seq(Nat) /\ written \in Seq(Nat) /\ accepted \in Nat
  /\ Len(outbuf) <= LOG_OUTSIZ

(* Who writes to the file holds mxcond. *)
Exclusion ==
  /\ mxcond = "thread" <=> thread \in {"look", "write", "drop"}
  /\ main \in {"flush_fill", "flush_write"} => mxcond = "main"

(* Bytes that have been written but not yet taken out of outbuf *)
Doubled == IF thread = "drop" THEN tlen ELSE 0

(* The bytes of s are numbered from b + 1 on. *)
Counts(s, b) == \A k \in 1 .. Len(s) : s[k] = b + k

Order ==
  /\ Counts(written, 0)
  /\ Counts(outbuf, Len(written) - Doubled)
  /\ accepted = Len(written) - Doubled + Len(outbuf)

(* What a thread knows of outbuf where it stands *)
Standing ==
  /\ thread \in {"write", "drop"} => tlen <= Len(outbuf)
  /\ thread = "none" => outbuf = <<>> /\ main \notin {"add", "copy"}
  /\ main = "exited" => ret = "exited" /\ outbuf = <<>> /\ thread # "drop"

Inv == Types /\ Exclusion /\ Order /\ Standing
-----------------------------------------------------------------------------
(* Two runs of numbers one behind the other are a run. *)
LEMMA Joined ==
  ASSUME NEW s \in Seq(Nat), NEW t \in Seq(Nat), NEW b \in Int,
         Counts(s, b), Counts(t, b + Len(s))
  PROVE  /\ s \o t \in Seq(Nat) /\ Len(s \o t) = Len(s) + Len(t)
         /\ Counts(s \o t, b)
<1>1. /\ s \o t \in Seq(Nat) /\ Len(s \o t) = Len(s) + Len(t)
      /\ \A i \in 1 .. Len(s) + Len(t) : (s \o t)[i] = IF i <= Len(s) THEN s[i] ELSE t[i - Len(s)]
  BY ConcatProperties
<1>2. Len(s) \in Nat /\ Len(t) \in Nat
  BY LenProperties
<1>3. ASSUME NEW k \in 1 .. Len(s) + Len(t) PROVE (s \o t)[k] = b + k
  <2>1. CASE k <= Len(s)
    BY <1>1, <1>2, <2>1 DEF Counts
  <2>2. CASE ~ k <= Len(s)
    <3>1. k - Len(s) \in 1 .. Len(t)
      BY <1>2, <2>2
    <3>2. t[k - Len(s)] = b + Len(s) + (k - Len(s))
      BY <3>1 DEF Counts
    <3> QED BY <1>1, <1>2, <2>2, <3>2
  <2> QED BY <2>1, <2>2
<1> QED BY <1>1, <1>3 DEF Counts

(* A run of numbers cut in two *)
LEMMA Cut ==
  ASSUME NEW s \in Seq(Nat), NEW b \in Int, NEW n \in Nat, n <= Len(s), Counts(s, b)
  PROVE  /\ SubSeq(s, 1, n) \in Seq(Nat) /\ Len(SubSeq(s, 1, n)) = n
         /\ Counts(SubSeq(s, 1, n), b)
         /\ SubSeq(s, n + 1, Len(s)) \in Seq(Nat)
         /\ Len(SubSeq(s, n + 1, Len(s))) = Len(s) - n
         /\ Counts(SubSeq(s, n + 1, Len(s)), b + n)
<1>1. Len(s) \in Nat /\ \A i \in 1 .. Len(s) : s[i] \in Nat
  BY LenProperties, ElementOfSeq
<1>2. /\ SubSeq(s, 1, n) \in Seq(Nat)
      /\ Len(SubSeq(s, 1, n)) = IF 1 <= n THEN n - 1 + 1 ELSE 0
      /\ \A i \in 1 .. n - 1 + 1 : SubSeq(s, 1, n)[i] = s[1 + i - 1]
  <2>1. \A i \in 1 .. n : s[i] \in Nat
    BY <1>1
  <2> QED BY <2>1, SubSeqProperties, SMTT(30)
<1>3. /\ SubSeq(s, n + 1, Len(s)) \in Seq(Nat)
      /\ Len(SubSeq(s, n + 1, Len(s))) = IF n + 1 <= Len(s) THEN Len(s) - (n + 1) + 1 ELSE 0
      /\ \A i \in 1 .. Len(s) - (n + 1) + 1 : SubSeq(s, n + 1, Len(s))[i] = s[n + 1 + i - 1]
  <2>1. \A i \in n + 1 .. Len(s) : s[i] \in Nat
    BY <1>1
  <2>2. n + 1 \in Int /\ Len(s) \in Int
    BY <1>1
  <2> QED BY <2>1, <2>2, SubSeqProperties
<1>4. Len(SubSeq(s, 1, n)) = n /\ Len(SubSeq(s, n + 1, Len(s))) = Len(s) - n
  BY <1>1, <1>2, <1>3
<1>5. ASSUME NEW k \in 1 .. n PROVE SubSeq(s, 1, n)[k] = b + k
  BY <1>1, <1>2 DEF Counts
<1>6. ASSUME NEW k \in 1 .. Len(s) - n PROVE SubSeq(s, n + 1, Len(s))[k] = b + n + k
  <2>1. n + k \in 1 .. Len(s) /\ SubSeq(s, n + 1, Len(s))[k] = s[n + k]
    BY <1>1, <1>3
  <2> QED BY <2>1 DEF Counts
<1> QED BY <1>2, <1>3, <1>4, <1>5, <1>6 DEF Counts

(* A run of numbers from 1 on is determined by its length. *)
LEMMA Determined ==
  ASSUME NEW s \in Seq(Nat), Counts(s, 0)
  PROVE  s = Numbers(Len(s))
<1>1. s \in [1 .. Len(s) -> Nat] /\ Len(s) \in Nat
  BY LenProperties
<1>2. \A k \in 1 .. Len(s) : s[k] = k
  BY <1>1 DEF Counts
<1> QED BY <1>1, <1>2 DEF Numbers

(* What a new line brings continues the bytes accepted. *)
LEMMA NewCounts ==
  ASSUME NEW n \in Nat, accepted \in Nat
  PROVE  New(n) \in Seq(Nat) /\ Len(New(n)) = n /\ Counts(New(n), accepted)
BY DEF New, Counts

LEMMA MinOfTwo ==
  ASSUME NEW a \in Int, NEW b \in Int
  PROVE  Min({a, b}) = IF a <= b THEN a ELSE b
<1> DEFINE m == IF a <= b THEN a ELSE b
<1>1. m \in {a, b} /\ \A y \in {a, b} : m <= y
  OBVIOUS
<1>2. ASSUME NEW x \in {a, b}, \A y \in {a, b} : x <= y PROVE x = m
  BY <1>2
<1> HIDE DEF m
<1>3. (CHOOSE x \in {a, b} : \A y \in {a, b} : x <= y) = m
  BY <1>1, <1>2
<1> QED BY <1>3 DEF Min, m

LEMMA TakenBounds ==
  ASSUME NEW n \in Nat, outbuf \in Seq(Nat), LOG_OUTSIZ \in Nat, Len(outbuf) <= LOG_OUTSIZ
  PROVE  Taken(n) \in 0 .. LOG_OUTSIZ - Len(outbuf)
<1>1. Len(outbuf) \in Nat
  BY LenProperties
<1>2. LOG_OUTSIZ - Len(outbuf) \in Int /\ n \in Int
  BY <1>1
<1>3. Taken(n) = IF LOG_OUTSIZ - Len(outbuf) <= n THEN LOG_OUTSIZ - Len(outbuf) ELSE n
  BY <1>2, MinOfTwo DEF Taken
<1> QED BY <1>1, <1>3

LEMMA InvImplies == Inv => NoLineLost
<1> SUFFICES ASSUME Inv PROVE NoLineLost
  OBVIOUS
<1>1. outbuf \in Seq(Nat) /\ written \in Seq(Nat) /\ Len(outbuf) \in Nat /\ Len(written) \in Nat
  BY LenProperties DEF Inv, Types
<1>2. Doubled \in Nat /\ Doubled <= Len(outbuf)
  BY <1>1 DEF Inv, Types, Standing, Doubled
<1> DEFINE rest == SubSeq(outbuf, Doubled + 1, Len(outbuf))
<1>3. rest \in Seq(Nat) /\ Len(rest) = Len(outbuf) - Doubled /\ Counts(rest, Len(written))
  <2>1. Len(written) - Doubled \in Int /\ Counts(outbuf, Len(written) - Doubled)
    BY <1>1, <1>2 DEF Inv, Order
  <2>2. (Len(written) - Doubled) + Doubled = Len(written)
    BY <1>1, <1>2
  <2>3. /\ rest \in Seq(Nat) /\ Len(rest) = Len(outbuf) - Doubled
        /\ Counts(rest, (Len(written) - Doubled) + Doubled)
    BY <1>1, <1>2, <2>1, Cut
  <2> QED BY <2>2, <2>3
<1> HIDE DEF rest
<1>4. /\ written \o rest \in Seq(Nat) /\ Len(written \o rest) = Len(written) + Len(rest)
      /\ Counts(written \o rest, 0)
  <2>1. Counts(written, 0) /\ Counts(rest, 0 + Len(written))
    BY <1>1, <1>3 DEF Inv, Order
  <2>2. 0 \in Int
    OBVIOUS
  <2> QED BY <1>1, <1>3, <2>1, <2>2, Joined, Zenon
<1>5. Len(written) + Len(rest) = accepted
  BY <1>1, <1>2, <1>3 DEF Inv, Order
<1>6. written \o rest = Numbers(accepted)
  BY <1>4, <1>5, Determined
<1>7. WrittenInOrder
  <2>1. rest = SubSeq(outbuf, 1 + Doubled, Len(outbuf))
    BY <1>2 DEF rest
  <2> QED BY <1>6, <2>1 DEF WrittenInOrder, Doubled
<1>8. ExitFlushed
  <2> SUFFICES ASSUME main = "exited" PROVE written = Numbers(accepted)
    BY DEF ExitFlushed
  <2>1. outbuf = <<>> /\ Doubled = 0
    BY DEF Inv, Standing, Doubled
  <2>2. accepted = Len(written)
    BY <1>1, <2>1 DEF Inv, Order
  <2> QED BY <1>1, <2>2, Determined DEF Inv, Order
<1> QED BY <1>7, <1>8 DEF NoLineLost
-----------------------------------------------------------------------------
LEMMA InitInv == Init => Inv
<1> SUFFICES ASSUME Init PROVE Inv
  OBVIOUS
<1>1. <<>> \in Seq(Nat) /\ Len(<<>>) = 0
  BY EmptySeq
<1> QED
  BY <1>1, LogThreadAssumption
  DEF Init, Inv, Types, Exclusion, Order, Standing, Doubled, Counts, MainLabels, ThreadLabels

(* The file may be rotated meanwhile: written only grows. *)
LEMMA Writes == ASSUME NEW data, writeLogData(data) PROVE written' = written \o data
BY DEF writeLogData

(* Steps that neither add nor write nor take out *)
LEMMA QuietOrder ==
  ASSUME Order, UNCHANGED <<outbuf, written, accepted>>, Doubled' = Doubled
  PROVE  Order'
BY DEF Order, Counts

LEMMA MainQuiet ==
  ASSUME Inv,
         \/ \E n \in Lengths : Add(n)
         \/ AddLocks \/ Notify \/ SetDelay \/ Delayed \/ OnDelayLocks \/ Signal
         \/ Flush \/ Exit \/ Interrupt \/ FlushLocks \/ FlushLocksFill \/ StartThread
  PROVE  Inv'
<1>1. UNCHANGED <<outbuf, written, accepted, tlen>>
  BY DEF Add, AddLocks, Notify, SetDelay, Delayed, OnDelayLocks, Signal, Flush, Exit,
         Interrupt, FlushLocks, FlushLocksFill, StartThread, Wakeup, threadVars, mainVars, files
<1>2. thread' = thread \/ (thread = "wait" /\ thread' = "woken") \/ (thread = "none" /\ thread' = "start")
  BY DEF Add, AddLocks, Notify, SetDelay, Delayed, OnDelayLocks, Signal, Flush, Exit,
         Interrupt, FlushLocks, FlushLocksFill, StartThread, Wakeup, threadVars
<1>3. Doubled' = Doubled
  BY <1>1, <1>2 DEF Doubled
<1>4. Order'
  BY <1>1, <1>3, QuietOrder DEF Inv
<1>5. Types'
  BY <1>1, <1>2, LogThreadAssumption
  DEF Inv, Types, MainLabels, ThreadLabels, Add, AddLocks, Notify, SetDelay, Delayed,
      OnDelayLocks, Signal, Flush, Exit, Interrupt, FlushLocks, FlushLocksFill, StartThread, mainVars
<1>6. Exclusion'
  BY <1>2 DEF Inv, Exclusion, Add, AddLocks, Notify, SetDelay, Delayed, OnDelayLocks, Signal,
              Flush, Exit, Interrupt, FlushLocks, FlushLocksFill, StartThread, mainVars
<1>7. Standing'
  BY <1>1, <1>2 DEF Inv, Standing, Add, AddLocks, Notify, SetDelay, Delayed, OnDelayLocks, Signal,
              Flush, Exit, Interrupt, FlushLocks, FlushLocksFill, StartThread, mainVars, threadVars
<1> QED BY <1>4, <1>5, <1>6, <1>7 DEF Inv

LEMMA ThreadQuiet ==
  ASSUME Inv, ThreadStarts \/ Spurious \/ ThreadLocks \/ Look
  PROVE  Inv'
<1>1. UNCHANGED <<outbuf, written, accepted, main, ret, len>>
  BY DEF ThreadStarts, Spurious, ThreadLocks, Look, mainVars, files
<1>2. Doubled = 0 /\ Doubled' = 0
  BY DEF ThreadStarts, Spurious, ThreadLocks, Look, Doubled
<1>3. Order'
  BY <1>1, <1>2, QuietOrder DEF Inv
<1>4. Len(outbuf) \in Nat
  BY LenProperties DEF Inv, Types
<1>5. Types'
  BY <1>1, <1>4 DEF Inv, Types, ThreadLabels, ThreadStarts, Spurious, ThreadLocks, Look
<1>6. Exclusion'
  BY <1>1 DEF Inv, Exclusion, ThreadStarts, Spurious, ThreadLocks, Look
<1>7. Standing'
  BY <1>1, <1>4 DEF Inv, Standing, Up, ThreadStarts, Spurious, ThreadLocks, Look
<1> QED BY <1>3, <1>5, <1>6, <1>7 DEF Inv

LEMMA DirectInv == ASSUME Inv, NEW n \in Lengths, AddDirect(n) PROVE Inv'
<1>1. n \in Nat
  BY LogThreadAssumption
<1>2. /\ written' = written \o New(n) /\ accepted' = accepted + n
      /\ UNCHANGED <<main, ret, len, thread, tlen, mxcond, outbuf>>
  BY Writes DEF AddDirect, mainVars, threadVars
<1>3. thread = "none" /\ outbuf = <<>> /\ Doubled = 0 /\ Doubled' = 0 /\ main = "loop"
  BY <1>2 DEF AddDirect, Inv, Standing, Doubled
<1>4. Len(outbuf) = 0 /\ Len(written) \in Nat
  BY <1>3, EmptySeq, LenProperties DEF Inv, Types
<1>5. accepted = Len(written) /\ Counts(written, 0)
  BY <1>3, <1>4 DEF Inv, Order
<1>6. New(n) \in Seq(Nat) /\ Len(New(n)) = n /\ Counts(New(n), 0 + Len(written))
  BY <1>1, <1>4, <1>5, NewCounts
<1>7. 0 \in Int
  OBVIOUS
<1>8. /\ written' \in Seq(Nat) /\ Len(written') = Len(written) + n /\ Counts(written', 0)
  BY <1>2, <1>5, <1>6, <1>7, Joined, Zenon DEF Inv, Types
<1>9. Order'
  BY <1>2, <1>3, <1>4, <1>5, <1>8 DEF Order, Counts
<1>10. Types'
  BY <1>1, <1>2, <1>8 DEF Inv, Types
<1>11. Exclusion' /\ Standing'
  BY <1>2, <1>3 DEF Inv, Exclusion, Standing
<1> QED BY <1>9, <1>10, <1>11 DEF Inv

LEMMA CopyInv == ASSUME Inv, Copy PROVE Inv'
<1> DEFINE n == Taken(len)
<1>1. n \in 0 .. LOG_OUTSIZ - Len(outbuf) /\ Len(outbuf) \in Nat /\ Len(written) \in Nat
  BY TakenBounds, LogThreadAssumption, LenProperties DEF Inv, Types
<1>2. /\ outbuf' = outbuf \o New(n) /\ accepted' = accepted + n
      /\ UNCHANGED <<ret, len, thread, tlen, mxcond, written>>
      /\ main' \in {"notify", "delay"}
  BY DEF Copy, threadVars, files
<1>3. Doubled' = Doubled /\ Doubled \in Nat /\ thread # "none"
  BY <1>2 DEF Inv, Types, Standing, Copy, Doubled
<1> HIDE DEF n
<1> DEFINE b == Len(written) - Doubled
<1>4. b \in Int /\ Counts(outbuf, b) /\ accepted = b + Len(outbuf)
  BY <1>1, <1>3 DEF Inv, Order
<1> HIDE DEF b
<1>5. n \in Nat /\ New(n) \in Seq(Nat) /\ Len(New(n)) = n /\ Counts(New(n), b + Len(outbuf))
  BY <1>1, <1>4, NewCounts DEF Inv, Types
<1>6. /\ outbuf' \in Seq(Nat) /\ Len(outbuf') = Len(outbuf) + n /\ Counts(outbuf', b)
  BY <1>2, <1>4, <1>5, Joined DEF Inv, Types
<1>7. b' = b
  BY <1>2, <1>3 DEF b
<1>8. Order'
  <2>1. Counts(written', 0)
    BY <1>2 DEF Inv, Order
  <2>2. Counts(outbuf', Len(written') - Doubled')
    BY <1>6, <1>7, <1>2, <1>3 DEF b
  <2>3. accepted' = Len(written') - Doubled' + Len(outbuf')
    <3>1. b = Len(written') - Doubled'
      BY <1>7 DEF b
    <3>2. accepted' = b + (Len(outbuf) + n)
      BY <1>1, <1>2, <1>4, <1>5
    <3> QED BY <1>6, <3>1, <3>2
  <2> QED BY <2>1, <2>2, <2>3 DEF Order
<1>9. Types'
  BY <1>1, <1>2, <1>5, <1>6, LogThreadAssumption DEF Inv, Types, MainLabels
<1>10. Exclusion'
  BY <1>2 DEF Inv, Exclusion
<1>11. Standing'
  BY <1>1, <1>2, <1>3, <1>5, <1>6 DEF Inv, Types, Standing
<1> QED BY <1>8, <1>9, <1>10, <1>11 DEF Inv

LEMMA FlushWritesInv == ASSUME Inv, FlushWrites PROVE Inv'
<1>1. /\ written' = written \o outbuf /\ outbuf' = <<>> /\ mxcond' = "none" /\ main' = ret
      /\ UNCHANGED <<ret, len, thread, tlen, accepted>>
  BY Writes DEF FlushWrites, threadVars
<1>2. thread \notin {"look", "write", "drop"} /\ Doubled = 0 /\ Doubled' = 0
  BY <1>1 DEF Inv, Exclusion, FlushWrites, Doubled
<1>3. Len(outbuf) \in Nat /\ Len(written) \in Nat
  BY LenProperties DEF Inv, Types
<1>4. Counts(written, 0) /\ Counts(outbuf, 0 + Len(written)) /\ accepted = Len(written) + Len(outbuf)
  BY <1>2, <1>3 DEF Inv, Order
<1>5. 0 \in Int
  OBVIOUS
<1>6. written' \in Seq(Nat) /\ Len(written') = Len(written) + Len(outbuf) /\ Counts(written', 0)
  BY <1>1, <1>4, <1>5, Joined, Zenon DEF Inv, Types
<1>7. outbuf' \in Seq(Nat) /\ Len(outbuf') = 0
  BY <1>1, EmptySeq
<1>8. Order'
  BY <1>1, <1>2, <1>3, <1>4, <1>6, <1>7 DEF Order, Counts
<1>9. Types'
  BY <1>1, <1>6, <1>7, LogThreadAssumption DEF Inv, Types, MainLabels
<1>10. Exclusion' /\ Standing'
  BY <1>1, <1>2 DEF Inv, Types, Exclusion, Standing
<1> QED BY <1>8, <1>9, <1>10 DEF Inv

LEMMA ThreadWritesInv == ASSUME Inv, ThreadWrites PROVE Inv'
<1>1. Len(outbuf) \in Nat /\ Len(written) \in Nat /\ tlen \in Nat /\ tlen <= Len(outbuf)
  BY LenProperties DEF Inv, Types, Standing, ThreadWrites
<1> DEFINE data == SubSeq(outbuf, 1, tlen)
<1>2. /\ written' = written \o data /\ thread' = "drop"
      /\ UNCHANGED <<main, ret, len, tlen, mxcond, outbuf, accepted>>
  <2>1. Min({tlen, Len(outbuf)}) = tlen
    BY <1>1, MinOfTwo
  <2> QED BY <2>1, Writes DEF ThreadWrites, mainVars
<1>3. Doubled = 0 /\ Doubled' = tlen
  BY <1>2 DEF ThreadWrites, Doubled
<1>4. Counts(written, 0) /\ Counts(outbuf, Len(written)) /\ accepted = Len(written) + Len(outbuf)
  BY <1>1, <1>3 DEF Inv, Order
<1>5. data \in Seq(Nat) /\ Len(data) = tlen /\ Counts(data, 0 + Len(written))
  BY <1>1, <1>4, Cut DEF Inv, Types
<1> HIDE DEF data
<1>6. 0 \in Int
  OBVIOUS
<1>7. written' \in Seq(Nat) /\ Len(written') = Len(written) + Len(data) /\ Counts(written', 0)
  BY <1>2, <1>4, <1>5, <1>6, Joined, Zenon DEF Inv, Types
<1>8. Len(written') - Doubled' = Len(written)
  BY <1>1, <1>3, <1>5, <1>7
<1>9. Order'
  BY <1>2, <1>4, <1>7, <1>8 DEF Order
<1>10. Types'
  BY <1>2, <1>7 DEF Inv, Types, ThreadLabels
<1>11. Exclusion' /\ Standing'
  BY <1>1, <1>2 DEF Inv, Exclusion, Standing, ThreadWrites, Up
<1> QED BY <1>9, <1>10, <1>11 DEF Inv

LEMMA DropInv == ASSUME Inv, Drop PROVE Inv'
<1>1. /\ Len(outbuf) \in Nat /\ Len(written) \in Nat /\ tlen \in Nat /\ tlen <= Len(outbuf)
      /\ main # "exited" /\ mxcond = "thread"
  BY LenProperties DEF Inv, Types, Exclusion, Standing, Drop, Up
<1>2. /\ outbuf' = SubSeq(outbuf, tlen + 1, Len(outbuf)) /\ thread' = "wait" /\ mxcond' = "none"
      /\ UNCHANGED <<main, ret, len, tlen, written, accepted>>
  BY DEF Drop, mainVars, files
<1>3. Doubled = tlen /\ Doubled' = 0
  BY <1>2 DEF Drop, Doubled
<1>4. Len(written) - tlen \in Int /\ Counts(outbuf, Len(written) - tlen)
  BY <1>1, <1>3 DEF Inv, Order
<1>5. /\ outbuf' \in Seq(Nat) /\ Len(outbuf') = Len(outbuf) - tlen
      /\ Counts(outbuf', (Len(written) - tlen) + tlen)
  BY <1>1, <1>2, <1>4, Cut DEF Inv, Types
<1>6. (Len(written) - tlen) + tlen = Len(written') - Doubled'
  BY <1>1, <1>2, <1>3
<1>7. Order'
  BY <1>1, <1>2, <1>3, <1>5, <1>6 DEF Inv, Order
<1>8. Types'
  BY <1>1, <1>2, <1>5, LogThreadAssumption, SMTT(30) DEF Inv, Types, ThreadLabels
<1>9. Exclusion' /\ Standing'
  BY <1>1, <1>2 DEF Inv, Exclusion, Standing
<1> QED BY <1>7, <1>8, <1>9 DEF Inv
-----------------------------------------------------------------------------
(* The invariant holds in every step of either thread, of a signal and of  *)
(* a start (all of sys_log.c).                                             *)
LEMMA NextInv == Inv /\ [Next]_vars => Inv'
<1> SUFFICES ASSUME Inv, [Next]_vars PROVE Inv'
  OBVIOUS
<1>1. ASSUME NEW n \in Lengths, AddDirect(n) PROVE Inv'
  BY <1>1, DirectInv
<1>2. CASE Copy
  BY <1>2, CopyInv
<1>3. CASE FlushWrites
  BY <1>3, FlushWritesInv
<1>4. CASE ThreadWrites
  BY <1>4, ThreadWritesInv
<1>5. CASE Drop
  BY <1>5, DropInv
<1>6. CASE UNCHANGED vars
  BY <1>6
  DEF vars, mainVars, threadVars, files, Inv, Types, Exclusion, Order, Standing, Doubled, Counts
<1>7. ASSUME NEW n \in Lengths, Add(n) PROVE Inv'
  BY <1>7, MainQuiet
<1>8. CASE AddLocks \/ Notify \/ SetDelay \/ Delayed \/ OnDelayLocks \/ Signal
           \/ Flush \/ Exit \/ Interrupt \/ FlushLocks \/ FlushLocksFill \/ StartThread
  BY <1>8, MainQuiet
<1>9. CASE ThreadStarts \/ Spurious \/ ThreadLocks \/ Look
  BY <1>9, ThreadQuiet
<1> QED
  BY <1>1, <1>2, <1>3, <1>4, <1>5, <1>6, <1>7, <1>8, <1>9 DEF Next, MainStep, ThreadStep

(* sys_log.c: whatever the interleaving of addLog, on_delay, sys_flushLog  *)
(* and thread_log, and wherever a signal hits the main thread, the bytes   *)
(* accepted are in the files once each and in order, with the rest in      *)
(* outbuf, and nothing is left in outbuf after exit().                     *)
THEOREM NoByteLost == Spec => []NoLineLost
<1>1. Init => Inv
  BY InitInv
<1>2. Inv /\ [Next]_vars => Inv'
  BY NextInv
<1>3. Inv => NoLineLost
  BY InvImplies
<1> QED BY <1>1, <1>2, <1>3, PTL DEF Spec
-----------------------------------------------------------------------------
(* Rotation.  The bytes of a file are a run of numbers, those of the old   *)
(* files are below those of the file in use, and while an old file is      *)
(* missing no byte is.                                                     *)
Below == Len(written) - Len(path)

(* old[i] was written to just before the file in use. *)
Precedes(i) ==
  old[i] # <<>> /\ Len(old[i]) <= Below /\ Counts(old[i], Below - Len(old[i]))

(* The bytes of the old files, and none is in two of them *)
OldInRange == \A i \in Slots : \A k \in 1 .. Len(old[i]) : old[i][k] \in 1 .. Below
OldApart ==
  \A i, j \in Slots : \A k \in 1 .. Len(old[i]), l \in 1 .. Len(old[j]) :
    old[i][k] = old[j][l] => i = j
OldAll ==
  Missing # {} => \A n \in 1 .. Below : \E i \in Slots : \E k \in 1 .. Len(old[i]) : old[i][k] = n

Rotated ==
  /\ path \in Seq(Nat) /\ old \in [Slots -> Seq(Nat)]
  /\ Len(path) <= Len(written) /\ Counts(path, Below)
  /\ Below = 0 \/ rotate = 0 \/ \E i \in Slots : Precedes(i)
  /\ OldInRange /\ OldApart /\ OldAll

LEMMA MinOfSet ==
  ASSUME NEW S \in SUBSET Nat, S # {}
  PROVE  Min(S) \in S
<1> DEFINE R == OpToRel(<, Nat)
<1>1. IsWellFoundedOn(R, Nat)
  BY NatLessThanWellFounded
<1>2. PICK m \in S : \A n \in S : <<n, m>> \notin R
  <2> HIDE DEF R
  <2> QED BY <1>1, WFMin
<1>3. ASSUME NEW n \in S PROVE m <= n
  <2>1. ~(n < m)
    BY <1>2 DEF OpToRel
  <2> QED BY <2>1
<1> QED BY <1>3 DEF Min

(* A file is renamed to a name that is missing, while there is one. *)
LEMMA VictimMissing ==
  /\ Missing # {} => Victim \in Missing
  /\ Missing = {} /\ rotate # 0 => Victim \in Slots
<1>1. Missing \in SUBSET Nat
  BY LogThreadAssumption DEF Missing, Slots
<1>2. Missing # {} => Min(Missing) \in Missing
  BY <1>1, MinOfSet
<1>3. rotate # 0 => rotate - 1 \in Slots
  BY LogThreadAssumption DEF Slots
<1> QED BY <1>2, <1>3 DEF Victim

(* data is appended to the file in use. *)
LEMMA Appends ==
  ASSUME Rotated, written \in Seq(Nat), NEW data \in Seq(Nat), Counts(data, Len(written)),
         writeLogData(data), ~(Len(path) >= size)
  PROVE  Rotated'
<1>1. path' = path \o data /\ written' = written \o data /\ old' = old
  BY DEF writeLogData
<1>2. Len(path) \in Nat /\ Len(written) \in Nat /\ Len(data) \in Nat
  BY LenProperties DEF Rotated
<1>3. Below \in Int /\ Counts(path, Below) /\ Below + Len(path) = Len(written) /\ Below >= 0
  BY <1>2 DEF Rotated, Below
<1>4. /\ path' \in Seq(Nat) /\ Len(path') = Len(path) + Len(data) /\ Counts(path', Below)
  BY <1>1, <1>3, Joined DEF Rotated
<1>5. Len(written') = Len(written) + Len(data)
  BY <1>1, ConcatProperties
<1>6. Below' = Below /\ Len(path') <= Len(written')
  BY <1>2, <1>4, <1>5, <1>3 DEF Below
<1>7. Counts(path', Below')
  BY <1>4, <1>6
<1>8. (OldInRange /\ OldApart /\ OldAll)'
  BY <1>1, <1>6 DEF Rotated, OldInRange, OldApart, OldAll, Missing, Slots
<1>9. (Below = 0 \/ rotate = 0 \/ \E i \in Slots : Precedes(i))'
  BY <1>1, <1>6 DEF Rotated, Precedes, Counts, Slots
<1>10. (old \in [Slots -> Seq(Nat)])'
  BY <1>1 DEF Rotated, Slots
<1> QED
  BY <1>4, <1>6, <1>7, <1>8, <1>9, <1>10 DEF Rotated

(* The file in use is renamed, and data begins a new one. *)
LEMMA Rotates ==
  ASSUME Rotated, written \in Seq(Nat), NEW data \in Seq(Nat), Counts(data, Len(written)),
         writeLogData(data), Len(path) >= size
  PROVE  Rotated'
<1>1. /\ path' = data /\ written' = written \o data
      /\ old' = IF Victim \in Slots THEN [old EXCEPT ![Victim] = path] ELSE old
  BY DEF writeLogData
<1>2. Len(path) \in Nat \ {0} /\ Len(written) \in Nat /\ Len(data) \in Nat
  <2>1. Len(path) \in Nat /\ Len(written) \in Nat /\ Len(data) \in Nat
    BY LenProperties DEF Rotated
  <2>2. size \in Nat \ {0}
    BY LogThreadAssumption
  <2> QED BY <2>1, <2>2
<1>3. Below \in Nat /\ Counts(path, Below) /\ Below + Len(path) = Len(written)
  BY <1>2 DEF Rotated, Below
<1>4. Len(written') = Len(written) + Len(data)
  BY <1>1, ConcatProperties
<1>5. Below' = Len(written) /\ Len(path') <= Len(written')
  BY <1>1, <1>2, <1>4 DEF Below
<1>6. Counts(path', Below') /\ path' \in Seq(Nat)
  BY <1>1, <1>5
<1>7. path # <<>> /\ path \in Seq(Nat) /\ old \in [Slots -> Seq(Nat)]
  BY <1>2, EmptySeq DEF Rotated
<1>8. \A k \in 1 .. Len(path) : path[k] = Below + k /\ path[k] \in 1 .. Len(written)
  BY <1>2, <1>3, SMTT(30) DEF Counts
<1>9. CASE Victim \notin Slots
  <2>1. Slots = {} /\ rotate = 0 /\ old' = old
    BY <1>1, <1>9, VictimMissing, LogThreadAssumption DEF Slots, Missing
  <2>2. (OldInRange /\ OldApart /\ OldAll)'
    BY <2>1 DEF OldInRange, OldApart, OldAll, Missing, Slots
  <2> QED BY <1>5, <1>6, <1>7, <2>1, <2>2 DEF Rotated, Slots
<1>10. CASE Victim \in Slots
  <2>1. PICK v \in Slots : /\ old' = [old EXCEPT ![v] = path]
                           /\ Missing # {} => v \in Missing
    BY <1>1, <1>10, VictimMissing
  <2>2. Missing # {} => v \in Missing
    BY <2>1
  <2>3. /\ old' \in [Slots -> Seq(Nat)] /\ old'[v] = path
        /\ \A i \in Slots \ {v} : old'[i] = old[i]
    BY <1>7, <2>1
  <2>4. Precedes(v)'
    <3>1. Below' - Len(path) = Below
      BY <1>2, <1>3, <1>5
    <3>2. Counts(old'[v], Below' - Len(old'[v]))
      BY <1>3, <2>3, <3>1
    <3>3. old'[v] # <<>> /\ Len(old'[v]) <= Below'
      BY <1>2, <1>3, <1>5, <1>7, <2>3
    <3> QED BY <3>2, <3>3 DEF Precedes, Counts
  <2>5. ASSUME NEW i \in Slots \ {v}, NEW k \in 1 .. Len(old[i])
        PROVE  old[i][k] \in 1 .. Below
    BY <2>5 DEF Rotated, OldInRange
  <2>6. OldInRange'
    <3> SUFFICES ASSUME NEW i \in Slots, NEW k \in 1 .. Len(old'[i])
                 PROVE  old'[i][k] \in 1 .. Len(written)
      BY <1>5 DEF OldInRange, Slots
    <3>1. CASE i = v
      BY <1>8, <2>3, <3>1
    <3>2. CASE i # v
      <4>1. old'[i][k] \in 1 .. Below
        BY <2>3, <2>5, <3>2
      <4> QED BY <1>2, <1>3, <4>1, SMTT(30)
    <3> QED BY <3>1, <3>2
  <2>7. OldApart'
    <3> SUFFICES ASSUME NEW i \in Slots, NEW j \in Slots,
                        NEW k \in 1 .. Len(old'[i]), NEW l \in 1 .. Len(old'[j]),
                        old'[i][k] = old'[j][l], i # j
                 PROVE  FALSE
      BY DEF OldApart, Slots
    <3>1. ASSUME NEW a \in 1 .. Len(path), NEW m \in Slots \ {v}, NEW b \in 1 .. Len(old[m])
          PROVE  path[a] # old[m][b]
      <4>1. path[a] = Below + a
        BY <1>8
      <4>2. old[m][b] \in 1 .. Below
        BY <2>5
      <4>3. a \in Nat \ {0} /\ Below \in Nat
        BY <1>2, <1>3
      <4> DEFINE p == path[a]
                 o == old[m][b]
                 w == Below
      <4>4. p = w + a /\ o \in 1 .. w /\ a \in Nat \ {0} /\ w \in Nat
        BY <4>1, <4>2, <4>3
      <4> HIDE DEF p, o, w
      <4>5. p # o
        BY <4>4
      <4> QED BY <4>5 DEF p, o
    <3>2. CASE i = v
      <4>1. j \in Slots \ {v} /\ old'[i] = path /\ old'[j] = old[j]
        BY <2>3, <3>2
      <4> QED BY <3>1, <4>1
    <3>3. CASE j = v
      <4>1. i \in Slots \ {v} /\ old'[j] = path /\ old'[i] = old[i]
        BY <2>3, <3>3
      <4> QED BY <3>1, <4>1
    <3>4. CASE i # v /\ j # v
      BY <2>3, <3>4 DEF Rotated, OldApart
    <3> QED BY <3>2, <3>3, <3>4
  <2>8. OldAll'
    <3> SUFFICES ASSUME Missing' # {}, NEW n \in 1 .. Len(written)
                 PROVE  \E i \in Slots : \E k \in 1 .. Len(old'[i]) : old'[i][k] = n
      BY <1>5 DEF OldAll, Slots
    <3>1. PICK i \in Slots : old'[i] = <<>>
      BY DEF Missing, Slots
    <3>2. i # v /\ old[i] = <<>>
      BY <1>7, <2>3, <3>1
    <3>3. Missing # {} /\ old[v] = <<>>
      BY <2>2, <3>2 DEF Missing
    <3>4. CASE n <= Below
      <4>1. n \in 1 .. Below
        BY <1>3, <3>4
      <4>2. PICK j \in Slots : \E k \in 1 .. Len(old[j]) : old[j][k] = n
        BY <3>3, <4>1 DEF Rotated, OldAll
      <4>3. j # v
        BY <3>3, <4>2, EmptySeq
      <4> QED BY <2>3, <4>2, <4>3
    <3>5. CASE ~(n <= Below)
      <4>1. n - Below \in 1 .. Len(path)
        BY <1>2, <1>3, <3>5
      <4>2. path[n - Below] = Below + (n - Below)
        BY <1>8, <4>1
      <4>3. path[n - Below] = n
        BY <1>3, <4>2
      <4> QED BY <2>1, <2>3, <4>1, <4>3
    <3> QED BY <3>4, <3>5
  <2> QED
    <3>1. (\E i \in Slots : Precedes(i))'
      BY <2>1, <2>4 DEF Slots
    <3>2. (old \in [Slots -> Seq(Nat)])'
      BY <2>3 DEF Slots
    <3> QED BY <1>5, <1>6, <2>6, <2>7, <2>8, <3>1, <3>2 DEF Rotated
<1> QED BY <1>9, <1>10

LEMMA WritesRotated ==
  ASSUME Rotated, written \in Seq(Nat), NEW data \in Seq(Nat), Counts(data, Len(written)),
         writeLogData(data)
  PROVE  Rotated'
BY Appends, Rotates

(* A shorter run that ends with the same number is a suffix. *)
LEMMA SuffixOfRun ==
  ASSUME NEW s \in Seq(Nat), NEW t \in Seq(Nat), Counts(t, 0),
         Len(s) <= Len(t), Counts(s, Len(t) - Len(s))
  PROVE  IsSuffix(s, t)
<1> DEFINE n == Len(s)
           r == Reverse(s)
           q == Reverse(t)
<1>1. n \in Nat /\ Len(t) \in Nat /\ n <= Len(t)
  BY LenProperties
<1>2. /\ r \in Seq(Nat) /\ Len(r) = n /\ \A i \in 1 .. n : r[i] = s[n - i + 1]
  <2>1. \A i \in 1 .. n : n - i + 1 \in 1 .. n
    BY <1>1
  <2>2. \A i \in 1 .. n : s[n - i + 1] \in Nat
    BY <2>1, ElementOfSeq
  <2> QED BY <1>1, <2>2 DEF Reverse
<1>3. /\ q \in Seq(Nat) /\ Len(q) = Len(t)
      /\ \A i \in 1 .. Len(t) : q[i] = t[Len(t) - i + 1]
  <2>1. \A i \in 1 .. Len(t) : Len(t) - i + 1 \in 1 .. Len(t)
    BY <1>1
  <2>2. \A i \in 1 .. Len(t) : t[Len(t) - i + 1] \in Nat
    BY <2>1, ElementOfSeq
  <2> QED BY <1>1, <2>2 DEF Reverse
<1>4. ASSUME NEW i \in 1 .. n PROVE r[i] = q[i]
  <2>1. n - i + 1 \in 1 .. n /\ Len(t) - i + 1 \in 1 .. Len(t) /\ i \in 1 .. Len(t)
    BY <1>1
  <2>2. s[n - i + 1] = Len(t) - n + (n - i + 1)
    BY <2>1 DEF Counts
  <2>3. t[Len(t) - i + 1] = 0 + (Len(t) - i + 1)
    BY <2>1 DEF Counts
  <2>4. r[i] = Len(t) - n + (n - i + 1) /\ q[i] = 0 + (Len(t) - i + 1)
    BY <1>2, <1>3, <2>1, <2>2, <2>3
  <2> QED BY <1>1, <2>4
<1> HIDE DEF r, q
<1>5. /\ SubSeq(r, 1, n) \in Seq(Nat) /\ Len(SubSeq(r, 1, n)) = n
      /\ \A i \in 1 .. n : SubSeq(r, 1, n)[i] = r[i]
  <2>1. \A i \in 1 .. n : r[i] \in Nat
    BY <1>2, ElementOfSeq
  <2>2. /\ SubSeq(r, 1, n) \in Seq(Nat)
        /\ Len(SubSeq(r, 1, n)) = IF 1 <= n THEN n - 1 + 1 ELSE 0
        /\ \A i \in 1 .. n - 1 + 1 : SubSeq(r, 1, n)[i] = r[1 + i - 1]
    BY <1>1, <2>1, SubSeqProperties
  <2> QED BY <1>1, <2>2
<1>6. /\ SubSeq(q, 1, n) \in Seq(Nat) /\ Len(SubSeq(q, 1, n)) = n
      /\ \A i \in 1 .. n : SubSeq(q, 1, n)[i] = q[i]
  <2>1. \A i \in 1 .. n : q[i] \in Nat
    <3>1. \A i \in 1 .. n : i \in 1 .. Len(q)
      BY <1>1, <1>3
    <3> QED BY <1>3, <3>1, ElementOfSeq
  <2>2. /\ SubSeq(q, 1, n) \in Seq(Nat)
        /\ Len(SubSeq(q, 1, n)) = IF 1 <= n THEN n - 1 + 1 ELSE 0
        /\ \A i \in 1 .. n - 1 + 1 : SubSeq(q, 1, n)[i] = q[1 + i - 1]
    BY <1>1, <2>1, SubSeqProperties
  <2> QED BY <1>1, <2>2
<1>7. SubSeq(r, 1, n) = SubSeq(q, 1, n)
  <2>1. \A i \in 1 .. n : SubSeq(r, 1, n)[i] = SubSeq(q, 1, n)[i]
    BY <1>4, <1>5, <1>6
  <2> QED BY <1>5, <1>6, <2>1, SeqEqual
<1> QED BY <1>1, <1>2, <1>3, <1>7 DEF IsSuffix, IsPrefix, r, q

LEMMA RotatedImplies == Inv /\ Rotated => RecentKept
<1> SUFFICES ASSUME Inv, Rotated PROVE RecentKept
  OBVIOUS
<1>1. /\ written \in Seq(Nat) /\ Counts(written, 0) /\ path \in Seq(Nat)
      /\ old \in [Slots -> Seq(Nat)]
      /\ Len(path) \in Nat /\ Len(written) \in Nat
  BY LenProperties DEF Inv, Types, Order, Rotated
<1>2. Below \in Nat /\ Below + Len(path) = Len(written) /\ Len(path) <= Len(written)
      /\ Len(written) - Len(path) = Below
  BY <1>1 DEF Rotated, Below
<1>3. Counts(path, Below)
  BY DEF Rotated
<1>4. IsSuffix(path, written)
  BY <1>1, <1>2, <1>3, SuffixOfRun
<1>5. path = written \/ rotate = 0 \/ \E i \in Slots : old[i] # <<>> /\ IsSuffix(old[i] \o path, written)
  <2>1. CASE Below = 0
    <3>1. Len(path) = Len(written) /\ Counts(path, 0)
      BY <1>1, <1>2, <1>3, <2>1
    <3>2. path = Numbers(Len(written)) /\ written = Numbers(Len(written))
      BY <1>1, <3>1, Determined
    <3> QED BY <3>2
  <2>2. ASSUME NEW i \in Slots, Precedes(i)
        PROVE  old[i] # <<>> /\ IsSuffix(old[i] \o path, written)
    <3> DEFINE s == old[i]
               b == Below - Len(s)
    <3>1. s \in Seq(Nat) /\ Len(s) \in Nat /\ s # <<>> /\ Len(s) <= Below /\ Counts(s, b)
      BY <1>1, <2>2, LenProperties DEF Precedes
    <3> HIDE DEF s
    <3>2. b \in Int /\ b + Len(s) = Below
      BY <1>2, <3>1
    <3> HIDE DEF b
    <3>3. /\ s \o path \in Seq(Nat) /\ Len(s \o path) = Len(s) + Len(path)
          /\ Counts(s \o path, b)
      BY <1>1, <1>3, <3>1, <3>2, Joined
    <3>4. b = Len(written) - Len(s \o path) /\ Len(s \o path) <= Len(written)
      <4>1. Len(written) = b + Len(s) + Len(path) /\ b >= 0
        BY <1>2, <3>1, <3>2 DEF b
      <4> QED BY <1>1, <3>1, <3>2, <3>3, <4>1
    <3>5. IsSuffix(s \o path, written)
      BY <1>1, <3>3, <3>4, SuffixOfRun
    <3> QED BY <3>1, <3>5 DEF s
  <2> QED BY <2>1, <2>2 DEF Rotated
<1>6. /\ DOMAIN path = 1 .. Len(path) /\ DOMAIN written = 1 .. Len(written)
      /\ \A i \in Slots : DOMAIN old[i] = 1 .. Len(old[i])
  BY <1>1, LenProperties
<1>7. \A k \in 1 .. Len(path) : path[k] = Below + k
  BY <1>3 DEF Counts
<1>8. Range(path) = Below + 1 .. Len(written)
  <2>1. ASSUME NEW n \in Below + 1 .. Len(written) PROVE n \in Range(path)
    <3>1. n - Below \in 1 .. Len(path)
      BY <1>1, <1>2
    <3>2. path[n - Below] = Below + (n - Below)
      BY <1>7, <3>1
    <3>3. path[n - Below] = n
      BY <1>2, <3>2
    <3> QED BY <1>6, <3>1, <3>3 DEF Range
  <2>2. ASSUME NEW k \in 1 .. Len(path) PROVE path[k] \in Below + 1 .. Len(written)
    <3>1. Below + k \in Below + 1 .. Len(written)
      BY <1>1, <1>2
    <3> QED BY <1>7, <3>1
  <2> QED BY <1>6, <2>1, <2>2 DEF Range
<1>9. Range(written) = 1 .. Len(written)
  <2>1. \A k \in 1 .. Len(written) : written[k] = k
    <3>1. \A k \in 1 .. Len(written) : written[k] = 0 + k
      BY <1>1 DEF Counts
    <3> QED BY <1>1, <3>1
  <2> QED BY <1>6, <2>1 DEF Range
<1>10. ASSUME NEW i \in Slots
       PROVE  /\ Range(old[i]) \subseteq 1 .. Below
              /\ \A j \in Slots \ {i} : Range(old[i]) \cap Range(old[j]) = {}
  <2>1. Range(old[i]) \subseteq 1 .. Below
    BY <1>6 DEF Rotated, OldInRange, Range
  <2>2. ASSUME NEW j \in Slots \ {i}, NEW n \in Range(old[i]), n \in Range(old[j]) PROVE FALSE
    <3>1. PICK k \in 1 .. Len(old[i]) : n = old[i][k]
      BY <1>6 DEF Range
    <3>2. PICK l \in 1 .. Len(old[j]) : n = old[j][l]
      BY <1>6, <2>2 DEF Range
    <3> QED BY <3>1, <3>2 DEF Rotated, OldApart
  <2> QED BY <2>1, <2>2
<1>11. (1 .. Below) \cap (Below + 1 .. Len(written)) = {}
       /\ 1 .. Len(written) = (1 .. Below) \cup (Below + 1 .. Len(written))
  BY <1>1, <1>2
<1>12. \A i \in Slots :
         Range(old[i]) \cap (Range(path) \cup UNION {Range(old[j]) : j \in Slots \ {i}}) = {}
  BY <1>8, <1>10, <1>11
<1>13. ASSUME Missing # {}
       PROVE  Range(written) = Range(path) \cup UNION {Range(old[i]) : i \in Slots}
  <2>1. UNION {Range(old[i]) : i \in Slots} \subseteq 1 .. Below
    BY <1>10
  <2>2. ASSUME NEW n \in 1 .. Below PROVE n \in UNION {Range(old[i]) : i \in Slots}
    <3>1. PICK i \in Slots : \E k \in 1 .. Len(old[i]) : old[i][k] = n
      BY <1>13 DEF Rotated, OldAll
    <3>2. n \in Range(old[i])
      BY <1>6, <3>1 DEF Range
    <3> QED BY <3>2
  <2> QED BY <1>8, <1>9, <1>11, <2>1, <2>2
<1> QED BY <1>4, <1>5, <1>12, <1>13 DEF RecentKept

LEMMA InitRotated == Init => Rotated
<1> SUFFICES ASSUME Init PROVE Rotated
  OBVIOUS
<1>1. <<>> \in Seq(Nat) /\ Len(<<>>) = 0
  BY EmptySeq
<1>2. path = <<>> /\ written = <<>> /\ old = [i \in Slots |-> <<>>] /\ Below = 0
  BY <1>1 DEF Init, Below
<1>3. \A i \in Slots : Len(old[i]) = 0
  BY <1>1, <1>2
<1> QED
  BY <1>1, <1>2, <1>3 DEF Rotated, Counts, OldInRange, OldApart, OldAll

(* What is written continues what was written before: the steps that call  *)
(* writeLogData (addLog, sys_flushLog, thread_log), and the others.        *)
LEMMA NextRotated == Inv /\ Rotated /\ [Next]_vars => Rotated'
<1> SUFFICES ASSUME Inv, Rotated, [Next]_vars PROVE Rotated'
  OBVIOUS
<1>1. /\ written \in Seq(Nat) /\ outbuf \in Seq(Nat) /\ Counts(written, 0)
      /\ Len(written) \in Nat /\ Len(outbuf) \in Nat
  BY LenProperties DEF Inv, Types, Order
<1>2. ASSUME NEW n \in Lengths, AddDirect(n) PROVE Rotated'
  <2>1. n \in Nat /\ accepted \in Nat
    BY LogThreadAssumption DEF Inv, Types
  <2>2. Doubled = 0 /\ Len(outbuf) = 0
    BY <1>2, EmptySeq DEF AddDirect, Inv, Standing, Doubled
  <2>3. accepted = Len(written)
    BY <1>1, <2>2 DEF Inv, Order
  <2>4. New(n) \in Seq(Nat) /\ Counts(New(n), Len(written))
    BY <2>1, <2>3, NewCounts
  <2> QED BY <1>1, <1>2, <2>4, WritesRotated DEF AddDirect
<1>3. CASE FlushWrites
  <2>1. thread \notin {"look", "write", "drop"} /\ Doubled = 0
    BY <1>3 DEF Inv, Exclusion, FlushWrites, Doubled
  <2>2. Counts(outbuf, Len(written))
    BY <1>1, <2>1 DEF Inv, Order
  <2> QED BY <1>1, <1>3, <2>2, WritesRotated DEF FlushWrites
<1>4. CASE ThreadWrites
  <2>1. tlen \in Nat /\ tlen <= Len(outbuf) /\ Doubled = 0
    BY <1>4 DEF Inv, Types, Standing, ThreadWrites, Doubled
  <2>2. Counts(outbuf, Len(written))
    BY <1>1, <2>1 DEF Inv, Order
  <2>3. SubSeq(outbuf, 1, tlen) \in Seq(Nat) /\ Counts(SubSeq(outbuf, 1, tlen), Len(written))
    BY <1>1, <2>1, <2>2, Cut
  <2>4. Min({tlen, Len(outbuf)}) = tlen
    BY <1>1, <2>1, MinOfTwo
  <2> QED BY <1>1, <1>4, <2>3, <2>4, WritesRotated DEF ThreadWrites
<1>5. CASE UNCHANGED <<path, old, written>>
  <2>1. Below' = Below /\ Missing' = Missing /\ path' = path /\ old' = old /\ written' = written
    BY <1>5 DEF Below, Missing, Slots
  <2>2. (OldInRange /\ OldApart /\ OldAll)'
    BY <2>1 DEF Rotated, OldInRange, OldApart, OldAll, Slots
  <2>3. (Below = 0 \/ rotate = 0 \/ \E i \in Slots : Precedes(i))'
    BY <2>1 DEF Rotated, Precedes, Counts, Slots
  <2>4. (Counts(path, Below) /\ old \in [Slots -> Seq(Nat)])'
    BY <2>1 DEF Rotated, Counts, Slots
  <2> QED BY <2>1, <2>2, <2>3, <2>4 DEF Rotated
<1>6. UNCHANGED vars => UNCHANGED <<path, old, written>>
  BY DEF vars, files
<1>7. \A n \in Lengths : Add(n) => UNCHANGED <<path, old, written>>
  BY DEF Add, files
<1>8. AddLocks \/ Copy \/ Notify \/ SetDelay \/ Delayed \/ OnDelayLocks \/ Signal
      \/ FlushLocks \/ FlushLocksFill \/ Flush \/ Exit \/ Interrupt \/ StartThread
      => UNCHANGED <<path, old, written>>
  BY DEF AddLocks, Copy, Notify, SetDelay, Delayed, OnDelayLocks, Signal, FlushLocks,
         FlushLocksFill, Flush, Exit, Interrupt, StartThread, files
<1>9. ThreadStarts \/ ThreadLocks \/ Look \/ Drop \/ Spurious => UNCHANGED <<path, old, written>>
  BY DEF ThreadStarts, ThreadLocks, Look, Drop, Spurious, files
<1> QED
  BY <1>2, <1>3, <1>4, <1>5, <1>6, <1>7, <1>8, <1>9 DEF Next, MainStep, ThreadStep

(* sys_log.c, writeLogData: for any size of the log file and any number of *)
(* old files, the file in use continues an old one or holds the whole log, *)
(* no byte is in two files, and while a name of an old file is free every  *)
(* byte ever written is still in a file.                                   *)
THEOREM RecentLogKept == Spec => []RecentKept
<1>1. Init => Inv /\ Rotated
  BY InitInv, InitRotated
<1>2. Inv /\ Rotated /\ [Next]_vars => Inv' /\ Rotated'
  BY NextInv, NextRotated
<1>3. Inv /\ Rotated => RecentKept
  BY RotatedImplies
<1> QED BY <1>1, <1>2, <1>3, PTL DEF Spec
-----------------------------------------------------------------------------
(* What follows is about the flash file system.                            *)

(* A set of numbers has a least element. *)
LEMMA LeastOf ==
  ASSUME NEW S \in SUBSET Nat, S # {}
  PROVE  \E m \in S : \A n \in S : m <= n
<1> DEFINE R == OpToRel(<, Nat)
<1>1. IsWellFoundedOn(R, Nat)
  BY NatLessThanWellFounded
<1>2. PICK m \in S : \A n \in S : <<n, m>> \notin R
  <2> HIDE DEF R
  <2> QED
    BY <1>1, WFMin
<1>3. ASSUME NEW n \in S PROVE m <= n
  <2>1. ~(n < m)
    BY <1>2 DEF OpToRel
  <2> QED
    BY <2>1
<1> QED
  BY <1>3

(* f is computed by h from x0 as far as n. *)
Follows(f, h, x0, X, n) ==
  f \in [0 .. n -> X] /\ f[0] = x0 /\ \A i \in 1 .. n : f[i] = h[i][f[i - 1]]

(* One step of a recursion. *)
LEMMA FollowsOn ==
  ASSUME NEW h, NEW X, NEW x0, NEW n \in Nat, n # 0, NEW f, Follows(f, h, x0, X, n - 1),
         \A x \in X : h[n][x] \in X
  PROVE  \E g : Follows(g, h, x0, X, n)
<1> DEFINE y == h[n][f[n - 1]]
           g == [i \in 0 .. n |-> IF i = n THEN y ELSE f[i]]
<1>1. f \in [0 .. n - 1 -> X] /\ f[0] = x0 /\ \A i \in 1 .. n - 1 : f[i] = h[i][f[i - 1]]
  BY DEF Follows
<1>2. n - 1 \in 0 .. n - 1 /\ 0 \in 0 .. n
  OBVIOUS
<1>3. y \in X
  BY <1>1, <1>2
<1> HIDE DEF y
<1>4. \A i \in 0 .. n : i = n \/ i \in 0 .. n - 1
  OBVIOUS
<1>5. g \in [0 .. n -> X] /\ g[n] = y /\ \A i \in 0 .. n - 1 : g[i] = f[i]
  <2>1. \A i \in 0 .. n : (IF i = n THEN y ELSE f[i]) \in X
    BY <1>1, <1>3, <1>4
  <2>2. \A i \in 0 .. n - 1 : i \in 0 .. n /\ i # n
    OBVIOUS
  <2>3. n \in 0 .. n
    OBVIOUS
  <2> QED
    BY <2>1, <2>2, <2>3
<1> HIDE DEF g
<1>6. g[0] = x0
  <2>1. 0 \in 0 .. n - 1
    OBVIOUS
  <2> QED
    BY <1>1, <1>5, <2>1
<1>7. ASSUME NEW i \in 1 .. n PROVE g[i] = h[i][g[i - 1]]
  <2>1. i - 1 \in 0 .. n - 1
    OBVIOUS
  <2>2. g[i - 1] = f[i - 1]
    BY <1>5, <2>1
  <2>3. CASE i = n
    BY <1>5, <2>2, <2>3 DEF y
  <2>4. CASE i # n
    <3>1. i \in 1 .. n - 1 /\ i \in 0 .. n - 1
      BY <2>4
    <3> QED
      BY <1>1, <1>5, <2>2, <3>1
  <2> QED
    BY <2>3, <2>4
<1> QED
  BY <1>5, <1>6, <1>7 DEF Follows

(* What holds at 0 and is handed on holds everywhere. *)
LEMMA HandedOn ==
  ASSUME NEW N \in Nat, NEW P, 0 \in P, \A i \in 1 .. N : i - 1 \in P => i \in P
  PROVE  0 .. N \subseteq P
<1> SUFFICES ASSUME NEW k \in 0 .. N, k \notin P PROVE FALSE
  OBVIOUS
<1> DEFINE T == {n \in 0 .. N : n \notin P}
<1>1. T \in SUBSET Nat /\ T # {}
  OBVIOUS
<1>2. \A n \in T : n \in 0 .. N /\ n \notin P
  OBVIOUS
<1>3. \A n \in 0 .. N : n \notin P => n \in T
  OBVIOUS
<1> HIDE DEF T
<1>4. PICK n \in T : \A m \in T : n <= m
  BY <1>1, LeastOf
<1>5. n \in 0 .. N /\ n # 0
  BY <1>2
<1>6. n \in 1 .. N /\ n - 1 \in 0 .. N /\ ~(n <= n - 1)
  BY <1>5
<1>7. n - 1 \in P
  BY <1>3, <1>4, <1>6
<1> QED
  BY <1>2, <1>6, <1>7

(* What a recursion along 1 .. N computes exists. *)
LEMMA Computed ==
  ASSUME NEW N \in Nat, NEW X, NEW x0 \in X, NEW h, \A i \in 1 .. N : \A x \in X : h[i][x] \in X
  PROVE  \E f : Follows(f, h, x0, X, N)
<1> DEFINE P == {n \in 0 .. N : \E f : Follows(f, h, x0, X, n)}
<1>1. \A n \in 0 .. N : n \in P <=> \E f : Follows(f, h, x0, X, n)
  OBVIOUS
<1> HIDE DEF P
<1>2. 0 \in P
  <2> DEFINE f == [i \in 0 .. 0 |-> x0]
  <2>1. f \in [0 .. 0 -> X]
    OBVIOUS
  <2>2. 0 \in 0 .. 0
    OBVIOUS
  <2>3. f[0] = x0
    BY <2>2
  <2>4. 1 .. 0 = {}
    OBVIOUS
  <2> HIDE DEF f
  <2>5. Follows(f, h, x0, X, 0)
    BY <2>1, <2>3, <2>4 DEF Follows
  <2> QED
    BY <1>1, <2>5
<1>3. ASSUME NEW i \in 1 .. N, i - 1 \in P PROVE i \in P
  <2>1. i - 1 \in 0 .. N /\ i \in 0 .. N /\ i \in Nat /\ i # 0
    OBVIOUS
  <2>2. PICK f : Follows(f, h, x0, X, i - 1)
    BY <1>1, <1>3, <2>1
  <2>3. \E g : Follows(g, h, x0, X, i)
    BY <2>1, <2>2, FollowsOn
  <2> QED
    BY <1>1, <2>1, <2>3
<1>4. 0 .. N \subseteq P
  BY <1>2, <1>3, HandedOn
<1>5. N \in P /\ N \in 0 .. N
  BY <1>4
<1> QED
  BY <1>1, <1>5
-----------------------------------------------------------------------------
(* fs_findNextDataRecord, repeated: what it finds are data of the log.      *)
LEMMA DataOfIs ==
  ASSUME NEW R, NEW rs \in Seq(R), NEW ino
  PROVE  DataOf(rs, ino) \in Seq({r \in R : r.cmd = "DATA"})
<1> DEFINE N == Len(rs)
           D == {r \in R : r.cmd = "DATA"}
           X == Seq(D)
           took(i) == rs[i].cmd = "DATA" /\ rs[i].ino = ino
           upto[i \in 0 .. N] ==
             IF i = 0 THEN <<>>
             ELSE IF rs[i].cmd = "DATA" /\ rs[i].ino = ino THEN Append(upto[i - 1], rs[i])
             ELSE upto[i - 1]
           h == [i \in 1 .. N |-> [x \in X |-> IF took(i) THEN Append(x, rs[i]) ELSE x]]
<1>1. DataOf(rs, ino) = upto[N]
  BY DEF DataOf
<1>2. N \in Nat /\ <<>> \in X
  OBVIOUS
<1>3. ASSUME NEW i \in 1 .. N, NEW x \in X
      PROVE  (IF took(i) THEN Append(x, rs[i]) ELSE x) \in X
  <2>1. took(i) => rs[i] \in D
    OBVIOUS
  <2> HIDE DEF D, took
  <2> QED
    BY <2>1, AppendProperties
<1>4. \A i \in 1 .. N : \A x \in X : h[i][x] = (IF took(i) THEN Append(x, rs[i]) ELSE x)
  OBVIOUS
<1>5. \A i \in 1 .. N : \A x \in X : h[i][x] \in X
  BY <1>3, <1>4
<1> HIDE DEF h, X
<1>60. PICK f : Follows(f, h, <<>>, X, N)
  BY <1>2, <1>5, Computed
<1>6. f \in [0 .. N -> X] /\ f[0] = <<>> /\ \A i \in 1 .. N : f[i] = h[i][f[i - 1]]
  BY <1>60 DEF Follows
<1>7. \A i \in 1 .. N : f[i] = IF took(i) THEN Append(f[i - 1], rs[i]) ELSE f[i - 1]
  <2> TAKE i \in 1 .. N
  <2>1. i - 1 \in 0 .. N
    BY <1>2
  <2>2. f[i - 1] \in X
    BY <1>6, <2>1
  <2> QED
    BY <1>4, <1>6, <2>2
<1>8. f = [i \in 0 .. N |-> IF i = 0 THEN <<>>
                            ELSE IF rs[i].cmd = "DATA" /\ rs[i].ino = ino THEN Append(f[i - 1], rs[i])
                            ELSE f[i - 1]]
  <2>1. ASSUME NEW i \in 0 .. N
        PROVE  f[i] = IF i = 0 THEN <<>>
                      ELSE IF rs[i].cmd = "DATA" /\ rs[i].ino = ino THEN Append(f[i - 1], rs[i])
                      ELSE f[i - 1]
    <3>1. i = 0 \/ i \in 1 .. N
      BY <1>2
    <3> QED
      BY <1>6, <1>7, <3>1
  <2> QED
    BY <1>6, <2>1
<1>9. upto = [i \in 0 .. N |-> IF i = 0 THEN <<>>
                               ELSE IF rs[i].cmd = "DATA" /\ rs[i].ino = ino THEN Append(upto[i - 1], rs[i])
                               ELSE upto[i - 1]]
  <2> HIDE DEF took
  <2> QED
    BY <1>8
<1> HIDE DEF upto
<1>10. upto[0] = <<>>
       /\ \A i \in 1 .. N : upto[i] = IF took(i) THEN Append(upto[i - 1], rs[i]) ELSE upto[i - 1]
  <2>1. \A i \in 0 .. N : upto[i] = IF i = 0 THEN <<>>
                                  ELSE IF rs[i].cmd = "DATA" /\ rs[i].ino = ino THEN Append(upto[i - 1], rs[i])
                                  ELSE upto[i - 1]
    BY <1>9
  <2>2. 0 \in 0 .. N /\ \A i \in 1 .. N : i \in 0 .. N /\ i # 0
    BY <1>2
  <2> HIDE DEF N
  <2> QED
    BY <2>1, <2>2
<1> DEFINE P == {i \in 0 .. N : upto[i] \in X}
<1>11. 0 \in P
  BY <1>2, <1>10
<1>12. ASSUME NEW i \in 1 .. N, i - 1 \in P PROVE i \in P
  BY <1>2, <1>3, <1>10, <1>12
<1> HIDE DEF P
<1>13. 0 .. N \subseteq P
  BY <1>2, <1>11, <1>12, HandedOn
<1>14. N \in P
  BY <1>2, <1>13
<1> QED
  BY <1>1, <1>14 DEF P, X
-----------------------------------------------------------------------------
IsRec(r) == r = Rec(r.cmd, r.ino, r.name, r.arg)

(* A log fs_gc works on. *)
GoodLog(rs) ==
  /\ rs \in Seq({rs[i] : i \in 1 .. Len(rs)})
  /\ \A i \in 1 .. Len(rs) : IsRec(rs[i]) /\ Whole(rs[i])

Texts(rs) == {rs[i].name : i \in 1 .. Len(rs)} \cup {rs[i].arg : i \in 1 .. Len(rs)}
Entries(rs) == [file : 1 .. Len(rs), ren : 0 .. Len(rs), name : Texts(rs)]
Stages(rs) == [cache : Seq(Entries(rs)), overflow : BOOLEAN, cont : 0 .. Len(rs), done : BOOLEAN]

LEMMA MatchIs ==
  ASSUME NEW S, NEW q \in Seq(S), NEW n
  PROVE  FirstNamed(q, n) \in 0 .. Len(q)
<1> DEFINE I == {i \in 1 .. Len(q) : q[i].name = n}
<1>1. FirstNamed(q, n) = IF I # {} THEN Min(I) ELSE 0
  BY DEF FirstNamed, SelectInSeq
<1>2. Len(q) \in Nat
  OBVIOUS
<1>3. I \in SUBSET Nat /\ I \subseteq 0 .. Len(q)
  BY <1>2
<1> HIDE DEF I
<1>4. ASSUME I # {} PROVE Min(I) \in I
  <2>1. PICK m \in I : \A k \in I : m <= k
    BY <1>3, <1>4, LeastOf
  <2> QED
    BY <2>1 DEF Min
<1>5. 0 \in 0 .. Len(q)
  BY <1>2
<1> QED
  BY <1>1, <1>3, <1>4, <1>5

LEMMA ReplacedIs ==
  ASSUME NEW S, NEW q \in Seq(S), NEW k, NEW x \in S
  PROVE  [q EXCEPT ![k] = x] \in Seq(S) /\ Len([q EXCEPT ![k] = x]) = Len(q)
<1> DEFINE N == Len(q)
           p == [q EXCEPT ![k] = x]
<1>1. N \in Nat /\ q \in [1 .. N -> S]
  BY LenProperties
<1> HIDE DEF N
<1>2. p \in [1 .. N -> S]
  BY <1>1
<1> HIDE DEF p
<1>3. p \in Seq(S) /\ Len(p) = N
  BY <1>1, <1>2
<1> QED
  BY <1>3 DEF p, N

(* One record of a phase. *)
LEMMA TrackIs ==
  ASSUME NEW rs, GoodLog(rs), NEW s \in Stages(rs), NEW i \in 1 .. Len(rs)
  PROVE  /\ Track(rs, s, i) \in Stages(rs)
         /\ Track(rs, s, i).overflow =>
              \/ s.overflow /\ Track(rs, s, i).cont = s.cont
              \/ Len(s.cache) >= CacheSize /\ Track(rs, s, i).cont = i
<1> DEFINE E == Entries(rs)
           r == rs[i]
           match == FirstNamed(s.cache, r.name)
           last == Len(s.cache)
           t == Track(rs, s, i)
           fresh == [file |-> i, ren |-> 0, name |-> r.name]
<1>1. s.cache \in Seq(E) /\ s.overflow \in BOOLEAN /\ s.cont \in 0 .. Len(rs) /\ s.done \in BOOLEAN
      /\ last \in Nat /\ Len(rs) \in Nat /\ i \in 0 .. Len(rs) /\ 0 \in 0 .. Len(rs)
      /\ s = [cache |-> s.cache, overflow |-> s.overflow, cont |-> s.cont, done |-> s.done]
  <2>1. s.cache \in Seq(E)
    BY DEF Stages
  <2>2. Len(rs) \in Nat
    BY DEF GoodLog
  <2> HIDE DEF E
  <2> QED
    BY <2>1, <2>2 DEF Stages
<1>2. match \in 0 .. last
  BY <1>1, MatchIs
<1>3. r.name \in Texts(rs) /\ r.arg \in Texts(rs)
  BY DEF Texts
<1>4. r.cmd \in {"FILE", "DATA", "RENAME", "DELETE"}
  BY DEF GoodLog, Whole
<1>5. fresh \in E
  BY <1>1, <1>3 DEF Entries
<1>6. t = IF s.done \/ r.cmd = "DATA" THEN s
          ELSE IF match # 0 THEN
            CASE r.cmd = "FILE"   -> [s EXCEPT !.cache[match] = fresh]
              [] r.cmd = "RENAME" -> [s EXCEPT !.cache[match] = [file |-> @.file, ren |-> i, name |-> r.arg]]
              [] r.cmd = "DELETE" ->
                   [s EXCEPT !.cache = Front([@ EXCEPT ![match] = s.cache[last]]),
                             !.done = last = 1 /\ s.overflow]
          ELSE IF r.cmd = "FILE" /\ ~s.overflow THEN
            IF last < CacheSize
            THEN [s EXCEPT !.cache = Append(@, fresh)]
            ELSE [s EXCEPT !.overflow = TRUE, !.cont = i]
          ELSE s
  BY DEF Track
<1> HIDE DEF match, last, t, E, fresh, r
<1>7. CacheSize \in Nat /\ CacheSize # 0
  BY FsAssumption
<1>8. CASE s.done \/ r.cmd = "DATA"
  BY <1>1, <1>6, <1>8 DEF t
<1>9. CASE ~(s.done \/ r.cmd = "DATA") /\ match # 0
  <2>0. match \in 1 .. Len(s.cache) /\ last \in 1 .. Len(s.cache)
    BY <1>1, <1>2, <1>9 DEF last
  <2>1. CASE r.cmd = "FILE"
    <3>1. t = [cache |-> [s.cache EXCEPT ![match] = fresh], overflow |-> s.overflow,
               cont |-> s.cont, done |-> s.done]
      BY <1>1, <1>6, <1>9, <2>1
    <3>2. [s.cache EXCEPT ![match] = fresh] \in Seq(E)
      BY <1>1, <1>5, ReplacedIs
    <3> QED
      BY <1>1, <3>1, <3>2 DEF Stages, E, t
  <2>2. CASE r.cmd = "RENAME"
    <3> DEFINE c == s.cache[match]
               c2 == [file |-> c.file, ren |-> i, name |-> r.arg]
    <3>1. c \in E
      BY <1>1, <2>0
    <3>2. c2 \in E
      BY <1>1, <1>3, <3>1 DEF Entries, E
    <3>3. t = [cache |-> [s.cache EXCEPT ![match] = c2], overflow |-> s.overflow,
               cont |-> s.cont, done |-> s.done]
      BY <1>1, <1>6, <1>9, <2>2
    <3> HIDE DEF c2
    <3>4. [s.cache EXCEPT ![match] = c2] \in Seq(E)
      BY <1>1, <3>2, ReplacedIs
    <3> QED
      BY <1>1, <3>3, <3>4 DEF Stages, E, t
  <2>3. CASE r.cmd = "DELETE"
    <3> DEFINE q == [s.cache EXCEPT ![match] = s.cache[last]]
    <3>1. t = [cache |-> Front(q), overflow |-> s.overflow,
               cont |-> s.cont, done |-> (last = 1 /\ s.overflow)]
      BY <1>1, <1>6, <1>9, <2>3
    <3>2. q \in Seq(E) /\ Len(q) = Len(s.cache)
      BY <1>1, <2>0, ReplacedIs
    <3> HIDE DEF q
    <3>3. Front(q) \in Seq(E)
      BY <1>1, <3>2 DEF Front
    <3> QED
      BY <1>1, <3>1, <3>3 DEF Stages, E, t
  <2> QED
    BY <1>4, <1>9, <2>1, <2>2, <2>3
<1>10. CASE ~(s.done \/ r.cmd = "DATA") /\ match = 0
  <2>1. CASE r.cmd = "FILE" /\ ~s.overflow
    <3>1. CASE last < CacheSize
      <4>1. t = [cache |-> Append(s.cache, fresh), overflow |-> s.overflow,
                 cont |-> s.cont, done |-> s.done]
        BY <1>1, <1>6, <1>10, <2>1, <3>1
      <4>2. Append(s.cache, fresh) \in Seq(E)
        BY <1>1, <1>5
      <4> QED
        BY <1>1, <4>1, <4>2 DEF Stages, E, t
    <3>2. CASE ~(last < CacheSize)
      <4>1. t = [cache |-> s.cache, overflow |-> TRUE, cont |-> i, done |-> s.done]
        BY <1>1, <1>6, <1>10, <2>1, <3>2
      <4>2. Len(s.cache) >= CacheSize
        BY <1>1, <1>7, <3>2 DEF last
      <4> QED
        BY <1>1, <4>1, <4>2 DEF Stages, E, t
    <3> QED
      BY <3>1, <3>2
  <2>2. CASE ~(r.cmd = "FILE" /\ ~s.overflow)
    BY <1>1, <1>6, <1>10, <2>2 DEF t
  <2> QED
    BY <2>1, <2>2
<1> QED
  BY <1>8, <1>9, <1>10

(* One phase: where it stops for lack of room lies behind its begin. *)
LEMMA PhaseIs ==
  ASSUME NEW rs, GoodLog(rs), NEW from \in 1 .. Len(rs)
  PROVE  /\ Phase(rs, from).cache \in Seq(Entries(rs))
         /\ Phase(rs, from).overflow \in BOOLEAN
         /\ Phase(rs, from).overflow => Phase(rs, from).cont \in from + 1 .. Len(rs)
<1> DEFINE L == Len(rs)
           X == Stages(rs)
           track[i \in from - 1 .. L] == IF i < from THEN Start ELSE Track(rs, track[i - 1], i)
           N == L - (from - 1)
           h == [n \in 1 .. N |-> [x \in X |-> Track(rs, x, from - 1 + n)]]
<1>1. L \in Nat /\ from \in Nat /\ from >= 1 /\ from <= L
  BY DEF GoodLog
<1>2. N \in Nat /\ \A n \in 1 .. N : from - 1 + n \in 1 .. L
  BY <1>1
<1>3. Phase(rs, from) = track[L]
  BY DEF Phase
<1>4. Start \in X
  <2>1. <<>> \in Seq(Entries(rs))
    OBVIOUS
  <2>2. 0 \in 0 .. Len(rs)
    BY <1>1
  <2> QED
    BY <2>1, <2>2 DEF Start, Stages
<1>5. \A i \in 1 .. L : \A x \in X : Track(rs, x, i) \in X
  BY TrackIs
<1> HIDE DEF X
<1>6. \A n \in 1 .. N : \A x \in X : h[n][x] = Track(rs, x, from - 1 + n)
  OBVIOUS
<1>7. \A n \in 1 .. N : \A x \in X : h[n][x] \in X
  BY <1>2, <1>5, <1>6
<1> HIDE DEF h, N
<1>8. PICK f : Follows(f, h, Start, X, N)
  BY <1>2, <1>4, <1>7, Computed
<1>9. f \in [0 .. N -> X] /\ f[0] = Start /\ \A n \in 1 .. N : f[n] = h[n][f[n - 1]]
  BY <1>8 DEF Follows
<1>10. \A n \in 1 .. N : f[n] = Track(rs, f[n - 1], from - 1 + n)
  <2> TAKE n \in 1 .. N
  <2>1. n - 1 \in 0 .. N
    BY <1>2
  <2>2. f[n - 1] \in X
    BY <1>9, <2>1
  <2> QED
    BY <1>6, <1>9, <2>2
<1> DEFINE g == [i \in from - 1 .. L |-> f[i - (from - 1)]]
<1>11. \A i \in from - 1 .. L : g[i] = IF i < from THEN Start ELSE Track(rs, g[i - 1], i)
  <2> TAKE i \in from - 1 .. L
  <2>1. CASE i < from
    <3>1. i - (from - 1) = 0
      BY <1>1, <2>1
    <3> QED
      BY <1>9, <2>1, <3>1
  <2>2. CASE ~(i < from)
    <3> DEFINE n == i - (from - 1)
    <3>1. n \in 1 .. N /\ from - 1 + n = i /\ i - 1 \in from - 1 .. L /\ (i - 1) - (from - 1) = n - 1
      BY <1>1, <2>2 DEF N
    <3> HIDE DEF n
    <3>2. g[i - 1] = f[n - 1]
      BY <3>1
    <3>3. g[i] = f[n]
      BY DEF n
    <3>4. f[n] = Track(rs, f[n - 1], from - 1 + n)
      BY <1>10, <3>1
    <3> HIDE DEF g
    <3> QED
      BY <2>2, <3>1, <3>2, <3>3, <3>4
  <2> QED
    BY <2>1, <2>2
<1>12. g = [i \in from - 1 .. L |-> IF i < from THEN Start ELSE Track(rs, g[i - 1], i)]
  <2>1. g = [i \in from - 1 .. L |-> g[i]]
    OBVIOUS
  <2> HIDE DEF g
  <2> QED
    BY <1>11, <2>1
<1>13. track = [i \in from - 1 .. L |-> IF i < from THEN Start ELSE Track(rs, track[i - 1], i)]
  <2> HIDE DEF g
  <2> QED
    BY <1>12
<1> HIDE DEF track, g
<1>14. \A i \in from - 1 .. L : track[i] = IF i < from THEN Start ELSE Track(rs, track[i - 1], i)
  BY <1>13
<1> DEFINE Sound(i) == /\ track[i] \in X
                       /\ i = from - 1 => track[i] = Start
                       /\ track[i].overflow => track[i].cont \in from + 1 .. L
           P == {n \in 0 .. N : Sound(from - 1 + n)}
<1>15. \A n \in 0 .. N : n \in P <=> Sound(from - 1 + n)
  OBVIOUS
<1> HIDE DEF P
<1>16. 0 \in P
  <2>1. from - 1 \in from - 1 .. L /\ from - 1 < from /\ 0 \in 0 .. N /\ from - 1 + 0 = from - 1
    BY <1>1, <1>2
  <2>2. track[from - 1] = Start
    BY <1>14, <2>1
  <2>3. Start.overflow = FALSE
    BY DEF Start
  <2>4. Sound(from - 1)
    BY <1>4, <2>2, <2>3
  <2> HIDE DEF Sound
  <2> QED
    BY <1>15, <2>1, <2>4
<1>17. ASSUME NEW n \in 1 .. N, n - 1 \in P PROVE n \in P
  <2> DEFINE i == from - 1 + n
  <2>1. /\ i \in 1 .. L /\ i \in from - 1 .. L /\ ~(i < from) /\ i # from - 1
        /\ n - 1 \in 0 .. N /\ n \in 0 .. N /\ from - 1 + (n - 1) = i - 1 /\ i \in Nat
        /\ (i - 1 = from - 1 \/ i \in from + 1 .. L)
    BY <1>1, <1>2 DEF N
  <2> HIDE DEF i
  <2>2. Sound(i - 1)
    <3> HIDE DEF Sound
    <3> QED
      BY <1>15, <1>17, <2>1
  <2>3. track[i] = Track(rs, track[i - 1], i)
    BY <1>14, <2>1
  <2>4. track[i] \in X
    BY <1>5, <2>1, <2>2, <2>3
  <2>5. ASSUME track[i].overflow PROVE track[i].cont \in from + 1 .. L
    <3>1. \/ track[i - 1].overflow /\ track[i].cont = track[i - 1].cont
          \/ Len(track[i - 1].cache) >= CacheSize /\ track[i].cont = i
      BY <2>1, <2>2, <2>3, <2>5, TrackIs DEF X
    <3>2. CASE track[i - 1].overflow /\ track[i].cont = track[i - 1].cont
      BY <2>2, <3>2
    <3>3. CASE Len(track[i - 1].cache) >= CacheSize /\ track[i].cont = i
      <4>1. CacheSize \in Nat /\ CacheSize # 0
        BY FsAssumption
      <4>2. Start.cache = <<>> /\ Len(<<>>) = 0
        BY DEF Start
      <4>3. track[i - 1] # Start
        BY <3>3, <4>1, <4>2
      <4> QED
        BY <2>1, <2>2, <3>3, <4>3
    <3> QED
      BY <3>1, <3>2, <3>3
  <2>6. Sound(i)
    BY <2>1, <2>4, <2>5
  <2> HIDE DEF Sound
  <2> QED
    BY <1>15, <2>1, <2>6 DEF i
<1>18. 0 .. N \subseteq P
  BY <1>2, <1>16, <1>17, HandedOn
<1>19. N \in 0 .. N /\ from - 1 + N = L
  BY <1>1, <1>2 DEF N
<1>20. Sound(L)
  <2> HIDE DEF Sound
  <2> QED
    BY <1>15, <1>18, <1>19
<1> QED
  BY <1>3, <1>20 DEF X, Stages

(* All phases of a collection. *)
LEMMA SurvivorsIs ==
  ASSUME NEW rs, GoodLog(rs)
  PROVE  Survivors(rs) \in Seq(Entries(rs))
<1> DEFINE N == Len(rs)
           S == Seq(Entries(rs))
           nx(from) == IF Phase(rs, from).overflow THEN Phase(rs, from).cont ELSE N + 1
           kept(from) == Phase(rs, from).cache
           collect[from \in 1 .. N + 1] ==
             IF from > N THEN <<>>
             ELSE LET p == Phase(rs, from)
                  IN  p.cache \o collect[IF p.overflow THEN p.cont ELSE N + 1]
           Right(F, from) == F[from] = IF from > N THEN <<>> ELSE kept(from) \o F[nx(from)]
<1>1. N \in Nat /\ <<>> \in S
  BY DEF GoodLog
<1>2. \A from \in 1 .. N : kept(from) \in S /\ nx(from) \in from + 1 .. N + 1 /\ ~(from > N)
  <2> TAKE from \in 1 .. N
  <2>1. kept(from) \in S /\ (Phase(rs, from).overflow => Phase(rs, from).cont \in from + 1 .. N)
    BY PhaseIs
  <2> QED
    BY <1>1, <2>1
<1>3. Survivors(rs) = collect[1]
  BY DEF Survivors
<1>4. \A s, t \in S : s \o t \in S
  BY ConcatProperties
<1> HIDE DEF S
<1> DEFINE P == {n \in 0 .. N : \E F \in [1 .. N + 1 -> S] : \A from \in N + 1 - n .. N + 1 : Right(F, from)}
<1>5. \A n \in 0 .. N : n \in P <=> \E F \in [1 .. N + 1 -> S] : \A from \in N + 1 - n .. N + 1 : Right(F, from)
  OBVIOUS
<1> HIDE DEF P
<1>6. 0 \in P
  <2> DEFINE F == [from \in 1 .. N + 1 |-> <<>>]
  <2>1. F \in [1 .. N + 1 -> S]
    BY <1>1
  <2>2. \A from \in N + 1 - 0 .. N + 1 : from \in 1 .. N + 1 /\ from > N
    BY <1>1
  <2>3. \A from \in N + 1 - 0 .. N + 1 : Right(F, from)
    BY <2>2
  <2>4. 0 \in 0 .. N
    BY <1>1
  <2> HIDE DEF F, Right
  <2> QED
    BY <1>5, <2>1, <2>3, <2>4
<1> HIDE DEF nx, kept
<1>7. ASSUME NEW n \in 1 .. N, n - 1 \in P PROVE n \in P
  <2> DEFINE k == N + 1 - n
  <2>1. n - 1 \in 0 .. N /\ n \in 0 .. N /\ k \in 1 .. N /\ N + 1 - (n - 1) = k + 1 /\ k \in 1 .. N + 1
        /\ k \in Nat
    BY <1>1
  <2>2. PICK F \in [1 .. N + 1 -> S] : \A from \in k + 1 .. N + 1 : Right(F, from)
    <3> HIDE DEF Right, k
    <3> QED
      BY <1>5, <1>7, <2>1
  <2> DEFINE G == [F EXCEPT ![k] = kept(k) \o F[nx(k)]]
  <2> HIDE DEF k
  <2>3. nx(k) \in 1 .. N + 1 /\ nx(k) # k
    BY <1>1, <1>2, <2>1
  <2>4. kept(k) \o F[nx(k)] \in S
    BY <1>2, <1>4, <2>1, <2>3
  <2>5. G \in [1 .. N + 1 -> S] /\ G[k] = kept(k) \o F[nx(k)]
        /\ \A from \in 1 .. N + 1 : from # k => G[from] = F[from]
    BY <2>1, <2>4
  <2> HIDE DEF G
  <2>6. ASSUME NEW from \in k .. N + 1 PROVE Right(G, from)
    <3>1. CASE from = k
      <4>1. G[nx(k)] = F[nx(k)] /\ ~(k > N)
        BY <1>2, <2>1, <2>3, <2>5
      <4> QED
        BY <2>5, <3>1, <4>1
    <3>2. CASE from # k
      <4>1. from \in k + 1 .. N + 1 /\ from \in 1 .. N + 1
        BY <1>1, <2>1, <3>2
      <4>2. Right(F, from) /\ G[from] = F[from]
        BY <2>2, <2>5, <3>2, <4>1
      <4>3. CASE from > N
        BY <4>2, <4>3
      <4>4. CASE ~(from > N)
        <5>1. from \in 1 .. N
          BY <1>1, <4>1, <4>4
        <5>2. nx(from) \in 1 .. N + 1 /\ nx(from) # k
          BY <1>1, <1>2, <2>1, <4>1, <5>1
        <5>3. G[nx(from)] = F[nx(from)]
          BY <2>5, <5>2
        <5> QED
          BY <4>2, <4>4, <5>3
      <4> QED
        BY <4>3, <4>4
    <3> QED
      BY <3>1, <3>2
  <2> HIDE DEF Right
  <2> QED
    BY <1>5, <2>1, <2>5, <2>6 DEF k
<1>8. 0 .. N \subseteq P
  BY <1>1, <1>6, <1>7, HandedOn
<1>9. PICK F \in [1 .. N + 1 -> S] : \A from \in 1 .. N + 1 : Right(F, from)
  <2>1. N \in 0 .. N /\ N + 1 - N = 1
    BY <1>1
  <2> HIDE DEF Right
  <2> QED
    BY <1>5, <1>8, <2>1
<1>10. F = [from \in 1 .. N + 1 |->
              IF from > N THEN <<>>
              ELSE LET p == Phase(rs, from)
                   IN  p.cache \o F[IF p.overflow THEN p.cont ELSE N + 1]]
  <2>1. \A from \in 1 .. N + 1 : F[from] = IF from > N THEN <<>>
                                           ELSE LET p == Phase(rs, from)
                                                IN  p.cache \o F[IF p.overflow THEN p.cont ELSE N + 1]
    BY <1>9 DEF nx, kept
  <2> QED
    BY <2>1
<1>11. collect = [from \in 1 .. N + 1 |->
                    IF from > N THEN <<>>
                    ELSE LET p == Phase(rs, from)
                         IN  p.cache \o collect[IF p.overflow THEN p.cont ELSE N + 1]]
  BY <1>10
<1> HIDE DEF collect
<1>12. \A from \in 1 .. N + 1 : Right(collect, from)
  BY <1>11 DEF nx, kept
<1> DEFINE Q == {n \in 0 .. N : \A from \in N + 1 - n .. N + 1 : collect[from] \in S}
<1>13. \A n \in 0 .. N : n \in Q <=> \A from \in N + 1 - n .. N + 1 : collect[from] \in S
  OBVIOUS
<1> HIDE DEF Q
<1>14. 0 \in Q
  <2>1. 0 \in 0 .. N /\ \A from \in N + 1 - 0 .. N + 1 : from \in 1 .. N + 1 /\ from > N
    BY <1>1
  <2> QED
    BY <1>1, <1>12, <1>13, <2>1
<1>15. ASSUME NEW n \in 1 .. N, n - 1 \in Q PROVE n \in Q
  <2> DEFINE k == N + 1 - n
  <2>1. n - 1 \in 0 .. N /\ n \in 0 .. N /\ k \in 1 .. N /\ N + 1 - (n - 1) = k + 1 /\ k \in 1 .. N + 1
        /\ k \in Nat
    BY <1>1
  <2>2. \A from \in k + 1 .. N + 1 : collect[from] \in S
    BY <1>13, <1>15, <2>1
  <2> HIDE DEF k
  <2>3. nx(k) \in k + 1 .. N + 1 /\ kept(k) \in S /\ ~(k > N)
    BY <1>2, <2>1
  <2>4. collect[k] \in S
    BY <1>4, <1>12, <2>1, <2>2, <2>3
  <2>5. \A from \in k .. N + 1 : from = k \/ from \in k + 1 .. N + 1
    BY <1>1, <2>1
  <2>6. \A from \in k .. N + 1 : collect[from] \in S
    BY <2>2, <2>4, <2>5
  <2> QED
    BY <1>13, <2>1, <2>6 DEF k
<1>16. 0 .. N \subseteq Q
  BY <1>1, <1>14, <1>15, HandedOn
<1>17. N \in 0 .. N /\ N + 1 - N = 1 /\ 1 \in 1 .. N + 1
  BY <1>1
<1>18. collect[1] \in S
  BY <1>13, <1>16, <1>17
<1> QED
  BY <1>3, <1>18 DEF S

(* What a collection writes. *)
Copies(rs) == [cmd : {"FILE", "DATA"}, ino : Nat, name : Texts(rs), arg : Texts(rs)]

LEMMA CopiedIs ==
  ASSUME NEW rs, GoodLog(rs), NEW c \in Entries(rs), NEW ino \in Nat, NEW emergency
  PROVE  Copied(rs, c, ino, emergency) \in Seq(Copies(rs))
<1> DEFINE R == {rs[i] : i \in 1 .. Len(rs)}
           part == SubSeq(rs, c.file, Len(rs))
           data == DataOf(part, OldIno(rs, c))
           D == {r \in R : r.cmd = "DATA"}
           file == Rec("FILE", ino, c.name, rs[c.file].arg)
           copy == [k \in DOMAIN data |-> [data[k] EXCEPT !.ino = ino]]
           C == Copies(rs)
<1>1. c.file \in 1 .. Len(rs) /\ c.name \in Texts(rs) /\ Len(rs) \in Nat
  BY DEF Entries, GoodLog
<1>2. rs \in Seq(R) /\ \A i \in 1 .. Len(rs) : IsRec(rs[i])
  BY DEF GoodLog
<1>3. \A i \in 1 .. Len(rs) : rs[i] \in R
  OBVIOUS
<1>4. \A r \in R : /\ IsRec(r) /\ r.name \in Texts(rs) /\ r.arg \in Texts(rs)
  BY <1>2 DEF Texts
<1> HIDE DEF R
<1>5. part \in Seq(R)
  <2>1. \A i \in c.file .. Len(rs) : rs[i] \in R
    BY <1>1, <1>3
  <2>2. c.file \in Int /\ Len(rs) \in Int
    BY <1>1
  <2> QED
    BY <2>1, <2>2, SubSeqProperties
<1> HIDE DEF part
<1>6. data \in Seq(D)
  BY <1>5, DataOfIs
<1> HIDE DEF data
<1>7. file \in C
  <2>1. rs[c.file].arg \in Texts(rs)
    BY <1>1 DEF Texts
  <2> QED
    BY <1>1, <2>1 DEF Copies, Rec
<1>8. ASSUME NEW r \in D PROVE [r EXCEPT !.ino = ino] \in C
  <2>1. r = [cmd |-> r.cmd, ino |-> r.ino, name |-> r.name, arg |-> r.arg] /\ r.cmd = "DATA"
        /\ r.name \in Texts(rs) /\ r.arg \in Texts(rs)
    BY <1>4 DEF IsRec, Rec
  <2>2. [r EXCEPT !.ino = ino] = [cmd |-> r.cmd, ino |-> ino, name |-> r.name, arg |-> r.arg]
    BY <2>1
  <2> QED
    BY <2>1, <2>2 DEF Copies
<1> HIDE DEF D, C, file
<1>9. copy \in Seq(C)
  <2> DEFINE n == Len(data)
  <2>1. n \in Nat /\ DOMAIN data = 1 .. n /\ \A k \in 1 .. n : data[k] \in D
    BY <1>6
  <2> HIDE DEF n
  <2>2. copy \in [1 .. n -> C]
    BY <1>8, <2>1
  <2> HIDE DEF copy
  <2> QED
    BY <2>1, <2>2
<1>10. <<file>> \in Seq(C)
  BY <1>7
<1>11. <<file>> \o copy \in Seq(C)
  <2> HIDE DEF copy
  <2> QED
    BY <1>9, <1>10, ConcatProperties
<1>12. Copied(rs, c, ino, emergency) = IF GivenUp(c, emergency) THEN <<>> ELSE <<file>> \o copy
  BY DEF Copied, file, data, part
<1> HIDE DEF copy
<1> QED
  BY <1>11, <1>12 DEF C

(* All a collection writes. *)
LEMMA CollectedIs ==
  ASSUME NEW rs, GoodLog(rs), NEW emergency
  PROVE  Collected(rs, emergency) \in Seq(Copies(rs))
<1> DEFINE survived == Survivors(rs)
           N == Len(survived)
           X == Seq(Copies(rs))
           part(u) == Copied(rs, survived[u], u, emergency)
           copy[u \in 0 .. N] ==
             IF u = 0 THEN <<>> ELSE copy[u - 1] \o Copied(rs, survived[u], u, emergency)
           h == [u \in 1 .. N |-> [x \in X |-> x \o part(u)]]
<1>1. N \in Nat /\ \A u \in 1 .. N : survived[u] \in Entries(rs) /\ u \in Nat
  BY SurvivorsIs
<1>2. Collected(rs, emergency) = copy[N]
  BY DEF Collected
<1> HIDE DEF N, survived
<1>3. \A u \in 1 .. N : part(u) \in X
  BY <1>1, CopiedIs
<1>4. <<>> \in X
  OBVIOUS
<1>5. \A s, t \in X : s \o t \in X
  BY ConcatProperties
<1> HIDE DEF X, part
<1>6. \A u \in 1 .. N : \A x \in X : h[u][x] = x \o part(u)
  OBVIOUS
<1>7. \A u \in 1 .. N : \A x \in X : h[u][x] \in X
  BY <1>3, <1>5, <1>6
<1> HIDE DEF h
<1>8. PICK f : Follows(f, h, <<>>, X, N)
  BY <1>1, <1>4, <1>7, Computed
<1>9. f \in [0 .. N -> X] /\ f[0] = <<>> /\ \A u \in 1 .. N : f[u] = h[u][f[u - 1]]
  BY <1>8 DEF Follows
<1>10. \A u \in 1 .. N : f[u] = f[u - 1] \o part(u)
  <2> TAKE u \in 1 .. N
  <2>1. u - 1 \in 0 .. N
    BY <1>1
  <2>2. f[u - 1] \in X
    BY <1>9, <2>1
  <2> QED
    BY <1>6, <1>9, <2>2
<1>11. f = [u \in 0 .. N |-> IF u = 0 THEN <<>> ELSE f[u - 1] \o Copied(rs, survived[u], u, emergency)]
  <2>1. ASSUME NEW u \in 0 .. N
        PROVE  f[u] = IF u = 0 THEN <<>> ELSE f[u - 1] \o Copied(rs, survived[u], u, emergency)
    <3>1. u = 0 \/ u \in 1 .. N
      BY <1>1
    <3> QED
      BY <1>9, <1>10, <3>1 DEF part
  <2> QED
    BY <1>9, <2>1
<1>12. copy = [u \in 0 .. N |-> IF u = 0 THEN <<>> ELSE copy[u - 1] \o Copied(rs, survived[u], u, emergency)]
  BY <1>11
<1> HIDE DEF copy
<1>13. copy[0] = <<>> /\ \A u \in 1 .. N : copy[u] = copy[u - 1] \o part(u)
  <2>1. \A u \in 0 .. N : copy[u] = IF u = 0 THEN <<>> ELSE copy[u - 1] \o Copied(rs, survived[u], u, emergency)
    BY <1>12
  <2>2. 0 \in 0 .. N /\ \A u \in 1 .. N : u \in 0 .. N /\ u # 0
    BY <1>1
  <2> QED
    BY <2>1, <2>2 DEF part
<1> DEFINE P == {u \in 0 .. N : copy[u] \in X}
<1>14. \A u \in 0 .. N : u \in P <=> copy[u] \in X
  OBVIOUS
<1> HIDE DEF P
<1>15. 0 \in P
  <2>1. 0 \in 0 .. N
    BY <1>1
  <2> QED
    BY <1>4, <1>13, <1>14, <2>1
<1>16. ASSUME NEW u \in 1 .. N, u - 1 \in P PROVE u \in P
  <2>1. u - 1 \in 0 .. N /\ u \in 0 .. N
    BY <1>1
  <2>2. copy[u - 1] \in X /\ part(u) \in X
    BY <1>3, <1>14, <1>16, <2>1
  <2>3. copy[u - 1] \o part(u) \in X
    BY <1>5, <2>2
  <2>4. copy[u] \in X
    BY <1>13, <2>3
  <2> QED
    BY <1>14, <2>1, <2>4
<1>17. 0 .. N \subseteq P
  BY <1>1, <1>15, <1>16, HandedOn
<1>18. N \in 0 .. N
  BY <1>1
<1>19. copy[N] \in X
  BY <1>14, <1>17, <1>18
<1> QED
  BY <1>2, <1>19 DEF X
-----------------------------------------------------------------------------
Shaped ==
  /\ DOMAIN flash = {0, 1}
  /\ \A s \in {0, 1} :
       /\ flash[s] = [magic |-> flash[s].magic, cell |-> Cells(s)]
       /\ flash[s].magic \in Nat
       /\ Cells(s) = [i \in 1 .. Capacity |-> Cells(s)[i]]
       /\ \A i \in 1 .. Capacity : IsRec(Cells(s)[i])

(* A section nothing is in, and one with records up to cell w. *)
Blanked(s) == flash[s].magic = 0 /\ \A i \in 1 .. Capacity : Cells(s)[i] = Erased
Filled(s, w) ==
  /\ w \in 1 .. Capacity + 1
  /\ \A i \in 1 .. Capacity : IF i < w THEN Whole(Cells(s)[i]) ELSE Cells(s)[i] = Erased

(* Nothing but records of out is in the section, each in its place. *)
Written(s, out) ==
  \A i \in 1 .. Capacity :
    Cells(s)[i] = Erased \/ (i <= Len(out) /\ Cells(s)[i] \in {out[i], Torn(out[i])})

(* What a collection of section s writes, now or at the next start. *)
Output(s, emergency) == Collected(LogOf(s, ValidEnd(s)), emergency)

Stopped ==
  /\ gc = NoGc
  /\ \A s \in {0, 1} : Current = s /\ Dirty(s) => Written(Other(s), Output(s, FALSE))

Running(s) == flash[s].magic > 0 /\ Filled(s, flashWP) /\ Blanked(Other(s))

Copying(s) ==
  /\ flash[s].magic > 0 /\ flash[s].magic < flash[Other(s)].magic
  /\ gc = [end |-> ValidEnd(s), emergency |-> gc.emergency]
  /\ Dirty(s) => gc.emergency = FALSE
  /\ Written(Other(s), Output(s, gc.emergency))
  /\ flashWP \in 1 .. Capacity + 1
  /\ \A i \in 1 .. Capacity : i < flashWP =>
       i <= Len(Output(s, gc.emergency)) /\ Cells(Other(s))[i] = Output(s, gc.emergency)[i]

Switching(s) ==
  /\ flash[s].magic = 0 /\ flash[Other(s)].magic > 0
  /\ \A i \in FirstPage : Cells(s)[i] = Erased
  /\ Filled(Other(s), flashWP)

FsInv ==
  /\ Shaped
  /\ fsSection \in {-1, 0, 1}
  /\ fsSection = -1 => Stopped
  /\ \A s \in {0, 1} : fsSection = s =>
       \/ gc = NoGc /\ Running(s)
       \/ gc.end > 0 /\ Copying(s)
       \/ gc.end = 0 /\ Switching(s)

(* One section does not depend on the other. *)
LEMMA SectionKept ==
  ASSUME NEW s, NEW e, flash'[s] = flash[s]
  PROVE  /\ Cells(s)' = Cells(s)
         /\ ValidEnd(s)' = ValidEnd(s)
         /\ Dirty(s)' <=> Dirty(s)
         /\ LogOf(s, e)' = LogOf(s, e)
<1>1. Cells(s)' = Cells(s)
  BY DEF Cells
<1>2. ValidEnd(s)' = ValidEnd(s)
  BY <1>1 DEF ValidEnd
<1>3. Dirty(s)' <=> Dirty(s)
  BY <1>1, <1>2 DEF Dirty
<1>4. LogOf(s, e)' = LogOf(s, e)
  BY DEF LogOf
<1> QED
  BY <1>1, <1>2, <1>3, <1>4

(* fs_ck: the log ends at the first record that is not whole. *)
LEMMA ValidEndIs ==
  ASSUME NEW s \in {0, 1}
  PROVE  /\ ValidEnd(s) \in 1 .. Capacity + 1
         /\ \A i \in 1 .. Capacity : i < ValidEnd(s) => Whole(Cells(s)[i])
         /\ ValidEnd(s) <= Capacity => ~Whole(Cells(s)[ValidEnd(s)])
<1> DEFINE bad == {i \in 1 .. Capacity : ~Whole(Cells(s)[i])}
           m == CHOOSE i \in bad : \A j \in bad : i <= j
<1>1. ValidEnd(s) = IF bad = {} THEN Capacity + 1 ELSE m
  BY DEF ValidEnd
<1>2. Capacity \in Nat
  BY FsAssumption
<1>3. bad \in SUBSET Nat /\ \A i \in 1 .. Capacity : i \in bad <=> ~Whole(Cells(s)[i])
  BY <1>2
<1>4. bad \subseteq 1 .. Capacity
  OBVIOUS
<1> HIDE DEF bad
<1>5. CASE bad = {}
  BY <1>1, <1>2, <1>3, <1>5
<1>6. CASE bad # {}
  <2>1. \E i \in bad : \A j \in bad : i <= j
    BY <1>3, <1>6, LeastOf
  <2>2. m \in bad /\ \A j \in bad : m <= j
    BY <2>1
  <2> HIDE DEF m
  <2>3. m \in 1 .. Capacity
    BY <1>4, <2>2
  <2>4. ASSUME NEW i \in 1 .. Capacity, i < m PROVE Whole(Cells(s)[i])
    BY <1>2, <1>3, <2>2, <2>3, <2>4
  <2> QED
    BY <1>1, <1>2, <1>3, <1>6, <2>2, <2>3, <2>4
<1> QED
  BY <1>5, <1>6

(* A section that is filled up to w. *)
LEMMA FilledIs ==
  ASSUME NEW s \in {0, 1}, NEW w, Filled(s, w)
  PROVE  ValidEnd(s) = w /\ ~Dirty(s)
<1>1. Capacity \in Nat
  BY FsAssumption
<1>2. /\ w \in 1 .. Capacity + 1
      /\ \A i \in 1 .. Capacity : IF i < w THEN Whole(Cells(s)[i]) ELSE Cells(s)[i] = Erased
  BY DEF Filled
<1>3. ~Whole(Erased)
  BY DEF Whole, Erased, Rec
<1> DEFINE e == ValidEnd(s)
<1>4. /\ e \in 1 .. Capacity + 1
      /\ \A i \in 1 .. Capacity : i < e => Whole(Cells(s)[i])
      /\ e <= Capacity => ~Whole(Cells(s)[e])
  BY ValidEndIs
<1> HIDE DEF e
<1>5. ~(e < w)
  BY <1>1, <1>2, <1>4
<1>6. ~(w < e)
  <2> SUFFICES ASSUME w < e PROVE FALSE
    OBVIOUS
  <2>1. w \in 1 .. Capacity /\ ~(w < w)
    BY <1>1, <1>2, <1>4
  <2> QED
    BY <1>2, <1>3, <1>4, <2>1
<1>7. e = w
  BY <1>1, <1>2, <1>4, <1>5, <1>6
<1>8. ASSUME NEW i \in e .. Capacity PROVE Cells(s)[i] = Erased
  <2>1. i \in 1 .. Capacity /\ ~(i < w)
    BY <1>1, <1>2, <1>7
  <2> QED
    BY <1>2, <2>1
<1> QED
  BY <1>7, <1>8 DEF Dirty, e

(* What precedes the valid end is a log fs_gc can work on. *)
LEMMA LogIsGood ==
  ASSUME Shaped, NEW s \in {0, 1}, NEW e \in 1 .. Capacity + 1,
         \A i \in 1 .. Capacity : i < e => Whole(Cells(s)[i])
  PROVE  GoodLog(LogOf(s, e))
<1> DEFINE rs == LogOf(s, e)
           c == Cells(s)
           R == {c[i] : i \in 1 .. Capacity}
<1>1. Capacity \in Nat
  BY FsAssumption
<1>2. c = [i \in 1 .. Capacity |-> c[i]] /\ \A i \in 1 .. Capacity : IsRec(c[i])
  BY DEF Shaped
<1>3. rs = SubSeq(c, 1, e - 1)
  BY DEF LogOf, Cells
<1> HIDE DEF c, rs
<1>4. \A i \in 1 .. Capacity : c[i] \in R
  OBVIOUS
<1> HIDE DEF R
<1>5. c \in Seq(R) /\ Len(c) = Capacity
  BY <1>1, <1>2, <1>4
<1>6. e - 1 \in Nat /\ e - 1 <= Capacity /\ 1 \in Nat
  BY <1>1
<1>7. rs \in Seq(R) /\ Len(rs) = e - 1 /\ \A i \in 1 .. e - 1 : rs[i] = c[i]
  BY <1>3, <1>5, <1>6
<1>8. \A i \in 1 .. e - 1 : i \in 1 .. Capacity /\ i < e
  BY <1>1, <1>6
<1>9. \A i \in 1 .. Len(rs) : IsRec(rs[i]) /\ Whole(rs[i])
  BY <1>2, <1>7, <1>8 DEF c
<1>10. rs \in Seq({rs[i] : i \in 1 .. Len(rs)})
  BY <1>7
<1> QED
  BY <1>9, <1>10 DEF GoodLog, rs

(* What a collection writes, record by record. *)
LEMMA OutIs ==
  ASSUME Shaped, NEW s \in {0, 1}, NEW emergency
  PROVE  LET out == Output(s, emergency)
         IN  Len(out) \in Nat /\ \A i \in 1 .. Len(out) : IsRec(out[i]) /\ Whole(out[i])
<1> DEFINE rs == LogOf(s, ValidEnd(s))
           out == Collected(rs, emergency)
           C == Copies(rs)
<1>1. GoodLog(rs)
  BY LogIsGood, ValidEndIs
<1> HIDE DEF rs
<1>2. out \in Seq(C)
  BY <1>1, CollectedIs
<1>3. \A r \in C : IsRec(r) /\ Whole(r)
  BY DEF Copies, IsRec, Rec, Whole
<1> HIDE DEF C, out
<1> QED
  BY <1>2, <1>3 DEF out, rs, Output, Output
-----------------------------------------------------------------------------
(* What EraseFirst says of a step. *)
ErasesFirst ==
  \A s \in {0, 1}, i \in 1 .. Capacity :
    LET was == Cells(s)[i]
        is  == flash'[s].cell[i]
    IN  was = is \/ was = Erased \/ is = Erased \/ was = Torn(is)

LEMMA Sections ==
  ASSUME NEW s \in {0, 1}
  PROVE  Other(s) \in {0, 1} /\ Other(s) # s /\ Other(Other(s)) = s /\ {0, 1} = {s, Other(s)}
BY DEF Other

LEMMA SectionIs ==
  ASSUME NEW m, NEW c, NEW m2, NEW c2
  PROVE  /\ [[magic |-> m, cell |-> c] EXCEPT !.magic = m2] = [magic |-> m2, cell |-> c]
         /\ [[magic |-> m, cell |-> c] EXCEPT !.cell = c2] = [magic |-> m, cell |-> c2]
OBVIOUS

(* A flash of which one section is replaced. *)
LEMMA ReplacedSection ==
  ASSUME Shaped, NEW s \in {0, 1}, NEW m \in Nat, NEW c,
         c = [i \in 1 .. Capacity |-> c[i]], \A i \in 1 .. Capacity : IsRec(c[i]),
         flash' = [flash EXCEPT ![s] = [magic |-> m, cell |-> c]]
  PROVE  /\ Shaped'
         /\ flash'[Other(s)] = flash[Other(s)]
         /\ flash'[s].magic = m /\ Cells(s)' = c
<1>1. Other(s) \in {0, 1} /\ Other(s) # s /\ {0, 1} = {s, Other(s)}
  BY Sections
<1>2. DOMAIN flash = {0, 1}
  BY DEF Shaped
<1>3. DOMAIN flash' = {0, 1} /\ flash'[s] = [magic |-> m, cell |-> c] /\ flash'[Other(s)] = flash[Other(s)]
  BY <1>1, <1>2
<1>4. Cells(s)' = c /\ flash'[s].magic = m /\ Cells(Other(s))' = Cells(Other(s))
  BY <1>3 DEF Cells
<1>5. ASSUME NEW t \in {0, 1}
      PROVE  /\ flash'[t] = [magic |-> flash'[t].magic, cell |-> Cells(t)']
             /\ flash'[t].magic \in Nat
             /\ Cells(t)' = [i \in 1 .. Capacity |-> Cells(t)'[i]]
             /\ \A i \in 1 .. Capacity : IsRec(Cells(t)'[i])
  <2>1. CASE t = s
    BY <1>3, <1>4, <2>1
  <2>2. CASE t = Other(s)
    BY <1>1, <1>3, <1>4, <2>2 DEF Shaped
  <2> QED
    BY <1>1, <2>1, <2>2
<1>6. Shaped'
  BY <1>3, <1>5 DEF Shaped
<1> QED
  BY <1>3, <1>4, <1>6

(* wrFlashN *)
LEMMA ProgrammedIs ==
  ASSUME Shaped, NEW s \in {0, 1}, NEW k \in 1 .. Capacity, NEW r, IsRec(r),
         flash' = Programmed(s, k, r)
  PROVE  /\ Shaped'
         /\ flash'[Other(s)] = flash[Other(s)]
         /\ flash'[s].magic = flash[s].magic
         /\ Cells(s)'[k] = r
         /\ \A i \in 1 .. Capacity : i # k => Cells(s)'[i] = Cells(s)[i]
         /\ Cells(s)[k] \in {r, Erased, Torn(r)} => ErasesFirst
<1> DEFINE c == [i \in 1 .. Capacity |-> IF i = k THEN r ELSE Cells(s)[i]]
<1>1. /\ flash[s] = [magic |-> flash[s].magic, cell |-> Cells(s)]
      /\ flash[s].magic \in Nat
      /\ Cells(s) = [i \in 1 .. Capacity |-> Cells(s)[i]]
      /\ \A i \in 1 .. Capacity : IsRec(Cells(s)[i])
      /\ DOMAIN flash = {0, 1}
  BY DEF Shaped
<1>2. [Cells(s) EXCEPT ![k] = r] = c
  BY <1>1
<1>3. [flash[s] EXCEPT !.cell = c] = [magic |-> flash[s].magic, cell |-> c]
  <2> DEFINE f == flash[s]
             m == flash[s].magic
             d == Cells(s)
  <2>1. f = [magic |-> m, cell |-> d]
    BY <1>1
  <2> HIDE DEF f, m, d, c
  <2>2. [f EXCEPT !.cell = c] = [magic |-> m, cell |-> c]
    BY <2>1, SectionIs
  <2> QED
    BY <2>2 DEF f, m
<1>4. flash' = [flash EXCEPT ![s] = [magic |-> flash[s].magic, cell |-> c]]
  <2>1. flash' = [flash EXCEPT ![s] = [flash[s] EXCEPT !.cell = [flash[s].cell EXCEPT ![k] = r]]]
    BY DEF Programmed
  <2>2. flash[s].cell = Cells(s)
    BY DEF Cells
  <2> QED
    BY <1>2, <1>3, <2>1, <2>2
<1>5. c = [i \in 1 .. Capacity |-> c[i]] /\ \A i \in 1 .. Capacity : IsRec(c[i])
  BY <1>1
<1>6. c[k] = r /\ \A i \in 1 .. Capacity : i # k => c[i] = Cells(s)[i]
  OBVIOUS
<1> HIDE DEF c
<1>7. Shaped' /\ flash'[Other(s)] = flash[Other(s)] /\ flash'[s].magic = flash[s].magic /\ Cells(s)' = c
  <2> DEFINE m == flash[s].magic
  <2>1. m \in Nat /\ flash' = [flash EXCEPT ![s] = [magic |-> m, cell |-> c]]
    BY <1>1, <1>4
  <2> HIDE DEF m
  <2>2. Shaped' /\ flash'[Other(s)] = flash[Other(s)] /\ flash'[s].magic = m /\ Cells(s)' = c
    <3>1. Shaped /\ s \in {0, 1}
      OBVIOUS
    <3> QED
      BY ONLY <1>5, <2>1, <3>1, ReplacedSection
  <2> QED
    BY <2>2 DEF m
<1>8. ASSUME Cells(s)[k] \in {r, Erased, Torn(r)} PROVE ErasesFirst
  <2> SUFFICES ASSUME NEW t \in {0, 1}, NEW i \in 1 .. Capacity
               PROVE  \/ Cells(t)[i] = flash'[t].cell[i] \/ Cells(t)[i] = Erased
                      \/ flash'[t].cell[i] = Erased \/ Cells(t)[i] = Torn(flash'[t].cell[i])
    BY DEF ErasesFirst
  <2>1. CASE t = s /\ i = k
    BY <1>6, <1>7, <1>8, <2>1 DEF Cells
  <2>2. CASE t = s /\ i # k
    BY <1>6, <1>7, <2>2 DEF Cells
  <2>3. CASE t = Other(s)
    BY <1>7, <2>3 DEF Cells
  <2> QED
    BY <2>1, <2>2, <2>3, Sections
<1> QED
  BY <1>6, <1>7, <1>8

(* fs_smartErase and fs_gc: a page is erased. *)
LEMMA WipedIs ==
  ASSUME Shaped, NEW s \in {0, 1}, NEW page, flash' = Wiped(s, page)
  PROVE  /\ Shaped'
         /\ flash'[Other(s)] = flash[Other(s)]
         /\ flash'[s].magic = IF page = FirstPage THEN 0 ELSE flash[s].magic
         /\ \A i \in 1 .. Capacity : Cells(s)'[i] = IF i \in page THEN Erased ELSE Cells(s)[i]
         /\ ErasesFirst
<1> DEFINE c == [i \in 1 .. Capacity |-> IF i \in page THEN Erased ELSE Cells(s)[i]]
           m == IF page = FirstPage THEN 0 ELSE flash[s].magic
<1>1. /\ flash[s] = [magic |-> flash[s].magic, cell |-> Cells(s)]
      /\ flash[s].magic \in Nat
      /\ Cells(s) = [i \in 1 .. Capacity |-> Cells(s)[i]]
      /\ \A i \in 1 .. Capacity : IsRec(Cells(s)[i])
      /\ DOMAIN flash = {0, 1}
  BY DEF Shaped
<1>2. m \in Nat
  BY <1>1
<1>3. IsRec(Erased)
  BY DEF IsRec, Erased, Rec
<1>4. c = [i \in 1 .. Capacity |-> c[i]] /\ \A i \in 1 .. Capacity : IsRec(c[i])
  BY <1>1, <1>3
<1>5. \A i \in 1 .. Capacity : c[i] = IF i \in page THEN Erased ELSE Cells(s)[i]
  OBVIOUS
<1>6. flash' = [flash EXCEPT ![s] = [magic |-> m, cell |-> c]]
  <2>1. c = [i \in 1 .. Capacity |-> IF i \in page THEN Erased ELSE flash[s].cell[i]]
    BY DEF Cells
  <2> HIDE DEF c
  <2>2. flash' = [flash EXCEPT ![s] = [[flash[s] EXCEPT !.magic = m] EXCEPT !.cell = c]]
    BY <1>1, <2>1 DEF Wiped
  <2>3. [[flash[s] EXCEPT !.magic = m] EXCEPT !.cell = c] = [magic |-> m, cell |-> c]
    <3> DEFINE f == flash[s]
               n == flash[s].magic
               d == Cells(s)
    <3>1. f = [magic |-> n, cell |-> d]
      BY <1>1
    <3> HIDE DEF f, n, d, m
    <3>2. [[f EXCEPT !.magic = m] EXCEPT !.cell = c] = [magic |-> m, cell |-> c]
      <4>1. [[magic |-> n, cell |-> d] EXCEPT !.magic = m] = [magic |-> m, cell |-> d]
        OBVIOUS
      <4>2. [[magic |-> m, cell |-> d] EXCEPT !.cell = c] = [magic |-> m, cell |-> c]
        OBVIOUS
      <4>3. [f EXCEPT !.magic = m] = [magic |-> m, cell |-> d]
        BY <3>1, <4>1
      <4> QED
        BY <4>2, <4>3
    <3> QED
      BY <3>2 DEF f
  <2> QED
    BY <2>2, <2>3
<1> HIDE DEF c, m
<1>7. Shaped' /\ flash'[Other(s)] = flash[Other(s)] /\ flash'[s].magic = m /\ Cells(s)' = c
  <2>1. Shaped /\ s \in {0, 1}
    OBVIOUS
  <2> QED
    BY ONLY <1>2, <1>4, <1>6, <2>1, ReplacedSection
<1>8. ErasesFirst
  <2> SUFFICES ASSUME NEW t \in {0, 1}, NEW i \in 1 .. Capacity
               PROVE  Cells(t)[i] = flash'[t].cell[i] \/ flash'[t].cell[i] = Erased
    BY DEF ErasesFirst
  <2>1. CASE t = s
    BY <1>5, <1>7, <2>1 DEF Cells
  <2>2. CASE t = Other(s)
    BY <1>7, <2>2 DEF Cells
  <2> QED
    BY <2>1, <2>2, Sections
<1> QED
  BY <1>5, <1>7, <1>8 DEF m

(* The magic number of a section is written. *)
LEMMA MagicIs ==
  ASSUME Shaped, NEW s \in {0, 1}, NEW m \in Nat, flash' = [flash EXCEPT ![s].magic = m]
  PROVE  /\ Shaped'
         /\ flash'[Other(s)] = flash[Other(s)]
         /\ flash'[s].magic = m /\ Cells(s)' = Cells(s)
         /\ ErasesFirst
<1>1. /\ flash[s] = [magic |-> flash[s].magic, cell |-> Cells(s)]
      /\ Cells(s) = [i \in 1 .. Capacity |-> Cells(s)[i]]
      /\ \A i \in 1 .. Capacity : IsRec(Cells(s)[i])
      /\ DOMAIN flash = {0, 1}
  BY DEF Shaped
<1>2. [flash[s] EXCEPT !.magic = m] = [magic |-> m, cell |-> Cells(s)]
  <2> DEFINE f == flash[s]
             n == flash[s].magic
             d == Cells(s)
  <2>1. f = [magic |-> n, cell |-> d]
    BY <1>1
  <2> HIDE DEF f, n, d
  <2>2. [f EXCEPT !.magic = m] = [magic |-> m, cell |-> d]
    BY <2>1, SectionIs
  <2> QED
    BY <2>2 DEF f, d
<1>3. flash' = [flash EXCEPT ![s] = [magic |-> m, cell |-> Cells(s)]]
  BY <1>2
<1> DEFINE c == Cells(s)
<1>4. Shaped' /\ flash'[Other(s)] = flash[Other(s)] /\ flash'[s].magic = m /\ Cells(s)' = c
  <2>1. c = [i \in 1 .. Capacity |-> c[i]] /\ \A i \in 1 .. Capacity : IsRec(c[i])
    BY <1>1
  <2>2. flash' = [flash EXCEPT ![s] = [magic |-> m, cell |-> c]]
    BY <1>3
  <2> HIDE DEF c
  <2> QED
    BY <2>1, <2>2, ReplacedSection
<1>5. ErasesFirst
  <2> SUFFICES ASSUME NEW t \in {0, 1}, NEW i \in 1 .. Capacity
               PROVE  Cells(t)[i] = flash'[t].cell[i]
    BY DEF ErasesFirst
  <2>1. CASE t = s
    BY <1>4, <2>1 DEF Cells
  <2>2. CASE t = Other(s)
    BY <1>4, <2>2 DEF Cells
  <2> QED
    BY <2>1, <2>2, Sections
<1> QED
  BY <1>4, <1>5

(* The flash is left alone. *)
LEMMA FlashKept ==
  ASSUME UNCHANGED flash
  PROVE  ErasesFirst /\ (Shaped => Shaped')
BY DEF ErasesFirst, Shaped, Cells

(* fs_ck: of two sections that are in use the older one is current. *)
LEMMA CurrentThen ==
  ASSUME Shaped', NEW s \in {0, 1}, flash'[s].magic > 0,
         flash'[Other(s)].magic = 0 \/ flash'[s].magic < flash'[Other(s)].magic
  PROVE  Current' = s
<1>1. flash'[0].magic \in Nat /\ flash'[1].magic \in Nat
  BY DEF Shaped
<1>2. CASE s = 0
  BY <1>1, <1>2 DEF Other, Current
<1>3. CASE s = 1
  BY <1>1, <1>3 DEF Other, Current
<1> QED
  BY <1>2, <1>3

LEMMA CurrentIs ==
  ASSUME Shaped
  PROVE  \/ Current = -1 /\ flash[0].magic = 0 /\ flash[1].magic = 0
         \/ \E s \in {0, 1} :
              /\ Current = s /\ flash[s].magic > 0
              /\ flash[Other(s)].magic = 0 \/ flash[s].magic <= flash[Other(s)].magic
<1>1. flash[0].magic \in Nat /\ flash[1].magic \in Nat
  BY DEF Shaped
<1>2. Other(0) = 1 /\ Other(1) = 0 /\ 0 \in {0, 1} /\ 1 \in {0, 1}
  BY DEF Other
<1>3. CASE flash[0].magic = 0 /\ flash[1].magic = 0
  <2>1. Current = -1
    BY <1>3 DEF Current
  <2> QED
    BY <1>3, <2>1
<1>4. CASE flash[0].magic > 0 /\ (flash[1].magic = 0 \/ flash[0].magic < flash[1].magic)
  <2>1. Current = 0
    BY <1>1, <1>4 DEF Current
  <2>2. flash[Other(0)].magic = flash[1].magic
    BY <1>2
  <2> QED
    BY <1>1, <1>2, <1>4, <2>1, <2>2
<1>5. CASE flash[1].magic > 0 /\ (flash[0].magic = 0 \/ flash[1].magic <= flash[0].magic)
  <2>1. Current = 1
    BY <1>1, <1>5 DEF Current
  <2>2. flash[Other(1)].magic = flash[0].magic
    BY <1>2
  <2> QED
    BY <1>1, <1>2, <1>5, <2>1, <2>2
<1>6. \/ flash[0].magic = 0 /\ flash[1].magic = 0
      \/ flash[0].magic > 0 /\ (flash[1].magic = 0 \/ flash[0].magic < flash[1].magic)
      \/ flash[1].magic > 0 /\ (flash[0].magic = 0 \/ flash[1].magic <= flash[0].magic)
  <2> DEFINE m0 == flash[0].magic
             m1 == flash[1].magic
  <2>1. m0 \in Nat /\ m1 \in Nat
    BY <1>1
  <2> HIDE DEF m0, m1
  <2>2. \/ m0 = 0 /\ m1 = 0
        \/ m0 > 0 /\ (m1 = 0 \/ m0 < m1)
        \/ m1 > 0 /\ (m0 = 0 \/ m1 <= m0)
    BY <2>1
  <2> QED
    BY <2>2 DEF m0, m1
<1> QED
  BY <1>3, <1>4, <1>5, <1>6
-----------------------------------------------------------------------------
LEMMA PagesAre ==
  /\ Capacity \in Nat /\ Capacity > 1
  /\ FirstPage \subseteq 1 .. Capacity
  /\ FirstPage # 1 .. Capacity \ FirstPage
<1>1. Capacity \in Nat /\ Capacity > 1
  BY FsAssumption
<1>2. Capacity \div 2 >= 1 /\ Capacity \div 2 <= Capacity /\ Capacity \div 2 \in Nat
  BY <1>1
<1>3. 1 \in FirstPage
  BY <1>2 DEF FirstPage
<1> QED
  BY <1>1, <1>2, <1>3 DEF FirstPage

(* A step that leaves the log alone. *)
LEMMA Unaffected ==
  ASSUME FsInv, UNCHANGED <<flash, fsSection, flashWP, gc>>
  PROVE  FsInv' /\ ErasesFirst
<1>1. ErasesFirst /\ Shaped'
  BY FlashKept DEF FsInv
<1>2. UNCHANGED flash
  OBVIOUS
<1>3. ASSUME NEW s, NEW e
      PROVE  /\ Cells(s)' = Cells(s) /\ ValidEnd(s)' = ValidEnd(s) /\ (Dirty(s)' <=> Dirty(s))
             /\ LogOf(s, e)' = LogOf(s, e)
  BY <1>2, SectionKept
<1>4. ASSUME NEW s, NEW e PROVE Output(s, e)' = Output(s, e)
  BY <1>2, <1>3, SectionKept DEF Output
<1>5. Current' = Current
  BY <1>2 DEF Current
<1>6. ASSUME NEW s, NEW w
      PROVE  (Filled(s, w)' <=> Filled(s, w)) /\ (Blanked(s)' <=> Blanked(s))
  BY <1>2, <1>3 DEF Filled, Blanked
<1>7. ASSUME NEW s, NEW out PROVE Written(s, out)' <=> Written(s, out)
  BY <1>3 DEF Written
<1>8. Stopped => Stopped'
  BY <1>3, <1>4, <1>5, <1>7 DEF Stopped
<1>9. ASSUME NEW s \in {0, 1}, Running(s) PROVE Running(s)'
  BY <1>2, <1>6, <1>9 DEF Running
<1>10. ASSUME NEW s \in {0, 1}, Copying(s) PROVE Copying(s)'
  BY <1>2, <1>3, <1>4, <1>7, <1>10 DEF Copying
<1>11. ASSUME NEW s \in {0, 1}, Switching(s) PROVE Switching(s)'
  BY <1>2, <1>3, <1>6, <1>11 DEF Switching
<1> QED
  BY <1>1, <1>8, <1>9, <1>10, <1>11 DEF FsInv

(* The station stops with s current. *)
LEMMA StopsWell ==
  ASSUME Shaped', fsSection' = -1, gc' = NoGc, NEW s \in {0, 1}, Current' = s,
         Dirty(s)' => Written(Other(s), Output(s, FALSE))'
  PROVE  FsInv'
<1>1. Stopped'
  <2> SUFFICES ASSUME NEW t \in {0, 1}, Current' = t, Dirty(t)'
               PROVE  Written(Other(t), Output(t, FALSE))'
    BY DEF Stopped
  <2>1. t = s
    OBVIOUS
  <2> QED
    BY <2>1
<1> QED
  BY <1>1 DEF FsInv

(* One of the sections is current, the other is blank. *)
LEMMA RunsWell ==
  ASSUME Shaped', NEW s \in {0, 1}, fsSection' = s, gc' = NoGc, flash'[s].magic > 0,
         Filled(s, flashWP)', Blanked(Other(s))'
  PROVE  FsInv'
<1>1. Running(s)'
  BY DEF Running
<1> QED
  BY <1>1 DEF FsInv

(* The phases of the file system in use. *)
LEMMA PhasesAre ==
  ASSUME FsInv, fsSection # -1
  PROVE  \E s \in {0, 1} :
           /\ fsSection = s /\ Shaped /\ Other(s) \in {0, 1} /\ Other(Other(s)) = s
           /\ \/ gc = NoGc /\ gc.end = -1 /\ Running(s)
              \/ gc.end > 0 /\ gc.end = ValidEnd(s) /\ Copying(s)
              \/ gc.end = 0 /\ Switching(s)
BY Sections DEF FsInv, NoGc, Copying

(* The power fails, or an assertion, between two flash operations. *)
LEMMA Restarts ==
  ASSUME FsInv, fsSection # -1, fsSection' = -1, gc' = NoGc, UNCHANGED flash
  PROVE  FsInv' /\ ErasesFirst
<1>0. PICK s \in {0, 1} : /\ fsSection = s /\ Shaped /\ Other(s) \in {0, 1} /\ Other(Other(s)) = s
                          /\ \/ gc = NoGc /\ gc.end = -1 /\ Running(s)
                             \/ gc.end > 0 /\ gc.end = ValidEnd(s) /\ Copying(s)
                             \/ gc.end = 0 /\ Switching(s)
  BY PhasesAre
<1>1. Shaped /\ Shaped' /\ ErasesFirst /\ Other(s) \in {0, 1} /\ Other(Other(s)) = s
  BY <1>0, FlashKept
<1>3. CASE gc = NoGc /\ Running(s)
  <2>1. flash[s].magic > 0 /\ flash[Other(s)].magic = 0 /\ Filled(s, flashWP)
    BY <1>3 DEF Running, Blanked
  <2>2. Current' = s
    BY <1>1, <2>1, CurrentThen
  <2>3. ~Dirty(s)
    BY <1>1, <2>1, FilledIs
  <2>4. ~Dirty(s)'
    BY <2>3, SectionKept
  <2> QED
    BY <1>1, <2>2, <2>4, StopsWell
<1>4. CASE gc.end > 0 /\ Copying(s)
  <2>1. flash[s].magic > 0 /\ flash[s].magic < flash[Other(s)].magic
    BY <1>4 DEF Copying
  <2>2. Current' = s
    BY <1>1, <2>1, CurrentThen
  <2>3. Dirty(s) => Written(Other(s), Output(s, FALSE))
    BY <1>4 DEF Copying
  <2>4. Dirty(s)' => Written(Other(s), Output(s, FALSE))'
    <3>1. (Dirty(s)' <=> Dirty(s)) /\ Output(s, FALSE)' = Output(s, FALSE)
      BY SectionKept DEF Output
    <3>2. Cells(Other(s))' = Cells(Other(s))
      BY SectionKept
    <3> QED
      BY <2>3, <3>1, <3>2 DEF Written
  <2> QED
    BY <1>1, <2>2, <2>4, StopsWell
<1>5. CASE gc.end = 0 /\ Switching(s)
  <2>1. flash[s].magic = 0 /\ flash[Other(s)].magic > 0 /\ Filled(Other(s), flashWP)
    BY <1>5 DEF Switching
  <2>2. Current' = Other(s)
    BY <1>1, <2>1, CurrentThen
  <2>3. ~Dirty(Other(s))
    BY <1>1, <2>1, FilledIs
  <2>4. ~Dirty(Other(s))'
    BY <2>3, SectionKept
  <2> QED
    BY <1>1, <2>2, <2>4, StopsWell
<1> QED
  BY <1>0, <1>3, <1>4, <1>5

(* fs_gc up to the first copy. *)
LEMMA StartsGc ==
  ASSUME Shaped, NEW s \in {0, 1}, NEW e, flash[s].magic > 0, StartGc(s, ValidEnd(s), e),
         Dirty(s) => e = FALSE, Written(Other(s), Output(s, e))
  PROVE  FsInv' /\ ErasesFirst
<1>1. fsSection' = s /\ gc' = [end |-> ValidEnd(s), emergency |-> e] /\ flashWP' = 1
      /\ flash' = [flash EXCEPT ![Other(s)].magic = flash[s].magic + 1]
  BY DEF StartGc
<1>2. Other(s) \in {0, 1} /\ Other(Other(s)) = s /\ Capacity \in Nat
  BY Sections, FsAssumption
<1> DEFINE m == flash[s].magic + 1
<1>3. m \in Nat /\ flash[s].magic \in Nat /\ flash[s].magic < m
  BY DEF Shaped
<1>4. Shaped' /\ flash'[s] = flash[s] /\ flash'[Other(s)].magic = m
      /\ Cells(Other(s))' = Cells(Other(s)) /\ ErasesFirst
  <2>1. flash' = [flash EXCEPT ![Other(s)].magic = m]
    BY <1>1
  <2> HIDE DEF m
  <2> QED
    BY <1>2, <1>3, <2>1, MagicIs
<1> HIDE DEF m
<1>5. ValidEnd(s)' = ValidEnd(s) /\ (Dirty(s)' <=> Dirty(s)) /\ LogOf(s, ValidEnd(s))' = LogOf(s, ValidEnd(s))
  BY <1>4, SectionKept DEF LogOf
<1>6. Output(s, gc.emergency)' = Output(s, e)
  BY <1>1, <1>5 DEF Output
<1>7. Written(Other(s), Output(s, gc.emergency))'
  BY <1>4, <1>6 DEF Written
<1>8. ValidEnd(s) \in 1 .. Capacity + 1
  BY ValidEndIs
<1>9. Copying(s)'
  <2>1. flash'[s].magic > 0 /\ flash'[s].magic < flash'[Other(s)].magic
    BY <1>3, <1>4
  <2>2. gc' = [end |-> ValidEnd(s)', emergency |-> gc'.emergency] /\ (Dirty(s)' => gc'.emergency = FALSE)
    BY <1>1, <1>5
  <2>3. flashWP' \in 1 .. Capacity + 1 /\ \A i \in 1 .. Capacity : ~(i < flashWP')
    BY <1>1, <1>2
  <2> QED
    BY <1>7, <2>1, <2>2, <2>3 DEF Copying
<1>10. gc'.end > 0
  BY <1>1, <1>2, <1>8
<1> QED
  BY <1>1, <1>4, <1>9, <1>10 DEF FsInv

(* A record is written at the end of the log. *)
LEMMA Logs ==
  ASSUME FsInv, InUse, flashWP <= Capacity, NEW r, IsRec(r), Whole(r), Log(r),
         UNCHANGED <<fsSection, gc>>
  PROVE  FsInv' /\ ErasesFirst
<1>1. PICK s \in {0, 1} : /\ fsSection = s /\ Shaped /\ Other(s) \in {0, 1} /\ Other(Other(s)) = s
                          /\ \/ gc = NoGc /\ gc.end = -1 /\ Running(s)
                             \/ gc.end > 0 /\ gc.end = ValidEnd(s) /\ Copying(s)
                             \/ gc.end = 0 /\ Switching(s)
  BY PhasesAre DEF InUse
<1>2. gc = NoGc /\ gc' = NoGc /\ gc.end = -1 /\ fsSection' = s /\ Running(s)
  BY <1>1 DEF InUse, NoGc
<1>3. flash[s].magic > 0 /\ Filled(s, flashWP) /\ Blanked(Other(s))
  BY <1>2 DEF Running
<1>4. Capacity \in Nat
  BY FsAssumption
<1>5. flashWP \in 1 .. Capacity
      /\ \A i \in 1 .. Capacity : IF i < flashWP THEN Whole(Cells(s)[i]) ELSE Cells(s)[i] = Erased
  BY <1>3, <1>4 DEF Filled
<1>6. PICK w \in 1 .. Capacity : w = flashWP
  BY <1>5
<1>7. Cells(s)[w] = Erased
  BY <1>5, <1>6
<1>8. flash' = Programmed(s, w, r) /\ flashWP' = w + 1
  BY <1>1, <1>6 DEF Log
<1>9. /\ Shaped' /\ flash'[Other(s)] = flash[Other(s)] /\ flash'[s].magic = flash[s].magic
      /\ Cells(s)'[w] = r /\ \A i \in 1 .. Capacity : i # w => Cells(s)'[i] = Cells(s)[i]
      /\ ErasesFirst
  BY <1>1, <1>7, <1>8, ProgrammedIs
<1>10. Filled(s, flashWP)'
  <2>1. w + 1 \in 1 .. Capacity + 1
    BY <1>4
  <2>2. ASSUME NEW i \in 1 .. Capacity
        PROVE  IF i < w + 1 THEN Whole(Cells(s)'[i]) ELSE Cells(s)'[i] = Erased
    <3>1. CASE i = w
      BY <1>9, <3>1
    <3>2. CASE i # w
      <4>1. i < w + 1 <=> i < w
        BY <3>2
      <4> QED
        BY <1>5, <1>6, <1>9, <3>2, <4>1
    <3> QED
      BY <3>1, <3>2
  <2> QED
    BY <1>8, <2>1, <2>2 DEF Filled
<1>11. Blanked(Other(s))'
  BY <1>3, <1>9, SectionKept DEF Blanked
<1> QED
  BY <1>2, <1>3, <1>9, <1>10, <1>11, RunsWell

(* fs_smartErase: what is left to do. *)
LEMMA UnwipedIs ==
  ASSUME NEW s \in {0, 1}, Unwiped(s) = {}
  PROVE  Blanked(s)
<1> DEFINE rest == 1 .. Capacity \ FirstPage
<1>1. FirstPage \in Pages /\ rest \in Pages
  BY DEF Pages
<1>2. \A p \in Pages : (\A i \in p : Cells(s)[i] = Erased) /\ (p = FirstPage => flash[s].magic = 0)
  BY DEF Unwiped
<1>3. flash[s].magic = 0 /\ \A i \in FirstPage : Cells(s)[i] = Erased
  BY <1>1, <1>2
<1>4. \A i \in rest : Cells(s)[i] = Erased
  BY <1>1, <1>2
<1>5. \A i \in 1 .. Capacity : i \in FirstPage \/ i \in rest
  OBVIOUS
<1> QED
  BY <1>3, <1>4, <1>5 DEF Blanked

LEMMA WipeIs ==
  ASSUME Shaped, NEW s \in {0, 1}, Wipe(s)
  PROVE  /\ Shaped' /\ flash'[Other(s)] = flash[Other(s)] /\ flash'[s].magic = 0
         /\ ErasesFirst
<1> DEFINE page == IF FirstPage \in Unwiped(s) THEN FirstPage ELSE 1 .. Capacity \ FirstPage
<1>1. flash' = Wiped(s, page)
  BY DEF Wipe
<1>2. page # FirstPage => flash[s].magic = 0
  BY DEF Unwiped, Pages
<1> HIDE DEF page
<1> QED
  BY <1>1, <1>2, WipedIs

(* fs_ck *)
LEMMA Mounts ==
  ASSUME FsInv, Mount
  PROVE  FsInv' /\ ErasesFirst
<1>1. Shaped /\ fsSection = -1 /\ gc = NoGc
      /\ \A s \in {0, 1} : Current = s /\ Dirty(s) => Written(Other(s), Output(s, FALSE))
  BY DEF Mount, FsInv, Stopped
<1>2. CASE Current = -1
  <2>1. flash[0].magic = 0 /\ flash[1].magic = 0
    BY <1>1, <1>2, CurrentIs
  <2>2. ASSUME NEW s \in {0, 1}, Wipe(s), UNCHANGED <<fsSection, gc>>
        PROVE  FsInv' /\ ErasesFirst
    <3>1. Shaped' /\ flash'[Other(s)] = flash[Other(s)] /\ flash'[s].magic = 0 /\ ErasesFirst
      BY <1>1, <2>2, WipeIs
    <3>2. flash'[0].magic = 0 /\ flash'[1].magic = 0
      BY <2>1, <3>1, Sections
    <3>3. Current' = -1
      BY <3>2 DEF Current
    <3>4. Stopped'
      BY <1>1, <2>2, <3>3 DEF Stopped
    <3> QED
      BY <1>1, <2>2, <3>1, <3>4 DEF FsInv
  <2>3. ASSUME Unwiped(0) = {}, Unwiped(1) = {}, flash' = [flash EXCEPT ![0].magic = 1],
               fsSection' = 0, flashWP' = 1, gc' = gc
        PROVE  FsInv' /\ ErasesFirst
    <3>1. Blanked(0) /\ Blanked(1) /\ Other(0) = 1 /\ 0 \in {0, 1} /\ 1 \in Nat /\ Capacity \in Nat
      BY <2>3, UnwipedIs, FsAssumption DEF Other
    <3>2. Shaped' /\ flash'[1] = flash[1] /\ flash'[0].magic = 1 /\ Cells(0)' = Cells(0) /\ ErasesFirst
      BY <1>1, <2>3, <3>1, MagicIs
    <3>3. Filled(0, flashWP)'
      BY <2>3, <3>1, <3>2 DEF Filled, Blanked
    <3>4. Blanked(Other(0))'
      BY <3>1, <3>2, SectionKept DEF Blanked
    <3>5. flash'[0].magic > 0 /\ gc' = NoGc
      BY <1>1, <2>3, <3>2
    <3> QED
      BY <2>3, <3>1, <3>2, <3>3, <3>4, <3>5, RunsWell
  <2> QED
    BY <1>1, <1>2, <2>2, <2>3 DEF Mount
<1>3. CASE Current # -1
  <2>1. PICK s \in {0, 1} : /\ Current = s /\ flash[s].magic > 0
                            /\ flash[Other(s)].magic = 0 \/ flash[s].magic <= flash[Other(s)].magic
    BY <1>1, <1>3, CurrentIs
  <2>2. Other(s) \in {0, 1} /\ Other(Other(s)) = s
    BY Sections
  <2>3. ASSUME Dirty(s), StartGc(s, ValidEnd(s), FALSE)
        PROVE  FsInv' /\ ErasesFirst
    BY <1>1, <2>1, <2>3, StartsGc
  <2>4. ASSUME ~Dirty(s), Wipe(Other(s)), UNCHANGED <<fsSection, gc>>
        PROVE  FsInv' /\ ErasesFirst
    <3>1. Shaped' /\ flash'[s] = flash[s] /\ flash'[Other(s)].magic = 0 /\ ErasesFirst
      BY <1>1, <2>2, <2>4, WipeIs
    <3>2. Current' = s
      BY <2>1, <3>1, CurrentThen
    <3>3. ~Dirty(s)'
      BY <2>4, <3>1, SectionKept
    <3> QED
      BY <1>1, <2>4, <3>1, <3>2, <3>3, StopsWell
  <2>5. ASSUME ~Dirty(s), Unwiped(Other(s)) = {}, fsSection' = s, flashWP' = ValidEnd(s),
               UNCHANGED <<flash, gc>>
        PROVE  FsInv' /\ ErasesFirst
    <3>1. Blanked(Other(s)) /\ Shaped' /\ ErasesFirst
      BY <1>1, <2>2, <2>5, UnwipedIs, FlashKept
    <3>2. Cells(s)' = Cells(s) /\ Cells(Other(s))' = Cells(Other(s))
      BY <2>5 DEF Cells
    <3>3. /\ ValidEnd(s) \in 1 .. Capacity + 1
          /\ \A i \in 1 .. Capacity : i < ValidEnd(s) => Whole(Cells(s)[i])
      BY ValidEndIs
    <3> DEFINE v == ValidEnd(s)
    <3>4. ASSUME NEW i \in 1 .. Capacity, ~(i < v) PROVE Cells(s)[i] = Erased
      <4>1. \A j \in v .. Capacity : Cells(s)[j] = Erased
        BY <2>5 DEF Dirty
      <4>2. v \in 1 .. Capacity + 1 /\ Capacity \in Nat
        BY <3>3, FsAssumption
      <4> HIDE DEF v
      <4>3. i \in v .. Capacity
        BY <3>4, <4>2
      <4> QED
        BY <4>1, <4>3
    <3>5. Filled(s, flashWP)'
      BY <2>5, <3>2, <3>3, <3>4 DEF Filled
    <3>6. Blanked(Other(s))' /\ flash'[s].magic > 0 /\ gc' = NoGc
      BY <1>1, <2>1, <2>5, <3>1, <3>2 DEF Blanked
    <3> QED
      BY <2>5, <3>1, <3>5, <3>6, RunsWell
  <2> QED
    BY <1>3, <2>1, <2>3, <2>4, <2>5 DEF Mount
<1> QED
  BY <1>2, <1>3

(* isFlashFull and the shell ask for a collection. *)
LEMMA Begins ==
  ASSUME FsInv, InUse, NEW e, StartGc(fsSection, flashWP, e)
  PROVE  FsInv' /\ ErasesFirst
<1>1. PICK s \in {0, 1} : /\ fsSection = s /\ Shaped /\ Other(s) \in {0, 1} /\ Other(Other(s)) = s
                          /\ \/ gc = NoGc /\ gc.end = -1 /\ Running(s)
                             \/ gc.end > 0 /\ gc.end = ValidEnd(s) /\ Copying(s)
                             \/ gc.end = 0 /\ Switching(s)
  BY PhasesAre DEF InUse
<1>2. Running(s)
  BY <1>1 DEF InUse, NoGc
<1>3. flash[s].magic > 0 /\ Filled(s, flashWP) /\ Blanked(Other(s))
  BY <1>2 DEF Running
<1>4. ValidEnd(s) = flashWP /\ ~Dirty(s)
  BY <1>3, FilledIs
<1>5. Written(Other(s), Output(s, e))
  BY <1>3 DEF Written, Blanked
<1>6. StartGc(s, ValidEnd(s), e)
  BY <1>1, <1>4
<1> QED
  BY <1>1, <1>3, <1>4, <1>5, <1>6, StartsGc

LEMMA Collecting ==
  ASSUME FsInv, gc.end > 0 \/ gc.end = 0
  PROVE  fsSection # -1
<1>1. fsSection = -1 => gc = NoGc
  BY DEF FsInv, Stopped
<1>2. NoGc.end = -1
  BY DEF NoGc
<1> QED
  BY <1>1, <1>2

(* A collection under way. *)
LEMMA CopyingIs ==
  ASSUME FsInv, fsSection # -1, gc.end > 0
  PROVE  \E s \in {0, 1} :
           /\ fsSection = s /\ Shaped /\ Other(s) \in {0, 1} /\ Other(Other(s)) = s
           /\ gc.end = ValidEnd(s) /\ Copying(s)
           /\ Collected(LogOf(fsSection, gc.end), gc.emergency) = Output(s, gc.emergency)
<1>1. PICK s \in {0, 1} : /\ fsSection = s /\ Shaped /\ Other(s) \in {0, 1} /\ Other(Other(s)) = s
                          /\ \/ gc = NoGc /\ gc.end = -1 /\ Running(s)
                             \/ gc.end > 0 /\ gc.end = ValidEnd(s) /\ Copying(s)
                             \/ gc.end = 0 /\ Switching(s)
  BY PhasesAre
<1> QED
  BY <1>1 DEF Output

(* One record is copied. *)
LEMMA CopiesOne ==
  ASSUME FsInv, GcCopy
  PROVE  FsInv' /\ ErasesFirst
<1>1. gc.end > 0 /\ fsSection # -1
  BY Collecting DEF GcCopy
<1>2. PICK s \in {0, 1} :
        /\ fsSection = s /\ Shaped /\ Other(s) \in {0, 1} /\ Other(Other(s)) = s
        /\ gc.end = ValidEnd(s) /\ Copying(s)
        /\ Collected(LogOf(fsSection, gc.end), gc.emergency) = Output(s, gc.emergency)
  BY <1>1, CopyingIs
<1>3. CASE Restarted
  BY <1>1, <1>3, Restarts DEF Restarted
<1>4. CASE ~Restarted
  <2>1. PICK out : out = Output(s, gc.emergency)
    OBVIOUS
  <2>2. Len(out) \in Nat /\ \A i \in 1 .. Len(out) : IsRec(out[i]) /\ Whole(out[i])
    BY <1>2, <2>1, OutIs
  <2>3. Capacity \in Nat
    BY FsAssumption
  <2>4. /\ flash[s].magic > 0 /\ flash[s].magic < flash[Other(s)].magic
        /\ Dirty(s) => gc.emergency = FALSE
        /\ Written(Other(s), out)
        /\ flashWP \in 1 .. Capacity + 1
        /\ \A i \in 1 .. Capacity : i < flashWP => i <= Len(out) /\ Cells(Other(s))[i] = out[i]
    BY <1>2, <2>1 DEF Copying
  <2>5. /\ flashWP <= Capacity /\ flashWP <= Len(out)
        /\ flash' = Programmed(Other(s), flashWP, out[flashWP])
        /\ flashWP' = flashWP + 1 /\ UNCHANGED <<fsSection, gc>>
    BY <1>2, <1>4, <2>1 DEF GcCopy
  <2>6. PICK w \in 1 .. Capacity : w = flashWP /\ w \in 1 .. Len(out)
    BY <2>2, <2>3, <2>4, <2>5
  <2>7. PICK r : r = out[w] /\ IsRec(r)
    BY <2>2, <2>6
  <2>8. Cells(Other(s))[w] \in {r, Erased, Torn(r)}
    BY <2>4, <2>7 DEF Written
  <2>9. /\ Shaped' /\ flash'[s] = flash[s] /\ flash'[Other(s)].magic = flash[Other(s)].magic
        /\ Cells(Other(s))'[w] = r
        /\ \A i \in 1 .. Capacity : i # w => Cells(Other(s))'[i] = Cells(Other(s))[i]
        /\ ErasesFirst
    <3>1. flash' = Programmed(Other(s), w, r)
      BY <2>5, <2>6, <2>7
    <3> QED
      BY <1>2, <2>7, <2>8, <3>1, ProgrammedIs
  <2>10. /\ ValidEnd(s)' = ValidEnd(s) /\ (Dirty(s)' <=> Dirty(s))
         /\ LogOf(s, ValidEnd(s))' = LogOf(s, ValidEnd(s))
    BY <2>9, SectionKept DEF LogOf
  <2>11. Output(s, gc.emergency)' = out
    BY <2>1, <2>5, <2>10 DEF Output
  <2>12. ASSUME NEW i \in 1 .. Capacity
         PROVE  Cells(Other(s))'[i] = Erased
                \/ (i <= Len(out) /\ Cells(Other(s))'[i] \in {out[i], Torn(out[i])})
    <3>1. CASE i = w
      BY <2>2, <2>6, <2>7, <2>9, <3>1
    <3>2. CASE i # w
      BY <2>4, <2>9, <3>2 DEF Written
    <3> QED
      BY <3>1, <3>2
  <2>13. ASSUME NEW i \in 1 .. Capacity, i < w + 1
         PROVE  i <= Len(out) /\ Cells(Other(s))'[i] = out[i]
    <3>1. CASE i = w
      BY <2>2, <2>6, <2>7, <2>9, <3>1
    <3>2. CASE i # w
      <4>1. i < w
        BY <2>13, <3>2
      <4> QED
        BY <2>4, <2>6, <2>9, <3>2, <4>1
    <3> QED
      BY <3>1, <3>2
  <2>14. Copying(s)'
    <3>1. Written(Other(s), Output(s, gc.emergency))'
      BY <2>11, <2>12 DEF Written
    <3>2. flashWP' \in 1 .. Capacity + 1
      BY <2>3, <2>5, <2>6
    <3>3. \A i \in 1 .. Capacity : i < flashWP' => i <= Len(Output(s, gc.emergency)')
                                                  /\ Cells(Other(s))'[i] = Output(s, gc.emergency)'[i]
      BY <2>5, <2>6, <2>11, <2>13
    <3>4. flash'[s].magic > 0 /\ flash'[s].magic < flash'[Other(s)].magic
      BY <2>4, <2>9
    <3>5. gc' = [end |-> ValidEnd(s)', emergency |-> gc'.emergency] /\ (Dirty(s)' => gc'.emergency = FALSE)
      BY <1>2, <2>4, <2>5, <2>10 DEF Copying
    <3> QED
      BY <3>1, <3>2, <3>3, <3>4, <3>5 DEF Copying
  <2> QED
    BY <1>1, <1>2, <2>5, <2>9, <2>14 DEF FsInv
<1> QED
  BY <1>3, <1>4

(* All records are copied. *)
LEMMA CopiesAll ==
  ASSUME FsInv, GcCopied
  PROVE  FsInv' /\ ErasesFirst
<1>1. gc.end > 0 /\ fsSection # -1
  BY Collecting DEF GcCopied
<1>2. PICK s \in {0, 1} :
        /\ fsSection = s /\ Shaped /\ Other(s) \in {0, 1} /\ Other(Other(s)) = s
        /\ gc.end = ValidEnd(s) /\ Copying(s)
        /\ Collected(LogOf(fsSection, gc.end), gc.emergency) = Output(s, gc.emergency)
  BY <1>1, CopyingIs
<1>3. PICK out : out = Output(s, gc.emergency)
  OBVIOUS
<1>4. Len(out) \in Nat /\ \A i \in 1 .. Len(out) : IsRec(out[i]) /\ Whole(out[i])
  BY <1>2, <1>3, OutIs
<1>5. Capacity \in Nat
  BY FsAssumption
<1>6. /\ flash[s].magic > 0 /\ flash[s].magic < flash[Other(s)].magic
      /\ Written(Other(s), out)
      /\ flashWP \in 1 .. Capacity + 1
      /\ \A i \in 1 .. Capacity : i < flashWP => i <= Len(out) /\ Cells(Other(s))[i] = out[i]
  BY <1>2, <1>3 DEF Copying
<1>7. /\ flashWP > Len(out) /\ flash' = Wiped(s, FirstPage)
      /\ gc' = [gc EXCEPT !.end = 0] /\ UNCHANGED <<fsSection, flashWP>>
  BY <1>2, <1>3 DEF GcCopied
<1>8. /\ Shaped' /\ flash'[Other(s)] = flash[Other(s)] /\ flash'[s].magic = 0
      /\ \A i \in 1 .. Capacity : Cells(s)'[i] = IF i \in FirstPage THEN Erased ELSE Cells(s)[i]
      /\ ErasesFirst
  BY <1>2, <1>7, WipedIs
<1>9. ASSUME NEW i \in 1 .. Capacity
      PROVE  IF i < flashWP THEN Whole(Cells(Other(s))[i]) ELSE Cells(Other(s))[i] = Erased
  <2>1. CASE i < flashWP
    <3>1. i \in 1 .. Len(out) /\ Cells(Other(s))[i] = out[i]
      BY <1>4, <1>6, <2>1
    <3> QED
      BY <1>4, <2>1, <3>1
  <2>2. CASE ~(i < flashWP)
    <3>1. ~(i <= Len(out))
      BY <1>4, <1>6, <1>7, <2>2
    <3> QED
      BY <1>6, <2>2, <3>1 DEF Written
  <2> QED
    BY <2>1, <2>2
<1>10. Filled(Other(s), flashWP)'
  <2>1. Cells(Other(s))' = Cells(Other(s))
    BY <1>8, SectionKept
  <2> QED
    BY <1>6, <1>7, <1>9, <2>1 DEF Filled
<1>11. Switching(s)'
  <2>1. flash'[Other(s)].magic > 0
    <3>1. flash[s].magic \in Nat /\ flash[Other(s)].magic \in Nat
      BY <1>2 DEF Shaped
    <3> QED
      BY <1>6, <1>8, <3>1
  <2>2. \A i \in FirstPage : Cells(s)'[i] = Erased
    BY <1>8, PagesAre
  <2> QED
    BY <1>8, <1>10, <2>1, <2>2 DEF Switching
<1>12. gc'.end = 0
  <2>1. "end" \in DOMAIN gc
    BY <1>2 DEF Copying
  <2> QED
    BY <1>7, <2>1
<1> QED
  BY <1>1, <1>2, <1>7, <1>8, <1>11, <1>12 DEF FsInv

(* The new section becomes current. *)
LEMMA Switches ==
  ASSUME FsInv, GcSwitch
  PROVE  FsInv' /\ ErasesFirst
<1>1. gc.end = 0 /\ fsSection # -1
  BY Collecting DEF GcSwitch
<1>2. PICK s \in {0, 1} : /\ fsSection = s /\ Shaped /\ Other(s) \in {0, 1} /\ Other(Other(s)) = s
                          /\ \/ gc = NoGc /\ gc.end = -1 /\ Running(s)
                             \/ gc.end > 0 /\ gc.end = ValidEnd(s) /\ Copying(s)
                             \/ gc.end = 0 /\ Switching(s)
  BY <1>1, PhasesAre
<1>3. /\ flash[s].magic = 0 /\ flash[Other(s)].magic > 0
      /\ \A i \in FirstPage : Cells(s)[i] = Erased
      /\ Filled(Other(s), flashWP)
  BY <1>1, <1>2 DEF Switching
<1> DEFINE rest == 1 .. Capacity \ FirstPage
<1>4. flash' = Wiped(s, rest) /\ fsSection' = Other(s) /\ gc' = NoGc /\ flashWP' = flashWP
  BY <1>2 DEF GcSwitch
<1>5. rest # FirstPage /\ \A i \in 1 .. Capacity : i \in FirstPage \/ i \in rest
  BY PagesAre
<1> HIDE DEF rest
<1>6. /\ Shaped' /\ flash'[Other(s)] = flash[Other(s)] /\ flash'[s].magic = flash[s].magic
      /\ \A i \in 1 .. Capacity : Cells(s)'[i] = IF i \in rest THEN Erased ELSE Cells(s)[i]
      /\ ErasesFirst
  BY <1>2, <1>4, <1>5, WipedIs
<1>7. Blanked(s)'
  BY <1>3, <1>5, <1>6 DEF Blanked
<1>8. Blanked(Other(Other(s)))'
  BY <1>2, <1>7
<1>9. Filled(Other(s), flashWP)'
  <2>1. Cells(Other(s))' = Cells(Other(s))
    BY <1>6, SectionKept
  <2> QED
    BY <1>3, <1>4, <2>1 DEF Filled
<1> QED
  BY <1>2, <1>3, <1>4, <1>6, <1>8, <1>9, RunsWell

(* The power fails in the middle of a record of the log. *)
LEMMA TearsLog ==
  ASSUME FsInv, fsSection # -1, gc = NoGc, flashWP <= Capacity,
         flash' = Programmed(fsSection, flashWP, Torn(Erased)), fsSection' = -1, gc' = NoGc
  PROVE  FsInv' /\ ErasesFirst
<1>1. PICK s \in {0, 1} : /\ fsSection = s /\ Shaped /\ Other(s) \in {0, 1} /\ Other(Other(s)) = s
                          /\ \/ gc = NoGc /\ gc.end = -1 /\ Running(s)
                             \/ gc.end > 0 /\ gc.end = ValidEnd(s) /\ Copying(s)
                             \/ gc.end = 0 /\ Switching(s)
  BY PhasesAre
<1>2. gc.end = -1
  BY DEF NoGc
<1>3. flash[s].magic > 0 /\ Filled(s, flashWP) /\ Blanked(Other(s))
  BY <1>1, <1>2 DEF Running
<1>4. Capacity \in Nat
  BY FsAssumption
<1>5. PICK w \in 1 .. Capacity : w = flashWP /\ Cells(s)[w] = Erased
  <2>1. flashWP \in 1 .. Capacity
    BY <1>3, <1>4 DEF Filled
  <2> QED
    BY <1>3, <2>1 DEF Filled
<1>6. PICK r : r = Torn(Erased) /\ IsRec(r)
  BY DEF Torn, Erased, Rec, IsRec
<1>7. /\ Shaped' /\ flash'[Other(s)] = flash[Other(s)] /\ flash'[s].magic = flash[s].magic
      /\ ErasesFirst
  <2>1. flash' = Programmed(s, w, r)
    BY <1>1, <1>5, <1>6
  <2> QED
    BY <1>1, <1>5, <1>6, <2>1, ProgrammedIs
<1>8. Current' = s
  BY <1>3, <1>7, CurrentThen DEF Blanked
<1>9. Written(Other(s), Output(s, FALSE))'
  <2>1. Cells(Other(s))' = Cells(Other(s))
    BY <1>7, SectionKept
  <2> QED
    BY <1>3, <2>1 DEF Written, Blanked
<1> QED
  BY <1>1, <1>7, <1>8, <1>9, StopsWell

(* The power fails in the middle of a record that is copied. *)
LEMMA TearsCopy ==
  ASSUME FsInv, fsSection # -1, gc.end > 0, NEW out,
         out = Collected(LogOf(fsSection, gc.end), gc.emergency),
         flashWP <= Len(out), flashWP <= Capacity,
         Cells(Other(fsSection))[flashWP] # out[flashWP],
         flash' = Programmed(Other(fsSection), flashWP, Torn(out[flashWP])),
         fsSection' = -1, gc' = NoGc
  PROVE  FsInv' /\ ErasesFirst
<1>1. PICK s \in {0, 1} :
        /\ fsSection = s /\ Shaped /\ Other(s) \in {0, 1} /\ Other(Other(s)) = s
        /\ gc.end = ValidEnd(s) /\ Copying(s)
        /\ Collected(LogOf(fsSection, gc.end), gc.emergency) = Output(s, gc.emergency)
  BY CopyingIs
<1>2. out = Output(s, gc.emergency)
  BY <1>1
<1>3. Len(out) \in Nat /\ \A i \in 1 .. Len(out) : IsRec(out[i]) /\ Whole(out[i])
  BY <1>1, <1>2, OutIs
<1>4. /\ flash[s].magic > 0 /\ flash[s].magic < flash[Other(s)].magic
      /\ Dirty(s) => gc.emergency = FALSE
      /\ Written(Other(s), out)
      /\ flashWP \in 1 .. Capacity + 1
  BY <1>1, <1>2 DEF Copying
<1>5. PICK w \in 1 .. Capacity : w = flashWP /\ w \in 1 .. Len(out)
  BY <1>3, <1>4, FsAssumption
<1>6. PICK r : r = Torn(out[w]) /\ IsRec(r)
  <2>1. PICK o : o = out[w] /\ o = Rec(o.cmd, o.ino, o.name, o.arg)
    BY <1>3, <1>5 DEF IsRec
  <2>2. Torn(o) = Rec("TORN", o.ino, o.name, o.arg)
    BY <2>1 DEF Torn, Rec
  <2>3. IsRec(Torn(o))
    BY <2>2 DEF IsRec, Rec
  <2> QED
    BY <2>1, <2>3
<1>7. Cells(Other(s))[w] \in {r, Erased, Torn(r)}
  BY <1>1, <1>4, <1>5, <1>6 DEF Written
<1>8. /\ Shaped' /\ flash'[s] = flash[s] /\ flash'[Other(s)].magic = flash[Other(s)].magic
      /\ Cells(Other(s))'[w] = r
      /\ \A i \in 1 .. Capacity : i # w => Cells(Other(s))'[i] = Cells(Other(s))[i]
      /\ ErasesFirst
  <2>1. flash' = Programmed(Other(s), w, r)
    BY <1>1, <1>5, <1>6
  <2> QED
    BY <1>1, <1>6, <1>7, <2>1, ProgrammedIs
<1>9. Current' = s
  BY <1>4, <1>8, CurrentThen
<1>10. ASSUME NEW i \in 1 .. Capacity
       PROVE  Cells(Other(s))'[i] = Erased
              \/ (i <= Len(out) /\ Cells(Other(s))'[i] \in {out[i], Torn(out[i])})
  <2>1. CASE i = w
    BY <1>3, <1>5, <1>6, <1>8, <2>1
  <2>2. CASE i # w
    BY <1>4, <1>8, <2>2 DEF Written
  <2> QED
    BY <2>1, <2>2
<1>11. ASSUME Dirty(s)' PROVE Written(Other(s), Output(s, FALSE))'
  <2>1. Dirty(s) /\ ValidEnd(s)' = ValidEnd(s) /\ LogOf(s, ValidEnd(s))' = LogOf(s, ValidEnd(s))
    BY <1>8, <1>11, SectionKept DEF LogOf
  <2>2. Output(s, FALSE)' = out
    BY <1>2, <1>4, <2>1 DEF Output
  <2> QED
    BY <1>10, <2>2 DEF Written
<1> QED
  BY <1>8, <1>9, <1>11, StopsWell

LEMMA Crashes ==
  ASSUME FsInv, Crash
  PROVE  FsInv' /\ ErasesFirst
<1>1. fsSection # -1 /\ fsSection' = -1 /\ gc' = NoGc
  BY DEF Crash
<1>2. CASE UNCHANGED flash
  BY <1>1, <1>2, Restarts
<1>3. CASE gc = NoGc /\ flashWP <= Capacity /\ flash' = Programmed(fsSection, flashWP, Torn(Erased))
  BY <1>1, <1>3, TearsLog
<1>4. ASSUME gc.end > 0, NEW out, out = Collected(LogOf(fsSection, gc.end), gc.emergency),
             flashWP <= Len(out), flashWP <= Capacity,
             Cells(Other(fsSection))[flashWP] # out[flashWP],
             flash' = Programmed(Other(fsSection), flashWP, Torn(out[flashWP]))
      PROVE  FsInv' /\ ErasesFirst
  BY <1>1, <1>4, TearsCopy
<1> QED
  BY <1>2, <1>3, <1>4 DEF Crash

(* The operations of the clients. *)
LEMMA RecordsAre ==
  ASSUME NEW cmd \in {"FILE", "DATA", "RENAME", "DELETE"}, NEW ino, NEW name, NEW arg
  PROVE  IsRec(Rec(cmd, ino, name, arg)) /\ Whole(Rec(cmd, ino, name, arg))
BY DEF IsRec, Rec, Whole

LEMMA RoomIs ==
  ASSUME FsInv, InUse, ~Full
  PROVE  flashWP <= Capacity
<1>1. PICK s \in {0, 1} : /\ fsSection = s /\ Shaped /\ Other(s) \in {0, 1} /\ Other(Other(s)) = s
                          /\ \/ gc = NoGc /\ gc.end = -1 /\ Running(s)
                             \/ gc.end > 0 /\ gc.end = ValidEnd(s) /\ Copying(s)
                             \/ gc.end = 0 /\ Switching(s)
  BY PhasesAre DEF InUse
<1>2. gc.end = -1
  BY DEF InUse, NoGc
<1>3. flashWP \in 1 .. Capacity + 1
  BY <1>1, <1>2 DEF Running, Filled
<1> QED
  BY <1>3, FsAssumption DEF Full

LEMMA Finishes ==
  ASSUME FsInv, Finish
  PROVE  FsInv' /\ ErasesFirst
<1>1. CASE MakeSpace
  <2>1. InUse /\ gc = NoGc
    BY <1>1 DEF MakeSpace, InUse
  <2>2. CASE call.tries < 2 /\ StartGc(fsSection, flashWP, call.tries = 1)
    BY <2>1, <2>2, Begins
  <2>3. CASE UNCHANGED <<flash, fsSection, flashWP, gc>>
    BY <2>3, Unaffected
  <2> QED
    BY <1>1, <2>2, <2>3 DEF MakeSpace
<1>2. CASE FinishOpen
  <2>1. InUse /\ UNCHANGED <<fsSection, gc>>
    BY <1>2 DEF FinishOpen
  <2>2. CASE UNCHANGED <<flash, flashWP>>
    BY <2>1, <2>2, Unaffected
  <2>3. CASE Log(Rec("FILE", nextIno, auxbuf, stamps.file + 1))
    BY <1>2, <2>1, <2>3, RoomIs, RecordsAre, Logs DEF FinishOpen
  <2> QED
    BY <1>2, <2>2, <2>3 DEF FinishOpen
<1>3. CASE FinishWrite
  <2>1. InUse /\ UNCHANGED <<fsSection, gc>> /\ ~Full
        /\ Log(Rec("DATA", fhTable[call.fd].ino, None, stamps.chunk + 1))
    BY <1>3 DEF FinishWrite
  <2> QED
    BY <2>1, RoomIs, RecordsAre, Logs
<1>4. CASE FinishRename
  <2>1. InUse /\ UNCHANGED <<fsSection, gc>> /\ ~Full
    BY <1>4 DEF FinishRename
  <2>2. CASE UNCHANGED <<flash, flashWP>>
    BY <2>1, <2>2, Unaffected
  <2>3. ASSUME NEW ino, Log(Rec("RENAME", ino, auxbuf, call.to)) PROVE FsInv' /\ ErasesFirst
    BY <2>1, <2>3, RoomIs, RecordsAre, Logs
  <2> QED
    BY <1>4, <2>2, <2>3 DEF FinishRename
<1> QED
  BY <1>1, <1>2, <1>3, <1>4 DEF Finish

LEMMA Serves ==
  ASSUME FsInv, Client
  PROVE  FsInv' /\ ErasesFirst
<1>1. ASSUME NEW c, Call(c) PROVE FsInv' /\ ErasesFirst
  BY <1>1, Unaffected DEF Call
<1>2. ASSUME NEW n, Unlink(n) PROVE FsInv' /\ ErasesFirst
  <2>1. InUse /\ fsSection # -1
    BY <1>2 DEF Unlink, InUse
  <2>2. CASE Restarted
    BY <2>1, <2>2, Restarts DEF Restarted
  <2>3. ASSUME flashWP <= Capacity, NEW ino, Log(Rec("DELETE", ino, n, 0)), UNCHANGED <<fsSection, gc>>
        PROVE  FsInv' /\ ErasesFirst
    BY <2>1, <2>3, RecordsAre, Logs
  <2> QED
    BY <1>2, <2>2, <2>3 DEF Unlink
<1>3. ASSUME NEW n, NEW mode, CallOpen(n, mode) PROVE FsInv' /\ ErasesFirst
  BY <1>1, <1>3 DEF CallOpen
<1>4. ASSUME NEW a, NEW b, CallRename(a, b) PROVE FsInv' /\ ErasesFirst
  BY <1>1, <1>4 DEF CallRename
<1>5. ASSUME NEW f, CallWrite(f) PROVE FsInv' /\ ErasesFirst
  BY <1>1, <1>5 DEF CallWrite
<1>6. ASSUME NEW f, Read(f) \/ Close(f) PROVE FsInv' /\ ErasesFirst
  BY <1>6, Unaffected DEF Read, Close
<1>7. ASSUME NEW e, ShellGc(e) PROVE FsInv' /\ ErasesFirst
  BY <1>7, Begins DEF ShellGc
<1> QED
  BY <1>2, <1>3, <1>4, <1>5, <1>6, <1>7 DEF Client

LEMMA StartsWell == FsInit => FsInv
<1> SUFFICES ASSUME FsInit PROVE FsInv
  OBVIOUS
<1>1. flash = [s \in {0, 1} |-> Blank] /\ fsSection = -1 /\ gc = NoGc
  BY DEF FsInit
<1>2. \A s \in {0, 1} : flash[s].magic = 0 /\ Cells(s) = [i \in 1 .. Capacity |-> Erased]
  BY <1>1 DEF Blank, Cells
<1>3. IsRec(Erased)
  BY DEF IsRec, Erased, Rec
<1>4. Shaped
  <2>1. \A s \in {0, 1} : flash[s] = [magic |-> flash[s].magic, cell |-> Cells(s)]
    BY <1>1, <1>2 DEF Blank
  <2>2. DOMAIN flash = {0, 1} /\ 0 \in Nat
    BY <1>1
  <2>3. ASSUME NEW s \in {0, 1}
        PROVE  /\ Cells(s) = [i \in 1 .. Capacity |-> Cells(s)[i]]
               /\ \A i \in 1 .. Capacity : IsRec(Cells(s)[i])
    <3>1. PICK c : c = Cells(s) /\ c = [i \in 1 .. Capacity |-> Erased]
      BY <1>2
    <3>2. c = [i \in 1 .. Capacity |-> c[i]] /\ \A i \in 1 .. Capacity : IsRec(c[i])
      BY <1>3, <3>1
    <3> QED
      BY <3>1, <3>2
  <2> QED
    BY <1>2, <2>1, <2>2, <2>3 DEF Shaped
<1>5. Current = -1
  BY <1>2 DEF Current
<1>6. Stopped
  BY <1>1, <1>5 DEF Stopped
<1> QED
  BY <1>1, <1>4, <1>6 DEF FsInv

LEMMA StepsWell ==
  ASSUME FsInv, [FsNext]_fsVars
  PROVE  FsInv' /\ ErasesFirst
<1>1. CASE Collect
  BY <1>1, CopiesOne, CopiesAll, Switches DEF Collect
<1>2. CASE UNCHANGED fsVars
  BY <1>2, Unaffected DEF fsVars
<1> QED
  BY <1>1, <1>2, Mounts, Serves, Finishes, Crashes DEF FsNext

(* The two sections of the flash are, whatever happened, in one of the     *)
(* situations fs_ck, fs_gc and the operations count on.                    *)
THEOREM FlashSections == FsSpec => []FsInv
<1>1. FsInv /\ [FsNext]_fsVars => FsInv'
  BY StepsWell
<1> QED
  BY StartsWell, <1>1, PTL DEF FsSpec

(* No cell is programmed that holds something else (wrFlashN).             *)
THEOREM FlashErasedFirst == FsSpec => EraseFirst
<1>1. FsInv /\ [FsNext]_fsVars => [ErasesFirst]_flash
  BY StepsWell
<1>2. FsSpec => [][ErasesFirst]_flash
  BY FlashSections, <1>1, PTL DEF FsSpec
<1> QED
  BY <1>2 DEF EraseFirst, ErasesFirst
=============================================================================
