----------------------------- MODULE ListProofs -----------------------------
(***************************************************************************)
(* Proofs about the linked lists of xq.c (the transmit store TXQ) and of   *)
(* rt.c (the timers), for any number of TX units, any pool size, any data  *)
(* area and any set of timers.                                             *)
(*                                                                         *)
(* The first part is about lists in general: Linked says which sequence    *)
(* the next fields lead through, InsertLinked and RemoveLinked what a list *)
(* is after something was put in or taken out at a link.                   *)
(*                                                                         *)
(* The inductive invariant of the store joins the types of the fields, the *)
(* disjointness of the lists, the emptiness of free jobs and the tiling of *)
(* txdata.  The last two need each other and the first two: commitJob      *)
(* appends a tile to an area it may only use because the head of the free  *)
(* list owns no tile, and freeData closes the gap of exactly one tile      *)
(* because no other tile starts inside it.  That the store implements      *)
(* TxStore needs its lists as sequences: Chain follows the next fields by  *)
(* recursion, and what it returns is fixed by the sequence whose jobs are  *)
(* linked one to the next (ChainIs).                                       *)
(*                                                                         *)
(* The timers are one such list, in the order of the deadlines (TimerInv), *)
(* and that is what makes the first one the next to fire.                  *)
(***************************************************************************)
EXTENDS TxQ, TimerQ, SequenceTheorems, FiniteSetTheorems, NaturalsInduction, TLAPS

(* A set of numbers has a least element. *)
LEMMA Least ==
  ASSUME NEW S \in SUBSET Nat, S # {}
  PROVE  \E m \in S : \A n \in S : m <= n
<1> DEFINE R == OpToRel(<, Nat)
<1>1. IsWellFoundedOn(R, Nat)
  BY NatLessThanWellFounded
<1>2. PICK m \in S : \A n \in S : <<n, m>> \notin R
  <2> HIDE DEF R
  <2> QED
    BY <1>1, WFMin
<1>3. ASSUME NEW n \in S PROVE m <= n
  <2>1. ~(n < m)
    BY <1>2 DEF OpToRel
  <2> QED
    BY <2>1
<1> QED
  BY <1>3

(* Link i and the next fields nx lead through s, a list of members of S     *)
(* without repetition, to the end e.                                        *)
Linked(S, e, i, nx, s) ==
  /\ s \in Seq(S)
  /\ i = IF Len(s) = 0 THEN e ELSE s[1]
  /\ \A n \in 1 .. Len(s) : nx[s[n]] = IF n = Len(s) THEN e ELSE s[n + 1]
  /\ \A m, n \in 1 .. Len(s) : s[m] = s[n] => m = n

Members(s) == {s[n] : n \in 1 .. Len(s)}

PutIn(s, k, x) == SubSeq(s, 1, k) \o <<x>> \o SubSeq(s, k + 1, Len(s))
TakenOut(s, k)     == SubSeq(s, 1, k) \o SubSeq(s, k + 1 + 1, Len(s))

(* The parts of a list before and behind a place. *)
LEMMA Parts ==
  ASSUME NEW S, NEW s \in Seq(S), NEW k \in 0 .. Len(s), NEW m \in 1 .. Len(s) + 1
  PROVE  /\ SubSeq(s, 1, k) \in Seq(S) /\ Len(SubSeq(s, 1, k)) = k
         /\ \A n \in 1 .. k : SubSeq(s, 1, k)[n] = s[n]
         /\ SubSeq(s, m, Len(s)) \in Seq(S) /\ Len(SubSeq(s, m, Len(s))) = Len(s) + 1 - m
         /\ \A n \in 1 .. Len(s) + 1 - m : SubSeq(s, m, Len(s))[n] = s[n + m - 1]
<1>1. Len(s) \in Nat /\ k \in Int /\ m \in Int /\ 1 \in Int /\ Len(s) \in Int
  OBVIOUS
<1>2. \A n \in 1 .. Len(s) : s[n] \in S
  OBVIOUS
<1>3. /\ SubSeq(s, 1, k) \in Seq(S)
      /\ Len(SubSeq(s, 1, k)) = IF 1 <= k THEN k - 1 + 1 ELSE 0
      /\ \A n \in 1 .. k - 1 + 1 : SubSeq(s, 1, k)[n] = s[1 + n - 1]
  <2>1. \A n \in 1 .. k : s[n] \in S
    BY <1>1, <1>2
  <2> QED
    BY <1>1, <2>1, SubSeqProperties
<1>4. /\ SubSeq(s, m, Len(s)) \in Seq(S)
      /\ Len(SubSeq(s, m, Len(s))) = IF m <= Len(s) THEN Len(s) - m + 1 ELSE 0
      /\ \A n \in 1 .. Len(s) - m + 1 : SubSeq(s, m, Len(s))[n] = s[m + n - 1]
  <2>1. \A n \in m .. Len(s) : s[n] \in S
    BY <1>1, <1>2
  <2> QED
    BY <1>1, <2>1, SubSeqProperties
<1>5. \A n \in 1 .. k : SubSeq(s, 1, k)[n] = s[n]
  <2> SUFFICES ASSUME NEW n \in 1 .. k PROVE SubSeq(s, 1, k)[n] = s[n]
    OBVIOUS
  <2>1. n \in 1 .. k - 1 + 1 /\ 1 + n - 1 = n
    BY <1>1
  <2> QED
    BY <1>3, <2>1
<1>6. \A n \in 1 .. Len(s) + 1 - m : SubSeq(s, m, Len(s))[n] = s[n + m - 1]
  <2> SUFFICES ASSUME NEW n \in 1 .. Len(s) + 1 - m PROVE SubSeq(s, m, Len(s))[n] = s[n + m - 1]
    OBVIOUS
  <2>1. n \in 1 .. Len(s) - m + 1 /\ m + n - 1 = n + m - 1
    BY <1>1
  <2> QED
    BY <1>4, <2>1
<1>7. Len(SubSeq(s, 1, k)) = k /\ Len(SubSeq(s, m, Len(s))) = Len(s) + 1 - m
  BY <1>1, <1>3, <1>4
<1> QED
  BY <1>3, <1>4, <1>5, <1>6, <1>7

(* t is s with x behind its first k members. *)
HasPutIn(t, S, s, k, x) ==
  /\ t \in Seq(S) /\ Len(t) = Len(s) + 1
  /\ \A n \in 1 .. Len(s) + 1 : t[n] =
       IF n <= k THEN s[n] ELSE IF n = k + 1 THEN x ELSE s[n - 1]

LEMMA PutInAt ==
  ASSUME NEW S, NEW s \in Seq(S), NEW k \in 0 .. Len(s), NEW x \in S
  PROVE  HasPutIn(PutIn(s, k, x), S, s, k, x)
<1> DEFINE a == SubSeq(s, 1, k)
           b == SubSeq(s, k + 1, Len(s))
<1>1. Len(s) \in Nat /\ k \in Nat /\ k + 1 \in 1 .. Len(s) + 1
  OBVIOUS
<1>2. /\ a \in Seq(S) /\ Len(a) = k /\ \A n \in 1 .. k : a[n] = s[n]
      /\ b \in Seq(S) /\ Len(b) = Len(s) + 1 - (k + 1)
      /\ \A n \in 1 .. Len(s) + 1 - (k + 1) : b[n] = s[n + (k + 1) - 1]
  BY <1>1, Parts, SMTT(30)
<1> HIDE DEF a, b
<1>3. <<x>> \in Seq(S) /\ Len(<<x>>) = 1 /\ <<x>>[1] = x
  OBVIOUS
<1>4. /\ a \o <<x>> \in Seq(S) /\ Len(a \o <<x>>) = k + 1
      /\ \A n \in 1 .. k + 1 : (a \o <<x>>)[n] = IF n <= k THEN a[n] ELSE <<x>>[n - k]
  <2>1. k \in Nat /\ 1 \in Nat /\ a \in Seq(S) /\ <<x>> \in Seq(S) /\ Len(a) = k /\ Len(<<x>>) = 1
    BY <1>1, <1>2, <1>3
  <2>2. /\ a \o <<x>> \in Seq(S) /\ Len(a \o <<x>>) = Len(a) + Len(<<x>>)
        /\ \A n \in 1 .. Len(a) + Len(<<x>>) :
             (a \o <<x>>)[n] = IF n <= Len(a) THEN a[n] ELSE <<x>>[n - Len(a)]
    BY <2>1, ConcatProperties
  <2> QED
    BY <2>1, <2>2
<1>5. /\ (a \o <<x>>) \o b \in Seq(S) /\ Len((a \o <<x>>) \o b) = Len(s) + 1
      /\ \A n \in 1 .. Len(s) + 1 : ((a \o <<x>>) \o b)[n] =
             IF n <= k + 1 THEN (a \o <<x>>)[n] ELSE b[n - (k + 1)]
  <2> DEFINE c == a \o <<x>>
  <2>1. c \in Seq(S) /\ Len(c) = k + 1 /\ k + 1 + Len(b) = Len(s) + 1
    BY <1>1, <1>2, <1>4
  <2> HIDE DEF c
  <2>2. /\ c \o b \in Seq(S) /\ Len(c \o b) = Len(s) + 1
        /\ \A n \in 1 .. Len(s) + 1 : (c \o b)[n] = IF n <= k + 1 THEN c[n] ELSE b[n - (k + 1)]
    <3>1. k + 1 \in Nat /\ Len(s) - k \in Nat /\ Len(b) = Len(s) - k /\ (k + 1) + (Len(s) - k) = Len(s) + 1
      BY <1>1, <1>2
    <3>2. /\ c \o b \in Seq(S) /\ Len(c \o b) = (k + 1) + (Len(s) - k)
          /\ \A n \in 1 .. (k + 1) + (Len(s) - k) :
               (c \o b)[n] = IF n <= k + 1 THEN c[n] ELSE b[n - (k + 1)]
      <4>1. /\ c \o b \in Seq(S) /\ Len(c \o b) = Len(c) + Len(b)
            /\ \A n \in 1 .. Len(c) + Len(b) :
                 (c \o b)[n] = IF n <= Len(c) THEN c[n] ELSE b[n - Len(c)]
        BY <1>2, <2>1, ConcatProperties
      <4> QED
        BY <2>1, <3>1, <4>1
    <3> QED
      BY ONLY <3>1, <3>2
  <2> QED
    BY <2>2 DEF c
<1>6. ASSUME NEW n \in 1 .. Len(s) + 1
      PROVE  ((a \o <<x>>) \o b)[n] = IF n <= k THEN s[n] ELSE IF n = k + 1 THEN x ELSE s[n - 1]
  <2>1. CASE n <= k
    BY <1>1, <1>2, <1>4, <1>5, <2>1
  <2>2. CASE n = k + 1
    <3>1. n - k = 1 /\ n \in 1 .. k + 1 /\ ~(n <= k) /\ n <= k + 1
      BY <1>1, <2>2
    <3>2. ((a \o <<x>>) \o b)[n] = <<x>>[1]
      BY <1>4, <1>5, <3>1
    <3> QED
      BY <1>3, <2>2, <3>1, <3>2
  <2>3. CASE n > k + 1
    <3>1. n - (k + 1) \in 1 .. Len(s) + 1 - (k + 1) /\ (n - (k + 1)) + (k + 1) - 1 = n - 1
          /\ ~(n <= k + 1) /\ ~(n <= k) /\ n # k + 1
      BY <1>1, <2>3
    <3>2. b[n - (k + 1)] = s[(n - (k + 1)) + (k + 1) - 1]
      BY <1>2, <3>1
    <3> QED
      BY <1>5, <3>1, <3>2
  <2>4. n \in Nat /\ (n <= k \/ n = k + 1 \/ n > k + 1)
    BY <1>1
  <2> QED
    BY <2>1, <2>2, <2>3, <2>4
<1>7. PutIn(s, k, x) = (a \o <<x>>) \o b
  BY DEF PutIn, a, b
<1> HIDE DEF a, b
<1> QED
  BY <1>5, <1>6, <1>7 DEF HasPutIn

(* t is s without the member behind its first k. *)
HasTakenOut(t, S, s, k) ==
  /\ t \in Seq(S) /\ Len(t) = Len(s) - 1
  /\ \A n \in 1 .. Len(s) - 1 : t[n] = IF n <= k THEN s[n] ELSE s[n + 1]

LEMMA TakenOutAt ==
  ASSUME NEW S, NEW s \in Seq(S), NEW k \in 0 .. Len(s) - 1
  PROVE  HasTakenOut(TakenOut(s, k), S, s, k)
<1> DEFINE a == SubSeq(s, 1, k)
           b == SubSeq(s, k + 1 + 1, Len(s))
<1>1. Len(s) \in Nat /\ k \in Nat /\ k \in 0 .. Len(s) /\ k + 1 + 1 \in 1 .. Len(s) + 1
  OBVIOUS
<1>2. /\ a \in Seq(S) /\ Len(a) = k /\ \A n \in 1 .. k : a[n] = s[n]
      /\ b \in Seq(S) /\ Len(b) = Len(s) + 1 - (k + 1 + 1)
      /\ \A n \in 1 .. Len(s) + 1 - (k + 1 + 1) : b[n] = s[n + (k + 1 + 1) - 1]
  BY <1>1, Parts
<1> HIDE DEF a, b
<1>3. k + Len(b) = Len(s) - 1
  BY <1>1, <1>2
<1>4. /\ a \o b \in Seq(S) /\ Len(a \o b) = Len(s) - 1
      /\ \A n \in 1 .. Len(s) - 1 : (a \o b)[n] = IF n <= k THEN a[n] ELSE b[n - k]
  <2>1. k \in Nat /\ Len(s) - 1 - k \in Nat /\ Len(b) = Len(s) - 1 - k /\ k + (Len(s) - 1 - k) = Len(s) - 1
    BY <1>1, <1>2
  <2>2. /\ a \o b \in Seq(S) /\ Len(a \o b) = k + (Len(s) - 1 - k)
        /\ \A n \in 1 .. k + (Len(s) - 1 - k) : (a \o b)[n] = IF n <= k THEN a[n] ELSE b[n - k]
    <3>1. /\ a \o b \in Seq(S) /\ Len(a \o b) = Len(a) + Len(b)
          /\ \A n \in 1 .. Len(a) + Len(b) :
               (a \o b)[n] = IF n <= Len(a) THEN a[n] ELSE b[n - Len(a)]
      BY <1>2, ConcatProperties
    <3> QED
      BY <1>2, <2>1, <3>1
  <2> QED
    BY ONLY <2>1, <2>2
<1>5. ASSUME NEW n \in 1 .. Len(s) - 1
      PROVE  (a \o b)[n] = IF n <= k THEN s[n] ELSE s[n + 1]
  <2>1. CASE n <= k
    BY <1>1, <1>2, <1>4, <2>1
  <2>2. CASE n > k
    <3>1. n - k \in 1 .. Len(s) + 1 - (k + 1 + 1) /\ (n - k) + (k + 1 + 1) - 1 = n + 1 /\ ~(n <= k)
      BY <1>1, <2>2
    <3>2. b[n - k] = s[(n - k) + (k + 1 + 1) - 1]
      BY <1>2, <3>1
    <3> QED
      BY <1>4, <3>1, <3>2
  <2>3. n <= k \/ n > k
    BY <1>1
  <2> QED
    BY <2>1, <2>2, <2>3
<1>6. TakenOut(s, k) = a \o b
  BY DEF TakenOut, a, b
<1> HIDE DEF a, b
<1> QED
  BY <1>4, <1>5, <1>6 DEF HasTakenOut

(* A job put into a list behind its first k jobs. *)
LEMMA InsertLinked ==
  ASSUME NEW S, NEW e, NEW i, NEW nx, NEW s, Linked(S, e, i, nx, s), NEW k \in 0 .. Len(s), NEW x \in S,
         \A n \in 1 .. Len(s) : s[n] # x, NEW i2, NEW nx2,
         i2 = IF k = 0 THEN x ELSE i,
         nx2[x] = IF k = 0 THEN i ELSE nx[s[k]],
         k # 0 => nx2[s[k]] = x,
         \A n \in 1 .. Len(s) : n # k => nx2[s[n]] = nx[s[n]]
  PROVE  /\ Linked(S, e, i2, nx2, PutIn(s, k, x))
         /\ Members(PutIn(s, k, x)) = Members(s) \cup {x}
<1> DEFINE t == PutIn(s, k, x)
<1>1. /\ s \in Seq(S) /\ Len(s) \in Nat /\ k \in Nat /\ k <= Len(s)
      /\ i = IF Len(s) = 0 THEN e ELSE s[1]
      /\ \A n \in 1 .. Len(s) : nx[s[n]] = IF n = Len(s) THEN e ELSE s[n + 1]
      /\ \A m, n \in 1 .. Len(s) : s[m] = s[n] => m = n
  BY DEF Linked
<1>2. /\ t \in Seq(S) /\ Len(t) = Len(s) + 1
      /\ \A n \in 1 .. Len(s) + 1 : t[n] =
           IF n <= k THEN s[n] ELSE IF n = k + 1 THEN x ELSE s[n - 1]
  <2>1. s \in Seq(S) /\ k \in 0 .. Len(s) /\ x \in S
    BY <1>1
  <2>2. HasPutIn(t, S, s, k, x)
    BY <2>1, PutInAt
  <2> QED
    BY <2>2 DEF HasPutIn
<1> HIDE DEF t
<1>3. i2 = IF Len(t) = 0 THEN e ELSE t[1]
  BY <1>1, <1>2
<1>4. ASSUME NEW n \in 1 .. Len(t)
      PROVE  nx2[t[n]] = IF n = Len(t) THEN e ELSE t[n + 1]
  <2>1. n \in Nat /\ n >= 1 /\ n <= Len(s) + 1 /\ n \in 1 .. Len(s) + 1
    BY <1>1, <1>2
  <2>2. CASE n < k
    <3>1. n \in 1 .. Len(s) /\ n # k /\ n + 1 \in 1 .. Len(s) + 1 /\ n + 1 <= k /\ n # Len(s)
      BY <1>1, <2>1, <2>2
    <3>2. t[n] = s[n] /\ t[n + 1] = s[n + 1]
      BY <1>2, <2>1, <2>2, <3>1
    <3> QED
      BY <1>1, <1>2, <3>1, <3>2
  <2>3. CASE n = k
    <3>1. k # 0 /\ k + 1 \in 1 .. Len(s) + 1 /\ k \in 1 .. Len(s) + 1 /\ ~(k + 1 <= k) /\ k # Len(s) + 1
      BY <1>1, <2>1, <2>3
    <3>2. t[k] = s[k] /\ t[k + 1] = x
      BY <1>1, <1>2, <3>1
    <3> QED
      BY <1>2, <2>3, <3>1, <3>2
  <2>4. CASE n = k + 1
    <3>1. t[n] = x
      BY <1>1, <1>2, <2>1, <2>4
    <3>2. CASE k = Len(s)
      <4>1. nx2[x] = e
        BY <1>1, <3>2
      <4> QED
        BY <1>2, <2>4, <3>1, <3>2, <4>1
    <3>3. CASE k # Len(s)
      <4>1. k + 1 \in 1 .. Len(s) /\ k + 2 \in 1 .. Len(s) + 1 /\ ~(k + 2 <= k) /\ k + 2 # k + 1
            /\ k + 2 - 1 = k + 1 /\ n + 1 = k + 2 /\ n # Len(t)
        BY <1>1, <1>2, <2>4, <3>3
      <4>2. t[k + 2] = s[k + 1]
        BY <1>2, <4>1
      <4>3. nx2[x] = s[k + 1]
        <5>1. CASE k = 0
          <6>1. k + 1 = 1 /\ Len(s) # 0
            BY <4>1, <5>1
          <6>2. i = s[1] /\ nx2[x] = i
            BY <1>1, <5>1, <6>1
          <6> QED
            BY <6>1, <6>2
        <5>2. CASE k # 0
          <6>1. k \in 1 .. Len(s)
            BY <1>1, <5>2
          <6>2. nx[s[k]] = s[k + 1] /\ nx2[x] = nx[s[k]]
            BY <1>1, <3>3, <5>2, <6>1
          <6> QED
            BY <6>2
        <5> QED
          BY <5>1, <5>2
      <4> QED
        BY <3>1, <4>1, <4>2, <4>3
    <3> QED
      BY <3>2, <3>3
  <2>5. CASE n > k + 1
    <3>1. n - 1 \in 1 .. Len(s) /\ n - 1 # k /\ ~(n <= k) /\ n # k + 1
      BY <1>1, <2>1, <2>5
    <3>2. t[n] = s[n - 1] /\ nx2[s[n - 1]] = nx[s[n - 1]]
      BY <1>2, <2>1, <3>1
    <3>3. CASE n = Len(t)
      BY <1>1, <1>2, <3>1, <3>2, <3>3
    <3>4. CASE n # Len(t)
      <4>1. n + 1 \in 1 .. Len(s) + 1 /\ ~(n + 1 <= k) /\ n + 1 # k + 1 /\ n + 1 - 1 = n
            /\ n - 1 # Len(s) /\ n - 1 + 1 = n
        <5>1. n # Len(s) + 1
          BY <1>2, <3>4
        <5> DEFINE l == Len(s)
        <5>2. l \in Nat /\ k \in Nat /\ n \in Nat /\ n <= l + 1 /\ n > k + 1 /\ n # l + 1
          BY <1>1, <2>1, <2>5, <5>1
        <5> HIDE DEF l
        <5>3. n + 1 \in 1 .. l + 1 /\ ~(n + 1 <= k) /\ n + 1 # k + 1 /\ n + 1 - 1 = n
              /\ n - 1 # l /\ n - 1 + 1 = n
          BY <5>2
        <5> QED
          BY <5>3 DEF l
      <4>2. t[n + 1] = s[n] /\ nx[s[n - 1]] = s[n]
        <5>1. n + 1 \in 1 .. Len(t) /\ t[n + 1] = s[n + 1 - 1]
          BY <1>2, <4>1
        <5>2. nx[s[n - 1]] = s[n - 1 + 1]
          BY <1>1, <3>1, <4>1
        <5> QED
          BY <4>1, <5>1, <5>2
      <4> QED
        BY <3>2, <3>4, <4>2
    <3> QED
      BY <3>3, <3>4
  <2> QED
    BY <1>1, <2>1, <2>2, <2>3, <2>4, <2>5
<1>5. ASSUME NEW m \in 1 .. Len(t), NEW n \in 1 .. Len(t), t[m] = t[n] PROVE m = n
  <2> DEFINE place(q) == IF q <= k THEN q ELSE q - 1
  <2>1. \A q \in 1 .. Len(t) : q # k + 1 => place(q) \in 1 .. Len(s) /\ t[q] = s[place(q)]
    BY <1>1, <1>2
  <2>2. \A q \in 1 .. Len(t) : q = k + 1 => t[q] = x
    BY <1>1, <1>2
  <2>3. m = k + 1 <=> n = k + 1
    <3>1. \A q \in 1 .. Len(t) : q # k + 1 => t[q] # x
      BY <1>1, <2>1
    <3> QED
      BY <1>5, <2>2, <3>1
  <2>4. CASE m # k + 1
    <3>1. place(m) = place(n)
      <4>1. /\ place(m) \in 1 .. Len(s) /\ t[m] = s[place(m)]
            /\ place(n) \in 1 .. Len(s) /\ t[n] = s[place(n)]
        BY <2>1, <2>3, <2>4
      <4>2. s[place(m)] = s[place(n)]
        BY <1>5, <4>1, Zenon
      <4> HIDE DEF place
      <4> QED
        BY <1>1, <4>1, <4>2
    <3> QED
      BY <1>1, <1>2, <2>3, <2>4, <3>1
  <2> QED
    BY <2>3, <2>4
<1>6. Members(t) = Members(s) \cup {x}
  <2>1. ASSUME NEW y \in Members(t) PROVE y \in Members(s) \cup {x}
    <3>1. PICK n \in 1 .. Len(t) : y = t[n]
      BY DEF Members
    <3>2. n \in 1 .. Len(s) + 1 /\ n \in Nat
      BY <1>1, <1>2
    <3>3. CASE n <= k
      <4>1. n \in 1 .. Len(s) /\ t[n] = s[n]
        BY <1>1, <1>2, <3>2, <3>3
      <4> QED
        BY <3>1, <4>1 DEF Members
    <3>4. CASE n = k + 1
      BY <1>1, <1>2, <3>1, <3>2, <3>4
    <3>5. CASE n > k + 1
      <4>1. n - 1 \in 1 .. Len(s) /\ t[n] = s[n - 1]
        BY <1>1, <1>2, <3>2, <3>5
      <4> QED
        BY <3>1, <4>1 DEF Members
    <3> QED
      BY <1>1, <3>2, <3>3, <3>4, <3>5
  <2>2. x \in Members(t)
    <3>1. k + 1 \in 1 .. Len(s) + 1 /\ ~(k + 1 <= k)
      BY <1>1
    <3>2. k + 1 \in 1 .. Len(t) /\ t[k + 1] = x
      BY <1>2, <3>1
    <3> QED
      BY <3>2 DEF Members
  <2>3. ASSUME NEW y \in Members(s) PROVE y \in Members(t)
    <3>1. PICK n \in 1 .. Len(s) : y = s[n]
      BY DEF Members
    <3>2. CASE n <= k
      <4>1. n \in 1 .. Len(t) /\ t[n] = y
        BY <1>1, <1>2, <3>1, <3>2
      <4> QED
        BY <4>1 DEF Members
    <3>3. CASE n > k
      <4>1. n + 1 \in 1 .. Len(t) /\ t[n + 1] = y
        BY <1>1, <1>2, <3>1, <3>3
      <4> QED
        BY <4>1 DEF Members
    <3> QED
      BY <1>1, <3>2, <3>3
  <2> QED
    BY <2>1, <2>2, <2>3
<1>7. Linked(S, e, i2, nx2, t)
  BY <1>2, <1>3, <1>4, <1>5 DEF Linked
<1> QED
  BY <1>6, <1>7 DEF t

(* Link i2 and the fields nx2 pass over the member behind the first k.      *)
PassedOver(i, nx, s, k, i2, nx2) ==
  /\ i2 = IF k = 0 THEN nx[s[1]] ELSE i
  /\ k # 0 => nx2[s[k]] = nx[s[k + 1]]
  /\ \A n \in 1 .. Len(s) : n # k /\ n # k + 1 => nx2[s[n]] = nx[s[n]]

(* The member behind the first k taken out of a list. *)
LEMMA RemoveLinked ==
  ASSUME NEW S, NEW e, NEW i, NEW nx, NEW s, Linked(S, e, i, nx, s), NEW k \in 0 .. Len(s) - 1,
         NEW i2, NEW nx2, PassedOver(i, nx, s, k, i2, nx2)
  PROVE  /\ Linked(S, e, i2, nx2, TakenOut(s, k))
         /\ Members(TakenOut(s, k)) = Members(s) \ {s[k + 1]}
<1> DEFINE t == TakenOut(s, k)
<1>0. /\ i2 = IF k = 0 THEN nx[s[1]] ELSE i
      /\ k # 0 => nx2[s[k]] = nx[s[k + 1]]
      /\ \A n \in 1 .. Len(s) : n # k /\ n # k + 1 => nx2[s[n]] = nx[s[n]]
  BY DEF PassedOver
<1>1. /\ s \in Seq(S) /\ Len(s) \in Nat /\ k \in Nat /\ k + 1 <= Len(s)
      /\ i = IF Len(s) = 0 THEN e ELSE s[1]
      /\ \A n \in 1 .. Len(s) : nx[s[n]] = IF n = Len(s) THEN e ELSE s[n + 1]
      /\ \A m, n \in 1 .. Len(s) : s[m] = s[n] => m = n
  BY DEF Linked
<1>2. /\ t \in Seq(S) /\ Len(t) = Len(s) - 1
      /\ \A n \in 1 .. Len(s) - 1 : t[n] = IF n <= k THEN s[n] ELSE s[n + 1]
  <2>1. s \in Seq(S) /\ k \in 0 .. Len(s) - 1
    BY <1>1
  <2>2. HasTakenOut(t, S, s, k)
    BY <2>1, TakenOutAt
  <2> QED
    BY <2>2 DEF HasTakenOut
<1> HIDE DEF t
<1>3. i2 = IF Len(t) = 0 THEN e ELSE t[1]
  BY <1>0, <1>1, <1>2
<1>4. ASSUME NEW n \in 1 .. Len(t)
      PROVE  nx2[t[n]] = IF n = Len(t) THEN e ELSE t[n + 1]
  <2>1. n \in Nat /\ n >= 1 /\ n <= Len(s) - 1 /\ n \in 1 .. Len(s) - 1
    BY <1>1, <1>2
  <2>2. CASE n < k
    <3>1. n \in 1 .. Len(s) /\ n # k /\ n # k + 1 /\ n + 1 \in 1 .. Len(s) - 1 /\ n + 1 <= k
          /\ n # Len(s) /\ n # Len(s) - 1
      BY <1>1, <2>1, <2>2
    <3>2. t[n] = s[n] /\ t[n + 1] = s[n + 1]
      BY <1>2, <2>1, <2>2, <3>1
    <3> QED
      BY <1>0, <1>1, <1>2, <3>1, <3>2
  <2>3. CASE n = k
    <3>1. k # 0 /\ k + 1 \in 1 .. Len(s) /\ k <= k
      BY <1>1, <2>1, <2>3
    <3>2. t[k] = s[k] /\ nx2[s[k]] = nx[s[k + 1]]
      BY <1>0, <1>1, <1>2, <2>1, <2>3, <3>1
    <3>3. CASE k = Len(s) - 1
      BY <1>1, <1>2, <2>3, <3>1, <3>2, <3>3
    <3>4. CASE k # Len(s) - 1
      <4>1. k + 1 \in 1 .. Len(s) - 1 /\ ~(k + 1 <= k) /\ k + 1 # Len(s)
        BY <1>1, <3>4
      <4> QED
        BY <1>1, <1>2, <2>3, <3>1, <3>2, <3>4, <4>1
    <3> QED
      BY <3>3, <3>4
  <2>4. CASE n > k
    <3>1. n + 1 \in 1 .. Len(s) /\ n + 1 # k /\ n + 1 # k + 1 /\ ~(n <= k)
      BY <1>1, <2>1, <2>4
    <3>2. t[n] = s[n + 1] /\ nx2[s[n + 1]] = nx[s[n + 1]]
      BY <1>0, <1>2, <2>1, <3>1
    <3>3. CASE n = Len(t)
      BY <1>1, <1>2, <3>1, <3>2, <3>3
    <3>4. CASE n # Len(t)
      <4>1. n + 1 \in 1 .. Len(s) - 1 /\ ~(n + 1 <= k) /\ n + 1 # Len(s)
        <5> DEFINE l == Len(s)
        <5>1. l \in Nat /\ k \in Nat /\ n \in 1 .. l - 1 /\ n > k /\ n # l - 1
          BY <1>1, <1>2, <2>1, <2>4, <3>4
        <5> HIDE DEF l
        <5>2. n + 1 \in 1 .. l - 1 /\ ~(n + 1 <= k) /\ n + 1 # l
          BY <5>1
        <5> QED
          BY <5>2 DEF l
      <4>2. t[n + 1] = s[n + 1 + 1] /\ nx[s[n + 1]] = s[n + 1 + 1]
        BY <1>1, <1>2, <3>1, <4>1
      <4> QED
        BY <3>2, <3>4, <4>2
    <3> QED
      BY <3>3, <3>4
  <2> QED
    BY <1>1, <2>1, <2>2, <2>3, <2>4
<1> DEFINE place(q) == IF q <= k THEN q ELSE q + 1
<1>5. \A q \in 1 .. Len(t) : place(q) \in 1 .. Len(s) /\ place(q) # k + 1 /\ t[q] = s[place(q)]
  BY <1>1, <1>2
<1>6. ASSUME NEW m \in 1 .. Len(t), NEW n \in 1 .. Len(t), t[m] = t[n] PROVE m = n
  <2>1. place(m) = place(n)
    BY <1>1, <1>5, <1>6, SMTT(30)
  <2> QED
    BY <1>1, <1>2, <2>1
<1>7. Members(t) = Members(s) \ {s[k + 1]}
  <2>1. ASSUME NEW y \in Members(t) PROVE y \in Members(s) \ {s[k + 1]}
    <3>1. PICK n \in 1 .. Len(t) : y = t[n]
      BY DEF Members
    <3>2. place(n) \in 1 .. Len(s) /\ place(n) # k + 1 /\ y = s[place(n)] /\ k + 1 \in 1 .. Len(s)
      BY <1>1, <1>5, <3>1
    <3> HIDE DEF place
    <3> QED
      BY <1>1, <3>2 DEF Members
  <2>2. ASSUME NEW y \in Members(s), y # s[k + 1] PROVE y \in Members(t)
    <3>1. PICK n \in 1 .. Len(s) : y = s[n] /\ n # k + 1
      BY <2>2 DEF Members
    <3>2. CASE n <= k
      <4>1. n \in 1 .. Len(t) /\ t[n] = y
        BY <1>1, <1>2, <3>1, <3>2
      <4> QED
        BY <4>1 DEF Members
    <3>3. CASE n > k
      <4>1. n - 1 \in 1 .. Len(t) /\ t[n - 1] = y
        BY <1>1, <1>2, <3>1, <3>3
      <4> QED
        BY <4>1 DEF Members
    <3> QED
      BY <1>1, <3>2, <3>3
  <2> QED
    BY <2>1, <2>2
<1>8. Linked(S, e, i2, nx2, t)
  BY <1>2, <1>3, <1>4, <1>6 DEF Linked
<1> QED
  BY <1>7, <1>8 DEF t

LEMMA SameLinked ==
  ASSUME NEW S, NEW e, NEW i, NEW nx, NEW s, Linked(S, e, i, nx, s), NEW nx2,
         \A n \in 1 .. Len(s) : nx2[s[n]] = nx[s[n]]
  PROVE  Linked(S, e, i, nx2, s)
BY DEF Linked
-----------------------------------------------------------------------------
IInv == TypeOK /\ ListsDisjoint /\ FreeHasNoFrame /\ DataTiled

(* An index that is neither NIL nor END is the index of a job. *)
LEMMA IdxCases ==
  ASSUME NEW i \in Idx, i # TXIDX_NIL, i # TXIDX_END
  PROVE  i \in Jobs
BY DEF Idx

LEMMA Constants ==
  /\ TXIDX_NIL \notin Jobs /\ TXIDX_END \notin Jobs /\ TXIDX_NIL # TXIDX_END
  /\ TXOFF_NIL \in Nat /\ U2 \in Nat /\ U2 = TXOFF_NIL + 1
  /\ MaxData \in Nat /\ MaxLen \in Nat /\ MaxData + MaxLen < TXOFF_NIL
  /\ "free" \notin Units /\ "held" \notin Units
BY SizeAssumption, DomainAssumption DEF Jobs, TXIDX_NIL, TXIDX_END, TXOFF_NIL

LEMMA InitIInv == Init => IInv
<1> SUFFICES ASSUME Init PROVE IInv
  OBVIOUS
<1>1. TypeOK
  BY Constants, SizeAssumption DEF Init, TypeOK, Jobs, Idx, TXIDX_NIL, TXIDX_END
<1>2. ListsDisjoint
  BY Constants, SizeAssumption
     DEF Init, ListsDisjoint, Chained, Jobs, TXIDX_NIL, TXIDX_END
<1>3. FreeHasNoFrame
  BY DEF Init, FreeHasNoFrame
<1>4. DataTiled
  BY DEF Init, DataTiled, Filling
<1> QED
  BY <1>1, <1>2, <1>3, <1>4 DEF IInv
-----------------------------------------------------------------------------
(* The length of a frame the engine may write, once it fits, is a length   *)
(* the fields can hold.                                                    *)
LEMMA FrameLen ==
  ASSUME NEW f \in Frame
  PROVE  Len(f) \in 0 .. MaxLen
<1>1. PICK n \in 0 .. MaxLen : f \in [1 .. n -> Byte]
  BY DEF Frame
<1>2. n \in Nat
  BY Constants
<1>3. f \in Seq(Byte) /\ Len(f) = n
  BY <1>1, <1>2
<1> QED
  BY <1>3

LEMMA AbandonIInv ==
  ASSUME IInv, NEW f \in Frame, Abandon(f)
  PROVE  IInv'
<1>1. freeJobs \in Jobs /\ home[freeJobs] = "free" /\ off[freeJobs] = TXOFF_NIL
  BY IdxCases DEF IInv, TypeOK, ListsDisjoint, Chained, FreeHasNoFrame, Abandon
<1>2. TypeOK'
  BY FrameLen, <1>1 DEF IInv, TypeOK, Abandon, lists
<1>3. ListsDisjoint' /\ FreeHasNoFrame'
  BY DEF IInv, ListsDisjoint, FreeHasNoFrame, Chained, Abandon, lists
<1>4. DataTiled'
  <2>1. /\ off' = off /\ txdataInUse' = txdataInUse
        /\ \A j \in Jobs : j # freeJobs => len'[j] = len[j]
    BY <1>1 DEF IInv, TypeOK, Abandon
  <2>2. Filling' = Filling /\ \A j \in Filling : FrameEnd(j)' = FrameEnd(j) /\ Bytes(j)' = Bytes(j)
    BY <1>1, <2>1 DEF Filling, FrameEnd, Bytes
  <2> QED
    BY <2>1, <2>2 DEF IInv, DataTiled, Filling, FrameEnd, Bytes
<1> QED
  BY <1>2, <1>3, <1>4 DEF IInv
-----------------------------------------------------------------------------
(* commitJob takes the head of the free list, which owns no tile, and puts *)
(* its tile behind all others.                                             *)
LEMMA CommitIInv ==
  ASSUME IInv, NEW f \in Frame, Commit(f)
  PROVE  IInv'
<1>1. PICK j \in Jobs : /\ j = freeJobs /\ home[j] = "free" /\ off[j] = TXOFF_NIL
                       /\ next[j] \in Idx /\ next[j] # TXIDX_NIL
  BY IdxCases DEF IInv, TypeOK, ListsDisjoint, Chained, FreeHasNoFrame, Commit
<1>2. Len(f) \in 0 .. MaxLen /\ txdataInUse \in 0 .. MaxData /\ Len(f) <= MaxData - txdataInUse
  BY FrameLen DEF IInv, TypeOK, Commit, Fits
<1>3. TypeOK'
  BY <1>1, <1>2, Constants DEF IInv, TypeOK, Commit, Idx
<1>4. ListsDisjoint'
  BY <1>1, Constants DEF IInv, TypeOK, ListsDisjoint, Chained, Commit
<1>5. FreeHasNoFrame'
  BY <1>1, Constants DEF IInv, TypeOK, FreeHasNoFrame, Commit
<1>6. DataTiled'
  <2>1. /\ off' = [off EXCEPT ![j] = txdataInUse]
        /\ len' = [len EXCEPT ![j] = Len(f)]
        /\ txdataInUse' = txdataInUse + Len(f)
    BY <1>1 DEF Commit
  <2>2. \A k \in Filling : k # j /\ k \in Filling' /\ off'[k] = off[k] /\ len'[k] = len[k]
    BY <1>1, <2>1 DEF Filling, IInv, TypeOK
  <2>3. Filling' \subseteq Filling \cup {j}
    BY <1>1, <2>1 DEF Filling, IInv, TypeOK
  <2>4. off'[j] = txdataInUse /\ len'[j] = Len(f)
    BY <1>1, <2>1 DEF IInv, TypeOK
  <2>5. \A k \in Filling : k \in Jobs /\ off[k] \in Nat /\ len[k] \in Nat
    BY Constants DEF Filling, IInv, TypeOK
  <2>6. \A k \in Filling' : FrameEnd(k)' <= txdataInUse'
    BY <1>2, <2>1, <2>2, <2>3, <2>4, <2>5, Constants DEF IInv, DataTiled, FrameEnd
  <2>7. \A k, m \in Filling' : k # m => (FrameEnd(k) <= off[m] \/ FrameEnd(m) <= off[k])'
    BY <1>2, <2>1, <2>2, <2>3, <2>4, <2>5, Constants, SMTT(30) DEF IInv, DataTiled, FrameEnd
  <2>8. \A a \in 0 .. txdataInUse' - 1 : \E k \in Filling' : a \in Bytes(k)'
    <3> SUFFICES ASSUME NEW a \in 0 .. txdataInUse' - 1
                 PROVE  \E k \in Filling' : a \in Bytes(k)'
      OBVIOUS
    <3>1. CASE a < txdataInUse
      <4>1. PICK k \in Filling : a \in Bytes(k)
        BY <1>2, <2>1, <3>1, Constants DEF IInv, DataTiled
      <4> QED
        BY <4>1, <2>2 DEF Bytes, FrameEnd
    <3>2. CASE a >= txdataInUse
      <4>1. Len(f) > 0 /\ a \in txdataInUse .. txdataInUse + Len(f) - 1
        BY <1>2, <2>1, <3>2, Constants
      <4>2. txdataInUse # TXOFF_NIL
        BY <1>2, Constants
      <4>3. j \in Filling'
        BY <1>1, <2>4, <4>1, <4>2 DEF Filling
      <4>4. a \in off'[j] .. (off'[j] + len'[j]) - 1
        BY <1>2, <2>4, <4>1, Constants
      <4>5. a \in Bytes(j)'
        BY <4>4 DEF Bytes, FrameEnd
      <4> QED
        BY <4>3, <4>5
    <3> QED
      BY <1>2, <3>1, <3>2, <2>1, Constants
  <2> QED
    BY <2>6, <2>7, <2>8 DEF DataTiled
<1> QED
  BY <1>3, <1>4, <1>5, <1>6 DEF IInv
-----------------------------------------------------------------------------
(* The engine moves jobs between lists without touching frames. *)
LEMMA FramesKept ==
  ASSUME FreeHasNoFrame, DataTiled, UNCHANGED frames,
         \A j \in Jobs : home'[j] = "free" => home[j] = "free"
  PROVE  FreeHasNoFrame' /\ DataTiled'
<1>1. FreeHasNoFrame'
  BY DEF FreeHasNoFrame, frames
<1>2. DataTiled'
  BY DEF DataTiled, Filling, Bytes, FrameEnd, frames
<1> QED
  BY <1>1, <1>2

LEMMA InsAtHeadIInv ==
  ASSUME IInv, NEW u \in Units, InsAtHead(u)
  PROVE  IInv'
<1>1. held \in Jobs /\ home[held] = "held" /\ next[held] = TXIDX_NIL /\ u # "free"
  BY Constants DEF IInv, TypeOK, ListsDisjoint, InsAtHead
<1>2. TypeOK'
  BY <1>1, Constants DEF IInv, TypeOK, InsAtHead, frames, Idx
<1>3. ListsDisjoint'
  BY <1>1, Constants DEF IInv, TypeOK, ListsDisjoint, Chained, InsAtHead
<1>4. FreeHasNoFrame' /\ DataTiled'
  BY <1>1, FramesKept DEF IInv, TypeOK, InsAtHead
<1> QED
  BY <1>2, <1>3, <1>4 DEF IInv

LEMMA InsAfterIInv ==
  ASSUME IInv, NEW j \in Jobs, InsAfter(j)
  PROVE  IInv'
<1>1. held \in Jobs /\ home[held] = "held" /\ next[held] = TXIDX_NIL
  BY Constants DEF IInv, TypeOK, ListsDisjoint, InsAfter
<1>2. j # held /\ home[j] # "free" /\ home[j] # "held" /\ next[j] # TXIDX_NIL
  BY <1>1, Constants DEF IInv, TypeOK, ListsDisjoint, InsAfter
<1>3. TypeOK'
  BY <1>1, Constants DEF IInv, TypeOK, InsAfter, frames, Idx
<1>4. ListsDisjoint'
  BY <1>1, <1>2, Constants DEF IInv, TypeOK, ListsDisjoint, Chained, InsAfter
<1>5. FreeHasNoFrame' /\ DataTiled'
  BY <1>1, <1>2, FramesKept DEF IInv, TypeOK, InsAfter
<1> QED
  BY <1>3, <1>4, <1>5 DEF IInv

LEMMA UnqHeadIInv ==
  ASSUME IInv, NEW u \in Units, UnqHead(u)
  PROVE  IInv'
<1>1. head[u] \in Jobs /\ home[head[u]] = u /\ u # "free" /\ u # "held"
  BY IdxCases, Constants DEF IInv, TypeOK, ListsDisjoint, Chained, UnqHead
<1>2. TypeOK'
  BY <1>1, Constants DEF IInv, TypeOK, UnqHead, frames, Idx
<1>3. ListsDisjoint'
  BY <1>1, Constants DEF IInv, TypeOK, ListsDisjoint, Chained, UnqHead
<1>4. FreeHasNoFrame' /\ DataTiled'
  BY <1>1, FramesKept DEF IInv, TypeOK, UnqHead
<1> QED
  BY <1>2, <1>3, <1>4 DEF IInv

LEMMA UnqAfterIInv ==
  ASSUME IInv, NEW j \in Jobs, UnqAfter(j)
  PROVE  IInv'
<1>1. j # held /\ home[j] # "free" /\ home[j] # "held" /\ next[j] # TXIDX_NIL
  BY Constants DEF IInv, TypeOK, ListsDisjoint, UnqAfter
<1>2. next[j] \in Jobs /\ home[next[j]] = home[j]
  BY <1>1, IdxCases DEF IInv, TypeOK, ListsDisjoint, Chained, UnqAfter
<1>3. TypeOK'
  BY <1>1, <1>2, Constants DEF IInv, TypeOK, UnqAfter, frames, Idx
<1>4. ListsDisjoint'
  <2>1. CASE next[j] = j
    BY <1>1, <1>2, <2>1, Constants DEF IInv, TypeOK, ListsDisjoint, Chained, UnqAfter
  <2>2. CASE next[j] # j
    BY <1>1, <1>2, <2>2, Constants DEF IInv, TypeOK, ListsDisjoint, Chained, UnqAfter
  <2> QED
    BY <2>1, <2>2
<1>5. FreeHasNoFrame' /\ DataTiled'
  BY <1>1, <1>2, FramesKept DEF IInv, TypeOK, UnqAfter
<1> QED
  BY <1>3, <1>4, <1>5 DEF IInv
-----------------------------------------------------------------------------
(* Where the other frames are when the frame of job j is cut out of the    *)
(* area: the ones below it stay, the ones above it start at its end or     *)
(* later, so their offsets do not wrap.                                    *)
LEMMA Shift ==
  ASSUME IInv, NEW j \in Filling, NEW k \in Filling, k # j
  PROVE  /\ FrameEnd(j) <= txdataInUse /\ FrameEnd(k) <= txdataInUse
         /\ \/ FrameEnd(k) <= off[j] /\ Shifted(j, k) = off[k]
            \/ FrameEnd(j) <= off[k] /\ Shifted(j, k) = off[k] - len[j]
         /\ Shifted(j, k) \in Nat /\ Shifted(j, k) # TXOFF_NIL
<1>1. /\ j \in Jobs /\ off[j] \in Nat /\ len[j] \in Nat /\ len[j] > 0
      /\ k \in Jobs /\ off[k] \in Nat /\ len[k] \in Nat /\ len[k] > 0 /\ off[k] # TXOFF_NIL
  BY Constants DEF IInv, TypeOK, Filling
<1>2. /\ FrameEnd(j) <= txdataInUse /\ FrameEnd(k) <= txdataInUse
      /\ FrameEnd(j) <= off[k] \/ FrameEnd(k) <= off[j]
  BY DEF IInv, DataTiled
<1>3. txdataInUse \in Nat /\ txdataInUse < TXOFF_NIL
  BY Constants DEF IInv, TypeOK
<1>4. CASE FrameEnd(k) <= off[j]
  <2>1. ~(off[j] <= off[k])
    BY <1>1, <1>4 DEF FrameEnd
  <2>2. Shifted(j, k) = off[k]
    BY <2>1 DEF Shifted
  <2> QED
    BY <1>1, <1>2, <1>4, <2>2
<1>5. CASE FrameEnd(j) <= off[k]
  <2>1. off[j] <= off[k] /\ len[j] <= off[k] /\ off[k] - len[j] \in Nat
        /\ off[k] - len[j] < txdataInUse
    BY <1>1, <1>2, <1>3, <1>5 DEF FrameEnd
  <2>2. Shifted(j, k) = off[k] - len[j]
    BY <1>1, <2>1 DEF Shifted, U2Sub
  <2>3. off[k] - len[j] # TXOFF_NIL
    BY <1>3, <2>1, Constants
  <2> QED
    BY <1>2, <1>5, <2>1, <2>2, <2>3
<1> QED
  BY <1>2, <1>4, <1>5

LEMMA ShiftedType ==
  ASSUME IInv, NEW j \in Jobs, NEW k \in Jobs
  PROVE  Shifted(j, k) \in 0 .. U2 - 1
<1>1. off[k] \in 0 .. U2 - 1 /\ len[j] \in 0 .. MaxLen
  BY DEF IInv, TypeOK
<1> QED
  BY <1>1, Constants DEF Shifted, U2Sub

(* freeData of a job with a frame closes the gap of exactly this frame. *)
LEMMA CutTile ==
  ASSUME IInv, NEW j \in Filling,
         off' = [k \in Jobs |-> IF k = j THEN TXOFF_NIL ELSE Shifted(j, k)],
         txdataInUse' = txdataInUse - len[j],
         len' = [len EXCEPT ![j] = 0]
  PROVE  DataTiled'
<1>1. /\ j \in Jobs /\ off[j] \in Nat /\ len[j] \in Nat /\ len[j] > 0
      /\ FrameEnd(j) <= txdataInUse /\ txdataInUse \in Nat
  BY Constants DEF IInv, TypeOK, Filling, DataTiled
<1>2. \A k \in Filling' : k \in Filling /\ k # j
  BY <1>1 DEF IInv, TypeOK, Filling, Shifted
<1>3. \A k \in Filling : k # j =>
        /\ k \in Filling' /\ len'[k] = len[k] /\ off'[k] = Shifted(j, k)
        /\ off'[k] \in Nat /\ off[k] \in Nat /\ len[k] \in Nat
        /\ FrameEnd(k)' = Shifted(j, k) + len[k]
  BY <1>1, Shift, Constants DEF IInv, TypeOK, Filling, FrameEnd
<1>4. \A k \in Filling' : FrameEnd(k)' <= txdataInUse'
  <2> SUFFICES ASSUME NEW k \in Filling' PROVE FrameEnd(k)' <= txdataInUse'
    OBVIOUS
  <2>1. k \in Filling /\ k # j
    BY <1>2
  <2>2. /\ FrameEnd(k) = off[k] + len[k] /\ FrameEnd(j) = off[j] + len[j]
        /\ FrameEnd(k)' = Shifted(j, k) + len[k]
        /\ off[k] \in Nat /\ len[k] \in Nat
    BY <1>3, <2>1 DEF FrameEnd
  <2>3. /\ FrameEnd(k) <= txdataInUse
        /\ \/ FrameEnd(k) <= off[j] /\ Shifted(j, k) = off[k]
           \/ FrameEnd(j) <= off[k] /\ Shifted(j, k) = off[k] - len[j]
    BY <2>1, Shift
  <2> QED
    BY <1>1, <2>2, <2>3
<1>5. \A k, m \in Filling' : k # m => (FrameEnd(k) <= off[m] \/ FrameEnd(m) <= off[k])'
  <2> SUFFICES ASSUME NEW k \in Filling', NEW m \in Filling', k # m
               PROVE  FrameEnd(k)' <= off'[m] \/ FrameEnd(m)' <= off'[k]
    OBVIOUS
  <2>1. k \in Filling /\ m \in Filling /\ k # j /\ m # j
    BY <1>2
  <2>2. FrameEnd(k) <= off[m] \/ FrameEnd(m) <= off[k]
    BY <2>1 DEF IInv, DataTiled
  <2>3. \/ FrameEnd(k) <= off[j] /\ Shifted(j, k) = off[k]
        \/ FrameEnd(j) <= off[k] /\ Shifted(j, k) = off[k] - len[j]
    BY <2>1, Shift
  <2>4. \/ FrameEnd(m) <= off[j] /\ Shifted(j, m) = off[m]
        \/ FrameEnd(j) <= off[m] /\ Shifted(j, m) = off[m] - len[j]
    BY <2>1, Shift
  <2>5. /\ FrameEnd(k) = off[k] + len[k] /\ FrameEnd(j) = off[j] + len[j]
        /\ FrameEnd(m) = off[m] + len[m]
        /\ FrameEnd(k)' = Shifted(j, k) + len[k] /\ off'[k] = Shifted(j, k)
        /\ FrameEnd(m)' = Shifted(j, m) + len[m] /\ off'[m] = Shifted(j, m)
        /\ off[k] \in Nat /\ len[k] \in Nat /\ off[m] \in Nat /\ len[m] \in Nat
    BY <1>3, <2>1 DEF FrameEnd
  <2> QED
    BY <1>1, <2>2, <2>3, <2>4, <2>5
<1>6. \A a \in 0 .. txdataInUse' - 1 : \E k \in Filling' : a \in Bytes(k)'
  <2> SUFFICES ASSUME NEW a \in 0 .. txdataInUse - len[j] - 1
               PROVE  \E k \in Filling' : a \in Bytes(k)'
    OBVIOUS
  <2> DEFINE b == IF a < off[j] THEN a ELSE a + len[j]
  <2>1. b \in 0 .. txdataInUse - 1
    BY <1>1
  <2>2. PICK k \in Filling : b \in Bytes(k)
    BY <2>1 DEF IInv, DataTiled
  <2>3. k # j
    BY <1>1, <2>2 DEF Bytes, FrameEnd
  <2>4. /\ off[k] \in Nat /\ len[k] \in Nat /\ off[k] <= b /\ b < off[k] + len[k]
    BY <1>3, <2>2, <2>3, <2>1 DEF Bytes, FrameEnd
  <2>5. Shifted(j, k) \in Nat /\ Shifted(j, k) <= a /\ a < Shifted(j, k) + len[k]
    <3>1. /\ \/ off[k] + len[k] <= off[j] /\ Shifted(j, k) = off[k]
             \/ off[j] + len[j] <= off[k] /\ Shifted(j, k) = off[k] - len[j]
          /\ Shifted(j, k) \in Nat
      BY <2>3, Shift DEF FrameEnd
    <3> QED
      BY <1>1, <2>4, <3>1
  <2>6. off'[k] = Shifted(j, k) /\ FrameEnd(k)' = Shifted(j, k) + len[k]
    BY <1>3, <2>3
  <2>7. a \in off'[k] .. FrameEnd(k)' - 1
    BY <1>1, <2>4, <2>5, <2>6
  <2>8. a \in Bytes(k)'
    BY <2>7 DEF Bytes
  <2> QED
    BY <1>3, <2>3, <2>8
<1> QED
  BY <1>4, <1>5, <1>6 DEF DataTiled

LEMMA FreeJobIInv ==
  ASSUME IInv, FreeJob
  PROVE  IInv'
<1>1. PICK j \in Jobs : /\ j = held /\ home[j] = "held" /\ next[j] = TXIDX_NIL
                       /\ home' = [home EXCEPT ![j] = "free"]
  BY DEF IInv, TypeOK, ListsDisjoint, FreeJob
<1>2. FreeData(j)
  BY <1>1 DEF FreeJob
<1>3. next' \in [Jobs -> Idx] /\ freeJobs' \in Idx /\ head' \in [Units -> Idx]
      /\ held' \in Jobs \cup {TXIDX_NIL} /\ home' \in [Jobs -> Units \cup {"free", "held"}]
  BY <1>1 DEF IInv, TypeOK, FreeJob, Idx
<1>4. ListsDisjoint'
  BY <1>1, Constants DEF IInv, TypeOK, ListsDisjoint, Chained, FreeJob
<1>5. CASE off[j] = TXOFF_NIL
  <2>1. UNCHANGED frames
    BY <1>2, <1>5 DEF FreeData
  <2>2. TypeOK'
    BY <1>3, <2>1 DEF IInv, TypeOK, frames
  <2>3. FreeHasNoFrame'
    BY <1>1, <1>5, <2>1 DEF IInv, TypeOK, FreeHasNoFrame, frames
  <2>4. DataTiled'
    BY <2>1 DEF IInv, DataTiled, Filling, Bytes, FrameEnd, frames
  <2> QED
    BY <1>4, <2>2, <2>3, <2>4 DEF IInv
<1>6. CASE off[j] # TXOFF_NIL
  <2>1. /\ off' = [k \in Jobs |-> IF k = j THEN TXOFF_NIL ELSE Shifted(j, k)]
        /\ txdataInUse' = txdataInUse - len[j]
        /\ len' = [len EXCEPT ![j] = 0]
    BY <1>2, <1>6 DEF FreeData
  <2>2. len[j] \in 0 .. MaxLen /\ txdataInUse \in 0 .. MaxData /\ off[j] \in Nat
    BY Constants DEF IInv, TypeOK
  <2>3. FreeHasNoFrame'
    BY <1>1, <2>1 DEF IInv, TypeOK, FreeHasNoFrame, Shifted
  <2>4. DataTiled' /\ txdataInUse' \in 0 .. MaxData
    <3>1. CASE len[j] > 0
      <4>1. j \in Filling
        BY <1>6, <3>1 DEF Filling
      <4>2. FrameEnd(j) <= txdataInUse
        BY <4>1 DEF IInv, DataTiled
      <4>3. DataTiled'
        BY <2>1, <4>1, CutTile
      <4>4. txdataInUse - len[j] \in 0 .. MaxData
        BY <2>2, <4>2, Constants DEF FrameEnd
      <4> QED
        BY <2>1, <4>3, <4>4
    <3>2. CASE len[j] = 0
      <4>1. \A k \in Jobs : off[k] \in Nat /\ len[k] \in Nat
        BY Constants DEF IInv, TypeOK
      <4>2. \A k \in Jobs : Shifted(j, k) = off[k]
        BY <2>2, <3>2, <4>1 DEF Shifted, U2Sub
      <4>3. txdataInUse' = txdataInUse /\ len' = len
        BY <2>1, <2>2, <3>2, Constants DEF IInv, TypeOK
      <4>4. \A k \in Filling : off'[k] = off[k]
        BY <2>1, <3>2, <4>2 DEF Filling
      <4>5. Filling' = Filling
        <5>1. \A k \in Jobs : k # j => off'[k] = off[k]
          BY <2>1, <4>2
        <5>2. \A k \in Jobs : k \in Filling' <=> k \in Filling
          BY <3>2, <4>3, <5>1 DEF Filling
        <5> QED
          BY <5>2 DEF Filling
      <4>6. DataTiled'
        BY <4>3, <4>4, <4>5 DEF IInv, DataTiled, Bytes, FrameEnd
      <4> QED
        BY <2>2, <4>3, <4>6
    <3> QED
      BY <2>2, <3>1, <3>2, Constants
  <2>5. off' \in [Jobs -> 0 .. U2 - 1] /\ len' \in [Jobs -> 0 .. MaxLen]
    BY <2>1, ShiftedType, Constants DEF IInv, TypeOK
  <2> QED
    BY <1>3, <1>4, <2>3, <2>4, <2>5 DEF IInv, TypeOK
<1> QED
  BY <1>5, <1>6
-----------------------------------------------------------------------------
LEMMA NextIInv == IInv /\ [Next]_vars => IInv'
<1> SUFFICES ASSUME IInv, [Next]_vars PROVE IInv'
  OBVIOUS
<1>1. ASSUME NEW f \in Frame, Abandon(f) PROVE IInv'
  BY <1>1, AbandonIInv
<1>2. ASSUME NEW f \in Frame, Commit(f) PROVE IInv'
  BY <1>2, CommitIInv
<1>3. ASSUME NEW u \in Units, InsAtHead(u) PROVE IInv'
  BY <1>3, InsAtHeadIInv
<1>4. ASSUME NEW j \in Jobs, InsAfter(j) PROVE IInv'
  BY <1>4, InsAfterIInv
<1>5. ASSUME NEW u \in Units, UnqHead(u) PROVE IInv'
  BY <1>5, UnqHeadIInv
<1>6. ASSUME NEW j \in Jobs, UnqAfter(j) PROVE IInv'
  BY <1>6, UnqAfterIInv
<1>7. CASE FreeJob
  BY <1>7, FreeJobIInv
<1>8. CASE UNCHANGED vars
  BY <1>8 DEF vars, lists, frames, IInv, TypeOK, ListsDisjoint, Chained, FreeHasNoFrame,
              DataTiled, Filling, Bytes, FrameEnd
<1> QED
  BY <1>1, <1>2, <1>3, <1>4, <1>5, <1>6, <1>7, <1>8 DEF Next

(* The four parts of IInv hold throughout every behaviour. *)
THEOREM Invariance == Spec => []IInv
BY InitIInv, NextIInv, PTL DEF Spec

(* The fields of txq_t stay within the widths xq.h gives them; txdataInUse *)
(* never leaves the area although it is only ever added to and subtracted  *)
(* from (commitJob, freeData).                                             *)
THEOREM Types == Spec => []TypeOK
BY Invariance, PTL DEF IInv

(* Frames of different jobs never share a byte of txdata and no byte in    *)
(* use is lost, however jobs are committed and freed.                      *)
THEOREM Tiling == Spec => []DataTiled
BY Invariance, PTL DEF IInv

(* unqJob, insJob, commitJob and freeJob never tie two lists together. *)
THEOREM Disjointness == Spec => []ListsDisjoint
BY Invariance, PTL DEF IInv

(* The assertions on j->off in reserveJob and commitJob never fail. *)
THEOREM FreeIsClean == Spec => []FreeHasNoFrame
BY Invariance, PTL DEF IInv
-----------------------------------------------------------------------------
(* A job in use never loses its frame: what IInv misses, since an offset   *)
(* may only become TXOFF_NIL by wrapping around when the frame is empty.   *)
InUseHasFrame == \A j \in Jobs : home[j] # "free" /\ len[j] > 0 => off[j] # TXOFF_NIL

LEMMA InUseInit == Init => InUseHasFrame
BY DEF Init, InUseHasFrame

(* What freeData does to another job that carries bytes. *)
LEMMA FreeOther ==
  ASSUME IInv, InUseHasFrame, FreeJob, NEW k \in Jobs, k # held,
         home[k] # "free", len[k] > 0
  PROVE  /\ len'[k] = len[k] /\ off'[k] # TXOFF_NIL
         /\ \/ UNCHANGED frames
            \/ /\ off'[k] = off[k]
               /\ off[held] # TXOFF_NIL /\ len[held] = 0
            \/ /\ off[held] # TXOFF_NIL /\ held \in Filling /\ k \in Filling
               /\ off'[k] = Shifted(held, k)
<1>1. PICK j \in Jobs : j = held
  BY DEF IInv, TypeOK, FreeJob
<1>2. FreeData(j)
  BY <1>1 DEF FreeJob
<1>3. k \in Filling
  BY DEF InUseHasFrame, Filling
<1>4. CASE off[j] = TXOFF_NIL
  <2>1. UNCHANGED frames
    BY <1>2, <1>4 DEF FreeData
  <2> QED
    BY <1>3, <2>1 DEF frames, Filling
<1>5. CASE off[j] # TXOFF_NIL
  <2>1. /\ off' = [m \in Jobs |-> IF m = j THEN TXOFF_NIL ELSE Shifted(j, m)]
        /\ len' = [len EXCEPT ![j] = 0]
    BY <1>2, <1>5 DEF FreeData
  <2>2. len'[k] = len[k] /\ off'[k] = Shifted(j, k)
    BY <1>1, <2>1 DEF IInv, TypeOK
  <2>3. CASE len[j] = 0
    <3>1. Shifted(j, k) = off[k]
      BY <2>3, Constants DEF IInv, TypeOK, Shifted, U2Sub
    <3> QED
      BY <1>1, <1>3, <1>5, <2>2, <2>3, <3>1 DEF Filling
  <2>4. CASE len[j] > 0
    <3>1. j \in Filling
      BY <1>5, <2>4 DEF Filling
    <3>2. Shifted(j, k) # TXOFF_NIL
      BY <1>1, <1>3, <3>1, Shift
    <3> QED
      BY <1>1, <1>3, <1>5, <2>2, <3>1, <3>2
  <2>5. len[j] \in Nat
    BY Constants DEF IInv, TypeOK
  <2> QED
    BY <2>3, <2>4, <2>5
<1> QED
  BY <1>4, <1>5

LEMMA InUseNext == IInv /\ InUseHasFrame /\ [Next]_vars => InUseHasFrame'
<1> SUFFICES ASSUME IInv, InUseHasFrame, [Next]_vars, NEW k \in Jobs,
                    home'[k] # "free", len'[k] > 0
             PROVE  off'[k] # TXOFF_NIL
  BY DEF InUseHasFrame
<1> USE DEF InUseHasFrame
<1>1. ASSUME NEW f \in Frame, Abandon(f) PROVE off'[k] # TXOFF_NIL
  <2>1. freeJobs \in Jobs /\ home[freeJobs] = "free"
    BY <1>1, IdxCases DEF IInv, TypeOK, ListsDisjoint, Chained, Abandon
  <2> QED
    BY <1>1, <2>1 DEF IInv, TypeOK, Abandon, lists
<1>2. ASSUME NEW f \in Frame, Commit(f) PROVE off'[k] # TXOFF_NIL
  <2>1. PICK j \in Jobs : j = freeJobs
    BY <1>2, IdxCases DEF IInv, TypeOK, ListsDisjoint, Commit
  <2>2. CASE k = j
    BY <1>2, <2>1, <2>2, Constants DEF IInv, TypeOK, Commit
  <2>3. CASE k # j
    BY <1>2, <2>1, <2>3 DEF IInv, TypeOK, Commit
  <2> QED
    BY <2>2, <2>3
<1>3. ASSUME NEW u \in Units, InsAtHead(u) PROVE off'[k] # TXOFF_NIL
  BY <1>3, Constants DEF IInv, TypeOK, ListsDisjoint, InsAtHead, frames
<1>4. ASSUME NEW j \in Jobs, InsAfter(j) PROVE off'[k] # TXOFF_NIL
  BY <1>4, Constants DEF IInv, TypeOK, ListsDisjoint, InsAfter, frames
<1>5. ASSUME NEW u \in Units, UnqHead(u) PROVE off'[k] # TXOFF_NIL
  BY <1>5, IdxCases, Constants DEF IInv, TypeOK, ListsDisjoint, Chained, UnqHead, frames
<1>6. ASSUME NEW j \in Jobs, UnqAfter(j) PROVE off'[k] # TXOFF_NIL
  <2>1. next[j] \in Jobs /\ home[next[j]] # "free"
    BY <1>6, IdxCases, Constants DEF IInv, TypeOK, ListsDisjoint, Chained, UnqAfter
  <2> QED
    BY <1>6, <2>1 DEF IInv, TypeOK, UnqAfter, frames
<1>7. CASE FreeJob
  <2>1. k # held /\ home[k] # "free"
    BY <1>7 DEF IInv, TypeOK, FreeJob
  <2>2. len[k] > 0
    BY <1>7, <2>1 DEF IInv, TypeOK, FreeJob, FreeData, frames
  <2> QED
    BY <1>7, <2>1, <2>2, FreeOther
<1>8. CASE UNCHANGED vars
  BY <1>8 DEF vars, lists, frames
<1> QED
  BY <1>1, <1>2, <1>3, <1>4, <1>5, <1>6, <1>7, <1>8 DEF Next
-----------------------------------------------------------------------------
(* A memcpy that copies upwards moves an area down intact. *)
LEMMA CopiedUp ==
  ASSUME Ascending = TRUE, NEW dst, NEW src, NEW n, NEW a \in Addr
  PROVE  Copied(dst, src, n)[a] =
           IF a \in dst .. dst + n - 1 THEN txdata[src + (a - dst)] ELSE txdata[a]
BY DEF Copied

(* The bytes of a job in use lie in txdata. *)
LEMMA InArea ==
  ASSUME IInv, NEW k \in Filling, NEW n \in 1 .. len[k]
  PROVE  off[k] + n - 1 \in Addr /\ off[k] + n - 1 < FrameEnd(k)
<1>1. off[k] \in Nat /\ len[k] \in Nat /\ FrameEnd(k) <= txdataInUse /\ txdataInUse \in 0 .. MaxData
  BY Constants DEF IInv, TypeOK, DataTiled, Filling
<1> QED
  BY <1>1, Constants DEF Addr, FrameEnd

LEMMA SameFrame ==
  ASSUME NEW k \in Jobs, len'[k] = len[k],
         \A n \in 1 .. len[k] : txdata'[off'[k] + n - 1] = txdata[off[k] + n - 1]
  PROVE  FrameOf(k)' = FrameOf(k)
BY DEF FrameOf

LEMMA FreeKeepsFrame ==
  ASSUME IInv, InUseHasFrame, Ascending = TRUE, FreeJob,
         NEW k \in Jobs, home[k] # "free", home'[k] # "free"
  PROVE  FrameOf(k)' = FrameOf(k)
<1>1. PICK j \in Jobs : j = held /\ j # k
  BY DEF IInv, TypeOK, FreeJob
<1>2. FreeData(j)
  BY <1>1 DEF FreeJob
<1>3. len[k] \in Nat /\ len'[k] = len[k]
  BY <1>1, <1>2, Constants DEF IInv, TypeOK, FreeData, frames
<1>4. SUFFICES ASSUME NEW n \in 1 .. len[k]
               PROVE  txdata'[off'[k] + n - 1] = txdata[off[k] + n - 1]
  BY <1>3, SameFrame
<1>5. len[k] > 0 /\ k \in Filling
  BY <1>3 DEF InUseHasFrame, Filling
<1>6. /\ off[k] + n - 1 \in Addr /\ off[k] + n - 1 < FrameEnd(k)
      /\ off[k] \in Nat /\ n \in Nat
  BY <1>3, <1>5, InArea, Constants DEF IInv, TypeOK
<1>7. CASE UNCHANGED frames
  BY <1>7 DEF frames
<1>8. CASE off'[k] = off[k] /\ off[j] # TXOFF_NIL /\ len[j] = 0
  <2>1. FrameEnd(j) = off[j] /\ off[j] \in Nat
    BY <1>8, Constants DEF FrameEnd, IInv, TypeOK
  <2>2. \/ txdata' = txdata
        \/ txdata' = Copied(off[j], off[j], txdataInUse - off[j])
    BY <1>2, <1>8, <2>1 DEF FreeData
  <2>3. Copied(off[j], off[j], txdataInUse - off[j])[off[k] + n - 1] = txdata[off[k] + n - 1]
    <3>1. off[j] + ((off[k] + n - 1) - off[j]) = off[k] + n - 1
      BY <1>6, <2>1
    <3> QED
      BY <1>6, <3>1, CopiedUp
  <2> QED
    BY <1>8, <2>2, <2>3
<1>9. CASE off[j] # TXOFF_NIL /\ j \in Filling /\ off'[k] = Shifted(j, k)
  <2>1. /\ FrameEnd(j) <= txdataInUse /\ FrameEnd(k) <= txdataInUse
        /\ \/ FrameEnd(k) <= off[j] /\ Shifted(j, k) = off[k]
           \/ FrameEnd(j) <= off[k] /\ Shifted(j, k) = off[k] - len[j]
    BY <1>1, <1>5, <1>9, Shift
  <2>2. /\ off[j] \in Nat /\ len[j] \in Nat /\ len[j] > 0 /\ txdataInUse \in 0 .. MaxData
        /\ FrameEnd(j) = off[j] + len[j] /\ FrameEnd(k) = off[k] + len[k]
    BY <1>9, Constants DEF IInv, TypeOK, Filling, FrameEnd
  <2>3. txdata' = IF FrameEnd(j) < txdataInUse
                  THEN Copied(off[j], FrameEnd(j), txdataInUse - FrameEnd(j))
                  ELSE txdata
    BY <1>2, <1>9 DEF FreeData
  <2>4. CASE FrameEnd(k) <= off[j] /\ Shifted(j, k) = off[k]
    <3>1. off[k] + n - 1 < off[j]
      BY <1>3, <1>6, <2>2, <2>4
    <3>2. Copied(off[j], FrameEnd(j), txdataInUse - FrameEnd(j))[off[k] + n - 1]
          = txdata[off[k] + n - 1]
      BY <1>6, <2>2, <3>1, CopiedUp
    <3> QED
      BY <1>9, <2>3, <2>4, <3>2
  <2>5. CASE FrameEnd(j) <= off[k] /\ Shifted(j, k) = off[k] - len[j]
    <3> DEFINE a == off[k] - len[j] + n - 1
    <3>1. /\ a \in off[j] .. off[j] + (txdataInUse - FrameEnd(j)) - 1
          /\ FrameEnd(j) + (a - off[j]) = off[k] + n - 1
          /\ FrameEnd(j) < txdataInUse
      BY <1>3, <1>6, <2>1, <2>2, <2>5
    <3>2. a \in Addr
      <4>1. a \in Nat /\ a < off[k] + n
        BY <1>6, <2>2, <3>1
      <4>2. off[k] + n - 1 < MaxData
        BY <1>6, Constants DEF Addr
      <4> HIDE DEF a
      <4> QED
        BY <1>6, <4>1, <4>2, Constants DEF Addr
    <3>3. Copied(off[j], FrameEnd(j), txdataInUse - FrameEnd(j))[a] = txdata[off[k] + n - 1]
      BY <3>1, <3>2, CopiedUp
    <3> QED
      BY <1>9, <2>3, <2>5, <3>1, <3>3
  <2> QED
    BY <2>1, <2>4, <2>5
<1> QED
  BY <1>1, <1>5, <1>7, <1>8, <1>9, FreeOther

LEMMA NextKeepsFrame ==
  ASSUME IInv, InUseHasFrame, Ascending = TRUE, [Next]_vars,
         NEW k \in Jobs, home[k] # "free", home'[k] # "free"
  PROVE  FrameOf(k)' = FrameOf(k)
<1>1. ASSUME NEW f \in Frame, freeJobs # TXIDX_END, txdata' = Filled(f),
             \A j \in Jobs : j # freeJobs => off'[j] = off[j] /\ len'[j] = len[j]
      PROVE  FrameOf(k)' = FrameOf(k)
  <2>1. k # freeJobs
    BY <1>1, IdxCases DEF IInv, TypeOK, ListsDisjoint, Chained
  <2>2. ASSUME NEW n \in 1 .. len[k]
        PROVE  txdata'[off'[k] + n - 1] = txdata[off[k] + n - 1]
    <3>1. k \in Filling
      BY Constants DEF IInv, TypeOK, InUseHasFrame, Filling
    <3>2. off[k] + n - 1 \in Addr /\ off[k] + n - 1 < FrameEnd(k) /\ FrameEnd(k) <= txdataInUse
      BY <3>1, InArea DEF IInv, DataTiled
    <3>3. off[k] + n - 1 < txdataInUse
      BY <3>1, <3>2, Constants DEF Addr, IInv, TypeOK, FrameEnd
    <3>4. off[k] + n - 1 \notin txdataInUse .. txdataInUse + Len(f) - 1
      BY <3>2, <3>3, Constants DEF IInv, TypeOK, Addr
    <3> QED
      BY <1>1, <2>1, <3>2, <3>4 DEF Filled
  <2> QED
    BY <1>1, <2>1, <2>2, SameFrame
<1>2. ASSUME NEW f \in Frame, Abandon(f) PROVE FrameOf(k)' = FrameOf(k)
  BY <1>1, <1>2 DEF Abandon, IInv, TypeOK
<1>3. ASSUME NEW f \in Frame, Commit(f) PROVE FrameOf(k)' = FrameOf(k)
  BY <1>1, <1>3 DEF Commit, IInv, TypeOK
<1>4. CASE UNCHANGED frames
  BY <1>4 DEF frames, FrameOf
<1>5. CASE FreeJob
  BY <1>5, FreeKeepsFrame
<1> QED
  BY <1>2, <1>3, <1>4, <1>5 DEF Next, InsAtHead, InsAfter, UnqHead, UnqAfter, vars

(* With a memcpy that copies upwards (which C does not promise), the frame *)
(* of a job in use survives every commit, free and compaction unharmed.    *)
THEOREM FramesSurvive == Spec /\ Ascending = TRUE => FramesPreserved
<1> DEFINE Up == Ascending = TRUE
<1>1. IInv /\ InUseHasFrame /\ Up /\ [Next]_vars =>
        [\A j \in Jobs : home[j] # "free" /\ home'[j] # "free"
                          => FrameOf(j)' = FrameOf(j)]_vars
  BY NextKeepsFrame
<1>2. Init => InUseHasFrame
  BY InUseInit
<1>3. IInv /\ InUseHasFrame /\ [Next]_vars => InUseHasFrame'
  BY InUseNext
<1>4. Up => Up'
  OBVIOUS
<1> HIDE DEF Up
<1>5. Spec /\ Up => FramesPreserved
  BY <1>1, <1>2, <1>3, <1>4, Invariance, PTL DEF Spec, FramesPreserved
<1> QED
  BY <1>5 DEF Up
-----------------------------------------------------------------------------
(* A list without repetition is no longer than the pool. *)
LEMMA Fewer ==
  ASSUME NEW s \in Seq(Jobs), \A m, n \in 1 .. Len(s) : s[m] = s[n] => m = n
  PROVE  Len(s) \in 0 .. MaxJobs
<1>1. Len(s) \in Nat /\ MaxJobs \in Nat
  BY SizeAssumption
<1>2. s \in Injection(1 .. Len(s), Jobs)
  BY DEF Injection, IsInjective
<1>3. IsFiniteSet(Jobs) /\ Cardinality(Jobs) = MaxJobs
  BY <1>1, FS_Interval, SizeAssumption DEF Jobs
<1>4. Cardinality(1 .. Len(s)) = Len(s)
  <2>1. 1 \in Int /\ Len(s) \in Int
    BY <1>1
  <2>2. Cardinality(1 .. Len(s)) = IF 1 > Len(s) THEN 0 ELSE Len(s) - 1 + 1
    BY <2>1, FS_Interval, Zenon
  <2> QED
    BY <1>1, <2>2
<1>5. Cardinality(1 .. Len(s)) <= Cardinality(Jobs)
  BY <1>2, <1>3, FS_Injection
<1> QED
  BY <1>1, <1>3, <1>4, <1>5

(* Chain follows the next fields to the end of the list. *)
LEMMA ChainIs ==
  ASSUME NEW i, NEW nx, NEW s, Linked(Jobs, TXIDX_END, i, nx, s)
  PROVE  Chain(i, nx) = s
<1> DEFINE nth[n \in Nat] == IF n = 0 THEN i
                             ELSE LET p == nth[n - 1] IN IF p \in Jobs THEN nx[p] ELSE p
           size == Cardinality({n \in 0 .. MaxJobs : nth[n] \in Jobs})
<1>1. Chain(i, nx) = [n \in 1 .. size |-> nth[n - 1]]
  BY DEF Chain
<1> DEFINE g == [n \in Nat |-> IF n < Len(s) THEN s[n + 1] ELSE TXIDX_END]
<1>2. s \in Seq(Jobs) /\ Len(s) \in 0 .. MaxJobs
  BY Fewer DEF Linked
<1>3. \A n \in Nat : g[n] = IF n = 0 THEN i
                             ELSE IF g[n - 1] \in Jobs THEN nx[g[n - 1]] ELSE g[n - 1]
  BY <1>2, Constants DEF Linked
<1> HIDE DEF g
<1>4. g = [n \in Nat |-> IF n = 0 THEN i
                         ELSE LET p == g[n - 1] IN IF p \in Jobs THEN nx[p] ELSE p]
  BY <1>3 DEF g
<1>5. nth = [n \in Nat |-> IF n = 0 THEN i
                           ELSE LET p == nth[n - 1] IN IF p \in Jobs THEN nx[p] ELSE p]
  BY <1>4
<1> HIDE DEF nth
<1>6. \A n \in Nat : nth[n] = IF n = 0 THEN i
                              ELSE IF nth[n - 1] \in Jobs THEN nx[nth[n - 1]] ELSE nth[n - 1]
  BY <1>5
<1>7. \A n \in Nat : nth[n] = g[n]
  <2> DEFINE T == {n \in Nat : nth[n] # g[n]}
  <2> SUFFICES ASSUME T # {} PROVE FALSE
    OBVIOUS
  <2>1. PICK n \in T : \A k \in T : n <= k
    BY Least
  <2>2. n \in Nat /\ nth[n] # g[n] /\ n # 0
    BY <2>1, <1>3, <1>6
  <2>3. n - 1 \in Nat /\ nth[n - 1] = g[n - 1]
    BY <2>1, <2>2
  <2> QED
    BY <1>3, <1>6, <2>2, <2>3
<1>8. {n \in 0 .. MaxJobs : nth[n] \in Jobs} = 0 .. Len(s) - 1
  <2>1. ASSUME NEW n \in 0 .. MaxJobs PROVE nth[n] \in Jobs <=> n < Len(s)
    <3>1. n \in Nat /\ nth[n] = IF n < Len(s) THEN s[n + 1] ELSE TXIDX_END
      BY <1>7 DEF g
    <3>2. n < Len(s) => s[n + 1] \in Jobs
      BY <1>2, <3>1
    <3> QED
      BY <3>1, <3>2, Constants
  <2> QED
    BY <1>2, <2>1, SizeAssumption
<1>9. size = Len(s)
  <2>1. 0 \in Int /\ Len(s) - 1 \in Int
    BY <1>2
  <2>2. Cardinality(0 .. Len(s) - 1) = IF 0 > Len(s) - 1 THEN 0 ELSE Len(s) - 1 - 0 + 1
    BY <2>1, FS_Interval, Zenon
  <2>3. size = Cardinality(0 .. Len(s) - 1)
    BY <1>8
  <2> HIDE DEF size
  <2> QED
    BY <1>2, <2>2, <2>3
<1>10. \A n \in 1 .. Len(s) : nth[n - 1] = s[n]
  BY <1>2, <1>7 DEF g
<1>11. s = [n \in 1 .. Len(s) |-> s[n]]
  BY <1>2
<1> HIDE DEF size
<1> QED
  BY <1>1, <1>9, <1>10, <1>11
-----------------------------------------------------------------------------
(* The list h starts at link i: it holds the jobs whose home is h. *)
Listed(h, i, nx, hm) ==
  LET s == Chain(i, nx)
  IN  Linked(Jobs, TXIDX_END, i, nx, s) /\ Members(s) = {j \in Jobs : hm[j] = h}

(* Every job is on the list its history names, or held. *)
Census ==
  /\ Listed("free", freeJobs, next, home)
  /\ \A u \in Units : Listed(u, head[u], next, home)

LEMMA ListedBy ==
  ASSUME NEW h, NEW i, NEW nx, NEW hm, NEW s, Linked(Jobs, TXIDX_END, i, nx, s),
         Members(s) = {j \in Jobs : hm[j] = h}
  PROVE  Listed(h, i, nx, hm) /\ Chain(i, nx) = s
BY ChainIs DEF Listed

LEMMA ListOf ==
  ASSUME NEW h, NEW i, NEW nx, NEW hm, Listed(h, i, nx, hm)
  PROVE  /\ Chain(i, nx) \in Seq(Jobs) /\ Len(Chain(i, nx)) \in Nat
         /\ {Chain(i, nx)[n] : n \in DOMAIN Chain(i, nx)} = {j \in Jobs : hm[j] = h}
         /\ \A n \in 1 .. Len(Chain(i, nx)) : Chain(i, nx)[n] \in Jobs /\ hm[Chain(i, nx)[n]] = h
         /\ \A j \in Jobs : hm[j] = h => \E n \in 1 .. Len(Chain(i, nx)) : Chain(i, nx)[n] = j
         /\ \A m, n \in 1 .. Len(Chain(i, nx)) : Chain(i, nx)[m] = Chain(i, nx)[n] => m = n
         /\ i \in Jobs => Len(Chain(i, nx)) # 0 /\ Chain(i, nx)[1] = i
         /\ \A n \in 1 .. Len(Chain(i, nx)) : nx[Chain(i, nx)[n]] =
              IF n = Len(Chain(i, nx)) THEN TXIDX_END ELSE Chain(i, nx)[n + 1]
<1> DEFINE s == Chain(i, nx)
<1>1. Linked(Jobs, TXIDX_END, i, nx, s) /\ Members(s) = {j \in Jobs : hm[j] = h}
  BY DEF Listed
<1> HIDE DEF s
<1>2. s \in Seq(Jobs) /\ Len(s) \in Nat /\ DOMAIN s = 1 .. Len(s)
  BY <1>1 DEF Linked
<1>3. {s[n] : n \in DOMAIN s} = {j \in Jobs : hm[j] = h}
  BY <1>1, <1>2 DEF Members
<1>4. /\ \A n \in 1 .. Len(s) : s[n] \in Jobs /\ hm[s[n]] = h
      /\ \A j \in Jobs : hm[j] = h => \E n \in 1 .. Len(s) : s[n] = j
  BY <1>1 DEF Members
<1>5. /\ \A m, n \in 1 .. Len(s) : s[m] = s[n] => m = n
      /\ i \in Jobs => Len(s) # 0 /\ s[1] = i
      /\ \A n \in 1 .. Len(s) : nx[s[n]] = IF n = Len(s) THEN TXIDX_END ELSE s[n + 1]
  BY <1>1, Constants DEF Linked
<1> QED
  BY <1>2, <1>3, <1>4, <1>5 DEF s

(* A list of which no job is touched. *)
LEMMA SameListed ==
  ASSUME NEW h, NEW i, NEW nx, NEW hm, Listed(h, i, nx, hm), NEW nx2, NEW hm2,
         \A j \in Jobs : hm[j] = h => nx2[j] = nx[j],
         \A j \in Jobs : hm2[j] = h <=> hm[j] = h
  PROVE  Listed(h, i, nx2, hm2) /\ Chain(i, nx2) = Chain(i, nx)
<1> DEFINE s == Chain(i, nx)
<1>1. Linked(Jobs, TXIDX_END, i, nx, s) /\ Members(s) = {j \in Jobs : hm[j] = h}
  BY DEF Listed
<1>2. \A n \in 1 .. Len(s) : nx2[s[n]] = nx[s[n]]
  BY ListOf
<1> HIDE DEF s
<1>3. Linked(Jobs, TXIDX_END, i, nx2, s)
  BY <1>1, <1>2, SameLinked
<1>4. Members(s) = {j \in Jobs : hm2[j] = h}
  BY <1>1
<1> QED
  BY <1>3, <1>4, ListedBy DEF s

LEMMA InsertListed ==
  ASSUME NEW h, NEW i, NEW nx, NEW hm, Listed(h, i, nx, hm),
         NEW k \in 0 .. Len(Chain(i, nx)), NEW x \in Jobs, hm[x] # h, NEW i2, NEW nx2, NEW hm2,
         i2 = IF k = 0 THEN x ELSE i,
         nx2[x] = IF k = 0 THEN i ELSE nx[Chain(i, nx)[k]],
         k # 0 => nx2[Chain(i, nx)[k]] = x,
         \A j \in Jobs : hm[j] = h /\ (k # 0 => j # Chain(i, nx)[k]) => nx2[j] = nx[j],
         \A j \in Jobs : hm2[j] = h <=> hm[j] = h \/ j = x
  PROVE  Listed(h, i2, nx2, hm2) /\ Chain(i2, nx2) = PutIn(Chain(i, nx), k, x)
<1> DEFINE s == Chain(i, nx)
<1>1. Linked(Jobs, TXIDX_END, i, nx, s) /\ Members(s) = {j \in Jobs : hm[j] = h}
  BY DEF Listed
<1>2. /\ \A n \in 1 .. Len(s) : s[n] # x
      /\ Len(s) \in Nat
  BY ListOf
<1>3. \A n \in 1 .. Len(s) : n # k => nx2[s[n]] = nx[s[n]]
  <2> SUFFICES ASSUME NEW n \in 1 .. Len(s), n # k PROVE nx2[s[n]] = nx[s[n]]
    OBVIOUS
  <2>1. s[n] \in Jobs /\ hm[s[n]] = h
    BY ListOf
  <2>2. k # 0 => k \in 1 .. Len(s)
    BY <1>2
  <2>3. k # 0 => s[n] # s[k]
    BY <2>2, ListOf
  <2> QED
    BY <2>1, <2>3
<1>4. k \in 0 .. Len(s) /\ nx2[x] = (IF k = 0 THEN i ELSE nx[s[k]]) /\ (k # 0 => nx2[s[k]] = x)
  OBVIOUS
<1> HIDE DEF s
<1>5. Linked(Jobs, TXIDX_END, i2, nx2, PutIn(s, k, x)) /\ Members(PutIn(s, k, x)) = Members(s) \cup {x}
  BY <1>1, <1>2, <1>3, <1>4, InsertLinked
<1>6. Members(PutIn(s, k, x)) = {j \in Jobs : hm2[j] = h}
  BY <1>1, <1>5
<1> QED
  BY <1>5, <1>6, ListedBy DEF s

LEMMA RemoveListed ==
  ASSUME NEW h, NEW i, NEW nx, NEW hm, Listed(h, i, nx, hm),
         NEW k \in 0 .. Len(Chain(i, nx)) - 1, NEW i2, NEW nx2, NEW hm2,
         i2 = IF k = 0 THEN nx[Chain(i, nx)[1]] ELSE i,
         k # 0 => nx2[Chain(i, nx)[k]] = nx[Chain(i, nx)[k + 1]],
         \A j \in Jobs : hm[j] = h /\ j # Chain(i, nx)[k + 1]
                         /\ (k # 0 => j # Chain(i, nx)[k]) => nx2[j] = nx[j],
         \A j \in Jobs : hm2[j] = h <=> hm[j] = h /\ j # Chain(i, nx)[k + 1]
  PROVE  Listed(h, i2, nx2, hm2) /\ Chain(i2, nx2) = TakenOut(Chain(i, nx), k)
<1> DEFINE s == Chain(i, nx)
<1>1. Linked(Jobs, TXIDX_END, i, nx, s) /\ Members(s) = {j \in Jobs : hm[j] = h}
  BY DEF Listed
<1>2. Len(s) \in Nat /\ k + 1 \in 1 .. Len(s) /\ (k # 0 => k \in 1 .. Len(s))
  BY ListOf
<1>3. \A n \in 1 .. Len(s) : n # k /\ n # k + 1 => nx2[s[n]] = nx[s[n]]
  <2> SUFFICES ASSUME NEW n \in 1 .. Len(s), n # k, n # k + 1 PROVE nx2[s[n]] = nx[s[n]]
    OBVIOUS
  <2>1. s[n] \in Jobs /\ hm[s[n]] = h
    BY ListOf
  <2>2. s[n] # s[k + 1] /\ (k # 0 => s[n] # s[k])
    BY <1>2, ListOf
  <2> QED
    BY <2>1, <2>2
<1>4. /\ k \in 0 .. Len(s) - 1 /\ i2 = (IF k = 0 THEN nx[s[1]] ELSE i)
      /\ k # 0 => nx2[s[k]] = nx[s[k + 1]]
  OBVIOUS
<1>5. \A j \in Jobs : hm2[j] = h <=> hm[j] = h /\ j # s[k + 1]
  OBVIOUS
<1> HIDE DEF s
<1>6. Linked(Jobs, TXIDX_END, i2, nx2, TakenOut(s, k)) /\ Members(TakenOut(s, k)) = Members(s) \ {s[k + 1]}
  <2>1. Linked(Jobs, TXIDX_END, i, nx, s) /\ k \in 0 .. Len(s) - 1
    BY <1>1, <1>4
  <2>2. PassedOver(i, nx, s, k, i2, nx2)
    BY <1>3, <1>4 DEF PassedOver
  <2> QED
    BY <2>1, <2>2, RemoveLinked
<1>7. Members(TakenOut(s, k)) = {j \in Jobs : hm2[j] = h}
  BY <1>1, <1>5, <1>6
<1>8. Linked(Jobs, TXIDX_END, i2, nx2, TakenOut(s, k))
  BY <1>6
<1>9. Listed(h, i2, nx2, hm2) /\ Chain(i2, nx2) = TakenOut(s, k)
  BY ONLY <1>7, <1>8, ListedBy
<1> QED
  BY <1>9 DEF s
-----------------------------------------------------------------------------
(* What a client sees of the store. *)
Free    == {Chain(freeJobs, next)[n] : n \in DOMAIN Chain(freeJobs, next)}
Carried == [j \in Jobs |-> IF home[j] = "free" THEN <<>> ELSE FrameOf(j)]
Queues  == [u \in Units |-> Chain(head[u], next)]

(* The next fields and the homes of job x alone, or of none, have changed. *)
Touches(x, y) ==
  \A j \in Jobs : j # x => home'[j] = home[j] /\ (j # y => next'[j] = next[j])

LEMMA InitCensus == Init => Census
<1> SUFFICES ASSUME Init PROVE Census
  OBVIOUS
<1> DEFINE s == [n \in 1 .. MaxJobs |-> n - 1]
<1>1. MaxJobs \in Nat /\ MaxJobs > 0
  BY SizeAssumption
<1>2. s \in Seq(Jobs) /\ Len(s) = MaxJobs
  BY <1>1 DEF Jobs
<1>3. Linked(Jobs, TXIDX_END, freeJobs, next, s)
  <2>1. freeJobs = s[1] /\ Len(s) # 0
    BY <1>1, <1>2 DEF Init
  <2>2. ASSUME NEW n \in 1 .. Len(s)
        PROVE  next[s[n]] = IF n = Len(s) THEN TXIDX_END ELSE s[n + 1]
    <3>1. n \in 1 .. MaxJobs /\ s[n] = n - 1 /\ n - 1 \in Jobs
      BY <1>1, <1>2 DEF Jobs
    <3>2. next[n - 1] = IF n - 1 = MaxJobs - 1 THEN TXIDX_END ELSE n - 1 + 1
      BY <3>1 DEF Init
    <3>3. n # MaxJobs => s[n + 1] = n
      BY <1>1, <3>1
    <3> HIDE DEF s
    <3> QED
      BY <1>1, <1>2, <3>1, <3>2, <3>3
  <2>3. \A m, n \in 1 .. Len(s) : s[m] = s[n] => m = n
    BY <1>1, <1>2
  <2> HIDE DEF s
  <2> QED
    BY <1>2, <2>1, <2>2, <2>3 DEF Linked
<1>4. Members(s) = {j \in Jobs : home[j] = "free"}
  <2>1. \A j \in Jobs : home[j] = "free" /\ j + 1 \in 1 .. MaxJobs /\ s[j + 1] = j
    BY <1>1 DEF Init, Jobs
  <2> HIDE DEF s
  <2>2. \A n \in 1 .. Len(s) : s[n] \in Jobs
    BY <1>2
  <2> QED
    BY <1>2, <2>1, <2>2 DEF Members
<1>5. ASSUME NEW u \in Units PROVE Listed(u, head[u], next, home) /\ Chain(head[u], next) = <<>>
  <2>1. Linked(Jobs, TXIDX_END, head[u], next, <<>>)
    BY DEF Init, Linked
  <2>2. Members(<<>>) = {j \in Jobs : home[j] = u}
    BY Constants DEF Init, Members
  <2> QED
    BY <2>1, <2>2, ListedBy
<1> HIDE DEF s
<1> QED
  BY <1>3, <1>4, <1>5, ListedBy DEF Census

(* The lists of the other units stay as they are. *)
LEMMA OtherListed ==
  ASSUME Census, NEW x \in Jobs, NEW y, Touches(x, y), NEW u \in Units,
         head'[u] = head[u], home[x] # u, home'[x] # u, y \in Jobs => home[y] # u
  PROVE  Listed(u, head[u], next, home)' /\ Chain(head[u], next)' = Chain(head[u], next)
<1>1. Listed(u, head[u], next, home)
  BY DEF Census
<1>2. /\ \A j \in Jobs : home[j] = u => next'[j] = next[j]
      /\ \A j \in Jobs : home'[j] = u <=> home[j] = u
  BY DEF Touches
<1>3. Listed(u, head[u], next', home') /\ Chain(head[u], next') = Chain(head[u], next)
  BY <1>1, <1>2, SameListed
<1> QED
  BY <1>3

LEMMA FreeListed ==
  ASSUME Census, NEW x \in Jobs, NEW y, Touches(x, y),
         freeJobs' = freeJobs, home[x] # "free", home'[x] # "free", y \in Jobs => home[y] # "free"
  PROVE  Listed("free", freeJobs, next, home)' /\ Free' = Free
<1>1. Listed("free", freeJobs, next, home)
  BY DEF Census
<1>2. /\ \A j \in Jobs : home[j] = "free" => next'[j] = next[j]
      /\ \A j \in Jobs : home'[j] = "free" <=> home[j] = "free"
  BY DEF Touches
<1>3. Listed("free", freeJobs, next', home') /\ Chain(freeJobs, next') = Chain(freeJobs, next)
  BY <1>1, <1>2, SameListed
<1> QED
  BY <1>3 DEF Free
-----------------------------------------------------------------------------
(* commitJob takes the head off the free list. *)
LEMMA CommitMoves ==
  ASSUME IInv, Census, NEW f \in Frame, Commit(f)
  PROVE  Census' /\ freeJobs \in Free /\ Free' = Free \ {freeJobs} /\ Queues' = Queues
<1> DEFINE s == Chain(freeJobs, next)
<1>1. PICK x \in Jobs : x = freeJobs /\ home[x] = "free"
  BY IdxCases DEF IInv, TypeOK, ListsDisjoint, Chained, Commit
<1>2. next'[x] = TXIDX_NIL /\ home'[x] = "held" /\ freeJobs' = next[x] /\ head' = head /\ Touches(x, x)
  BY <1>1 DEF Commit, IInv, TypeOK, Touches
<1>3. Listed("free", freeJobs, next, home)
  BY DEF Census
<1>4. Len(s) \in Nat /\ Len(s) # 0 /\ s[1] = x /\ 0 \in 0 .. Len(s) - 1
  BY <1>1, <1>3, ListOf
<1>5. /\ \A j \in Jobs : home[j] = "free" /\ j # s[0 + 1] => next'[j] = next[j]
      /\ \A j \in Jobs : home'[j] = "free" <=> home[j] = "free" /\ j # s[0 + 1]
  BY <1>1, <1>2, <1>4, Constants DEF Touches
<1>6. freeJobs' = next[s[1]]
  BY <1>2, <1>4
<1>7. Listed("free", freeJobs', next', home')
  BY <1>3, <1>4, <1>5, <1>6, RemoveListed
<1>8. \A u \in Units : Listed(u, head[u], next, home)' /\ Chain(head[u], next)' = Chain(head[u], next)
  BY <1>1, <1>2, Constants, OtherListed
<1>9. Free = {j \in Jobs : home[j] = "free"} /\ Free' = {j \in Jobs : home'[j] = "free"}
  BY <1>3, <1>7, ListOf DEF Free
<1>10. freeJobs \in Free /\ Free' = Free \ {freeJobs}
  BY <1>1, <1>2, <1>9 DEF Touches
<1>11. Queues' = Queues
  BY <1>8 DEF Queues
<1> QED
  BY <1>7, <1>8, <1>10, <1>11 DEF Census

(* freeJob puts the job on the free list. *)
LEMMA FreeMoves ==
  ASSUME IInv, Census, FreeJob
  PROVE  Census' /\ Free' = Free \cup {held} /\ Queues' = Queues
<1> DEFINE s == Chain(freeJobs, next)
<1>1. PICK x \in Jobs : x = held /\ home[x] = "held"
  BY DEF IInv, TypeOK, ListsDisjoint, FreeJob
<1>2. next'[x] = freeJobs /\ home'[x] = "free" /\ freeJobs' = x /\ head' = head /\ Touches(x, x)
  BY <1>1 DEF FreeJob, IInv, TypeOK, Touches
<1>3. Listed("free", freeJobs, next, home) /\ Len(s) \in Nat /\ 0 \in 0 .. Len(s)
  BY ListOf DEF Census
<1>4. /\ \A j \in Jobs : home[j] = "free" => next'[j] = next[j]
      /\ \A j \in Jobs : home'[j] = "free" <=> home[j] = "free" \/ j = x
  BY <1>1, <1>2 DEF Touches
<1>5. Listed("free", freeJobs', next', home')
  BY <1>1, <1>2, <1>3, <1>4, InsertListed
<1>6. \A u \in Units : Listed(u, head[u], next, home)' /\ Chain(head[u], next)' = Chain(head[u], next)
  BY <1>1, <1>2, Constants, OtherListed
<1>7. Free = {j \in Jobs : home[j] = "free"} /\ Free' = {j \in Jobs : home'[j] = "free"}
  BY <1>3, <1>5, ListOf DEF Free
<1>8. Free' = Free \cup {held}
  BY <1>1, <1>2, <1>7 DEF Touches
<1>9. Queues' = Queues
  BY <1>6 DEF Queues
<1> QED
  BY <1>5, <1>6, <1>8, <1>9 DEF Census

(* What follows for all lists from what becomes of the one of unit u. *)
LEMMA OneQueue ==
  ASSUME Census, NEW x \in Jobs, NEW y, Touches(x, y), NEW u \in Units, NEW s,
         y \in Jobs => home[y] = u,
         home[x] \in {u, "held"}, home'[x] \in {u, "held"}, freeJobs' = freeJobs,
         \A w \in Units : w # u => head'[w] = head[w],
         Listed(u, head'[u], next', home'), Chain(head'[u], next') = s
  PROVE  Census' /\ Free' = Free /\ Queues' = [Queues EXCEPT ![u] = s]
<1>1. Listed("free", freeJobs, next, home)' /\ Free' = Free
  BY Constants, FreeListed
<1>2. ASSUME NEW w \in Units, w # u
      PROVE  Listed(w, head[w], next, home)' /\ Chain(head[w], next)' = Chain(head[w], next)
  <2>1. head'[w] = head[w] /\ home[x] # w /\ home'[x] # w /\ (y \in Jobs => home[y] # w)
    BY <1>2, Constants
  <2> QED
    BY <2>1, OtherListed
<1>3. Census'
  BY <1>1, <1>2 DEF Census
<1>4. \A w \in Units : Chain(head'[w], next') = IF w = u THEN s ELSE Chain(head[w], next)
  BY <1>2
<1>5. Queues' = [Queues EXCEPT ![u] = s]
  BY <1>4 DEF Queues
<1> QED
  BY <1>1, <1>3, <1>5

LEMMA InsAtHeadMoves ==
  ASSUME IInv, Census, NEW u \in Units, InsAtHead(u)
  PROVE  /\ Census' /\ Free' = Free
         /\ Queues' = [Queues EXCEPT ![u] = PutIn(Queues[u], 0, held)]
<1> DEFINE s == Chain(head[u], next)
<1>1. PICK x \in Jobs : x = held /\ home[x] = "held"
  BY DEF IInv, TypeOK, ListsDisjoint, InsAtHead
<1>2. next'[x] = head[u] /\ home'[x] = u /\ freeJobs' = freeJobs /\ head'[u] = x /\ Touches(x, x)
      /\ \A w \in Units : w # u => head'[w] = head[w]
  BY <1>1 DEF InsAtHead, IInv, TypeOK, Touches
<1>3. Listed(u, head[u], next, home) /\ Len(s) \in Nat /\ 0 \in 0 .. Len(s) /\ home[x] # u
  BY <1>1, Constants, ListOf DEF Census
<1>4. /\ \A j \in Jobs : home[j] = u => next'[j] = next[j]
      /\ \A j \in Jobs : home'[j] = u <=> home[j] = u \/ j = x
  BY <1>2, <1>3 DEF Touches
<1>5. Listed(u, head'[u], next', home') /\ Chain(head'[u], next') = PutIn(s, 0, x)
  BY <1>2, <1>3, <1>4, InsertListed
<1>6. Touches(x, TXIDX_NIL)
  BY <1>2 DEF Touches
<1>7. /\ Census' /\ Free' = Free
      /\ Queues' = [Queues EXCEPT ![u] = PutIn(s, 0, x)]
  <2> DEFINE t == PutIn(s, 0, x)
  <2>1. Chain(head'[u], next') = t
    BY <1>5
  <2> HIDE DEF t
  <2>2. Census' /\ Free' = Free /\ Queues' = [Queues EXCEPT ![u] = t]
    BY <1>1, <1>2, <1>5, <1>6, <2>1, Constants, OneQueue
  <2> QED
    BY <2>2 DEF t
<1> QED
  BY <1>1, <1>7 DEF Queues

LEMMA InsAfterMoves ==
  ASSUME IInv, Census, NEW j \in Jobs, InsAfter(j)
  PROVE  /\ Census' /\ Free' = Free
         /\ home[j] \in Units
         /\ \E k \in 0 .. Len(Queues[home[j]]) :
              Queues' = [Queues EXCEPT ![home[j]] = PutIn(Queues[home[j]], k, held)]
<1> DEFINE u == home[j]
           s == Chain(head[u], next)
<1>1. PICK x \in Jobs : x = held /\ home[x] = "held"
  BY DEF IInv, TypeOK, ListsDisjoint, InsAfter
<1>2. u \in Units /\ x # j
  BY <1>1, Constants DEF InsAfter
<1>3. /\ next'[x] = next[j] /\ next'[j] = x /\ home'[x] = u /\ freeJobs' = freeJobs
      /\ head' = head /\ Touches(x, j)
  BY <1>1, <1>2 DEF InsAfter, IInv, TypeOK, Touches
<1> HIDE DEF u
<1>4. Listed(u, head[u], next, home) /\ home[x] # u /\ home[j] = u
  BY <1>1, <1>2, Constants DEF Census, u
<1>5. PICK k \in 1 .. Len(s) : s[k] = j
  BY <1>4, ListOf
<1>6. Len(s) \in Nat /\ k \in 0 .. Len(s) /\ k # 0
  BY <1>4, ListOf
<1>7. /\ \A i \in Jobs : home[i] = u /\ i # s[k] => next'[i] = next[i]
      /\ \A i \in Jobs : home'[i] = u <=> home[i] = u \/ i = x
  BY <1>3, <1>4, <1>5 DEF Touches
<1>8. next'[x] = next[s[k]] /\ next'[s[k]] = x /\ head'[u] = head[u]
  BY <1>3, <1>5
<1>9. Listed(u, head'[u], next', home') /\ Chain(head'[u], next') = PutIn(s, k, x)
  BY <1>4, <1>6, <1>7, <1>8, InsertListed
<1>10. Census' /\ Free' = Free /\ Queues' = [Queues EXCEPT ![u] = PutIn(s, k, x)]
  <2> DEFINE t == PutIn(s, k, x)
  <2>1. Chain(head'[u], next') = t
    BY <1>9
  <2>2. home[x] \in {u, "held"} /\ home'[x] \in {u, "held"} /\ \A w \in Units : w # u => head'[w] = head[w]
    BY <1>1, <1>3
  <2> HIDE DEF t
  <2>3. Census' /\ Free' = Free /\ Queues' = [Queues EXCEPT ![u] = t]
    BY <1>2, <1>3, <1>4, <1>9, <2>1, <2>2, OneQueue
  <2> QED
    BY <2>3 DEF t
<1>11. Queues[u] = s
  BY <1>2 DEF Queues
<1> QED
  BY <1>1, <1>2, <1>6, <1>10, <1>11 DEF u

LEMMA UnqHeadMoves ==
  ASSUME IInv, Census, NEW u \in Units, UnqHead(u)
  PROVE  /\ Census' /\ Free' = Free
         /\ 0 \in 0 .. Len(Queues[u]) - 1 /\ held' = Queues[u][0 + 1]
         /\ Queues' = [Queues EXCEPT ![u] = TakenOut(Queues[u], 0)]
<1> DEFINE s == Chain(head[u], next)
<1>1. PICK x \in Jobs : x = head[u] /\ home[x] = u
  BY IdxCases DEF IInv, TypeOK, ListsDisjoint, Chained, UnqHead
<1>2. /\ home'[x] = "held" /\ freeJobs' = freeJobs /\ head'[u] = next[x] /\ Touches(x, TXIDX_NIL)
      /\ held' = x /\ \A w \in Units : w # u => head'[w] = head[w]
  BY <1>1 DEF UnqHead, IInv, TypeOK, Touches
<1>3. Listed(u, head[u], next, home) /\ u # "held"
  BY Constants DEF Census
<1>4. Len(s) \in Nat /\ Len(s) # 0 /\ s[1] = x /\ 0 \in 0 .. Len(s) - 1
  BY <1>1, <1>3, ListOf
<1>5. /\ \A j \in Jobs : home[j] = u /\ j # s[0 + 1] => next'[j] = next[j]
      /\ \A j \in Jobs : home'[j] = u <=> home[j] = u /\ j # s[0 + 1]
  BY <1>1, <1>2, <1>3, <1>4, Constants DEF Touches
<1>6. head'[u] = next[s[1]]
  BY <1>2, <1>4
<1>7. Listed(u, head'[u], next', home') /\ Chain(head'[u], next') = TakenOut(s, 0)
  BY <1>3, <1>4, <1>5, <1>6, RemoveListed, SMTT(30)
<1>8. Census' /\ Free' = Free /\ Queues' = [Queues EXCEPT ![u] = TakenOut(s, 0)]
  <2> DEFINE t == TakenOut(s, 0)
  <2>1. Chain(head'[u], next') = t
    BY <1>7
  <2>2. home[x] \in {u, "held"} /\ home'[x] \in {u, "held"}
    BY <1>1, <1>2
  <2> HIDE DEF t
  <2>3. Census' /\ Free' = Free /\ Queues' = [Queues EXCEPT ![u] = t]
    BY <1>2, <1>7, <2>1, <2>2, Constants, OneQueue
  <2> QED
    BY <2>3 DEF t
<1>9. Queues[u] = s
  BY DEF Queues
<1> QED
  BY <1>2, <1>4, <1>8, <1>9

LEMMA UnqAfterMoves ==
  ASSUME IInv, Census, NEW j \in Jobs, UnqAfter(j)
  PROVE  /\ Census' /\ Free' = Free
         /\ home[j] \in Units
         /\ \E k \in 0 .. Len(Queues[home[j]]) - 1 :
              /\ held' = Queues[home[j]][k + 1]
              /\ Queues' = [Queues EXCEPT ![home[j]] = TakenOut(Queues[home[j]], k)]
<1> DEFINE u == home[j]
           s == Chain(head[u], next)
<1>1. u \in Units /\ u # "held" /\ Listed(u, head[u], next, home)
  BY Constants DEF Census, UnqAfter
<1>2. PICK k \in 1 .. Len(s) : s[k] = j
  BY <1>1, ListOf
<1>3. /\ next[j] = IF k = Len(s) THEN TXIDX_END ELSE s[k + 1]
      /\ Len(s) \in Nat
      /\ \A m, n \in 1 .. Len(s) : s[m] = s[n] => m = n
      /\ \A n \in 1 .. Len(s) : s[n] \in Jobs /\ home[s[n]] = u
  BY <1>1, <1>2, ListOf
<1>4. k # Len(s)
  BY <1>3 DEF UnqAfter
<1>5. k \in 0 .. Len(s) - 1 /\ k # 0 /\ k + 1 \in 1 .. Len(s) /\ k + 1 # k
  BY <1>3, <1>4
<1>6. PICK x \in Jobs : x = s[k + 1] /\ home[x] = u /\ x = next[j] /\ x # j
  BY <1>2, <1>3, <1>4, <1>5
<1>7. /\ home'[x] = "held" /\ freeJobs' = freeJobs /\ head' = head /\ Touches(x, j)
      /\ held' = x /\ next'[j] = next[x]
  BY <1>6 DEF UnqAfter, IInv, TypeOK, Touches
<1>8. home[j] = u
  OBVIOUS
<1> HIDE DEF u
<1>9. /\ \A i \in Jobs : home[i] = u /\ i # s[k + 1] /\ i # s[k] => next'[i] = next[i]
      /\ \A i \in Jobs : home'[i] = u <=> home[i] = u /\ i # s[k + 1]
  BY <1>1, <1>2, <1>6, <1>7 DEF Touches
<1>10. next'[s[k]] = next[s[k + 1]] /\ head'[u] = head[u]
  BY <1>2, <1>6, <1>7
<1>11. Listed(u, head'[u], next', home') /\ Chain(head'[u], next') = TakenOut(s, k)
  BY <1>1, <1>5, <1>9, <1>10, RemoveListed
<1>12. Census' /\ Free' = Free /\ Queues' = [Queues EXCEPT ![u] = TakenOut(s, k)]
  <2> DEFINE t == TakenOut(s, k)
  <2>1. Chain(head'[u], next') = t
    BY <1>11
  <2>2. home[x] \in {u, "held"} /\ home'[x] \in {u, "held"} /\ \A w \in Units : w # u => head'[w] = head[w]
    BY <1>6, <1>7
  <2> HIDE DEF t
  <2>3. Census' /\ Free' = Free /\ Queues' = [Queues EXCEPT ![u] = t]
    BY <1>1, <1>7, <1>8, <1>11, <2>1, <2>2, OneQueue
  <2> QED
    BY <2>3 DEF t
<1>13. Queues[u] = s
  BY <1>1 DEF Queues
<1> QED
  BY <1>1, <1>5, <1>6, <1>7, <1>12, <1>13 DEF u
-----------------------------------------------------------------------------
(* The frame taken in is the one the client has written. *)
LEMMA FrameTaken ==
  ASSUME IInv, NEW f \in Frame, Commit(f)
  PROVE  /\ f \in Seq(Byte)
         /\ \A j \in Jobs : j = freeJobs =>
              /\ home[j] = "free" /\ home'[j] = "held"
              /\ [n \in 1 .. len'[j] |-> txdata'[off'[j] + n - 1]] = f
<1>1. PICK n \in 0 .. MaxLen : f \in [1 .. n -> Byte]
  BY DEF Frame
<1>2. n \in Nat /\ f \in Seq(Byte) /\ Len(f) = n /\ txdataInUse \in 0 .. MaxData /\ n <= MaxData - txdataInUse
  BY <1>1, Constants DEF IInv, TypeOK, Commit, Fits
<1>3. PICK j \in Jobs : /\ j = freeJobs /\ home[j] = "free" /\ home'[j] = "held"
                        /\ len'[j] = n /\ off'[j] = txdataInUse /\ txdata' = Filled(f)
  BY <1>2, IdxCases DEF IInv, TypeOK, ListsDisjoint, Chained, Commit
<1>4. \A i \in 1 .. n : txdata'[txdataInUse + i - 1] = f[i]
  <2> SUFFICES ASSUME NEW i \in 1 .. n PROVE txdata'[txdataInUse + i - 1] = f[i]
    OBVIOUS
  <2>1. txdataInUse + i - 1 \in Addr /\ txdataInUse + i - 1 \in txdataInUse .. txdataInUse + n - 1
        /\ (txdataInUse + i - 1) - txdataInUse + 1 = i
    BY <1>2, Constants DEF Addr
  <2> QED
    BY <1>2, <1>3, <2>1 DEF Filled
<1>5. f = [i \in 1 .. n |-> f[i]]
  BY <1>1
<1>6. [i \in 1 .. len'[j] |-> txdata'[off'[j] + i - 1]] = f
  BY <1>3, <1>4, <1>5
<1> QED
  BY <1>2, <1>3, <1>6

(* The frames of all jobs but x are untouched. *)
LEMMA OthersCarried ==
  ASSUME IInv, InUseHasFrame, Ascending = TRUE, Next, NEW x,
         \A j \in Jobs : j # x => (home'[j] = "free" <=> home[j] = "free")
  PROVE  \A j \in Jobs : j # x => Carried'[j] = Carried[j]
BY NextKeepsFrame DEF Carried

LEMMA CommitRefines ==
  ASSUME IInv, Census, InUseHasFrame, Ascending = TRUE, NEW f \in Frame, Commit(f)
  PROVE  Store!Next
<1> DEFINE x == freeJobs
<1>1. Free' = Free \ {x} /\ x \in Free /\ Queues' = Queues
  BY CommitMoves
<1>2. x \in Jobs /\ held = TXIDX_NIL /\ held' = x
      /\ \A j \in Jobs : j # x => (home'[j] = "free" <=> home[j] = "free")
  BY IdxCases DEF IInv, TypeOK, ListsDisjoint, Commit
<1>3. Carried'[x] = f /\ f \in Seq(Byte)
  BY <1>2, FrameTaken DEF Carried, FrameOf
<1>4. \A j \in Jobs : j # x => Carried'[j] = Carried[j]
  BY <1>2, OthersCarried DEF Next
<1>5. Carried' = [Carried EXCEPT ![x] = Carried'[x]]
  BY <1>2, <1>4 DEF Carried
<1>6. Store!Accept(x)
  BY <1>1, <1>2, <1>3, <1>5 DEF Store!Accept, Free, Carried, Queues
<1> HIDE DEF x
<1>7. x \in {Chain(freeJobs, next)[n] : n \in DOMAIN Chain(freeJobs, next)}
  BY <1>1 DEF Free
<1> QED
  BY <1>6, <1>7 DEF Store!Next, Store!Accept

(* Nothing the client sees changes. *)
LEMMA AbandonRefines ==
  ASSUME IInv, InUseHasFrame, Ascending = TRUE, NEW f \in Frame, Abandon(f)
  PROVE  UNCHANGED <<Free, Carried, Queues, held>>
<1>1. UNCHANGED lists
  BY DEF Abandon
<1>2. Free' = Free /\ Queues' = Queues /\ held' = held
  BY <1>1 DEF lists, Free, Queues
<1>3. \A j \in Jobs : Carried'[j] = Carried[j]
  <2> DEFINE none == TXIDX_NIL
  <2>1. \A j \in Jobs : j # none => Carried'[j] = Carried[j]
    BY <1>1, OthersCarried DEF Next, lists
  <2> QED
    BY <2>1, Constants
<1>4. Carried' = Carried
  BY <1>3 DEF Carried
<1> QED
  BY <1>2, <1>4

(* A move between the lists touches no frame. *)
LEMMA MoveCarried ==
  ASSUME IInv, UNCHANGED frames, \A j \in Jobs : home'[j] = "free" <=> home[j] = "free"
  PROVE  Carried' = Carried
<1>1. \A j \in Jobs : FrameOf(j)' = FrameOf(j)
  BY DEF FrameOf, frames
<1> QED
  BY <1>1 DEF Carried

LEMMA InsRefines ==
  ASSUME IInv, Census, NEW u \in Units, NEW k \in 0 .. Len(Queues[u]),
         held # TXIDX_NIL, held' = TXIDX_NIL, Free' = Free, Carried' = Carried,
         Queues' = [Queues EXCEPT ![u] = PutIn(Queues[u], k, held)]
  PROVE  Store!Next
<1>1. Queues' = [Queues EXCEPT ![u] =
                   (Store!Front(Queues[u], k) \o <<held>>) \o Store!Back(Queues[u], k)]
  BY DEF PutIn, Store!Front, Store!Back
<1>2. Store!Enqueue(u, k)
  BY <1>1 DEF Store!Enqueue, Free, Carried, Queues
<1> QED
  BY <1>2 DEF Store!Next, Queues

LEMMA UnqRefines ==
  ASSUME IInv, Census, NEW u \in Units, NEW k \in 0 .. Len(Queues[u]) - 1,
         held = TXIDX_NIL, held' = Queues[u][k + 1], Free' = Free, Carried' = Carried,
         Queues' = [Queues EXCEPT ![u] = TakenOut(Queues[u], k)]
  PROVE  Store!Next
<1>1. Queues' = [Queues EXCEPT ![u] =
                   Store!Front(Queues[u], k) \o Store!Back(Queues[u], k + 1)]
  BY DEF TakenOut, Store!Front, Store!Back
<1>2. Store!Dequeue(u, k)
  BY <1>1 DEF Store!Dequeue, Free, Carried, Queues
<1> QED
  BY <1>2 DEF Store!Next, Queues

LEMMA FreeRefines ==
  ASSUME IInv, Census, InUseHasFrame, Ascending = TRUE, FreeJob
  PROVE  Store!Next
<1> DEFINE x == held
<1>1. Free' = Free \cup {x} /\ Queues' = Queues
  BY FreeMoves
<1>2. /\ x \in Jobs /\ held # TXIDX_NIL /\ held' = TXIDX_NIL /\ home'[x] = "free"
      /\ \A j \in Jobs : j # x => (home'[j] = "free" <=> home[j] = "free")
  BY DEF IInv, TypeOK, ListsDisjoint, FreeJob
<1>3. \A j \in Jobs : j # x => Carried'[j] = Carried[j]
  BY <1>2, OthersCarried DEF Next
<1>4. Carried' = [Carried EXCEPT ![x] = <<>>]
  BY <1>2, <1>3 DEF Carried
<1>5. Store!Release
  BY <1>1, <1>2, <1>4 DEF Store!Release, Free, Carried, Queues
<1> QED
  BY <1>5 DEF Store!Next

LEMMA StoreStep ==
  ASSUME IInv, Census, InUseHasFrame, Ascending = TRUE, [Next]_vars
  PROVE  Census' /\ [Store!Next]_<<Free, Carried, Queues, held>>
<1>1. ASSUME NEW f \in Frame, Abandon(f)
      PROVE  Census' /\ UNCHANGED <<Free, Carried, Queues, held>>
  <2>1. Census'
    BY <1>1 DEF Abandon, lists, Census
  <2> QED
    BY <1>1, <2>1, AbandonRefines
<1>2. ASSUME NEW f \in Frame, Commit(f) PROVE Census' /\ Store!Next
  BY <1>2, CommitMoves, CommitRefines
<1>3. ASSUME NEW u \in Units, InsAtHead(u) PROVE Census' /\ Store!Next
  <2>1. Carried' = Carried
    <3>1. \A j \in Jobs : home'[j] = "free" <=> home[j] = "free"
      BY <1>3, Constants DEF InsAtHead, IInv, TypeOK, ListsDisjoint
    <3> QED
      BY <1>3, <3>1, MoveCarried DEF InsAtHead
  <2>2. 0 \in 0 .. Len(Queues[u])
    BY ListOf DEF Census, Queues
  <2>3. held # TXIDX_NIL /\ held' = TXIDX_NIL
    BY <1>3 DEF InsAtHead
  <2> QED
    BY <1>3, <2>1, <2>2, <2>3, InsAtHeadMoves, InsRefines
<1>4. ASSUME NEW j \in Jobs, InsAfter(j) PROVE Census' /\ Store!Next
  <2>1. Carried' = Carried
    <3>1. \A i \in Jobs : home'[i] = "free" <=> home[i] = "free"
      BY <1>4, Constants DEF InsAfter, IInv, TypeOK, ListsDisjoint
    <3> QED
      BY <1>4, <3>1, MoveCarried DEF InsAfter
  <2>2. held # TXIDX_NIL /\ held' = TXIDX_NIL
    BY <1>4 DEF InsAfter
  <2> QED
    BY <1>4, <2>1, <2>2, InsAfterMoves, InsRefines
<1>5. ASSUME NEW u \in Units, UnqHead(u) PROVE Census' /\ Store!Next
  <2>1. Carried' = Carried
    <3>1. \A j \in Jobs : home'[j] = "free" <=> home[j] = "free"
      BY <1>5, IdxCases, Constants DEF UnqHead, IInv, TypeOK, ListsDisjoint, Chained
    <3> QED
      BY <1>5, <3>1, MoveCarried DEF UnqHead
  <2>2. held = TXIDX_NIL
    BY <1>5 DEF UnqHead
  <2> QED
    BY <1>5, <2>1, <2>2, UnqHeadMoves, UnqRefines
<1>6. ASSUME NEW j \in Jobs, UnqAfter(j) PROVE Census' /\ Store!Next
  <2>1. Carried' = Carried
    <3>1. next[j] \in Jobs /\ home[next[j]] = home[j] /\ home[j] # "free"
      BY <1>6, IdxCases, Constants DEF UnqAfter, IInv, TypeOK, ListsDisjoint, Chained
    <3>2. \A i \in Jobs : home'[i] = "free" <=> home[i] = "free"
      BY <1>6, <3>1, Constants DEF UnqAfter, IInv, TypeOK
    <3> QED
      BY <1>6, <3>2, MoveCarried DEF UnqAfter
  <2>2. held = TXIDX_NIL
    BY <1>6 DEF UnqAfter
  <2> QED
    BY <1>6, <2>1, <2>2, UnqAfterMoves, UnqRefines
<1>7. CASE FreeJob
  BY <1>7, FreeMoves, FreeRefines
<1>8. ASSUME UNCHANGED vars PROVE Census' /\ UNCHANGED <<Free, Carried, Queues, held>>
  <2>1. UNCHANGED lists /\ UNCHANGED frames
    BY <1>8 DEF vars
  <2>2. Census' /\ Free' = Free /\ Queues' = Queues /\ held' = held
    BY <2>1 DEF lists, Census, Free, Queues
  <2>3. Carried' = Carried
    BY <2>1, MoveCarried DEF lists
  <2> QED
    BY <2>2, <2>3
<1> QED
  BY <1>1, <1>2, <1>3, <1>4, <1>5, <1>6, <1>7, <1>8 DEF Next

LEMMA StoreInit ==
  ASSUME Init
  PROVE  Store!Init
<1>1. Census
  BY InitCensus
<1>2. Free = Jobs
  <2>1. Free = {j \in Jobs : home[j] = "free"}
    BY <1>1, ListOf DEF Census, Free
  <2> QED
    BY <2>1 DEF Init
<1>3. Queues = [u \in Units |-> <<>>]
  <2> SUFFICES ASSUME NEW u \in Units PROVE Chain(head[u], next) = <<>>
    BY DEF Queues
  <2>1. Listed(u, head[u], next, home)
    BY <1>1 DEF Census
  <2>2. \A n \in 1 .. Len(Chain(head[u], next)) : FALSE
    BY <2>1, ListOf, Constants DEF Init
  <2>3. Chain(head[u], next) \in Seq(Jobs)
    BY <2>1, ListOf
  <2> DEFINE s == Chain(head[u], next)
  <2> HIDE DEF s
  <2>4. s = <<>>
    <3>1. s \in Seq(Jobs) /\ \A n \in 1 .. Len(s) : FALSE
      BY <2>2, <2>3 DEF s
    <3>2. Len(s) = 0
      BY <3>1
    <3> QED
      BY <3>1, <3>2
  <2> QED
    BY <2>4 DEF s
<1>4. Carried = [j \in Jobs |-> <<>>] /\ held = TXIDX_NIL
  BY DEF Carried, Init
<1> QED
  BY <1>2, <1>3, <1>4 DEF Store!Init, Free, Queues, Carried

(* With a memcpy that copies upwards the store of xq.c implements TxStore:  *)
(* whatever is committed, moved, freed and compacted, the engine finds each *)
(* job in the queue and at the place where it put it, with its frame, and   *)
(* no job is lost.                                                          *)
THEOREM Implementation == Spec /\ Ascending = TRUE => ImplementsStore
<1> DEFINE Up == Ascending = TRUE
           Client == <<Free, Carried, Queues, held>>
<1>1. Init => Store!Init /\ Census /\ InUseHasFrame
  BY StoreInit, InitCensus, InUseInit
<1>2. IInv /\ Census /\ InUseHasFrame /\ Up /\ [Next]_vars
        => Census' /\ InUseHasFrame' /\ [Store!Next]_Client
  BY StoreStep, InUseNext
<1>3. Up => Up'
  OBVIOUS
<1>4. Store!vars = Client
  BY DEF Store!vars, Free, Carried, Queues
<1> HIDE DEF Up
<1>5. IInv /\ Census /\ InUseHasFrame /\ Up /\ [Next]_vars
        => Census' /\ InUseHasFrame' /\ [Store!Next]_(Store!vars)
  BY <1>2 DEF Store!vars, Free, Carried, Queues
<1>6. Spec /\ Up => Store!Spec
  BY <1>1, <1>3, <1>5, Invariance, PTL DEF Spec, Store!Spec
<1> QED
  BY <1>6 DEF Up, ImplementsStore
-----------------------------------------------------------------------------
(* The queue v of rt.c is s, and a timer not on it has the next TMR_NIL. *)
ListIs(v, s) ==
  /\ v \in [first : Timers \cup {TMR_END}, next : [Timers -> Timers \cup {TMR_NIL, TMR_END}]]
  /\ Linked(Timers, TMR_END, v.first, v.next, s)
  /\ \A t \in Timers : v.next[t] = TMR_NIL <=> t \notin Members(s)

LEMMA TimerConstants ==
  /\ TMR_NIL \notin Timers /\ TMR_END \notin Timers /\ TMR_NIL # TMR_END
  /\ "queue" \notin Timers /\ "select" \notin Timers /\ "io" \notin Timers
  /\ Ahead \subseteq Nat
BY TimerQAssumption DEF TMR_NIL, TMR_END

(* The rest of a list from one place on. *)
LEMMA Rests ==
  ASSUME NEW S, NEW s \in Seq(S), NEW k \in 1 .. Len(s)
  PROVE  /\ SubSeq(s, Len(s) + 1, Len(s)) = <<>>
         /\ SubSeq(s, k, Len(s)) = <<s[k]>> \o SubSeq(s, k + 1, Len(s))
<1>1. Len(s) \in Nat /\ k \in Nat /\ k \in 1 .. Len(s) + 1 /\ k + 1 \in 1 .. Len(s) + 1
      /\ Len(s) + 1 \in 1 .. Len(s) + 1 /\ 0 \in 0 .. Len(s)
  OBVIOUS
<1> DEFINE a == SubSeq(s, k, Len(s))
           b == SubSeq(s, k + 1, Len(s))
           c == SubSeq(s, Len(s) + 1, Len(s))
<1>2. /\ a \in Seq(S) /\ Len(a) = Len(s) + 1 - k
      /\ \A n \in 1 .. Len(s) + 1 - k : a[n] = s[n + k - 1]
  BY <1>1, Parts
<1>3. /\ b \in Seq(S) /\ Len(b) = Len(s) + 1 - (k + 1)
      /\ \A n \in 1 .. Len(s) + 1 - (k + 1) : b[n] = s[n + (k + 1) - 1]
  BY <1>1, Parts
<1>4. c \in Seq(S) /\ Len(c) = Len(s) + 1 - (Len(s) + 1)
  BY <1>1, Parts
<1> HIDE DEF a, b, c
<1>5. c = <<>>
  BY <1>1, <1>4
<1>6. a = <<s[k]>> \o b
  <2>1. <<s[k]>> \in Seq(S) /\ Len(<<s[k]>>) = 1
    BY ElementOfSeq
  <2> DEFINE o == <<s[k]>>
             d == o \o b
  <2>2. o \in Seq(S) /\ Len(o) = 1 /\ o[1] = s[k]
    BY <2>1
  <2> HIDE DEF o
  <2>3. /\ d \in Seq(S) /\ Len(d) = 1 + Len(b)
        /\ \A n \in 1 .. 1 + Len(b) : d[n] = IF n <= 1 THEN o[n] ELSE b[n - 1]
    <3>1. Len(b) \in Nat /\ 1 \in Nat
      BY <1>3
    <3>2. /\ d \in Seq(S) /\ Len(d) = 1 + Len(b)
          /\ \A n \in 1 .. 1 + Len(b) : d[n] = IF n <= 1 THEN o[n] ELSE b[n - 1]
      <4>1. /\ o \o b \in Seq(S) /\ Len(o \o b) = Len(o) + Len(b)
            /\ \A n \in 1 .. Len(o) + Len(b) :
                 (o \o b)[n] = IF n <= Len(o) THEN o[n] ELSE b[n - Len(o)]
        BY <1>3, <2>2, ConcatProperties
      <4> QED
        BY <2>2, <3>1, <4>1
    <3> QED
      BY <3>2
  <2> HIDE DEF d
  <2>4. Len(d) = Len(a)
    BY <1>1, <1>2, <1>3, <2>3
  <2>5. ASSUME NEW n \in 1 .. Len(a) PROVE a[n] = d[n]
    <3>1. n \in Nat /\ n >= 1 /\ n <= Len(s) + 1 - k /\ a[n] = s[n + k - 1]
      BY <1>1, <1>2
    <3>2. CASE n = 1
      <4>1. d[1] = s[k] /\ 1 + k - 1 = k
        BY <1>1, <1>3, <2>2, <2>3
      <4> QED
        BY <3>1, <3>2, <4>1
    <3>3. CASE n # 1
      <4>1. n - 1 \in 1 .. Len(s) + 1 - (k + 1) /\ (n - 1) + (k + 1) - 1 = n + k - 1
        BY <1>1, <3>1, <3>3
      <4>2. b[n - 1] = s[n + k - 1]
        BY <1>3, <4>1
      <4>3. n \in 1 .. 1 + Len(b) /\ ~(n <= 1)
        BY <1>1, <1>3, <3>1, <3>3
      <4> QED
        BY <2>3, <3>1, <4>2, <4>3
    <3> QED
      BY <3>2, <3>3
  <2>6. a = d
    BY <1>2, <2>3, <2>4, <2>5, SeqEqual
  <2> QED
    BY <2>6 DEF d, o
<1> QED
  BY <1>5, <1>6 DEF a, b, c

(* Following the links gives the list. *)
LEMMA MetIs ==
  ASSUME NEW v, NEW s, ListIs(v, s)
  PROVE  Met(v) = s
<1>1. /\ s \in Seq(Timers) /\ Len(s) \in Nat
      /\ v.first = IF Len(s) = 0 THEN TMR_END ELSE s[1]
      /\ \A n \in 1 .. Len(s) : v.next[s[n]] = IF n = Len(s) THEN TMR_END ELSE s[n + 1]
      /\ \A m, n \in 1 .. Len(s) : s[m] = s[n] => m = n
      /\ \A t \in Timers : v.next[t] = TMR_NIL <=> t \notin Members(s)
  BY DEF ListIs, Linked
<1> DEFINE D == Timers \cup {TMR_NIL, TMR_END}
           from[p \in D] == IF p \notin Timers THEN <<>> ELSE <<p>> \o from[v.next[p]]
<1>2. Met(v) = from[v.first]
  BY DEF Met
<1> DEFINE rest(k) == SubSeq(s, k, Len(s))
           place(p) == CHOOSE k \in 1 .. Len(s) : s[k] = p
           g == [p \in D |-> IF p \notin Timers THEN <<>>
                             ELSE IF p \in Members(s) THEN rest(place(p)) ELSE <<p>> \o <<>>]
<1>3. ASSUME NEW k \in 1 .. Len(s)
      PROVE  s[k] \in Timers /\ s[k] \in Members(s) /\ place(s[k]) = k
  BY <1>1 DEF Members
<1>4. \A k \in 1 .. Len(s) : g[s[k]] = rest(k)
  <2> TAKE k \in 1 .. Len(s)
  <2>1. s[k] \in Timers /\ s[k] \in Members(s) /\ place(s[k]) = k
    BY <1>3
  <2> HIDE DEF place, rest
  <2> QED
    BY <2>1
<1>5. g[TMR_NIL] = <<>> /\ g[TMR_END] = <<>>
  BY TimerConstants
<1>6. ASSUME NEW p \in D
      PROVE  g[p] = IF p \notin Timers THEN <<>> ELSE <<p>> \o g[v.next[p]]
  <2>1. CASE p \notin Timers
    BY <2>1
  <2>2. CASE p \in Timers /\ p \notin Members(s)
    <3>1. v.next[p] = TMR_NIL
      BY <1>1, <2>2
    <3>2. g[p] = <<p>> \o <<>>
      BY <2>2
    <3> HIDE DEF g
    <3> QED
      BY <1>5, <2>2, <3>1, <3>2
  <2>3. CASE p \in Members(s)
    <3>1. PICK k \in 1 .. Len(s) : p = s[k]
      BY <2>3 DEF Members
    <3>2. p \in Timers /\ g[p] = rest(k)
      BY <1>3, <1>4, <3>1
    <3>3. rest(Len(s) + 1) = <<>> /\ rest(k) = <<s[k]>> \o rest(k + 1)
      BY <1>1, Rests
    <3> HIDE DEF g, rest
    <3>4. g[v.next[p]] = rest(k + 1)
      <4>1. CASE k = Len(s)
        BY <1>1, <1>5, <3>1, <3>3, <4>1
      <4>2. CASE k # Len(s)
        <5>1. k + 1 \in 1 .. Len(s) /\ v.next[p] = s[k + 1]
          BY <1>1, <3>1, <4>2
        <5> QED
          BY <1>4, <5>1
      <4> QED
        BY <4>1, <4>2
    <3> QED
      BY <3>1, <3>2, <3>3, <3>4
  <2> QED
    BY <2>1, <2>2, <2>3
<1>7. g = [p \in D |-> g[p]]
  OBVIOUS
<1> HIDE DEF g
<1>8. g = [p \in D |-> IF p \notin Timers THEN <<>> ELSE <<p>> \o g[v.next[p]]]
  BY <1>6, <1>7
<1>9. from = [p \in D |-> IF p \notin Timers THEN <<>> ELSE <<p>> \o from[v.next[p]]]
  BY <1>8
<1> HIDE DEF from
<1>10. \A p \in D : from[p] = IF p \notin Timers THEN <<>> ELSE <<p>> \o from[v.next[p]]
  BY <1>9
<1>11. \A k \in 1 .. Len(s) : from[s[k]] = rest(k)
  <2> DEFINE T == {n \in 0 .. Len(s) - 1 : from[s[Len(s) - n]] # rest(Len(s) - n)}
  <2>1. T = {}
    <3> SUFFICES ASSUME T # {} PROVE FALSE
      OBVIOUS
    <3>1. PICK n \in T : \A m \in T : n <= m
      <4>1. T \in SUBSET Nat
        OBVIOUS
      <4> HIDE DEF T
      <4> QED
        BY <4>1, Least
    <3> DEFINE k == Len(s) - n
    <3>2. n \in Nat /\ k \in 1 .. Len(s) /\ from[s[k]] # rest(k) /\ Len(s) - n = k
      BY <1>1, <3>1, SMTT(30)
    <3>3. rest(Len(s) + 1) = <<>> /\ rest(k) = <<s[k]>> \o rest(k + 1)
      BY <1>1, <3>2, Rests
    <3>4. from[s[k]] = <<s[k]>> \o from[v.next[s[k]]]
      BY <1>3, <1>10, <3>2
    <3>5. CASE n = 0
      <4>1. k = Len(s) /\ v.next[s[k]] = TMR_END /\ from[TMR_END] = <<>>
        <5>1. k = Len(s)
          BY <1>1, <3>2, <3>5
        <5>2. v.next[s[k]] = TMR_END
          BY <1>1, <3>2, <5>1
        <5>3. from[TMR_END] = <<>>
          BY <1>10, TimerConstants
        <5> QED
          BY <5>1, <5>2, <5>3
      <4> HIDE DEF rest, k
      <4> QED
        BY <3>2, <3>3, <3>4, <4>1
    <3>6. CASE n # 0
      <4>1. n - 1 \in 0 .. Len(s) - 1 /\ Len(s) - (n - 1) = k + 1 /\ n - 1 \notin T /\ k # Len(s)
        <5>1. n - 1 \in 0 .. Len(s) - 1 /\ Len(s) - (n - 1) = k + 1 /\ k # Len(s)
          BY <1>1, <3>2, <3>6
        <5>2. ~(n <= n - 1)
          BY <3>2
        <5> HIDE DEF T
        <5> QED
          BY <3>1, <5>1, <5>2
      <4>2. from[s[k + 1]] = rest(k + 1)
        BY <4>1
      <4>3. v.next[s[k]] = s[k + 1]
        BY <1>1, <3>2, <4>1
      <4> HIDE DEF rest, k
      <4> QED
        BY <3>2, <3>3, <3>4, <4>2, <4>3
    <3> QED
      BY <3>5, <3>6
  <2>2. ASSUME NEW k \in 1 .. Len(s) PROVE from[s[k]] = rest(k)
    <3>1. Len(s) - k \in 0 .. Len(s) - 1 /\ Len(s) - (Len(s) - k) = k
      BY <1>1
    <3>2. Len(s) - k \notin T
      BY <2>1
    <3> HIDE DEF rest
    <3> QED
      BY <3>1, <3>2
  <2> QED
    BY <2>2
<1>12. CASE Len(s) = 0
  <2>1. from[v.first] = <<>> /\ s = <<>>
    <3>1. v.first = TMR_END /\ from[TMR_END] = <<>>
      BY <1>1, <1>10, <1>12, TimerConstants
    <3>2. s = <<>>
      BY <1>1, <1>12
    <3> QED
      BY <3>1, <3>2
  <2> QED
    BY <1>2, <2>1
<1>13. CASE Len(s) # 0
  <2>1. from[v.first] = rest(1) /\ 1 \in 1 .. Len(s) + 1 /\ 0 \in 0 .. Len(s)
    BY <1>1, <1>11, <1>13
  <2> DEFINE q == rest(1)
  <2>2. /\ q \in Seq(Timers) /\ Len(q) = Len(s) + 1 - 1
        /\ \A n \in 1 .. Len(s) + 1 - 1 : q[n] = s[n + 1 - 1]
    BY <1>1, <2>1, Parts
  <2> HIDE DEF q
  <2>3. Len(s) + 1 - 1 = Len(s) /\ \A n \in 1 .. Len(s) : n + 1 - 1 = n
    BY <1>1
  <2>4. q = s
    BY <1>1, <2>2, <2>3, SeqEqual
  <2> QED
    BY <1>2, <2>1, <2>4 DEF q
<1> QED
  BY <1>12, <1>13
-----------------------------------------------------------------------------
(* rt_clrTimer takes the timer out of the list, if it is on it. *)
LEMMA UnlinkedIs ==
  ASSUME NEW v, NEW s, ListIs(v, s), NEW t \in Timers
  PROVE  \/ t \notin Members(s) /\ Unlinked(v, t) = v
         \/ \E k \in 0 .. Len(s) - 1 : s[k + 1] = t /\ ListIs(Unlinked(v, t), TakenOut(s, k))
<1>1. /\ s \in Seq(Timers) /\ Len(s) \in Nat /\ DOMAIN s = 1 .. Len(s)
      /\ v.first = IF Len(s) = 0 THEN TMR_END ELSE s[1]
      /\ \A n \in 1 .. Len(s) : v.next[s[n]] = IF n = Len(s) THEN TMR_END ELSE s[n + 1]
      /\ \A m, n \in 1 .. Len(s) : s[m] = s[n] => m = n
      /\ \A p \in Timers : v.next[p] = TMR_NIL <=> p \notin Members(s)
      /\ v \in [first : Timers \cup {TMR_END}, next : [Timers -> Timers \cup {TMR_NIL, TMR_END}]]
      /\ Linked(Timers, TMR_END, v.first, v.next, s)
  BY SMTT(30) DEF ListIs, Linked
<1>0. /\ s \in Seq(Timers) /\ Len(s) \in Nat
      /\ \A m, n \in 1 .. Len(s) : s[m] = s[n] => m = n
  BY <1>1
<1>2. CASE t \notin Members(s)
  BY <1>1, <1>2 DEF Unlinked
<1>3. CASE t \in Members(s)
  <2>1. PICK n \in 1 .. Len(s) : s[n] = t
    BY <1>3, SMTT(30) DEF Members
  <2>2. Met(v) = s /\ v.next[t] # TMR_NIL
    BY <1>1, <1>3, MetIs
  <2>3. (CHOOSE i \in DOMAIN Met(v) : Met(v)[i] = t) = n
    BY <1>1, <2>1, <2>2
  <2> DEFINE l == Len(s)
  <2>01. l \in Nat /\ n \in 1 .. l
    BY <1>0
  <2> HIDE DEF l
  <2>02. n - 1 \in 0 .. l - 1 /\ n - 1 \in Nat
    BY <2>01
  <2>0. PICK k \in 0 .. Len(s) - 1 : k = n - 1
    BY <2>02 DEF l
  <2>03. k \in Nat /\ k + 1 = n /\ (k # 0 => k \in 1 .. l)
    BY <2>0, <2>01, <2>02
  <2>4. k \in Nat /\ s[k + 1] = t /\ k + 1 = n /\ (k # 0 => k \in 1 .. Len(s)) /\ k + 1 \in 1 .. Len(s)
    BY <2>1, <2>03 DEF l
  <2> DEFINE pp == IF k = 0 THEN TMR_NIL ELSE s[k]
             u == Unlinked(v, t)
  <2>5. u = [WithLink(v, pp, v.next[t]) EXCEPT !.next[t] = TMR_NIL]
    <3>1. Reached(v, n - 1) = pp
      BY <2>0, <2>2 DEF Reached
    <3> HIDE DEF pp
    <3> QED
      BY <2>2, <2>3, <3>1 DEF Unlinked
  <2> HIDE DEF u
  <2>6. v.next[t] \in Timers \cup {TMR_END}
    <3>1. v.next[t] \in Timers \cup {TMR_NIL, TMR_END}
      <4>1. v.next \in [Timers -> Timers \cup {TMR_NIL, TMR_END}]
        BY <1>1
      <4> QED
        BY ONLY <4>1, t \in Timers
    <3> QED
      BY <2>2, <3>1
  <2>7. /\ u \in [first : Timers \cup {TMR_END}, next : [Timers -> Timers \cup {TMR_NIL, TMR_END}]]
        /\ u.first = IF k = 0 THEN v.next[t] ELSE v.first
        /\ k # 0 => u.next = [v.next EXCEPT ![s[k]] = v.next[t], ![t] = TMR_NIL]
        /\ k = 0 => u.next = [v.next EXCEPT ![t] = TMR_NIL]
    <3>1. CASE k = 0
      BY <1>1, <2>5, <2>6, <3>1 DEF WithLink
    <3>2. CASE k # 0
      <4>1. s[k] \in Timers /\ s[k] # TMR_NIL
        BY <1>0, <2>4, <3>2, TimerConstants
      <4> QED
        BY <1>1, <2>5, <2>6, <3>2, <4>1 DEF WithLink
    <3> QED
      BY <3>1, <3>2
  <2>8. k # 0 => s[k] # t /\ s[k] \in Timers /\ s[k] \in Members(s)
    <3> SUFFICES ASSUME k # 0 PROVE s[k] # t /\ s[k] \in Timers /\ s[k] \in Members(s)
      OBVIOUS
    <3>1. k \in 1 .. Len(s) /\ k # n
      BY <2>03, <2>4, SMTT(30)
    <3> QED
      BY <1>0, <2>1, <3>1 DEF Members
  <2>9. /\ k # 0 => u.next[s[k]] = v.next[s[k + 1]]
        /\ \A p \in Timers : p # t /\ (k # 0 => p # s[k]) => u.next[p] = v.next[p]
        /\ u.next[t] = TMR_NIL
    BY <1>1, <2>4, <2>7, <2>8, ZenonT(60)
  <2>10. \A i \in 1 .. Len(s) : i # k /\ i # k + 1 => u.next[s[i]] = v.next[s[i]]
    <3> SUFFICES ASSUME NEW i \in 1 .. Len(s), i # k, i # k + 1 PROVE u.next[s[i]] = v.next[s[i]]
      OBVIOUS
    <3>1. s[i] \in Timers /\ s[i] # t
      BY <1>0, <2>1, <2>4
    <3>2. k # 0 => s[i] # s[k]
      BY <1>0, <2>4
    <3> QED
      BY <2>9, <3>1, <3>2
  <2>11. u.first = IF k = 0 THEN v.next[s[1]] ELSE v.first
    BY <2>4, <2>7
  <2>12. /\ Linked(Timers, TMR_END, u.first, u.next, TakenOut(s, k))
         /\ Members(TakenOut(s, k)) = Members(s) \ {s[k + 1]}
    <3>1. k # 0 => u.next[s[k]] = v.next[s[k + 1]]
      BY <2>9
    <3> DEFINE i == v.first
               nx == v.next
               i2 == u.first
               nx2 == u.next
    <3>2. Linked(Timers, TMR_END, i, nx, s) /\ k \in 0 .. Len(s) - 1
      BY <1>1
    <3>3. PassedOver(i, nx, s, k, i2, nx2)
      BY <2>10, <2>11, <3>1 DEF PassedOver
    <3> HIDE DEF i, nx, i2, nx2
    <3>4. /\ Linked(Timers, TMR_END, i2, nx2, TakenOut(s, k))
          /\ Members(TakenOut(s, k)) = Members(s) \ {s[k + 1]}
      BY <3>2, <3>3, RemoveLinked
    <3> QED
      BY <3>4 DEF i2, nx2
  <2>13. \A p \in Timers : u.next[p] = TMR_NIL <=> p \notin Members(TakenOut(s, k))
    <3> TAKE p \in Timers
    <3>1. CASE p = t
      BY <2>4, <2>9, <2>12, <3>1
    <3>2. CASE p # t /\ (k # 0 => p # s[k])
      <4>1. u.next[p] = v.next[p]
        BY <2>9, <3>2, SMTT(30)
      <4>2. v.next[p] = TMR_NIL <=> p \notin Members(s)
        BY <1>1
      <4>3. p \in Members(s) \ {s[k + 1]} <=> p \in Members(s)
        BY <2>4, <3>2
      <4> QED
        BY <2>12, <4>1, <4>2, <4>3
    <3>3. CASE k # 0 /\ p = s[k]
      <4>1. u.next[p] = v.next[t] /\ p # t /\ p \in Members(s)
        BY <2>4, <2>8, <2>9, <3>3
      <4> QED
        BY <2>2, <2>4, <2>12, <4>1
    <3> QED
      BY <3>1, <3>2, <3>3
  <2>14. ListIs(u, TakenOut(s, k))
    BY <2>7, <2>12, <2>13 DEF ListIs
  <2> QED
    BY <2>4, <2>14 DEF u
<1> QED
  BY <1>2, <1>3

(* The search for the place of a timer passes the timers that are due no   *)
(* later.                                                                  *)
LEMMA PassedIs ==
  ASSUME NEW v, NEW s, ListIs(v, s), NEW d \in Nat, deadline \in [Timers -> Nat]
  PROVE  \E k \in 0 .. Len(s) :
           /\ Cardinality(Passed(v, d)) = k
           /\ \A i \in 1 .. k : deadline[s[i]] <= d
           /\ k < Len(s) => deadline[s[k + 1]] > d
<1>0. Met(v) = s
  BY MetIs
<1>1. /\ s \in Seq(Timers) /\ Len(s) \in Nat /\ DOMAIN s = 1 .. Len(s) /\ Met(v) = s
      /\ \A m, n \in 1 .. Len(s) : s[m] = s[n] => m = n
  BY <1>0 DEF ListIs, Linked
<1>2. \A i \in 1 .. Len(s) : s[i] \in Timers /\ deadline[s[i]] \in Nat
  BY <1>1
<1>3. PICK k \in 0 .. Len(s) : /\ \A i \in 1 .. k : deadline[s[i]] <= d
                               /\ k < Len(s) => deadline[s[k + 1]] > d
  <2> DEFINE L == {i \in 1 .. Len(s) : deadline[s[i]] > d}
  <2>1. CASE L = {}
    <3>1. Len(s) \in 0 .. Len(s) /\ \A i \in 1 .. Len(s) : deadline[s[i]] <= d
      BY <1>1, <1>2, <2>1
    <3> QED
      BY <1>1, <3>1
  <2>2. CASE L # {}
    <3>1. PICK m \in L : \A n \in L : m <= n
      <4>1. L \in SUBSET Nat
        OBVIOUS
      <4> HIDE DEF L
      <4> QED
        BY <2>2, <4>1, Least
    <3>2. m \in 1 .. Len(s) /\ deadline[s[m]] > d /\ m - 1 \in 0 .. Len(s) /\ m - 1 + 1 = m
      BY <1>1, <3>1
    <3>3. ASSUME NEW i \in 1 .. m - 1 PROVE deadline[s[i]] <= d
      <4>1. i \in 1 .. Len(s) /\ ~(m <= i)
        BY <1>1, <3>2
      <4>2. i \notin L
        BY <3>1, <4>1
      <4> QED
        BY <1>2, <4>1, <4>2
    <3> QED
      BY <3>2, <3>3
  <2> QED
    BY <2>1, <2>2
<1> DEFINE I == {i \in DOMAIN s : \A j \in 1 .. i : deadline[s[j]] <= d}
           P == {s[i] : i \in 1 .. k}
<1>4. k \in Nat /\ k <= Len(s)
  BY <1>1
<1>5. I = 1 .. k
  <2>1. ASSUME NEW i \in 1 .. k PROVE i \in I
    <3>1. i \in 1 .. Len(s) /\ \A j \in 1 .. i : j \in 1 .. k
      BY <1>1, <1>4
    <3> QED
      BY <1>1, <1>3, <3>1
  <2>2. ASSUME NEW i \in I PROVE i \in 1 .. k
    <3>1. i \in 1 .. Len(s) /\ \A j \in 1 .. i : deadline[s[j]] <= d
      BY <1>1
    <3>2. CASE i > k
      <4>1. k < Len(s) /\ k + 1 \in 1 .. i /\ k + 1 \in 1 .. Len(s)
        BY <1>1, <1>4, <3>1, <3>2
      <4>2. deadline[s[k + 1]] <= d /\ deadline[s[k + 1]] > d /\ deadline[s[k + 1]] \in Nat
        BY <1>2, <1>3, <3>1, <4>1
      <4> QED
        BY <4>2
    <3> QED
      BY <1>1, <1>4, <3>1, <3>2
  <2> QED
    BY <2>1, <2>2
<1>6. Passed(v, d) = P
  <2>1. Passed(v, d) = {s[i] : i \in I}
    BY <1>1 DEF Passed
  <2> HIDE DEF I
  <2> QED
    BY <1>5, <2>1
<1>7. Cardinality(P) = k
  <2> DEFINE f == [i \in 1 .. k |-> s[i]]
  <2>1. f \in Bijection(1 .. k, P)
    <3>1. f \in [1 .. k -> P]
      OBVIOUS
    <3>2. \A i, j \in 1 .. k : f[i] = f[j] => i = j
      <4>1. \A i \in 1 .. k : i \in 1 .. Len(s) /\ f[i] = s[i]
        BY <1>1, <1>4
      <4> HIDE DEF f
      <4> QED
        BY <1>1, <4>1
    <3>3. \A p \in P : \E i \in 1 .. k : f[i] = p
      OBVIOUS
    <3> HIDE DEF f, P
    <3> QED
      BY <3>1, <3>2, <3>3 DEF Bijection, Injection, Surjection, IsInjective
  <2>2. ExistsBijection(1 .. k, P)
    BY <2>1 DEF ExistsBijection
  <2> QED
    BY <1>4, <2>2, FS_CountingElements
<1> QED
  BY <1>3, <1>6, <1>7

(* rt_setTimer links the timer in behind those. *)
LEMMA InsertedIs ==
  ASSUME NEW v, NEW s, ListIs(v, s), NEW t \in Timers, t \notin Members(s),
         NEW d \in Nat, deadline \in [Timers -> Nat]
  PROVE  \E k \in 0 .. Len(s) :
           /\ ListIs(Inserted(v, t, d), PutIn(s, k, t))
           /\ Members(PutIn(s, k, t)) = Members(s) \cup {t}
           /\ \A i \in 1 .. k : deadline[s[i]] <= d
           /\ k < Len(s) => deadline[s[k + 1]] > d
<1>1. /\ s \in Seq(Timers) /\ Len(s) \in Nat /\ DOMAIN s = 1 .. Len(s) /\ Met(v) = s
      /\ v.first = IF Len(s) = 0 THEN TMR_END ELSE s[1]
      /\ \A m, n \in 1 .. Len(s) : s[m] = s[n] => m = n
      /\ \A p \in Timers : v.next[p] = TMR_NIL <=> p \notin Members(s)
      /\ v \in [first : Timers \cup {TMR_END}, next : [Timers -> Timers \cup {TMR_NIL, TMR_END}]]
      /\ Linked(Timers, TMR_END, v.first, v.next, s)
  <2>1. Met(v) = s
    BY MetIs
  <2>2. s \in Seq(Timers) /\ Len(s) \in Nat /\ DOMAIN s = 1 .. Len(s)
    BY DEF ListIs, Linked
  <2>3. /\ v.first = IF Len(s) = 0 THEN TMR_END ELSE s[1]
        /\ \A m, n \in 1 .. Len(s) : s[m] = s[n] => m = n
    BY DEF ListIs, Linked
  <2>4. /\ \A p \in Timers : v.next[p] = TMR_NIL <=> p \notin Members(s)
        /\ v \in [first : Timers \cup {TMR_END}, next : [Timers -> Timers \cup {TMR_NIL, TMR_END}]]
        /\ Linked(Timers, TMR_END, v.first, v.next, s)
    BY DEF ListIs
  <2> QED
    BY <2>1, <2>2, <2>3, <2>4
<1>2. PICK k \in 0 .. Len(s) :
           /\ Cardinality(Passed(v, d)) = k
           /\ \A i \in 1 .. k : deadline[s[i]] <= d
           /\ k < Len(s) => deadline[s[k + 1]] > d
  BY PassedIs
<1> DEFINE pp == IF k = 0 THEN TMR_NIL ELSE s[k]
           u == Inserted(v, t, d)
           after == IF k = 0 THEN v.first ELSE v.next[s[k]]
<1>3. u = WithLink([v EXCEPT !.next[t] = Link(v, pp)], pp, t)
  BY <1>1, <1>2 DEF Inserted, Reached
<1> HIDE DEF u
<1>4. k \in Nat /\ (k # 0 => k \in 1 .. Len(s))
  BY <1>1
<1>5. k # 0 => s[k] \in Timers /\ s[k] # TMR_NIL /\ s[k] # t /\ s[k] \in Members(s)
  BY <1>1, <1>4, TimerConstants DEF Members
<1>6. Link(v, pp) = after /\ after \in Timers \cup {TMR_END}
  <2>1. CASE k = 0
    BY <1>1, <2>1 DEF Link
  <2>2. CASE k # 0
    BY <1>1, <1>5, <2>2 DEF Link
  <2> QED
    BY <2>1, <2>2
<1> HIDE DEF after
<1>7. /\ u \in [first : Timers \cup {TMR_END}, next : [Timers -> Timers \cup {TMR_NIL, TMR_END}]]
      /\ u.first = IF k = 0 THEN t ELSE v.first
      /\ k # 0 => u.next = [v.next EXCEPT ![t] = after, ![s[k]] = t]
      /\ k = 0 => u.next = [v.next EXCEPT ![t] = after]
  <2>1. CASE k = 0
    BY <1>1, <1>3, <1>6, <2>1 DEF WithLink
  <2>2. CASE k # 0
    BY <1>1, <1>3, <1>5, <1>6, <2>2 DEF WithLink
  <2> QED
    BY <2>1, <2>2
<1>8. /\ u.next[t] = after
      /\ k # 0 => u.next[s[k]] = t
      /\ \A p \in Timers : p # t /\ (k # 0 => p # s[k]) => u.next[p] = v.next[p]
  BY <1>1, <1>5, <1>7
<1>9. \A i \in 1 .. Len(s) : i # k => u.next[s[i]] = v.next[s[i]]
  <2> SUFFICES ASSUME NEW i \in 1 .. Len(s), i # k PROVE u.next[s[i]] = v.next[s[i]]
    OBVIOUS
  <2>1. s[i] \in Timers /\ s[i] # t /\ (k # 0 => s[i] # s[k])
    BY <1>1, <1>4 DEF Members
  <2> QED
    BY <1>8, <2>1
<1>10. /\ Linked(Timers, TMR_END, u.first, u.next, PutIn(s, k, t))
       /\ Members(PutIn(s, k, t)) = Members(s) \cup {t}
  <2>1. Linked(Timers, TMR_END, v.first, v.next, s) /\ \A n \in 1 .. Len(s) : s[n] # t
    BY <1>1 DEF Members
  <2>2. u.next[t] = IF k = 0 THEN v.first ELSE v.next[s[k]]
    BY <1>8 DEF after
  <2>3. k # 0 => u.next[s[k]] = t
    BY <1>8
  <2>4. u.first = IF k = 0 THEN t ELSE v.first
    BY <1>7
  <2> QED
    BY ONLY <1>9, <2>1, <2>2, <2>3, <2>4, k \in 0 .. Len(s), t \in Timers, InsertLinked
<1>11. \A p \in Timers : u.next[p] = TMR_NIL <=> p \notin Members(PutIn(s, k, t))
  <2> TAKE p \in Timers
  <2>1. CASE p = t
    BY <1>6, <1>8, <1>10, <2>1, TimerConstants
  <2>2. CASE p # t /\ (k # 0 => p # s[k])
    BY <1>1, <1>8, <1>10, <2>2
  <2>3. CASE k # 0 /\ p = s[k]
    BY <1>5, <1>8, <1>10, <2>3, TimerConstants
  <2> QED
    BY <2>1, <2>2, <2>3
<1>12. ListIs(u, PutIn(s, k, t))
  BY <1>7, <1>10, <1>11 DEF ListIs
<1> QED
  BY <1>2, <1>10, <1>12 DEF u
-----------------------------------------------------------------------------
(* The timers of s come in the order of the deadlines dl. *)
InOrder(s, dl) == \A m, n \in 1 .. Len(s) : m <= n => dl[s[m]] <= dl[s[n]]

TimerInv ==
  /\ deadline \in [Timers -> Nat] /\ now \in Nat
  /\ \E s : ListIs(Q, s) /\ InOrder(s, deadline)

(* The deadlines a client sees. *)
Dues(v, dl) == [t \in Timers |-> IF t \in ToSet(Met(v)) THEN dl[t] ELSE -1]

LEMMA DuesIs ==
  ASSUME NEW v, NEW s, ListIs(v, s), NEW dl
  PROVE  Dues(v, dl) = [t \in Timers |-> IF t \in Members(s) THEN dl[t] ELSE -1]
<1>1. Met(v) = s
  BY MetIs
<1>2. s \in Seq(Timers)
  BY DEF ListIs, Linked
<1>3. ToSet(s) = Members(s)
  BY <1>2 DEF ToSet, Members
<1> QED
  BY <1>1, <1>3 DEF Dues

(* A timer taken out of the list. *)
LEMMA Cleared ==
  ASSUME NEW v, NEW s, ListIs(v, s), deadline \in [Timers -> Nat], InOrder(s, deadline),
         NEW t \in Timers
  PROVE  \E q : /\ ListIs(Unlinked(v, t), q) /\ InOrder(q, deadline)
                /\ Members(q) = Members(s) \ {t}
<1>1. CASE t \notin Members(s) /\ Unlinked(v, t) = v
  BY <1>1
<1>2. ASSUME NEW k \in 0 .. Len(s) - 1, s[k + 1] = t, ListIs(Unlinked(v, t), TakenOut(s, k))
      PROVE  \E q : /\ ListIs(Unlinked(v, t), q) /\ InOrder(q, deadline)
                    /\ Members(q) = Members(s) \ {t}
  <2>1. s \in Seq(Timers) /\ Len(s) \in Nat /\ k \in Nat
        /\ \A m, n \in 1 .. Len(s) : s[m] = s[n] => m = n
    BY DEF ListIs, Linked
  <2> DEFINE q == TakenOut(s, k)
             place(n) == IF n <= k THEN n ELSE n + 1
  <2>2. q \in Seq(Timers) /\ Len(q) = Len(s) - 1
        /\ \A n \in 1 .. Len(s) - 1 : q[n] = IF n <= k THEN s[n] ELSE s[n + 1]
    <3>1. HasTakenOut(q, Timers, s, k)
      BY <2>1, TakenOutAt
    <3> QED
      BY <3>1 DEF HasTakenOut
  <2> HIDE DEF q
  <2>3. ASSUME NEW n \in 1 .. Len(q) PROVE place(n) \in 1 .. Len(s) /\ q[n] = s[place(n)]
    <3>1. n \in Nat /\ 1 <= n /\ n <= Len(s) - 1 /\ q[n] = IF n <= k THEN s[n] ELSE s[n + 1]
      BY <2>1, <2>2, SMTT(30)
    <3>2. CASE n <= k
      BY <2>1, <3>1, <3>2
    <3>3. CASE ~ (n <= k)
      <4>1. n + 1 \in 1 .. Len(s)
        BY <2>1, <3>1
      <4> QED
        BY <3>1, <3>3, <4>1
    <3> QED
      BY <3>2, <3>3
  <2>4. \A m, n \in 1 .. Len(q) : m <= n => place(m) <= place(n)
    BY <2>1, <2>2, SMTT(30)
  <2> HIDE DEF place
  <2>5. InOrder(q, deadline)
    BY <2>3, <2>4 DEF InOrder
  <2>6. Members(q) = Members(s) \ {t}
    <3> DEFINE i == v.first
               nx == v.next
    <3>1. Linked(Timers, TMR_END, i, nx, s)
      BY DEF ListIs
    <3> HIDE DEF i, nx
    <3> DEFINE i2 == IF k = 0 THEN nx[s[1]] ELSE i
               nx2 == [p \in Timers |-> IF k # 0 /\ p = s[k] THEN nx[s[k + 1]] ELSE nx[p]]
    <3>2. /\ k # 0 => nx2[s[k]] = nx[s[k + 1]]
          /\ \A n \in 1 .. Len(s) : n # k /\ n # k + 1 => nx2[s[n]] = nx[s[n]]
      <4>1. k # 0 => k \in 1 .. Len(s) /\ s[k] \in Timers
        BY <2>1
      <4> QED
        BY <2>1, <4>1
    <3>3. PassedOver(i, nx, s, k, i2, nx2)
      BY <3>2 DEF PassedOver
    <3> HIDE DEF i2, nx2
    <3>4. Members(TakenOut(s, k)) = Members(s) \ {s[k + 1]}
      BY <3>1, <3>3, RemoveLinked
    <3> QED
      BY <1>2, <3>4 DEF q
  <2> QED
    BY <1>2, <2>5, <2>6 DEF q
<1> QED
  BY <1>1, <1>2, UnlinkedIs

(* The deadlines dl are those of deadline but for that of t, which is d. *)
MovedTo(dl, t, d) ==
  dl \in [Timers -> Nat] /\ dl[t] = d /\ \A p \in Timers : p # t => dl[p] = deadline[p]

(* A timer put in. *)
LEMMA Entered ==
  ASSUME NEW v, NEW s, ListIs(v, s), deadline \in [Timers -> Nat], InOrder(s, deadline),
         NEW t \in Timers, t \notin Members(s), NEW d \in Nat,
         NEW dl, MovedTo(dl, t, d)
  PROVE  \E q : /\ ListIs(Inserted(v, t, d), q) /\ InOrder(q, dl)
                /\ Members(q) = Members(s) \cup {t}
<1>1. PICK k \in 0 .. Len(s) :
           /\ ListIs(Inserted(v, t, d), PutIn(s, k, t))
           /\ Members(PutIn(s, k, t)) = Members(s) \cup {t}
           /\ \A i \in 1 .. k : deadline[s[i]] <= d
           /\ k < Len(s) => deadline[s[k + 1]] > d
  BY InsertedIs
<1>2. s \in Seq(Timers) /\ Len(s) \in Nat /\ k \in Nat
  BY DEF ListIs, Linked
<1>3. \A n \in 1 .. Len(s) : s[n] \in Timers /\ deadline[s[n]] \in Nat /\ dl[s[n]] = deadline[s[n]]
  <2> TAKE n \in 1 .. Len(s)
  <2>1. s[n] \in Timers /\ s[n] # t
    BY <1>2 DEF Members
  <2> QED
    BY <2>1 DEF MovedTo
<1> DEFINE q == PutIn(s, k, t)
           place(n) == IF n <= k THEN n ELSE n - 1
<1>4. q \in Seq(Timers) /\ Len(q) = Len(s) + 1
      /\ \A n \in 1 .. Len(s) + 1 : q[n] = IF n <= k THEN s[n] ELSE IF n = k + 1 THEN t ELSE s[n - 1]
  <2>1. HasPutIn(q, Timers, s, k, t)
    BY <1>2, PutInAt
  <2> QED
    BY <2>1 DEF HasPutIn
<1>5. dl[t] = d
  BY DEF MovedTo
<1> HIDE DEF q
<1>6. \A n \in 1 .. Len(s) : n > k => deadline[s[n]] > d
  <2> SUFFICES ASSUME NEW n \in 1 .. Len(s), n > k PROVE deadline[s[n]] > d
    OBVIOUS
  <2>1. k + 1 \in 1 .. Len(s) /\ k + 1 <= n /\ k < Len(s)
    BY <1>2
  <2>2. deadline[s[k + 1]] <= deadline[s[n]] /\ deadline[s[k + 1]] > d
    BY <1>1, <2>1 DEF InOrder
  <2>3. deadline[s[k + 1]] \in Nat /\ deadline[s[n]] \in Nat
    BY <1>3, <2>1
  <2> QED
    BY <2>2, <2>3
<1>7. ASSUME NEW m \in 1 .. Len(q), NEW n \in 1 .. Len(q), m <= n
      PROVE  dl[q[m]] <= dl[q[n]]
  <2>1. \A i \in 1 .. Len(q) : i # k + 1 => /\ place(i) \in 1 .. Len(s) /\ q[i] = s[place(i)]
                                            /\ i <= k => place(i) \in 1 .. k
                                            /\ i > k + 1 => place(i) > k
    <3> SUFFICES ASSUME NEW i \in 1 .. Len(q), i # k + 1
                 PROVE  /\ place(i) \in 1 .. Len(s) /\ q[i] = s[place(i)]
                        /\ i <= k => place(i) \in 1 .. k
                        /\ i > k + 1 => place(i) > k
      OBVIOUS
    <3>1. i \in Nat /\ 1 <= i /\ i <= Len(s) + 1
          /\ q[i] = IF i <= k THEN s[i] ELSE IF i = k + 1 THEN t ELSE s[i - 1]
      <4>1. i \in 1 .. Len(s) + 1
        BY <1>4
      <4>2. q[i] = IF i <= k THEN s[i] ELSE IF i = k + 1 THEN t ELSE s[i - 1]
        BY <1>4, <4>1
      <4> QED
        BY <1>2, <4>1, <4>2
    <3>2. CASE i <= k
      BY <1>2, <3>1, <3>2
    <3>3. CASE i > k + 1
      <4>1. i - 1 \in 1 .. Len(s) /\ i - 1 > k
        BY <1>2, <3>1, <3>3
      <4> QED
        BY <1>2, <3>1, <3>3, <4>1
    <3> QED
      BY <1>2, <3>1, <3>2, <3>3
  <2>2. q[k + 1] = t
    BY <1>2, <1>4
  <2>3. CASE m # k + 1 /\ n # k + 1
    <3>1. place(m) <= place(n)
      BY <1>2, <1>4, <1>7, <2>3, SMTT(30)
    <3> HIDE DEF place
    <3>2. deadline[s[place(m)]] <= deadline[s[place(n)]]
      BY <2>1, <2>3, <3>1 DEF InOrder
    <3> QED
      BY <1>3, <2>1, <2>3, <3>2
  <2>4. CASE m = k + 1 /\ n # k + 1
    <3>1. n > k + 1
      BY <1>2, <1>4, <1>7, <2>4
    <3> HIDE DEF place
    <3>2. place(n) \in 1 .. Len(s) /\ q[n] = s[place(n)] /\ place(n) > k
      BY <2>1, <2>4, <3>1
    <3>3. dl[q[n]] = deadline[s[place(n)]] /\ deadline[s[place(n)]] > d /\ deadline[s[place(n)]] \in Nat
      BY <1>3, <1>6, <3>2
    <3>4. dl[q[m]] = d
      BY <1>5, <2>2, <2>4
    <3> QED
      BY <3>3, <3>4
  <2>5. CASE m # k + 1 /\ n = k + 1
    <3>1. m <= k
      BY <1>2, <1>4, <1>7, <2>5
    <3> HIDE DEF place
    <3>2. place(m) \in 1 .. Len(s) /\ q[m] = s[place(m)] /\ place(m) \in 1 .. k
      BY <2>1, <2>5, <3>1
    <3>3. dl[q[m]] = deadline[s[place(m)]] /\ deadline[s[place(m)]] <= d
      BY <1>1, <1>3, <3>2
    <3>4. dl[q[n]] = d
      BY <1>5, <2>2, <2>5
    <3> QED
      BY <3>3, <3>4
  <2>6. CASE m = k + 1 /\ n = k + 1
    BY <1>5, <2>2, <2>6
  <2> QED
    BY <2>3, <2>4, <2>5, <2>6
<1>8. InOrder(q, dl)
  BY <1>7 DEF InOrder
<1> QED
  BY <1>1, <1>8 DEF q

(* The first timer taken off the list. *)
LEMMA HeadUnlinked ==
  ASSUME NEW v, NEW s, ListIs(v, s), v.first # TMR_END
  PROVE  /\ v.first \in Timers /\ v.first \in Members(s) /\ Len(s) # 0 /\ s[1] = v.first
         /\ Unlinked(v, v.first) =
              [first |-> v.next[v.first], next |-> [v.next EXCEPT ![v.first] = TMR_NIL]]
<1>1. /\ s \in Seq(Timers) /\ Len(s) \in Nat /\ DOMAIN s = 1 .. Len(s)
      /\ v.first = IF Len(s) = 0 THEN TMR_END ELSE s[1]
      /\ \A m, n \in 1 .. Len(s) : s[m] = s[n] => m = n
  BY DEF ListIs, Linked
<1>2. Len(s) # 0 /\ s[1] = v.first /\ 1 \in 1 .. Len(s)
  BY <1>1
<1>3. v.first \in Timers /\ v.first \in Members(s)
  BY <1>1, <1>2 DEF Members
<1>4. Met(v) = s /\ v.next[v.first] # TMR_NIL
  BY <1>3, MetIs DEF ListIs
<1>5. (CHOOSE k \in DOMAIN Met(v) : Met(v)[k] = v.first) = 1
  BY <1>1, <1>2, <1>4
<1>6. Unlinked(v, v.first) = [WithLink(v, TMR_NIL, v.next[v.first]) EXCEPT !.next[v.first] = TMR_NIL]
  <2>1. Reached(v, 1 - 1) = TMR_NIL
    BY DEF Reached
  <2> QED
    BY <1>4, <1>5, <2>1 DEF Unlinked
<1>7. v = [first |-> v.first, next |-> v.next]
  BY DEF ListIs
<1>8. Unlinked(v, v.first) =
        [first |-> v.next[v.first], next |-> [v.next EXCEPT ![v.first] = TMR_NIL]]
  BY <1>6, <1>7 DEF WithLink
<1> QED
  BY <1>2, <1>3, <1>8

LEMMA TimerInitInv == TimerInit => TimerInv /\ Promised!Init
<1> SUFFICES ASSUME TimerInit PROVE TimerInv /\ Promised!Init
  OBVIOUS
<1> DEFINE s == <<>>
<1>1. ListIs(Q, s) /\ InOrder(s, deadline)
  BY TimerConstants DEF TimerInit, Q, ListIs, Linked, InOrder, Members
<1>2. Members(s) = {}
  BY DEF Members
<1> HIDE DEF s
<1>3. Dues(Q, deadline) = [t \in Timers |-> -1]
  BY <1>1, <1>2, DuesIs
<1>4. TimerInv
  BY <1>1 DEF TimerInit, TimerInv
<1>5. Promised!Init
  BY <1>3, TimerConstants DEF TimerInit, Promised!Init, Promised!Off, Dues, IsQueued
<1> QED
  BY <1>4, <1>5

(* What becomes of the list and of what clients see of it. *)
LEMMA BecomesIs ==
  ASSUME NEW u, NEW s, ListIs(u, s), Becomes(u), NEW dl, deadline' = dl
  PROVE  /\ Q' = u
         /\ Dues(Q, deadline)' = [t \in Timers |-> IF t \in Members(s) THEN dl[t] ELSE -1]
<1>1. u = [first |-> u.first, next |-> u.next]
  BY DEF ListIs
<1>2. Q' = u
  BY <1>1 DEF Q, Becomes
<1>3. Dues(u, dl) = [t \in Timers |-> IF t \in Members(s) THEN dl[t] ELSE -1]
  BY DuesIs
<1> QED
  BY <1>2, <1>3 DEF Dues

LEMMA SetStep ==
  ASSUME TimerInv, NEW t \in Timers, NEW ahead \in Ahead, SetTimer(t, ahead)
  PROVE  /\ TimerInv'
         /\ Dues(Q, deadline)'[t] # -1
         /\ Dues(Q, deadline)' = [Dues(Q, deadline) EXCEPT ![t] = Dues(Q, deadline)'[t]]
<1>1. PICK s : ListIs(Q, s) /\ InOrder(s, deadline)
  BY DEF TimerInv
<1>d. PICK d : d = now + ahead
  OBVIOUS
<1>v. PICK v : v = Unlinked(Q, t)
  OBVIOUS
<1>dl. PICK dl : dl = [deadline EXCEPT ![t] = d]
  OBVIOUS
<1>2. deadline \in [Timers -> Nat] /\ now \in Nat /\ d \in Nat
  BY <1>d, TimerConstants DEF TimerInv
<1>3. /\ deadline' = dl /\ dl \in [Timers -> Nat] /\ dl[t] = d
      /\ \A p \in Timers : p # t => dl[p] = deadline[p]
      /\ Becomes(Inserted(v, t, d)) /\ now' = now
  BY <1>d, <1>v, <1>dl, <1>2 DEF SetTimer
<1>4. PICK q : ListIs(v, q) /\ InOrder(q, deadline) /\ Members(q) = Members(s) \ {t}
  BY <1>v, <1>1, <1>2, Cleared
<1>5. PICK r : ListIs(Inserted(v, t, d), r) /\ InOrder(r, dl) /\ Members(r) = Members(q) \cup {t}
  <2>1. t \notin Members(q) /\ ListIs(v, q) /\ InOrder(q, deadline)
    BY <1>4
  <2>2. deadline \in [Timers -> Nat] /\ d \in Nat
    BY <1>2
  <2>3. MovedTo(dl, t, d)
    BY <1>3 DEF MovedTo
  <2> QED
    BY <2>1, <2>2, <2>3, Entered
<1>6. Q' = Inserted(v, t, d)
      /\ Dues(Q, deadline)' = [p \in Timers |-> IF p \in Members(r) THEN dl[p] ELSE -1]
  BY <1>3, <1>5, BecomesIs
<1>7. Dues(Q, deadline) = [p \in Timers |-> IF p \in Members(s) THEN deadline[p] ELSE -1]
  BY <1>1, DuesIs
<1>8. TimerInv'
  BY <1>2, <1>3, <1>5, <1>6 DEF TimerInv
<1>9. \A p \in Timers : p # t => (p \in Members(r) <=> p \in Members(s)) /\ t \in Members(r)
  BY <1>4, <1>5
<1>10. t \in Members(r)
  BY <1>5
<1> QED
  BY <1>2, <1>3, <1>6, <1>7, <1>8, <1>9, <1>10

LEMMA ClrStep ==
  ASSUME TimerInv, NEW t \in Timers, Becomes(Unlinked(Q, t)), deadline' = deadline, now' = now
  PROVE  TimerInv' /\ Dues(Q, deadline)' = [Dues(Q, deadline) EXCEPT ![t] = -1]
<1>1. PICK s : ListIs(Q, s) /\ InOrder(s, deadline)
  BY DEF TimerInv
<1>2. deadline \in [Timers -> Nat] /\ now \in Nat
  BY DEF TimerInv
<1>3. PICK q : ListIs(Unlinked(Q, t), q) /\ InOrder(q, deadline) /\ Members(q) = Members(s) \ {t}
  BY <1>1, <1>2, Cleared
<1>4. Q' = Unlinked(Q, t)
      /\ Dues(Q, deadline)' = [p \in Timers |-> IF p \in Members(q) THEN deadline[p] ELSE -1]
  BY <1>3, BecomesIs
<1>5. Dues(Q, deadline) = [p \in Timers |-> IF p \in Members(s) THEN deadline[p] ELSE -1]
  BY <1>1, DuesIs
<1>6. TimerInv'
  BY <1>2, <1>3, <1>4 DEF TimerInv
<1> QED
  BY <1>3, <1>4, <1>5, <1>6

LEMMA ExpireStep ==
  ASSUME TimerInv, Expire
  PROVE  /\ TimerInv' /\ timerQ \in Timers
         /\ Dues(Q, deadline)[timerQ] # -1 /\ Dues(Q, deadline)[timerQ] <= now
         /\ \A p \in Timers : Dues(Q, deadline)[p] # -1
                                => Dues(Q, deadline)[timerQ] <= Dues(Q, deadline)[p]
         /\ Dues(Q, deadline)' = [Dues(Q, deadline) EXCEPT ![timerQ] = -1]
<1>1. PICK s : ListIs(Q, s) /\ InOrder(s, deadline)
  BY DEF TimerInv
<1>2. Q.first = timerQ /\ Q.next = tmrnext /\ timerQ # TMR_END /\ deadline[timerQ] <= now
  BY DEF Q, Expire, Due
<1>3. /\ timerQ \in Timers /\ timerQ \in Members(s) /\ Len(s) # 0 /\ s[1] = timerQ
      /\ Unlinked(Q, timerQ) = [first |-> tmrnext[timerQ], next |-> [tmrnext EXCEPT ![timerQ] = TMR_NIL]]
  BY <1>1, <1>2, HeadUnlinked
<1>4. Becomes(Unlinked(Q, timerQ)) /\ deadline' = deadline /\ now' = now
  BY <1>3 DEF Becomes, Expire
<1>5. TimerInv' /\ Dues(Q, deadline)' = [Dues(Q, deadline) EXCEPT ![timerQ] = -1]
  BY <1>3, <1>4, ClrStep
<1>6. Dues(Q, deadline) = [p \in Timers |-> IF p \in Members(s) THEN deadline[p] ELSE -1]
  BY <1>1, DuesIs
<1>7. deadline \in [Timers -> Nat]
  BY DEF TimerInv
<1>8. ASSUME NEW p \in Timers, p \in Members(s) PROVE deadline[timerQ] <= deadline[p]
  <2>1. PICK n \in 1 .. Len(s) : p = s[n]
    BY <1>8 DEF Members
  <2>2. 1 \in 1 .. Len(s) /\ 1 <= n
    <3>1. Len(s) \in Nat
      BY <1>1 DEF ListIs, Linked
    <3> QED
      BY <1>3, <3>1
  <2> QED
    BY <1>1, <1>3, <2>1, <2>2 DEF InOrder
<1>9. \A p \in Timers : Dues(Q, deadline)[p] # -1 => p \in Members(s) /\ Dues(Q, deadline)[p] = deadline[p]
  BY <1>6
<1>10. Dues(Q, deadline)[timerQ] = deadline[timerQ] /\ deadline[timerQ] \in Nat
  BY <1>3, <1>6, <1>7
<1>11. deadline[timerQ] # -1
  BY <1>10
<1> QED
  BY <1>2, <1>3, <1>5, <1>8, <1>9, <1>10, <1>11

LEMMA TimerStep ==
  ASSUME TimerInv, [TimerNext]_timerVars
  PROVE  TimerInv' /\ [Promised!Next]_<<Dues(Q, deadline), now, at>>
<1>0. Dues(Q, deadline) = [t \in Timers |-> IF IsQueued(t) THEN deadline[t] ELSE -1]
      /\ Dues(Q, deadline)' = [t \in Timers |-> IF IsQueued(t) THEN deadline[t] ELSE -1]'
  BY DEF Dues, IsQueued
<1> DEFINE due == Dues(Q, deadline)
<1>1. ASSUME NEW t \in Timers, NEW ahead \in Ahead, SetTimer(t, ahead)
      PROVE  TimerInv' /\ Promised!Next
  <2>1. TimerInv' /\ due'[t] # -1 /\ due' = [due EXCEPT ![t] = due'[t]]
    BY <1>1, SetStep
  <2>2. now' = now /\ at' = at
    BY <1>1 DEF SetTimer
  <2> HIDE DEF due
  <2>3. Promised!Set(t)
    BY <1>0, <2>1, <2>2 DEF Promised!Set, Promised!Off, due
  <2>4. Promised!Next
    BY <2>3 DEF Promised!Next
  <2> QED
    BY <2>1, <2>4
<1>2. ASSUME NEW t \in Timers, ClrTimer(t) PROVE TimerInv' /\ Promised!Next
  <2>1. TimerInv' /\ due' = [due EXCEPT ![t] = -1] /\ now' = now /\ at' = at
    BY <1>2, ClrStep DEF ClrTimer
  <2> HIDE DEF due
  <2>2. Promised!Clr(t)
    BY <1>0, <2>1 DEF Promised!Clr, Promised!Off, due
  <2> QED
    BY <2>1, <2>2 DEF Promised!Next
<1>3. ASSUME Expire PROVE TimerInv' /\ Promised!Next
  <2>1. /\ TimerInv' /\ timerQ \in Timers /\ due[timerQ] # -1 /\ due[timerQ] <= now
        /\ \A p \in Timers : due[p] # -1 => due[timerQ] <= due[p]
        /\ due' = [due EXCEPT ![timerQ] = -1] /\ at' = timerQ /\ now' = now
    BY <1>3, ExpireStep DEF Expire
  <2> HIDE DEF due
  <2>2. PICK p \in Timers : p = timerQ
    BY <2>1
  <2>3. Promised!Fire(p)
    BY <1>0, <2>1, <2>2 DEF Promised!Fire, Promised!Off, due
  <2>4. Promised!Next
    BY <2>3 DEF Promised!Next
  <2> QED
    BY <2>1, <2>4
<1>4. ASSUME UNCHANGED <<timerQ, tmrnext, deadline>>, now' \in Nat
      PROVE  TimerInv' /\ due' = due
  <2>1. Q' = Q
    BY <1>4 DEF Q
  <2> QED
    BY <1>4, <2>1 DEF TimerInv, Dues
<1>5. now \in Nat /\ now + 1 \in Nat
  BY DEF TimerInv
<1>6. ASSUME UNCHANGED <<timerQ, tmrnext, deadline, now>>, at' \notin Timers
      PROVE  TimerInv' /\ Promised!Next
  <2>1. TimerInv' /\ due' = due /\ now' = now
    BY <1>4, <1>5, <1>6
  <2> HIDE DEF due
  <2>2. Promised!Quiet
    BY <1>0, <1>6, <2>1 DEF Promised!Quiet, due
  <2> QED
    BY <2>1, <2>2 DEF Promised!Next
<1>7. ASSUME Tick PROVE TimerInv' /\ Promised!Next
  <2>1. TimerInv' /\ due' = due /\ now' = now + 1 /\ at' = at
    BY <1>4, <1>5, <1>7 DEF Tick
  <2> HIDE DEF due
  <2>2. Promised!Tick
    BY <1>0, <2>1 DEF Promised!Tick, due
  <2> QED
    BY <2>1, <2>2 DEF Promised!Next
<1>8. Return \/ Sleep \/ TimedOut \/ Io => UNCHANGED <<timerQ, tmrnext, deadline, now>> /\ at' \notin Timers
  BY TimerConstants DEF Return, Sleep, TimedOut, Io
<1>9. CASE UNCHANGED timerVars
  BY <1>4, <1>5, <1>9 DEF timerVars
<1> QED
  BY <1>1, <1>2, <1>3, <1>6, <1>7, <1>8, <1>9 DEF TimerNext

(* Whatever callbacks set and clear, the queue of rt.c is a list of timers  *)
(* without repetition, in the order of their deadlines, that ends in        *)
(* TMR_END, and a timer has a next exactly if it is on the list: what       *)
(* rt_setTimer and rt_clrTimer tell a queued timer by.                      *)
THEOREM TimersInOrder == TimerSpec => []TimerInv
<1>1. TimerInit => TimerInv
  BY TimerInitInv
<1>2. TimerInv /\ [TimerNext]_timerVars => TimerInv'
  BY TimerStep
<1> QED
  BY <1>1, <1>2, PTL DEF TimerSpec

(* The list of rt.c implements TimerSet: whatever callbacks set and clear,  *)
(* a timer that is set fires at or after its deadline, once, the earliest   *)
(* first, and one that is cleared does not.                                 *)
THEOREM TimersKept == TimerSpec => ImplementsTimers
<1>1. TimerInit => TimerInv /\ Promised!Init
  BY TimerInitInv
<1>2. TimerInv /\ [TimerNext]_timerVars
        => TimerInv' /\ [Promised!Next]_<<[t \in Timers |-> IF IsQueued(t) THEN deadline[t] ELSE -1], now, at>>
  BY TimerStep DEF Dues, IsQueued
<1> QED
  BY <1>1, <1>2, PTL DEF TimerSpec, ImplementsTimers, Promised!Spec
=============================================================================
