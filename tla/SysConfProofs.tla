--------------------------- MODULE SysConfProofs ---------------------------
(***************************************************************************)
(* An update of the configuration is all or nothing, wherever the station  *)
(* stops and starts again, no power failure brings back the marker of a    *)
(* finished update, and a backup marked as done is the set it was ordered  *)
(* of, for any set of files and any offers.                                *)
(***************************************************************************)
EXTENDS SysConf, FiniteSetTheorems, SequenceTheorems, TLAPS

(* File operations, procedures and what todo may hold *)
Operation ==
  {Write(c, set, e, v) : c \in Cats, set \in {"temp", "bak"}, e \in Exts, v \in Content}
  \cup {Mark(c, taf, b) : c \in Cats, taf \in {"upd", "cpy", "don"}, b \in BOOLEAN}
  \cup {Rename(c, e) : c \in Cats, e \in Exts} \cup {Copy(c, e) : c \in Cats, e \in Exts}
  \cup {Sync} \cup {Note(c) : c \in Cats}
Procedure == Seq(Operation) \ {<<>>}

(* o is in procedure p, o is to be done, a is to be done before b. *)
In(p, o) == \E j \in 1 .. Len(p) : p[j] = o
Before(p, a, b) == \E j, l \in 1 .. Len(p) : j < l /\ p[j] = a /\ p[l] = b
Has(td, o) == \E i \in 1 .. Len(td) : In(td[i], o)
Follows(td, a, b) ==
  \/ \E i \in 1 .. Len(td) : Before(td[i], a, b)
  \/ \E i, m \in 1 .. Len(td) : i < m /\ In(td[i], a) /\ In(td[m], b)
-----------------------------------------------------------------------------
(* Lemmas about procedures *)

LEMMA InConcat ==
  ASSUME NEW p \in Seq(Operation), NEW q \in Seq(Operation), NEW o
  PROVE  /\ p \o q \in Seq(Operation)
         /\ In(p \o q, o) <=> In(p, o) \/ In(q, o)
<1>1. Len(p) \in Nat /\ Len(q) \in Nat
  BY LenProperties
<1>2. /\ p \o q \in Seq(Operation) /\ Len(p \o q) = Len(p) + Len(q)
      /\ \A i \in 1 .. Len(p) + Len(q) :
           (p \o q)[i] = IF i <= Len(p) THEN p[i] ELSE q[i - Len(p)]
  BY ConcatProperties
<1>3. ASSUME In(p \o q, o) PROVE In(p, o) \/ In(q, o)
  <2>1. PICK i \in 1 .. Len(p) + Len(q) : (p \o q)[i] = o
    BY <1>2, <1>3 DEF In
  <2>2. CASE i <= Len(p)
    BY <1>1, <1>2, <2>1, <2>2 DEF In
  <2>3. CASE ~(i <= Len(p))
    <3>1. i - Len(p) \in 1 .. Len(q)
      BY <1>1, <2>3
    <3> QED BY <1>2, <2>1, <2>3, <3>1 DEF In
  <2> QED BY <2>2, <2>3
<1>4. ASSUME In(p, o) PROVE In(p \o q, o)
  <2>1. PICK i \in 1 .. Len(p) : p[i] = o
    BY <1>4 DEF In
  <2>2. i \in 1 .. Len(p) + Len(q) /\ i <= Len(p)
    BY <1>1
  <2> QED BY <1>2, <2>1, <2>2 DEF In
<1>5. ASSUME In(q, o) PROVE In(p \o q, o)
  <2>1. PICK i \in 1 .. Len(q) : q[i] = o
    BY <1>5 DEF In
  <2>2. i + Len(p) \in 1 .. Len(p) + Len(q) /\ ~(i + Len(p) <= Len(p)) /\ (i + Len(p)) - Len(p) = i
    BY <1>1
  <2> QED BY <1>2, <2>1, <2>2 DEF In
<1> QED BY <1>2, <1>3, <1>4, <1>5

LEMMA BeforeConcat ==
  ASSUME NEW p \in Seq(Operation), NEW q \in Seq(Operation), NEW a, NEW b,
         Before(p \o q, a, b)
  PROVE  Before(p, a, b) \/ Before(q, a, b) \/ (In(p, a) /\ In(q, b))
<1>1. Len(p) \in Nat /\ Len(q) \in Nat
  BY LenProperties
<1>2. /\ Len(p \o q) = Len(p) + Len(q)
      /\ \A i \in 1 .. Len(p) + Len(q) :
           (p \o q)[i] = IF i <= Len(p) THEN p[i] ELSE q[i - Len(p)]
  BY ConcatProperties
<1>3. PICK j \in 1 .. Len(p) + Len(q), l \in 1 .. Len(p) + Len(q) :
        j < l /\ (p \o q)[j] = a /\ (p \o q)[l] = b
  BY <1>2 DEF Before
<1>4. CASE l <= Len(p)
  <2>1. j \in 1 .. Len(p) /\ l \in 1 .. Len(p)
    BY <1>1, <1>3, <1>4
  <2> QED BY <1>2, <1>3, <2>1 DEF Before
<1>5. CASE j > Len(p)
  <2>1. j - Len(p) \in 1 .. Len(q) /\ l - Len(p) \in 1 .. Len(q) /\ j - Len(p) < l - Len(p)
        /\ ~(j <= Len(p)) /\ ~(l <= Len(p))
    BY <1>1, <1>3, <1>5
  <2> QED BY <1>2, <1>3, <2>1 DEF Before
<1>6. CASE j <= Len(p) /\ ~(l <= Len(p))
  <2>1. j \in 1 .. Len(p) /\ l - Len(p) \in 1 .. Len(q)
    BY <1>1, <1>3, <1>6
  <2> QED BY <1>2, <1>3, <1>6, <2>1 DEF In
<1> QED BY <1>1, <1>4, <1>5, <1>6

LEMMA OneOperation ==
  ASSUME NEW x \in Operation, NEW o, NEW a, NEW b
  PROVE  /\ <<x>> \in Procedure /\ <<x>> \in Seq(Operation)
         /\ In(<<x>>, o) <=> o = x
         /\ ~Before(<<x>>, a, b)
<1>1. <<x>> \in Seq(Operation) /\ Len(<<x>>) = 1 /\ <<x>>[1] = x /\ <<x>> # <<>>
  OBVIOUS
<1>2. 1 .. Len(<<x>>) = {1}
  BY <1>1
<1> QED BY <1>1, <1>2 DEF In, Before, Procedure

LEMMA NoOperation ==
  ASSUME NEW o, NEW a, NEW b
  PROVE  <<>> \in Seq(Operation) /\ ~In(<<>>, o) /\ ~Before(<<>>, a, b)
<1>1. <<>> \in Seq(Operation) /\ Len(<<>>) = 0
  BY EmptySeq
<1> QED BY <1>1 DEF In, Before

(* A sequence made of a set of operations *)
LEMMA SetToSeqIn ==
  ASSUME NEW S \in SUBSET Operation, IsFiniteSet(S)
  PROVE  /\ SetToSeq(S) \in Seq(Operation)
         /\ \A o : In(SetToSeq(S), o) <=> o \in S
         /\ \A a, b : Before(SetToSeq(S), a, b) => a \in S /\ b \in S
         /\ S # {} => SetToSeq(S) # <<>>
<1> DEFINE n == Cardinality(S)
<1>1. n \in Nat /\ ExistsBijection(1 .. n, S)
  BY FS_CardinalityType
<1>2. PICK g : g \in Bijection(1 .. n, S)
  BY <1>1 DEF ExistsBijection
<1>3. g \in [1 .. n -> S] /\ IsInjective(g)
  BY <1>2 DEF Bijection, Injection
<1> DEFINE f == SetToSeq(S)
<1>4. f \in [1 .. n -> S] /\ IsInjective(f)
  BY <1>3 DEF SetToSeq
<1> HIDE DEF f
<1>5. f \in Injection(1 .. n, S)
  BY <1>4 DEF Injection
<1>6. Cardinality(1 .. n) = n
  <2>1. Cardinality(1 .. n) = IF 1 > n THEN 0 ELSE n - 1 + 1
    BY <1>1, FS_Interval
  <2> QED BY <1>1, <2>1
<1>7. f \in Surjection(1 .. n, S)
  BY <1>5, <1>6, FS_Injection
<1>8. \A x \in S : \E i \in 1 .. n : f[i] = x
  BY <1>7 DEF Surjection
<1> HIDE DEF n
<1>9. f \in Seq(Operation) /\ Len(f) = n /\ \A i \in 1 .. n : f[i] \in S
  BY <1>1, <1>4
<1>10. \A o : In(f, o) <=> o \in S
  BY <1>8, <1>9 DEF In
<1>11. \A a, b : Before(f, a, b) => a \in S /\ b \in S
  BY <1>9 DEF Before
<1>12. S # {} => f # <<>>
  <2>1. f = <<>> => Len(f) = 0
    BY EmptySeq
  <2> QED BY <1>8, <1>9, <2>1
<1> QED BY <1>9, <1>10, <1>11, <1>12 DEF f

LEMMA ExtsFinite == IsFiniteSet(Exts) /\ IsFiniteSet(CredExts) /\ CredExts # {} /\ "uri" \in Exts
BY ConfAssumption, FS_AddElement DEF Exts

(* The files of some kinds written, removed, renamed and copied, in any    *)
(* order                                                                   *)
LEMMA ForFiles ==
  ASSUME NEW X \in SUBSET Exts, NEW f \in [X -> Operation]
  PROVE  LET p == SetToSeq({f[e] : e \in X})
         IN  /\ p \in Seq(Operation)
             /\ \A o : In(p, o) <=> \E e \in X : o = f[e]
             /\ \A a, b : Before(p, a, b) => In(p, a) /\ In(p, b)
             /\ X # {} => p # <<>>
<1> DEFINE S == {f[e] : e \in X}
<1>1. IsFiniteSet(X)
  BY ExtsFinite, FS_Subset
<1>2. f \in Surjection(X, S)
  BY DEF Surjection
<1>3. IsFiniteSet(S) /\ S \in SUBSET Operation
  BY <1>1, <1>2, FS_Surjection
<1> HIDE DEF S
<1>4. /\ SetToSeq(S) \in Seq(Operation)
      /\ \A o : In(SetToSeq(S), o) <=> o \in S
      /\ \A a, b : Before(SetToSeq(S), a, b) => a \in S /\ b \in S
      /\ S # {} => SetToSeq(S) # <<>>
  BY <1>3, SetToSeqIn
<1> QED BY <1>4 DEF S
-----------------------------------------------------------------------------
(* Lemmas about what is to be done *)

LEMMA HasConcat ==
  ASSUME NEW s \in Seq(Procedure), NEW t \in Seq(Procedure), NEW o
  PROVE  /\ s \o t \in Seq(Procedure)
         /\ Has(s \o t, o) <=> Has(s, o) \/ Has(t, o)
<1>1. Len(s) \in Nat /\ Len(t) \in Nat
  BY LenProperties
<1>2. /\ s \o t \in Seq(Procedure) /\ Len(s \o t) = Len(s) + Len(t)
      /\ \A i \in 1 .. Len(s) + Len(t) :
           (s \o t)[i] = IF i <= Len(s) THEN s[i] ELSE t[i - Len(s)]
  BY ConcatProperties
<1>3. ASSUME Has(s \o t, o) PROVE Has(s, o) \/ Has(t, o)
  <2>1. PICK i \in 1 .. Len(s) + Len(t) : In((s \o t)[i], o)
    BY <1>2, <1>3 DEF Has
  <2>2. CASE i <= Len(s)
    BY <1>1, <1>2, <2>1, <2>2 DEF Has
  <2>3. CASE ~(i <= Len(s))
    <3>1. i - Len(s) \in 1 .. Len(t)
      BY <1>1, <2>3
    <3> QED BY <1>2, <2>1, <2>3, <3>1 DEF Has
  <2> QED BY <2>2, <2>3
<1>4. ASSUME Has(s, o) PROVE Has(s \o t, o)
  <2>1. PICK i \in 1 .. Len(s) : In(s[i], o)
    BY <1>4 DEF Has
  <2>2. i \in 1 .. Len(s) + Len(t) /\ i <= Len(s)
    BY <1>1
  <2> QED BY <1>2, <2>1, <2>2 DEF Has
<1>5. ASSUME Has(t, o) PROVE Has(s \o t, o)
  <2>1. PICK i \in 1 .. Len(t) : In(t[i], o)
    BY <1>5 DEF Has
  <2>2. i + Len(s) \in 1 .. Len(s) + Len(t) /\ ~(i + Len(s) <= Len(s)) /\ (i + Len(s)) - Len(s) = i
    BY <1>1
  <2> QED BY <1>2, <2>1, <2>2 DEF Has
<1> QED BY <1>2, <1>3, <1>4, <1>5

LEMMA FollowsConcat ==
  ASSUME NEW s \in Seq(Procedure), NEW t \in Seq(Procedure), NEW a, NEW b,
         Follows(s \o t, a, b)
  PROVE  Follows(s, a, b) \/ Follows(t, a, b) \/ (Has(s, a) /\ Has(t, b))
<1>1. Len(s) \in Nat /\ Len(t) \in Nat
  BY LenProperties
<1>2. /\ Len(s \o t) = Len(s) + Len(t)
      /\ \A i \in 1 .. Len(s) + Len(t) :
           (s \o t)[i] = IF i <= Len(s) THEN s[i] ELSE t[i - Len(s)]
  BY ConcatProperties
<1>3. ASSUME NEW i \in 1 .. Len(s) + Len(t), Before((s \o t)[i], a, b)
      PROVE  Follows(s, a, b) \/ Follows(t, a, b)
  <2>1. CASE i <= Len(s)
    BY <1>1, <1>2, <1>3, <2>1 DEF Follows
  <2>2. CASE ~(i <= Len(s))
    <3>1. i - Len(s) \in 1 .. Len(t)
      BY <1>1, <2>2
    <3> QED BY <1>2, <1>3, <2>2, <3>1 DEF Follows
  <2> QED BY <2>1, <2>2
<1>4. ASSUME NEW i \in 1 .. Len(s) + Len(t), NEW m \in 1 .. Len(s) + Len(t), i < m,
             In((s \o t)[i], a), In((s \o t)[m], b)
      PROVE  Follows(s, a, b) \/ Follows(t, a, b) \/ (Has(s, a) /\ Has(t, b))
  <2>1. CASE m <= Len(s)
    <3>1. i \in 1 .. Len(s) /\ m \in 1 .. Len(s) /\ i <= Len(s)
      BY <1>1, <1>4, <2>1
    <3> QED BY <1>2, <1>4, <2>1, <3>1 DEF Follows
  <2>2. CASE ~(i <= Len(s))
    <3>1. i - Len(s) \in 1 .. Len(t) /\ m - Len(s) \in 1 .. Len(t) /\ i - Len(s) < m - Len(s)
          /\ ~(m <= Len(s))
      BY <1>1, <1>4, <2>2
    <3> QED BY <1>2, <1>4, <2>2, <3>1 DEF Follows
  <2>3. CASE i <= Len(s) /\ ~(m <= Len(s))
    <3>1. i \in 1 .. Len(s) /\ m - Len(s) \in 1 .. Len(t)
      BY <1>1, <2>3
    <3> QED BY <1>2, <1>4, <2>3, <3>1 DEF Has
  <2> QED BY <1>1, <1>4, <2>1, <2>2, <2>3
<1> QED BY <1>2, <1>3, <1>4 DEF Follows

LEMMA OneProcedure ==
  ASSUME NEW p \in Procedure, NEW o, NEW a, NEW b
  PROVE  /\ <<p>> \in Seq(Procedure)
         /\ Has(<<p>>, o) <=> In(p, o)
         /\ Follows(<<p>>, a, b) <=> Before(p, a, b)
<1>1. <<p>> \in Seq(Procedure) /\ Len(<<p>>) = 1 /\ <<p>>[1] = p
  OBVIOUS
<1>2. 1 .. Len(<<p>>) = {1}
  BY <1>1
<1>3. ~(1 < 1)
  OBVIOUS
<1> QED BY <1>1, <1>2, <1>3 DEF Has, Follows

LEMMA NoProcedure ==
  ASSUME NEW o, NEW a, NEW b
  PROVE  <<>> \in Seq(Procedure) /\ ~Has(<<>>, o) /\ ~Follows(<<>>, a, b)
<1>1. <<>> \in Seq(Procedure) /\ Len(<<>>) = 0
  BY EmptySeq
<1> QED BY <1>1 DEF Has, Follows

(* The first operation is done. *)
LEMMA Dropped ==
  ASSUME todo \in Seq(Procedure), ~Idle
  PROVE  /\ Rest \in Seq(Procedure) /\ Op \in Operation /\ Has(todo, Op)
         /\ \A o : Has(Rest, o) => Has(todo, o) /\ Follows(todo, Op, o)
         /\ \A o : Has(todo, o) => o = Op \/ Has(Rest, o)
         /\ \A a, b : Follows(Rest, a, b) => Follows(todo, a, b)
<1> DEFINE h == Head(todo)
           t == Tail(todo)
<1>1. /\ todo # <<>> /\ h \in Procedure /\ t \in Seq(Procedure) /\ Len(t) = Len(todo) - 1
      /\ \A i \in 1 .. Len(t) : t[i] = todo[i + 1]
  BY HeadTailProperties DEF Idle
<1>2. h = todo[1] /\ Len(todo) \in Nat \ {0} /\ Len(t) \in Nat /\ Len(h) \in Nat \ {0}
      /\ h \in Seq(Operation)
  BY <1>1, EmptySeq, LenProperties DEF Procedure
<1>3. todo = <<h>> \o t
  BY <1>1
<1> DEFINE k == Tail(h)
<1>4. /\ Head(h) \in Operation /\ Head(h) = h[1] /\ k \in Seq(Operation) /\ Len(k) = Len(h) - 1
      /\ \A i \in 1 .. Len(k) : k[i] = h[i + 1]
  BY <1>1, HeadTailProperties DEF Procedure
<1> HIDE DEF h, t, k
<1>5. /\ \A o : In(h, o) <=> o = Head(h) \/ In(k, o)
      /\ \A o : In(k, o) => Before(h, Head(h), o)
      /\ \A a, b : Before(k, a, b) => Before(h, a, b)
  <2>1. ASSUME NEW o, In(h, o) PROVE o = Head(h) \/ In(k, o)
    <3>1. PICK j \in 1 .. Len(h) : h[j] = o
      BY <2>1 DEF In
    <3>2. CASE j # 1
      <4>1. j - 1 \in 1 .. Len(k) /\ (j - 1) + 1 = j
        BY <1>2, <1>4, <3>2
      <4> QED BY <1>4, <3>1, <4>1 DEF In
    <3> QED BY <1>4, <3>1, <3>2
  <2>2. ASSUME NEW o, In(k, o) PROVE In(h, o) /\ Before(h, Head(h), o)
    <3>1. PICK j \in 1 .. Len(k) : k[j] = o
      BY <2>2 DEF In
    <3>2. j + 1 \in 1 .. Len(h) /\ 1 \in 1 .. Len(h) /\ 1 < j + 1
      BY <1>2, <1>4
    <3> QED BY <1>4, <3>1, <3>2 DEF In, Before
  <2>3. In(h, Head(h))
    <3>1. 1 \in 1 .. Len(h)
      BY <1>2
    <3> QED BY <1>4, <3>1 DEF In
  <2>4. ASSUME NEW a, NEW b, Before(k, a, b) PROVE Before(h, a, b)
    <3>1. PICK j \in 1 .. Len(k), l \in 1 .. Len(k) : j < l /\ k[j] = a /\ k[l] = b
      BY <2>4 DEF Before
    <3>2. j + 1 \in 1 .. Len(h) /\ l + 1 \in 1 .. Len(h) /\ j + 1 < l + 1
      BY <1>2, <1>4, <3>1
    <3> QED BY <1>4, <3>1, <3>2 DEF Before
  <2> QED BY <2>1, <2>2, <2>3, <2>4
<1>6. /\ \A o : Has(todo, o) <=> In(h, o) \/ Has(t, o)
      /\ \A a, b : Before(h, a, b) \/ Follows(t, a, b) \/ (In(h, a) /\ Has(t, b)) => Follows(todo, a, b)
  <2>1. ASSUME NEW o PROVE Has(todo, o) <=> In(h, o) \/ Has(t, o)
    BY <1>1, <1>3, HasConcat, OneProcedure
  <2>2. ASSUME NEW a, NEW b, Before(h, a, b) PROVE Follows(todo, a, b)
    <3>1. 1 \in 1 .. Len(todo)
      BY <1>2
    <3> QED BY <1>2, <2>2, <3>1 DEF Follows
  <2>3. ASSUME NEW i \in 1 .. Len(t) PROVE i + 1 \in 1 .. Len(todo) /\ t[i] = todo[i + 1] /\ 1 < i + 1
    BY <1>1, <1>2
  <2>4. ASSUME NEW a, NEW b, Follows(t, a, b) PROVE Follows(todo, a, b)
    <3>1. CASE \E i \in 1 .. Len(t) : Before(t[i], a, b)
      BY <2>3, <3>1 DEF Follows
    <3>2. CASE \E i, m \in 1 .. Len(t) : i < m /\ In(t[i], a) /\ In(t[m], b)
      <4>1. PICK i \in 1 .. Len(t), m \in 1 .. Len(t) : i < m /\ In(t[i], a) /\ In(t[m], b)
        BY <3>2
      <4>2. i + 1 < m + 1
        BY <4>1
      <4> QED BY <2>3, <4>1, <4>2 DEF Follows
    <3> QED BY <2>4, <3>1, <3>2 DEF Follows
  <2>5. ASSUME NEW a, NEW b, In(h, a), Has(t, b) PROVE Follows(todo, a, b)
    <3>1. PICK i \in 1 .. Len(t) : In(t[i], b)
      BY <2>5 DEF Has
    <3>2. 1 \in 1 .. Len(todo)
      BY <1>2
    <3> QED BY <1>2, <2>3, <2>5, <3>1, <3>2 DEF Follows
  <2> QED BY <2>1, <2>2, <2>4, <2>5
<1>7. /\ Rest = IF Len(h) = 1 THEN t ELSE <<k>> \o t
      /\ Op = Head(h)
  BY DEF Rest, Op, h, t, k
<1>8. CASE Len(h) = 1
  <2>1. Len(k) = 0 /\ Rest = t
    BY <1>4, <1>7, <1>8
  <2>2. \A o : ~In(k, o)
    BY <2>1 DEF In
  <2> QED BY <1>1, <1>4, <1>5, <1>6, <1>7, <2>1, <2>2
<1>9. CASE Len(h) # 1
  <2>1. Rest = <<k>> \o t /\ k \in Procedure
    <3>1. Len(k) # 0
      BY <1>2, <1>4, <1>9
    <3> QED BY <1>4, <1>7, <1>9, <3>1, EmptySeq DEF Procedure
  <2>2. ASSUME NEW o PROVE Rest \in Seq(Procedure) /\ (Has(Rest, o) <=> In(k, o) \/ Has(t, o))
    BY <1>1, <2>1, HasConcat, OneProcedure
  <2>3. ASSUME NEW a, NEW b, Follows(Rest, a, b) PROVE Follows(todo, a, b)
    <3>1. Before(k, a, b) \/ Follows(t, a, b) \/ (In(k, a) /\ Has(t, b))
      BY <1>1, <2>1, <2>3, FollowsConcat, OneProcedure
    <3> QED BY <1>5, <1>6, <3>1
  <2> QED BY <1>4, <1>5, <1>6, <1>7, <2>2, <2>3
<1> QED BY <1>8, <1>9
-----------------------------------------------------------------------------
(* The procedures: which operations they have, and in which order *)

SetUpd(c) == Mark(c, "upd", TRUE)
ClearUpd(c) == Mark(c, "upd", FALSE)

(* o has nothing to do with an update. *)
Quiet(o) ==
  /\ \A c \in Cats, e \in Exts : o # Rename(c, e) /\ \A v : o # Write(c, "temp", e, v)
  /\ \A c \in Cats : o # SetUpd(c) /\ o # ClearUpd(c)

(* Operations are told apart by what they do. *)
LEMMA Distinct ==
  ASSUME NEW c, NEW d, NEW e, NEW f, NEW v, NEW u, NEW b, NEW set, NEW taf
  PROVE  /\ Rename(c, e) # Mark(d, taf, b) /\ Rename(c, e) # Write(d, set, f, v)
         /\ Mark(c, taf, b) # Write(d, set, f, v) /\ SetUpd(c) # ClearUpd(d)
         /\ Rename(c, e) = Rename(d, f) => c = d /\ e = f
         /\ Write(c, set, e, v) = Write(d, set, f, u) => c = d /\ e = f /\ v = u
         /\ SetUpd(c) = SetUpd(d) => c = d
         /\ ClearUpd(c) = ClearUpd(d) => c = d
         /\ Sync # Rename(c, e) /\ Sync # Mark(c, taf, b) /\ Sync # Write(c, set, e, v)
         /\ Note(c) # Rename(d, e) /\ Note(c) # Mark(d, taf, b) /\ Note(c) # Write(d, set, e, v)
         /\ Copy(c, e) # Rename(d, f) /\ Copy(c, e) # Mark(d, taf, b) /\ Copy(c, e) # Write(d, set, f, v)
BY DEF Rename, Mark, Write, Sync, Note, Copy, SetUpd, ClearUpd

LEMMA QuietOnes ==
  ASSUME NEW c, NEW e, NEW b
  PROVE  /\ Quiet(Sync) /\ Quiet(Note(c)) /\ Quiet(Copy(c, e)) /\ Quiet(Unlink(c, "bak", e))
         /\ Quiet(Mark(c, "cpy", b)) /\ Quiet(Mark(c, "don", b))
BY DEF Quiet, SetUpd, ClearUpd, Rename, Mark, Write, Unlink, Sync, Note, Copy

LEMMA Operations ==
  ASSUME NEW c \in Cats, NEW e \in Exts, NEW v \in Content, NEW b \in BOOLEAN
  PROVE  /\ Write(c, "temp", e, v) \in Operation /\ Unlink(c, "temp", e) \in Operation
         /\ Unlink(c, "bak", e) \in Operation /\ Rename(c, e) \in Operation
         /\ Copy(c, e) \in Operation /\ Sync \in Operation /\ Note(c) \in Operation
         /\ Mark(c, "upd", b) \in Operation /\ Mark(c, "cpy", b) \in Operation
         /\ Mark(c, "don", b) \in Operation
         /\ SetUpd(c) \in Operation /\ ClearUpd(c) \in Operation
<1>1. ASSUME NEW set \in {"temp", "bak"}, NEW u \in Content PROVE Write(c, set, e, u) \in Operation
  <2>1. Write(c, set, e, u)
        \in {Write(c1, s1, e1, v1) : c1 \in Cats, s1 \in {"temp", "bak"}, e1 \in Exts, v1 \in Content}
    OBVIOUS
  <2> QED BY <2>1 DEF Operation
<1>2. ASSUME NEW taf \in {"upd", "cpy", "don"}, NEW a \in BOOLEAN PROVE Mark(c, taf, a) \in Operation
  <2>1. Mark(c, taf, a)
        \in {Mark(c1, t1, b1) : c1 \in Cats, t1 \in {"upd", "cpy", "don"}, b1 \in BOOLEAN}
    OBVIOUS
  <2> QED BY <2>1 DEF Operation
<1>3. Rename(c, e) \in Operation /\ Copy(c, e) \in Operation
  <2>1. Rename(c, e) \in {Rename(c1, e1) : c1 \in Cats, e1 \in Exts}
        /\ Copy(c, e) \in {Copy(c1, e1) : c1 \in Cats, e1 \in Exts}
    OBVIOUS
  <2> QED BY <2>1 DEF Operation
<1>4. Sync \in Operation /\ Note(c) \in Operation
  <2>1. Sync \in {Sync} /\ Note(c) \in {Note(c1) : c1 \in Cats}
    OBVIOUS
  <2> QED BY <2>1 DEF Operation
<1>5. Absent \in Content /\ TRUE \in BOOLEAN /\ FALSE \in BOOLEAN
  BY DEF Content
<1>6. "temp" \in {"temp", "bak"} /\ "bak" \in {"temp", "bak"}
      /\ "upd" \in {"upd", "cpy", "don"} /\ "cpy" \in {"upd", "cpy", "don"} /\ "don" \in {"upd", "cpy", "don"}
  OBVIOUS
<1> QED BY <1>1, <1>2, <1>3, <1>4, <1>5, <1>6, Zenon DEF Unlink, SetUpd, ClearUpd

LEMMA MarksOperations ==
  ASSUME NEW c \in Cats
  PROVE  /\ Sync \in Operation /\ Note(c) \in Operation
         /\ SetUpd(c) \in Operation /\ ClearUpd(c) \in Operation
         /\ \A b \in BOOLEAN : Mark(c, "cpy", b) \in Operation /\ Mark(c, "don", b) \in Operation
<1>1. "uri" \in Exts /\ Absent \in Content /\ TRUE \in BOOLEAN
  BY ExtsFinite DEF Content
<1> QED BY <1>1, Operations, Zenon

LEMMA FollowsHas ==
  ASSUME NEW td, NEW a, NEW b, Follows(td, a, b)
  PROVE  Has(td, a) /\ Has(td, b)
BY DEF Follows, Has, Before, In

LEMMA BeforeIn ==
  ASSUME NEW p, NEW a, NEW b, Before(p, a, b)
  PROVE  In(p, a) /\ In(p, b)
BY DEF Before, In

LEMMA Renames ==
  ASSUME NEW c \in Cats
  PROVE  LET p == ForExts(Exts, LAMBDA e : Rename(c, e))
         IN  /\ p \in Seq(Operation)
             /\ \A o : In(p, o) <=> \E e \in Exts : o = Rename(c, e)
<1> DEFINE f == [e \in Exts |-> Rename(c, e)]
<1>1. f \in [Exts -> Operation] /\ {f[e] : e \in Exts} = {Rename(c, e) : e \in Exts}
  BY DEF Operation
<1>2. Exts \in SUBSET Exts /\ \A e \in Exts : f[e] = Rename(c, e)
  OBVIOUS
<1> HIDE DEF f
<1>3. LET p == SetToSeq({f[e] : e \in Exts})
      IN  /\ p \in Seq(Operation)
          /\ \A o : In(p, o) <=> \E e \in Exts : o = f[e]
  BY <1>1, <1>2, ForFiles
<1> QED BY <1>1, <1>2, <1>3 DEF ForExts

LEMMA Copies ==
  ASSUME NEW c \in Cats
  PROVE  LET p == ForExts(Exts, LAMBDA e : Copy(c, e))
         IN  /\ p \in Seq(Operation)
             /\ \A o : In(p, o) <=> \E e \in Exts : o = Copy(c, e)
<1> DEFINE f == [e \in Exts |-> Copy(c, e)]
<1>1. f \in [Exts -> Operation] /\ {f[e] : e \in Exts} = {Copy(c, e) : e \in Exts}
  BY DEF Operation
<1>2. Exts \in SUBSET Exts /\ \A e \in Exts : f[e] = Copy(c, e)
  OBVIOUS
<1> HIDE DEF f
<1>3. LET p == SetToSeq({f[e] : e \in Exts})
      IN  /\ p \in Seq(Operation)
          /\ \A o : In(p, o) <=> \E e \in Exts : o = f[e]
  BY <1>1, <1>2, ForFiles
<1> QED BY <1>1, <1>2, <1>3 DEF ForExts

LEMMA Unlinks ==
  ASSUME NEW c \in Cats, NEW set \in {"temp", "bak"}
  PROVE  LET p == ForExts(Exts, LAMBDA e : Unlink(c, set, e))
         IN  /\ p \in Seq(Operation)
             /\ \A o : In(p, o) <=> \E e \in Exts : o = Unlink(c, set, e)
<1> DEFINE f == [e \in Exts |-> Unlink(c, set, e)]
<1>1. f \in [Exts -> Operation] /\ {f[e] : e \in Exts} = {Unlink(c, set, e) : e \in Exts}
  BY DEF Operation, Unlink, Content
<1>2. Exts \in SUBSET Exts /\ \A e \in Exts : f[e] = Unlink(c, set, e)
  OBVIOUS
<1> HIDE DEF f
<1>3. LET p == SetToSeq({f[e] : e \in Exts})
      IN  /\ p \in Seq(Operation)
          /\ \A o : In(p, o) <=> \E e \in Exts : o = f[e]
  BY <1>1, <1>2, ForFiles
<1> QED BY <1>1, <1>2, <1>3 DEF ForExts

LEMMA CredWrites ==
  ASSUME NEW c \in Cats, NEW v \in Content
  PROVE  LET p == ForExts(CredExts, LAMBDA e : Write(c, "temp", e, v))
         IN  /\ p \in Procedure
             /\ \A o : In(p, o) <=> \E e \in CredExts : o = Write(c, "temp", e, v)
<1> DEFINE f == [e \in CredExts |-> Write(c, "temp", e, v)]
<1>1. CredExts \in SUBSET Exts /\ CredExts # {}
  BY ConfAssumption DEF Exts
<1>2. f \in [CredExts -> Operation]
      /\ {f[e] : e \in CredExts} = {Write(c, "temp", e, v) : e \in CredExts}
  BY <1>1 DEF Operation
<1>3. \A e \in CredExts : f[e] = Write(c, "temp", e, v)
  OBVIOUS
<1> HIDE DEF f
<1>4. LET p == SetToSeq({f[e] : e \in CredExts})
      IN  /\ p \in Seq(Operation)
          /\ \A o : In(p, o) <=> \E e \in CredExts : o = f[e]
          /\ CredExts # {} => p # <<>>
  BY <1>1, <1>2, ForFiles
<1> QED BY <1>1, <1>2, <1>3, <1>4 DEF ForExts, Procedure

(* In is inherited by every part of a concatenation, and a procedure that  *)
(* has an operation is not empty.                                          *)
LEMMA IsProcedure ==
  ASSUME NEW p \in Seq(Operation), NEW o, In(p, o)
  PROVE  p \in Procedure
BY EmptySeq DEF In, Procedure

LEMMA UpdateShape ==
  ASSUME NEW c \in Cats, NEW r \in BOOLEAN
  PROVE  /\ Update(c, r) \in Procedure
         /\ \A o : In(Update(c, r), o) <=> \/ o \in {Sync, ClearUpd(c)} \/ (~r /\ o = SetUpd(c))
                                           \/ \E e \in Exts : o = Rename(c, e)
         /\ \A e : ~Before(Update(c, r), Rename(c, e), SetUpd(c))
         /\ \A o : ~Before(Update(c, r), ClearUpd(c), o)
<1> DEFINE m == IF r THEN <<>> ELSE <<SetUpd(c)>>
           y == <<Sync>>
           q == ForExts(Exts, LAMBDA e : Rename(c, e))
           z == <<Sync, ClearUpd(c)>>
<1>1. Update(c, r) = ((m \o y) \o q) \o z
  BY DEF Update, SetUpd, ClearUpd
<1>2. m \in Seq(Operation) /\ (\A o : In(m, o) <=> ~r /\ o = SetUpd(c)) /\ \A a, b : ~Before(m, a, b)
  <2>1. CASE r
    BY <2>1, NoOperation
  <2>2. CASE ~r
    <3>1. SetUpd(c) \in Operation
      BY MarksOperations
    <3> QED BY <2>2, <3>1, OneOperation
  <2> QED BY <2>1, <2>2
<1>3. y \in Seq(Operation) /\ (\A o : In(y, o) <=> o = Sync) /\ \A a, b : ~Before(y, a, b)
  BY MarksOperations, OneOperation
<1>4. q \in Seq(Operation) /\ \A o : In(q, o) <=> \E e \in Exts : o = Rename(c, e)
  BY Renames
<1>5. z \in Seq(Operation) /\ (\A o : In(z, o) <=> o \in {Sync, ClearUpd(c)})
      /\ \A a, b : Before(z, a, b) => a = Sync
  <2>1. Sync \in Operation /\ ClearUpd(c) \in Operation
    BY MarksOperations
  <2>2. z \in Seq(Operation) /\ Len(z) = 2 /\ z[1] = Sync /\ z[2] = ClearUpd(c)
    BY <2>1
  <2>3. 1 .. Len(z) = {1, 2} /\ \A j, l \in {1, 2} : j < l => j = 1
    BY <2>2
  <2> QED BY <2>2, <2>3 DEF In, Before
<1> HIDE DEF m, y, q, z
<1>6. m \o y \in Seq(Operation) /\ (\A o : In(m \o y, o) <=> In(m, o) \/ In(y, o))
  BY <1>2, <1>3, InConcat
<1>7. (m \o y) \o q \in Seq(Operation)
      /\ (\A o : In((m \o y) \o q, o) <=> In(m \o y, o) \/ In(q, o))
  BY <1>4, <1>6, InConcat
<1>8. Update(c, r) \in Seq(Operation)
      /\ (\A o : In(Update(c, r), o) <=> In((m \o y) \o q, o) \/ In(z, o))
  <2> DEFINE t == (m \o y) \o q
  <2>1. t \in Seq(Operation) /\ Update(c, r) = t \o z
    BY <1>1, <1>7
  <2> HIDE DEF t
  <2>2. t \o z \in Seq(Operation) /\ \A o : In(t \o z, o) <=> In(t, o) \/ In(z, o)
    BY <1>5, <2>1, InConcat
  <2> QED BY <2>1, <2>2 DEF t
<1>9. \A a, b : Before(Update(c, r), a, b)
        => \/ Before(m, a, b) \/ Before(y, a, b) \/ (In(m, a) /\ In(y, b))
           \/ Before(q, a, b) \/ (In(m \o y, a) /\ In(q, b))
           \/ Before(z, a, b) \/ (In((m \o y) \o q, a) /\ In(z, b))
  <2> TAKE a, b
  <2> DEFINE t == (m \o y) \o q
             u == m \o y
  <2>1. Before(Update(c, r), a, b)
        => Before((m \o y) \o q, a, b) \/ Before(z, a, b) \/ (In((m \o y) \o q, a) /\ In(z, b))
    <3>1. t \in Seq(Operation) /\ Update(c, r) = t \o z
      BY <1>1, <1>7
    <3> HIDE DEF t
    <3>2. Before(t \o z, a, b) => Before(t, a, b) \/ Before(z, a, b) \/ (In(t, a) /\ In(z, b))
      BY <1>5, <3>1, BeforeConcat
    <3> QED BY <3>1, <3>2 DEF t
  <2>2. Before((m \o y) \o q, a, b)
        => Before(m \o y, a, b) \/ Before(q, a, b) \/ (In(m \o y, a) /\ In(q, b))
    <3>1. u \in Seq(Operation)
      BY <1>6
    <3> HIDE DEF u
    <3>2. Before(u \o q, a, b) => Before(u, a, b) \/ Before(q, a, b) \/ (In(u, a) /\ In(q, b))
      BY <1>4, <3>1, BeforeConcat
    <3> QED BY <3>2 DEF u
  <2>3. Before(m \o y, a, b) => Before(m, a, b) \/ Before(y, a, b) \/ (In(m, a) /\ In(y, b))
    BY <1>2, <1>3, BeforeConcat
  <2> QED BY <2>1, <2>2, <2>3
<1>10. \A e : SetUpd(c) # Rename(c, e) /\ ClearUpd(c) # Rename(c, e) /\ Sync # Rename(c, e)
  BY DEF SetUpd, ClearUpd, Mark, Rename, Sync
<1>11. SetUpd(c) # ClearUpd(c) /\ SetUpd(c) # Sync /\ ClearUpd(c) # Sync
  BY Distinct DEF SetUpd, ClearUpd
<1>12. \A o : In(Update(c, r), o) <=> \/ o \in {Sync, ClearUpd(c)} \/ (~r /\ o = SetUpd(c))
                                      \/ \E e \in Exts : o = Rename(c, e)
  BY <1>2, <1>3, <1>4, <1>5, <1>6, <1>7, <1>8
<1>13. \A e : ~Before(Update(c, r), Rename(c, e), SetUpd(c))
  BY <1>2, <1>3, <1>4, <1>5, <1>6, <1>7, <1>9, <1>10, <1>11, BeforeIn, SMTT(30)
<1>14. \A o : ~Before(Update(c, r), ClearUpd(c), o)
  BY <1>2, <1>3, <1>4, <1>5, <1>6, <1>7, <1>9, <1>10, <1>11, BeforeIn, SMTT(30)
<1> QED BY <1>8, <1>12, <1>13, <1>14, IsProcedure

LEMMA BackupQuiet ==
  ASSUME NEW c \in Cats, NEW r \in BOOLEAN
  PROVE  Backup(c, r) \in Procedure /\ \A o : In(Backup(c, r), o) => Quiet(o)
<1> DEFINE m == IF r THEN <<>> ELSE <<Mark(c, "cpy", TRUE)>>
           y == <<Sync, Mark(c, "don", FALSE)>>
           u == ForExts(Exts, LAMBDA e : Unlink(c, "bak", e))
           k == ForExts(Exts, LAMBDA e : Copy(c, e))
           z == <<Mark(c, "don", TRUE), Sync, Mark(c, "cpy", FALSE), Sync, Note(c)>>
<1>1. Backup(c, r) = (((m \o y) \o u) \o k) \o z
  BY DEF Backup
<1>2. m \in Seq(Operation) /\ \A o : In(m, o) => o = Mark(c, "cpy", TRUE)
  <2>1. CASE r
    BY <2>1, NoOperation
  <2>2. CASE ~r
    <3>1. Mark(c, "cpy", TRUE) \in Operation
      BY MarksOperations
    <3> QED BY <2>2, <3>1, OneOperation
  <2> QED BY <2>1, <2>2
<1>3. y \in Seq(Operation) /\ \A o : In(y, o) => o \in {Sync, Mark(c, "don", FALSE)}
  <2>1. Sync \in Operation /\ Mark(c, "don", FALSE) \in Operation
    BY MarksOperations
  <2>2. y \in Seq(Operation) /\ Len(y) = 2 /\ y[1] = Sync /\ y[2] = Mark(c, "don", FALSE)
    <3> DEFINE n == Mark(c, "don", FALSE)
    <3>1. y = <<Sync, n>> /\ n \in Operation
      BY <2>1
    <3> HIDE DEF n, y
    <3>2. y \in Seq(Operation) /\ Len(y) = 2 /\ y[1] = Sync /\ y[2] = n
      BY <2>1, <3>1
    <3> QED BY <3>2 DEF n
  <2>3. 1 .. Len(y) = {1, 2}
    BY <2>2
  <2> QED BY <2>2, <2>3 DEF In
<1>4. u \in Seq(Operation) /\ \A o : In(u, o) => \E e \in Exts : o = Unlink(c, "bak", e)
  <2> DEFINE set == "bak"
             p == ForExts(Exts, LAMBDA e : Unlink(c, set, e))
  <2>1. set \in {"temp", "bak"} /\ u = p
    BY DEF u
  <2> HIDE DEF set
  <2>2. p \in Seq(Operation) /\ \A o : In(p, o) <=> \E e \in Exts : o = Unlink(c, set, e)
    BY <2>1, Unlinks
  <2> QED BY <2>1, <2>2 DEF set
<1>5. k \in Seq(Operation) /\ \A o : In(k, o) => \E e \in Exts : o = Copy(c, e)
  BY Copies
<1>6. /\ z \in Seq(Operation) /\ In(z, Sync)
      /\ \A o : In(z, o) => o \in {Mark(c, "don", TRUE), Sync, Mark(c, "cpy", FALSE), Note(c)}
  <2>1. {Mark(c, "don", TRUE), Sync, Mark(c, "cpy", FALSE), Note(c)} \subseteq Operation
    BY MarksOperations
  <2>2. z \in Seq(Operation) /\ Len(z) = 5 /\ z[1] = Mark(c, "don", TRUE) /\ z[2] = Sync
        /\ z[3] = Mark(c, "cpy", FALSE) /\ z[4] = Sync /\ z[5] = Note(c)
    <3> DEFINE d == Mark(c, "don", TRUE)
               n == Mark(c, "cpy", FALSE)
    <3>1. z = <<d, Sync, n, Sync, Note(c)>> /\ d \in Operation /\ n \in Operation
      BY <2>1
    <3> HIDE DEF d, n, z
    <3>2. z \in Seq(Operation) /\ Len(z) = 5 /\ z[1] = d /\ z[2] = Sync
          /\ z[3] = n /\ z[4] = Sync /\ z[5] = Note(c)
      BY <2>1, <3>1
    <3> QED BY <3>2 DEF d, n
  <2>3. 1 .. Len(z) = {1, 2, 3, 4, 5}
    BY <2>2
  <2> QED BY <2>2, <2>3 DEF In
<1> HIDE DEF m, y, u, k, z
<1>7. m \o y \in Seq(Operation) /\ (\A o : In(m \o y, o) <=> In(m, o) \/ In(y, o))
  BY <1>2, <1>3, InConcat
<1>8. (m \o y) \o u \in Seq(Operation)
      /\ (\A o : In((m \o y) \o u, o) <=> In(m \o y, o) \/ In(u, o))
  BY <1>4, <1>7, InConcat
<1>9. ((m \o y) \o u) \o k \in Seq(Operation)
      /\ (\A o : In(((m \o y) \o u) \o k, o) <=> In((m \o y) \o u, o) \/ In(k, o))
  BY <1>5, <1>8, InConcat
<1>10. Backup(c, r) \in Seq(Operation)
       /\ (\A o : In(Backup(c, r), o) <=> In(((m \o y) \o u) \o k, o) \/ In(z, o))
  <2> DEFINE t == ((m \o y) \o u) \o k
  <2>1. t \in Seq(Operation) /\ Backup(c, r) = t \o z
    BY <1>1, <1>9
  <2> HIDE DEF t
  <2>2. t \o z \in Seq(Operation) /\ \A o : In(t \o z, o) <=> In(t, o) \/ In(z, o)
    BY <1>6, <2>1, InConcat
  <2> QED BY <2>1, <2>2 DEF t
<1>11. ASSUME NEW o, In(Backup(c, r), o) PROVE Quiet(o)
  <2>1. In(m, o) \/ In(y, o) \/ In(u, o) \/ In(k, o) \/ In(z, o)
    BY <1>7, <1>8, <1>9, <1>10, <1>11
  <2>2. \A b : Quiet(Mark(c, "cpy", b)) /\ Quiet(Mark(c, "don", b))
    BY QuietOnes
  <2>3. Quiet(Sync) /\ Quiet(Note(c)) /\ \A e : Quiet(Copy(c, e)) /\ Quiet(Unlink(c, "bak", e))
    BY QuietOnes
  <2>4. CASE In(m, o)
    BY <1>2, <2>2, <2>4
  <2>5. CASE In(y, o)
    BY <1>3, <2>2, <2>3, <2>5
  <2>6. CASE In(u, o)
    BY <1>4, <2>3, <2>6
  <2>7. CASE In(k, o)
    BY <1>5, <2>3, <2>7
  <2>8. CASE In(z, o)
    BY <1>6, <2>2, <2>3, <2>8
  <2> QED BY <2>1, <2>4, <2>5, <2>6, <2>7, <2>8
<1> QED BY <1>6, <1>10, <1>11, IsProcedure

LEMMA WipeShape ==
  ASSUME NEW c \in Cats
  PROVE  LET p == <<Mark(c, "upd", FALSE)>> \o ForExts(Exts, LAMBDA e : Unlink(c, "temp", e))
         IN  /\ p \in Seq(Operation)
             /\ \A o : In(p, o) <=> o = ClearUpd(c) \/ \E e \in Exts : o = Unlink(c, "temp", e)
<1> DEFINE set == "temp"
           x == ClearUpd(c)
           u == ForExts(Exts, LAMBDA e : Unlink(c, set, e))
<1>1. set \in {"temp", "bak"}
  OBVIOUS
<1>2. u \in Seq(Operation) /\ \A o : In(u, o) <=> \E e \in Exts : o = Unlink(c, set, e)
  <2> HIDE DEF set
  <2> QED BY <1>1, Unlinks
<1>3. <<x>> \in Seq(Operation) /\ \A o : In(<<x>>, o) <=> o = x
  <2>1. x \in Operation
    BY MarksOperations
  <2> HIDE DEF x
  <2> QED BY <2>1, OneOperation
<1>4. x = Mark(c, "upd", FALSE)
  BY DEF ClearUpd
<1> HIDE DEF u, x
<1>5. <<x>> \o u \in Seq(Operation) /\ \A o : In(<<x>> \o u, o) <=> In(<<x>>, o) \/ In(u, o)
  <2> DEFINE s == <<x>>
  <2>1. s \in Seq(Operation)
    BY <1>3
  <2> HIDE DEF s
  <2>2. s \o u \in Seq(Operation) /\ \A o : In(s \o u, o) <=> In(s, o) \/ In(u, o)
    BY <1>2, <2>1, InConcat
  <2> QED BY <2>2 DEF s
<1> QED BY <1>2, <1>3, <1>4, <1>5 DEF u, x

LEMMA ResetShape ==
  /\ Reset \in Procedure
  /\ \A o : In(Reset, o) <=> \/ o = Sync \/ \E c \in Cats : o = ClearUpd(c)
                             \/ \E c \in Cats, e \in Exts : o = Unlink(c, "temp", e)
<1> DEFINE w(c) == <<Mark(c, "upd", FALSE)>> \o ForExts(Exts, LAMBDA e : Unlink(c, "temp", e))
           p == w("cups")
           q == w("tc")
           y == <<Sync>>
<1>1. Reset = (p \o q) \o y
  BY DEF Reset
<1>2. Cats = {"cups", "tc"}
  BY DEF Cats
<1>3. p \in Seq(Operation)
      /\ \A o : In(p, o) <=> o = ClearUpd("cups") \/ \E e \in Exts : o = Unlink("cups", "temp", e)
  BY <1>2, WipeShape
<1>4. q \in Seq(Operation)
      /\ \A o : In(q, o) <=> o = ClearUpd("tc") \/ \E e \in Exts : o = Unlink("tc", "temp", e)
  BY <1>2, WipeShape
<1>5. y \in Seq(Operation) /\ \A o : In(y, o) <=> o = Sync
  BY <1>2, MarksOperations, OneOperation
<1> HIDE DEF p, q, y
<1>6. p \o q \in Seq(Operation) /\ \A o : In(p \o q, o) <=> In(p, o) \/ In(q, o)
  BY <1>3, <1>4, InConcat
<1>7. Reset \in Seq(Operation) /\ \A o : In(Reset, o) <=> In(p \o q, o) \/ In(y, o)
  <2> DEFINE t == p \o q
  <2>1. t \in Seq(Operation)
    BY <1>6
  <2> HIDE DEF t
  <2>2. t \o y \in Seq(Operation) /\ \A o : In(t \o y, o) <=> In(t, o) \/ In(y, o)
    BY <1>5, <2>1, InConcat
  <2> QED BY <1>1, <2>2 DEF t
<1>8. In(Reset, Sync)
  BY <1>5, <1>7
<1>9. Reset \in Procedure
  BY <1>7, <1>8, IsProcedure
<1> QED BY <1>2, <1>3, <1>4, <1>5, <1>6, <1>7, <1>9
-----------------------------------------------------------------------------
(* What one operation does to the files of category c that matter here *)

Effect(o, c, D, D2) ==
  /\ D2.upd <=> o = SetUpd(c) \/ (o # ClearUpd(c) /\ D.upd)
  /\ \A e \in Exts :
       /\ o = Rename(c, e) => D2.temp[e] = Absent
       /\ \A v : o = Write(c, "temp", e, v) => D2.temp[e] = v
       /\ o # Rename(c, e) /\ (\A v : o # Write(c, "temp", e, v)) => D2.temp[e] = D.temp[e]
       /\ D2.reg[e] = IF o = Rename(c, e) /\ D.temp[e] # Absent THEN D.temp[e] ELSE D.reg[e]

(* td2 is td without its first operation, o. *)
Removed(td, o, td2) ==
  /\ Has(td, o)
  /\ \A x : Has(td2, x) => Has(td, x) /\ Follows(td, o, x)
  /\ \A x : Has(td, x) => x = o \/ Has(td2, x)
  /\ \A a, b : Follows(td2, a, b) => Follows(td, a, b)

(* The regular set once the files of the temporary set are renamed *)
Merged(D) == [e \in Exts |-> IF D.temp[e] # Absent THEN D.temp[e] ELSE D.reg[e]]

Updates(td, c) == Has(td, SetUpd(c)) \/ \E e \in Exts : Has(td, Rename(c, e))
Covered(c, D, td) == \A e \in Exts : D.temp[e] # Absent => Has(td, Rename(c, e))

(* Files D of category c, with td to be done: the regular set is whole, or *)
(* it will be when all renames are done, which the marker will cause.  W   *)
(* are the sets that are whole.                                            *)
RegSafe(c, D, td, W) ==
  /\ D.reg \in W \/ (Merged(D) \in W /\ D.upd /\ Covered(c, D, td))
  /\ D.upd => Merged(D) \in W /\ Has(td, ClearUpd(c))
  /\ Updates(td, c) => Merged(D) \in W /\ Covered(c, D, td)
  /\ \A e \in Exts : Has(td, Rename(c, e)) => D.upd \/ Has(td, SetUpd(c))
  /\ Has(td, SetUpd(c)) => Has(td, ClearUpd(c))
  /\ ~Follows(td, ClearUpd(c), SetUpd(c))
  /\ \A e \in Exts : ~Follows(td, Rename(c, e), SetUpd(c)) /\ ~Follows(td, ClearUpd(c), Rename(c, e))
  /\ \A e \in Exts, v \in Content : Has(td, Write(c, "temp", e, v)) => ~D.upd /\ ~Updates(td, c)

LEMMA MergedType == ASSUME NEW D \in Files PROVE Merged(D) \in [Exts -> Content]
BY DEF Merged, Files

LEMMA RegStep ==
  ASSUME NEW c \in Cats, NEW D \in Files, NEW D2 \in Files, NEW W, NEW td, NEW td2,
         NEW o \in Operation, Removed(td, o, td2), Effect(o, c, D, D2), RegSafe(c, D, td, W)
  PROVE  RegSafe(c, D2, td2, W)
<1>1. /\ D.reg \in [Exts -> Content] /\ D2.reg \in [Exts -> Content]
      /\ D.temp \in [Exts -> Content] /\ D2.temp \in [Exts -> Content]
  BY DEF Files
<1>2. /\ ~Follows(td2, ClearUpd(c), SetUpd(c))
      /\ \A e \in Exts : ~Follows(td2, Rename(c, e), SetUpd(c)) /\ ~Follows(td2, ClearUpd(c), Rename(c, e))
  BY DEF RegSafe, Removed
<1>3. Updates(td2, c) => Updates(td, c)
  BY DEF Updates, Removed
<1>4. /\ \A e \in Exts : Rename(c, e) # SetUpd(c) /\ Rename(c, e) # ClearUpd(c)
      /\ \A e, f \in Exts : Rename(c, e) = Rename(c, f) => e = f
      /\ SetUpd(c) # ClearUpd(c)
      /\ \A e, f \in Exts : \A v : /\ Rename(c, e) # Write(c, "temp", f, v)
                                   /\ SetUpd(c) # Write(c, "temp", f, v)
                                   /\ ClearUpd(c) # Write(c, "temp", f, v)
  BY DEF Rename, SetUpd, ClearUpd, Mark, Write
<1>5. CASE \E e \in Exts : o = Rename(c, e)
  <2>1. PICK e \in Exts : o = Rename(c, e)
    BY <1>5
  <2>2. ~Has(td2, SetUpd(c)) /\ ~Has(td, SetUpd(c))
    BY <1>4, <2>1 DEF RegSafe, Removed
  <2>3. D.upd /\ Updates(td, c) /\ Merged(D) \in W /\ Covered(c, D, td)
    BY <2>1, <2>2 DEF RegSafe, Removed, Updates
  <2>4. D2.upd
    BY <1>4, <2>1, <2>3 DEF Effect
  <2>5. /\ D2.temp[e] = Absent /\ \A f \in Exts \ {e} : D2.temp[f] = D.temp[f] /\ D2.reg[f] = D.reg[f]
        /\ D2.reg[e] = IF D.temp[e] # Absent THEN D.temp[e] ELSE D.reg[e]
    BY <1>4, <2>1 DEF Effect
  <2>6. Merged(D2) = Merged(D)
    BY <2>5 DEF Merged
  <2>7. Covered(c, D2, td2)
    BY <1>4, <2>1, <2>3, <2>5 DEF Covered, Removed
  <2>8. Has(td2, ClearUpd(c))
    BY <1>4, <2>1, <2>3 DEF RegSafe, Removed
  <2>9. \A f \in Exts, v \in Content : ~Has(td2, Write(c, "temp", f, v))
    BY <2>3 DEF RegSafe, Removed
  <2> QED BY <1>2, <2>2, <2>3, <2>4, <2>6, <2>7, <2>8, <2>9 DEF RegSafe
<1>6. CASE o = SetUpd(c)
  <2>1. Updates(td, c) /\ Merged(D) \in W /\ Covered(c, D, td) /\ Has(td, ClearUpd(c))
    BY <1>6 DEF RegSafe, Removed, Updates
  <2>2. D2.upd /\ \A e \in Exts : D2.temp[e] = D.temp[e] /\ D2.reg[e] = D.reg[e]
    BY <1>4, <1>6 DEF Effect
  <2>3. Merged(D2) = Merged(D) /\ Covered(c, D2, td2)
    BY <1>4, <1>6, <2>1, <2>2 DEF Merged, Covered, Removed
  <2>4. Has(td2, ClearUpd(c))
    BY <1>4, <1>6, <2>1 DEF Removed
  <2>5. \A f \in Exts, v \in Content : ~Has(td2, Write(c, "temp", f, v))
    BY <2>1 DEF RegSafe, Removed
  <2> QED BY <1>2, <2>1, <2>2, <2>3, <2>4, <2>5 DEF RegSafe
<1>7. CASE o = ClearUpd(c)
  <2>1. ~Has(td2, SetUpd(c)) /\ \A e \in Exts : ~Has(td2, Rename(c, e)) /\ ~Has(td, Rename(c, e))
    BY <1>4, <1>7 DEF RegSafe, Removed
  <2>2. ~D2.upd /\ \A e \in Exts : D2.temp[e] = D.temp[e] /\ D2.reg[e] = D.reg[e]
    BY <1>4, <1>7 DEF Effect
  <2>3. D2.reg = D.reg
    BY <1>1, <2>2
  <2>4. D.reg \in W
    <3>1. CASE Merged(D) \in W /\ Covered(c, D, td)
      <4>1. \A e \in Exts : D.temp[e] = Absent
        BY <2>1, <3>1 DEF Covered
      <4>2. Merged(D) = D.reg
        BY <1>1, <4>1 DEF Merged
      <4> QED BY <3>1, <4>2
    <3> QED BY <3>1 DEF RegSafe
  <2>5. ~Updates(td2, c)
    BY <2>1 DEF Updates
  <2> QED BY <1>2, <2>1, <2>2, <2>3, <2>4, <2>5 DEF RegSafe
<1>8. CASE \E e \in Exts : \E v : o = Write(c, "temp", e, v)
  <2>1. PICK e \in Exts : \E v : o = Write(c, "temp", e, v)
    BY <1>8
  <2> PICK v : o = Write(c, "temp", e, v)
    BY <2>1
  <2>2. v \in Content
    <3>1. o.op = "file" /\ o.val = v
      BY DEF Write
    <3>2. o \in {Write(c1, s1, e1, v1) : c1 \in Cats, s1 \in {"temp", "bak"}, e1 \in Exts, v1 \in Content}
      BY <3>1 DEF Operation, Mark, Rename, Copy, Sync, Note
    <3>3. \A c1, s1, e1, v1 : Write(c1, s1, e1, v1).val = v1
      BY DEF Write
    <3> QED BY <3>1, <3>2, <3>3
  <2>3. ~D.upd /\ ~Updates(td, c)
    BY <2>1, <2>2 DEF RegSafe, Removed
  <2>4. D.reg \in W
    BY <2>3 DEF RegSafe
  <2>5. ~D2.upd /\ \A f \in Exts : D2.reg[f] = D.reg[f]
    BY <1>4, <2>1, <2>3 DEF Effect
  <2>6. D2.reg = D.reg
    BY <1>1, <2>5
  <2>7. ~Updates(td2, c)
    BY <1>3, <2>3
  <2> QED BY <1>2, <2>4, <2>5, <2>6, <2>7 DEF RegSafe, Updates
<1>9. CASE /\ \A e \in Exts : o # Rename(c, e) /\ \A v : o # Write(c, "temp", e, v)
           /\ o # SetUpd(c) /\ o # ClearUpd(c)
  <2>1. /\ \A e \in Exts : Has(td, Rename(c, e)) <=> Has(td2, Rename(c, e))
        /\ Has(td, SetUpd(c)) <=> Has(td2, SetUpd(c))
        /\ Has(td, ClearUpd(c)) <=> Has(td2, ClearUpd(c))
        /\ \A e \in Exts, v \in Content : Has(td2, Write(c, "temp", e, v)) => Has(td, Write(c, "temp", e, v))
    BY <1>9 DEF Removed
  <2>2. (D2.upd <=> D.upd) /\ \A e \in Exts : D2.temp[e] = D.temp[e] /\ D2.reg[e] = D.reg[e]
    BY <1>9 DEF Effect
  <2>3. D2.reg = D.reg /\ Merged(D2) = Merged(D)
    BY <1>1, <2>2 DEF Merged
  <2>4. Covered(c, D, td) <=> Covered(c, D2, td2)
    BY <2>1, <2>2 DEF Covered
  <2>5. Updates(td, c) <=> Updates(td2, c)
    BY <2>1 DEF Updates
  <2> QED BY <1>2, <2>1, <2>2, <2>3, <2>4, <2>5 DEF RegSafe
<1> QED BY <1>5, <1>6, <1>7, <1>8, <1>9

(* File e of the temporary set is T, or will be: the last of the writes to *)
(* come brings T.                                                          *)
TempSafe(c, e, D, td, T) ==
  /\ ~Has(td, Rename(c, e))
  /\ \/ Has(td, Write(c, "temp", e, T))
     \/ D.temp[e] = T /\ \A v : Has(td, Write(c, "temp", e, v)) => v = T
  /\ \A v : Follows(td, Write(c, "temp", e, T), Write(c, "temp", e, v)) => v = T

LEMMA TempStep ==
  ASSUME NEW c \in Cats, NEW e \in Exts, NEW D, NEW D2, NEW T, NEW td, NEW td2,
         NEW o, Removed(td, o, td2), Effect(o, c, D, D2), TempSafe(c, e, D, td, T)
  PROVE  TempSafe(c, e, D2, td2, T)
<1> DEFINE w(v) == Write(c, "temp", e, v)
<1>1. \A v, u : w(v) = w(u) => v = u
  BY DEF Write
<1>2. ~Has(td2, Rename(c, e)) /\ o # Rename(c, e)
  BY DEF TempSafe, Removed
<1>3. \A v : Follows(td2, w(T), w(v)) => v = T
  BY DEF TempSafe, Removed
<1>4. Has(td2, w(T)) \/ (D2.temp[e] = T /\ \A v : Has(td2, w(v)) => v = T)
  <2>1. CASE o = w(T)
    <3>1. D2.temp[e] = T
      BY <2>1 DEF Effect
    <3>2. \A v : Has(td2, w(v)) => v = T
      BY <2>1 DEF TempSafe, Removed
    <3> QED BY <3>1, <3>2
  <2>2. ASSUME NEW v, o = w(v), v # T PROVE Has(td2, w(T))
    <3>1. Has(td, w(T))
      BY <2>2 DEF TempSafe, Removed
    <3>2. o # w(T)
      BY <1>1, <2>2
    <3> QED BY <3>1, <3>2 DEF Removed
  <2>3. CASE \A v : o # w(v)
    <3>1. D2.temp[e] = D.temp[e]
      BY <1>2, <2>3 DEF Effect
    <3> QED BY <2>3, <3>1 DEF TempSafe, Removed
  <2> QED BY <2>1, <2>2, <2>3
<1> QED BY <1>2, <1>3, <1>4 DEF TempSafe
-----------------------------------------------------------------------------
(* What the procedures called together have to do: the updates of the      *)
(* categories of U, begun (r) or to be begun with their markers            *)

PlanOf(td, U, r) ==
  /\ td \in Seq(Procedure)
  /\ \A c \in Cats :
       /\ \A e \in Exts : Has(td, Rename(c, e)) <=> c \in U
       /\ Has(td, ClearUpd(c)) <=> c \in U
       /\ Has(td, SetUpd(c)) <=> c \in U /\ ~r
       /\ \A e \in Exts, v \in Content : ~Has(td, Write(c, "temp", e, v))
       /\ ~Follows(td, ClearUpd(c), SetUpd(c))
       /\ \A e \in Exts : ~Follows(td, Rename(c, e), SetUpd(c)) /\ ~Follows(td, ClearUpd(c), Rename(c, e))

LEMMA PlanConcat ==
  ASSUME NEW s, NEW t, NEW U, NEW V, NEW r \in BOOLEAN,
         PlanOf(s, U, r), PlanOf(t, V, r), U \cap V = {}
  PROVE  PlanOf(s \o t, U \cup V, r)
<1>1. s \in Seq(Procedure) /\ t \in Seq(Procedure)
  BY DEF PlanOf
<1>2. s \o t \in Seq(Procedure) /\ \A o : Has(s \o t, o) <=> Has(s, o) \/ Has(t, o)
  BY <1>1, HasConcat
<1>3. \A a, b : Follows(s \o t, a, b)
        => Follows(s, a, b) \/ Follows(t, a, b) \/ (Has(s, a) /\ Has(t, b))
  BY <1>1, FollowsConcat
<1> SUFFICES ASSUME NEW c \in Cats
             PROVE  /\ \A e \in Exts : Has(s \o t, Rename(c, e)) <=> c \in U \cup V
                    /\ Has(s \o t, ClearUpd(c)) <=> c \in U \cup V
                    /\ Has(s \o t, SetUpd(c)) <=> c \in U \cup V /\ ~r
                    /\ \A e \in Exts, v \in Content : ~Has(s \o t, Write(c, "temp", e, v))
                    /\ ~Follows(s \o t, ClearUpd(c), SetUpd(c))
                    /\ \A e \in Exts : /\ ~Follows(s \o t, Rename(c, e), SetUpd(c))
                                       /\ ~Follows(s \o t, ClearUpd(c), Rename(c, e))
  BY <1>2 DEF PlanOf
<1>4. /\ \A e \in Exts : Has(s \o t, Rename(c, e)) <=> c \in U \cup V
      /\ Has(s \o t, ClearUpd(c)) <=> c \in U \cup V
      /\ Has(s \o t, SetUpd(c)) <=> c \in U \cup V /\ ~r
      /\ \A e \in Exts, v \in Content : ~Has(s \o t, Write(c, "temp", e, v))
  BY <1>2 DEF PlanOf
<1>5. c \notin U \/ c \notin V
  OBVIOUS
<1>6. ~Follows(s \o t, ClearUpd(c), SetUpd(c))
  BY <1>3, <1>5 DEF PlanOf
<1>7. \A e \in Exts : /\ ~Follows(s \o t, Rename(c, e), SetUpd(c))
                      /\ ~Follows(s \o t, ClearUpd(c), Rename(c, e))
  BY <1>3, <1>5 DEF PlanOf
<1> QED BY <1>4, <1>6, <1>7

LEMMA PlanQuiet ==
  ASSUME NEW td \in Seq(Procedure), \A o : Has(td, o) => Quiet(o), NEW r
  PROVE  PlanOf(td, {}, r)
BY FollowsHas DEF PlanOf, Quiet

LEMMA PlanUpdate ==
  ASSUME NEW c \in Cats, NEW r \in BOOLEAN
  PROVE  PlanOf(<<Update(c, r)>>, {c}, r)
<1> DEFINE td == <<Update(c, r)>>
<1>1. /\ td \in Seq(Procedure)
      /\ \A o : Has(td, o) <=> In(Update(c, r), o)
      /\ \A a, b : Follows(td, a, b) <=> Before(Update(c, r), a, b)
  BY UpdateShape, OneProcedure
<1> HIDE DEF td
<1>2. \A o : Has(td, o) <=> \/ o \in {Sync, ClearUpd(c)} \/ (~r /\ o = SetUpd(c))
                            \/ \E e \in Exts : o = Rename(c, e)
  BY <1>1, UpdateShape
<1>3. ASSUME NEW d \in Cats, NEW e \in Exts, NEW v
      PROVE  /\ Rename(d, e) # Sync /\ Rename(d, e) # ClearUpd(c) /\ Rename(d, e) # SetUpd(c)
             /\ \A f \in Exts : Rename(d, e) = Rename(c, f) => d = c /\ e = f
             /\ ClearUpd(d) # Sync /\ ClearUpd(d) # SetUpd(c) /\ (ClearUpd(d) = ClearUpd(c) => d = c)
             /\ \A f \in Exts : ClearUpd(d) # Rename(c, f)
             /\ SetUpd(d) # Sync /\ SetUpd(d) # ClearUpd(c) /\ (SetUpd(d) = SetUpd(c) => d = c)
             /\ \A f \in Exts : SetUpd(d) # Rename(c, f)
             /\ Write(d, "temp", e, v) # Sync /\ Write(d, "temp", e, v) # ClearUpd(c)
             /\ Write(d, "temp", e, v) # SetUpd(c)
             /\ \A f \in Exts : Write(d, "temp", e, v) # Rename(c, f)
  BY DEF Rename, SetUpd, ClearUpd, Mark, Write, Sync
<1>4. ASSUME NEW d \in Cats
      PROVE  /\ \A e \in Exts : Has(td, Rename(d, e)) <=> d \in {c}
             /\ Has(td, ClearUpd(d)) <=> d \in {c}
             /\ Has(td, SetUpd(d)) <=> d \in {c} /\ ~r
             /\ \A e \in Exts, v \in Content : ~Has(td, Write(d, "temp", e, v))
  <2>1. \A e \in Exts : Has(td, Rename(d, e)) <=> d \in {c}
    BY <1>2, <1>3
  <2>2. "uri" \in Exts
    BY ExtsFinite
  <2>3. (Has(td, ClearUpd(d)) <=> d \in {c}) /\ (Has(td, SetUpd(d)) <=> d \in {c} /\ ~r)
    BY <1>2, <1>3, <2>2
  <2>4. \A e \in Exts, v \in Content : ~Has(td, Write(d, "temp", e, v))
    BY <1>2, <1>3
  <2> QED BY <2>1, <2>3, <2>4
<1>5. ASSUME NEW d \in Cats
      PROVE  /\ ~Follows(td, ClearUpd(d), SetUpd(d))
             /\ \A e \in Exts : ~Follows(td, Rename(d, e), SetUpd(d)) /\ ~Follows(td, ClearUpd(d), Rename(d, e))
  <2>1. CASE d = c
    BY <1>1, <2>1, UpdateShape
  <2>2. CASE d # c
    <3>1. ~Has(td, SetUpd(d)) /\ ~Has(td, ClearUpd(d))
      BY <1>4, <2>2
    <3> QED BY <3>1, FollowsHas
  <2> QED BY <2>1, <2>2
<1>6. PlanOf(td, {c}, r)
  BY <1>1, <1>4, <1>5 DEF PlanOf
<1> QED BY <1>6 DEF td

LEMMA PlanNothing == ASSUME NEW r PROVE PlanOf(<<>>, {}, r)
BY PlanQuiet, NoProcedure

LEMMA PlanBackup == ASSUME NEW c \in Cats, NEW r \in BOOLEAN, NEW q PROVE PlanOf(<<Backup(c, r)>>, {}, q)
<1>1. <<Backup(c, r)>> \in Seq(Procedure) /\ \A o : Has(<<Backup(c, r)>>, o) => Quiet(o)
  BY BackupQuiet, OneProcedure
<1> QED BY <1>1, PlanQuiet

LEMMA PlanBackupOnce ==
  ASSUME NEW c \in Cats
  PROVE  /\ BackupOnce(c) \in Seq(Procedure)
         /\ \A o : Has(BackupOnce(c), o) => Quiet(o)
<1>1. FALSE \in BOOLEAN
  OBVIOUS
<1>2. <<Backup(c, FALSE)>> \in Seq(Procedure) /\ \A o : Has(<<Backup(c, FALSE)>>, o) => Quiet(o)
  BY <1>1, BackupQuiet, OneProcedure
<1> QED BY <1>2, NoProcedure DEF BackupOnce

(* sys_commitConfigUpdate *)
LEMMA PlanCommit ==
  ASSUME NEW U
  PROVE  PlanOf((IF "cups" \in U THEN <<Update("cups", FALSE)>> ELSE <<>>)
                \o (IF "tc" \in U THEN <<Update("tc", FALSE)>> ELSE <<>>), U \cap Cats, FALSE)
<1> DEFINE s == IF "cups" \in U THEN <<Update("cups", FALSE)>> ELSE <<>>
           t == IF "tc" \in U THEN <<Update("tc", FALSE)>> ELSE <<>>
           X == U \cap {"cups"}
           Y == U \cap {"tc"}
<1>1. "cups" \in Cats /\ "tc" \in Cats /\ FALSE \in BOOLEAN /\ X \cap Y = {} /\ X \cup Y = U \cap Cats
  BY DEF Cats
<1>2. PlanOf(s, X, FALSE)
  <2>1. CASE "cups" \in U
    <3>1. X = {"cups"} /\ s = <<Update("cups", FALSE)>>
      BY <2>1
    <3> QED BY <1>1, <3>1, PlanUpdate
  <2>2. CASE "cups" \notin U
    <3>1. X = {} /\ s = <<>>
      BY <2>2
    <3> QED BY <3>1, PlanNothing
  <2> QED BY <2>1, <2>2
<1>3. PlanOf(t, Y, FALSE)
  <2>1. CASE "tc" \in U
    <3>1. Y = {"tc"} /\ t = <<Update("tc", FALSE)>>
      BY <2>1
    <3> QED BY <1>1, <3>1, PlanUpdate
  <2>2. CASE "tc" \notin U
    <3>1. Y = {} /\ t = <<>>
      BY <2>2
    <3> QED BY <3>1, PlanNothing
  <2> QED BY <2>1, <2>2
<1>4. PlanOf(s \o t, X \cup Y, FALSE)
  <2> HIDE DEF s, t, X, Y
  <2> QED BY <1>1, <1>2, <1>3, PlanConcat
<1> QED BY <1>1, <1>4

(* checkRollForward of one category *)
LEMMA PlanForward ==
  ASSUME NEW d \in [Cats -> Files], NEW c \in Cats
  PROVE  PlanOf((IF d[c].upd THEN <<Update(c, TRUE)>> ELSE <<>>)
                \o (IF d[c].cpy THEN <<Backup(c, TRUE)>> ELSE <<>>)
                \o <<<<Note(c)>>>>, IF d[c].upd THEN {c} ELSE {}, TRUE)
<1> DEFINE s == IF d[c].upd THEN <<Update(c, TRUE)>> ELSE <<>>
           t == IF d[c].cpy THEN <<Backup(c, TRUE)>> ELSE <<>>
           u == <<<<Note(c)>>>>
           X == IF d[c].upd THEN {c} ELSE {}
<1>1. TRUE \in BOOLEAN /\ X \cap {} = {} /\ X \cup {} = X
  OBVIOUS
<1>2. PlanOf(s, X, TRUE)
  BY <1>1, PlanUpdate, PlanNothing
<1>3. PlanOf(t, {}, TRUE)
  BY <1>1, PlanBackup, PlanNothing
<1>4. PlanOf(u, {}, TRUE)
  <2>1. <<Note(c)>> \in Procedure /\ \A o : In(<<Note(c)>>, o) => o = Note(c)
    BY MarksOperations, OneOperation
  <2> DEFINE p == <<Note(c)>>
  <2>2. \A o : In(p, o) => Quiet(o)
    BY <2>1, QuietOnes
  <2> HIDE DEF p
  <2>3. <<p>> \in Seq(Procedure) /\ \A o : Has(<<p>>, o) => Quiet(o)
    BY <2>1, <2>2, OneProcedure DEF p
  <2> QED BY <2>3, PlanQuiet DEF p
<1> HIDE DEF s, t, u, X
<1>5. PlanOf(s \o t, X \cup {}, TRUE)
  BY <1>1, <1>2, <1>3, PlanConcat
<1>6. PlanOf(s \o t, X, TRUE)
  BY <1>1, <1>5
<1>7. PlanOf((s \o t) \o u, X \cup {}, TRUE)
  <2> DEFINE w == s \o t
  <2> HIDE DEF w
  <2>1. PlanOf(w, X, TRUE)
    BY <1>6 DEF w
  <2>2. PlanOf(w \o u, X \cup {}, TRUE)
    BY <1>1, <1>4, <2>1, PlanConcat
  <2> QED BY <2>2 DEF w
<1>8. PlanOf((s \o t) \o u, X, TRUE)
  BY <1>1, <1>7
<1> QED BY <1>8 DEF s, t, u, X

LEMMA PlanRollForward ==
  ASSUME NEW d \in [Cats -> Files]
  PROVE  PlanOf(RollForward(d), {c \in Cats : d[c].upd}, TRUE)
<1> DEFINE f(c) == (IF d[c].upd THEN <<Update(c, TRUE)>> ELSE <<>>)
                   \o (IF d[c].cpy THEN <<Backup(c, TRUE)>> ELSE <<>>)
                   \o <<<<Note(c)>>>>
           s == f("cups")
           t == f("tc")
           X == IF d["cups"].upd THEN {"cups"} ELSE {}
           Y == IF d["tc"].upd THEN {"tc"} ELSE {}
<1>1. "cups" \in Cats /\ "tc" \in Cats /\ X \cap Y = {} /\ X \cup Y = {c \in Cats : d[c].upd}
  BY DEF Cats
<1>2. PlanOf(s, X, TRUE) /\ PlanOf(t, Y, TRUE)
  BY <1>1, PlanForward
<1>3. RollForward(d) = s \o t
  BY DEF RollForward
<1> HIDE DEF s, t, X, Y
<1>4. PlanOf(s \o t, X \cup Y, TRUE)
  BY <1>1, <1>2, PlanConcat
<1> QED BY <1>1, <1>3, <1>4
-----------------------------------------------------------------------------
(* When nothing is to be done, there is no update. *)
LEMMA IdleSafe ==
  ASSUME NEW c \in Cats, NEW D, NEW W, RegSafe(c, D, <<>>, W)
  PROVE  D.reg \in W /\ ~D.upd
BY NoProcedure DEF RegSafe

LEMMA IdleTemp ==
  ASSUME NEW c \in Cats, NEW e \in Exts, NEW D, NEW T, TempSafe(c, e, D, <<>>, T)
  PROVE  D.temp[e] = T
BY NoProcedure DEF TempSafe

(* Without an update to come the regular set stays what it is. *)
LEMMA NoUpdate ==
  ASSUME NEW c \in Cats, NEW D, NEW W, NEW td, D.reg \in W, ~D.upd,
         ~Has(td, SetUpd(c)), \A e \in Exts : ~Has(td, Rename(c, e))
  PROVE  RegSafe(c, D, td, W)
BY FollowsHas DEF RegSafe, Updates

(* An update, to be begun or begun *)
LEMMA WithUpdate ==
  ASSUME NEW c \in Cats, NEW D, NEW W, NEW td, NEW U, NEW r \in BOOLEAN, PlanOf(td, U, r), c \in U,
         Merged(D) \in W, D.upd \/ (D.reg \in W /\ ~r)
  PROVE  RegSafe(c, D, td, W)
BY DEF RegSafe, Updates, Covered, PlanOf
-----------------------------------------------------------------------------
(* The inductive invariant.  The state of the temporary files is known     *)
(* while a session feeds them.                                             *)

Types ==
  /\ disk \in [Cats -> Files] /\ cuts \subseteq [Cats -> Files]
  /\ todo \in Seq(Procedure)
  /\ session \in [stage : {"idle", "feed", "start"}, offer : [Cats -> SUBSET {"uri", "cred"}],
                  pending : SUBSET Cats, fed : SUBSET Cats]
  /\ count \in [sessions : 0 .. MaxSessions, crashes : Nat, faults : Nat]

New(c, e) == (e = "uri" /\ c \in WithUri(session.offer)) \/ (e # "uri" /\ c \in session.fed)
Target(c, e) == IF New(c, e) THEN count.sessions ELSE Absent

Safe(c) ==
  /\ RegSafe(c, disk[c], todo, whole[c])
  /\ session.stage = "feed" => \A e \in Exts : TempSafe(c, e, disk[c], todo, Target(c, e))

Sound == ~cut /\ count.faults = 0 => \A c \in Cats : Safe(c)
Inv == Types /\ Sound
-----------------------------------------------------------------------------
LEMMA OperationKinds ==
  ASSUME NEW o \in Operation
  PROVE  \/ \E c \in Cats, set \in {"temp", "bak"}, e \in Exts, v \in Content : o = Write(c, set, e, v)
         \/ \E c \in Cats, taf \in {"upd", "cpy", "don"}, b \in BOOLEAN : o = Mark(c, taf, b)
         \/ \E c \in Cats, e \in Exts : o = Rename(c, e)
         \/ \E c \in Cats, e \in Exts : o = Copy(c, e)
         \/ o = Sync \/ \E c \in Cats : o = Note(c)
BY DEF Operation

LEMMA DoneType ==
  ASSUME NEW o \in Operation, o.op \in {"file", "mark", "rename", "copy"},
         NEW d \in [Cats -> Files], disk \in [Cats -> Files]
  PROVE  Done(o, d) \in [Cats -> Files]
<1>1. Absent \in Content
  BY DEF Content
<1>2. CASE \E c \in Cats, set \in {"temp", "bak"}, e \in Exts, v \in Content : o = Write(c, set, e, v)
  <2>1. PICK c \in Cats, set \in {"temp", "bak"}, e \in Exts, v \in Content : o = Write(c, set, e, v)
    BY <1>2
  <2>2. Done(o, d) = [d EXCEPT ![c][set][e] = v]
    BY <2>1 DEF Done, Write
  <2>3. d[c] \in Files
    OBVIOUS
  <2>4. CASE set = "temp"
    <3>1. [d[c] EXCEPT !.temp[e] = v] \in Files
      BY <2>3 DEF Files
    <3>2. [d EXCEPT ![c].temp[e] = v] \in [Cats -> Files]
      BY <3>1
    <3> QED BY <2>2, <2>4, <3>2
  <2>5. CASE set = "bak"
    <3>1. [d[c] EXCEPT !.bak[e] = v] \in Files
      BY <2>3 DEF Files
    <3>2. [d EXCEPT ![c].bak[e] = v] \in [Cats -> Files]
      BY <3>1
    <3> QED BY <2>2, <2>5, <3>2
  <2> QED BY <2>4, <2>5
<1>3. CASE \E c \in Cats, taf \in {"upd", "cpy", "don"}, b \in BOOLEAN : o = Mark(c, taf, b)
  <2>1. PICK c \in Cats, taf \in {"upd", "cpy", "don"}, b \in BOOLEAN : o = Mark(c, taf, b)
    BY <1>3
  <2>2. Done(o, d) = [d EXCEPT ![c][taf] = b]
    BY <2>1 DEF Done, Mark
  <2>3. d[c] \in Files
    OBVIOUS
  <2>4. [d[c] EXCEPT !.upd = b] \in Files /\ [d[c] EXCEPT !.cpy = b] \in Files
        /\ [d[c] EXCEPT !.don = b] \in Files
    BY <2>3 DEF Files
  <2> QED BY <2>2, <2>4
<1>4. CASE \E c \in Cats, e \in Exts : o = Rename(c, e)
  <2>1. PICK c \in Cats, e \in Exts : o = Rename(c, e)
    BY <1>4
  <2>2. Done(o, d) = IF d[c].temp[e] = Absent THEN d
                     ELSE [d EXCEPT ![c].reg[e] = d[c].temp[e], ![c].temp[e] = Absent]
    BY <2>1 DEF Done, Rename
  <2>3. d[c] \in Files
    OBVIOUS
  <2>4. [d[c] EXCEPT !.reg[e] = d[c].temp[e], !.temp[e] = Absent] \in Files
    BY <1>1, <2>3 DEF Files
  <2>5. [d EXCEPT ![c].reg[e] = d[c].temp[e], ![c].temp[e] = Absent] \in [Cats -> Files]
    BY <2>4
  <2> QED BY <2>2, <2>5
<1>5. CASE \E c \in Cats, e \in Exts : o = Copy(c, e)
  <2>1. PICK c \in Cats, e \in Exts : o = Copy(c, e)
    BY <1>5
  <2>2. Done(o, d) = IF disk[c].reg[e] = Absent THEN d
                     ELSE [d EXCEPT ![c].bak[e] = disk[c].reg[e]]
    BY <2>1 DEF Done, Copy
  <2>3. d[c] \in Files /\ disk[c] \in Files
    OBVIOUS
  <2>4. [d[c] EXCEPT !.bak[e] = disk[c].reg[e]] \in Files
    BY <2>3 DEF Files
  <2>5. [d EXCEPT ![c].bak[e] = disk[c].reg[e]] \in [Cats -> Files]
    BY <2>4
  <2> QED BY <2>2, <2>5
<1> QED BY <1>2, <1>3, <1>4, <1>5, OperationKinds DEF Sync, Note

LEMMA DoneEffect ==
  ASSUME NEW o \in Operation, o.op \in {"file", "mark", "rename", "copy"},
         disk \in [Cats -> Files], NEW d \in [Cats -> Files], NEW c \in Cats
  PROVE  Effect(o, c, d[c], Done(o, d)[c])
<1> DEFINE D == d[c]
           D2 == Done(o, d)[c]
<1>1. /\ D \in Files /\ D.reg \in [Exts -> Content] /\ D.temp \in [Exts -> Content]
      /\ D.upd \in BOOLEAN
  BY DEF Files
<1>2. CASE \E c1 \in Cats, set \in {"temp", "bak"}, e \in Exts, v \in Content : o = Write(c1, set, e, v)
  <2>1. PICK c1 \in Cats, set \in {"temp", "bak"}, e \in Exts, v \in Content : o = Write(c1, set, e, v)
    BY <1>2
  <2>2. Done(o, d) = [d EXCEPT ![c1][set][e] = v]
    BY <2>1 DEF Done, Write
  <2>3. /\ \A f : o # Rename(c, f)
        /\ o # SetUpd(c) /\ o # ClearUpd(c)
        /\ \A f, u : o = Write(c, "temp", f, u) => c1 = c /\ set = "temp" /\ f = e /\ u = v
    BY <2>1 DEF Rename, SetUpd, ClearUpd, Mark, Write
  <2>4. CASE c1 # c \/ set = "bak"
    <3>1. D2.upd = D.upd /\ D2.temp = D.temp /\ D2.reg = D.reg
      BY <1>1, <2>2, <2>4 DEF Files
    <3>2. \A f, u : o # Write(c, "temp", f, u)
      BY <2>3, <2>4
    <3> QED BY <2>3, <3>1, <3>2 DEF Effect
  <2>5. CASE c1 = c /\ set = "temp"
    <3>1. D2.upd = D.upd /\ D2.temp = [D.temp EXCEPT ![e] = v] /\ D2.reg = D.reg
      BY <1>1, <2>2, <2>5 DEF Files
    <3>2. o = Write(c, "temp", e, v)
      BY <2>1, <2>5
    <3>3. /\ D2.temp[e] = v /\ \A f \in Exts \ {e} : D2.temp[f] = D.temp[f]
      BY <1>1, <3>1
    <3>4. \A f \in Exts : /\ \A u : o = Write(c, "temp", f, u) => D2.temp[f] = u
                          /\ (\A u : o # Write(c, "temp", f, u)) => D2.temp[f] = D.temp[f]
      BY <2>3, <3>2, <3>3
    <3> QED BY <2>3, <3>1, <3>4 DEF Effect
  <2> QED BY <2>4, <2>5
<1>3. CASE \E c1 \in Cats, taf \in {"upd", "cpy", "don"}, b \in BOOLEAN : o = Mark(c1, taf, b)
  <2>1. PICK c1 \in Cats, taf \in {"upd", "cpy", "don"}, b \in BOOLEAN : o = Mark(c1, taf, b)
    BY <1>3
  <2>2. Done(o, d) = [d EXCEPT ![c1][taf] = b]
    BY <2>1 DEF Done, Mark
  <2>3. /\ \A f : o # Rename(c, f) /\ \A u : o # Write(c, "temp", f, u)
        /\ o = SetUpd(c) <=> c1 = c /\ taf = "upd" /\ b = TRUE
        /\ o = ClearUpd(c) <=> c1 = c /\ taf = "upd" /\ b = FALSE
    BY <2>1 DEF Rename, SetUpd, ClearUpd, Mark, Write
  <2>4. D2.temp = D.temp /\ D2.reg = D.reg
    BY <1>1, <2>2 DEF Files
  <2>5. D2.upd = IF c1 = c /\ taf = "upd" THEN b ELSE D.upd
    BY <1>1, <2>2 DEF Files
  <2>6. D2.upd <=> o = SetUpd(c) \/ (o # ClearUpd(c) /\ D.upd)
    BY <2>3, <2>5
  <2> QED BY <2>3, <2>4, <2>6 DEF Effect
<1>4. CASE \E c1 \in Cats, e \in Exts : o = Rename(c1, e)
  <2>1. PICK c1 \in Cats, e \in Exts : o = Rename(c1, e)
    BY <1>4
  <2>2. Done(o, d) = IF d[c1].temp[e] = Absent THEN d
                     ELSE [d EXCEPT ![c1].reg[e] = d[c1].temp[e], ![c1].temp[e] = Absent]
    BY <2>1 DEF Done, Rename
  <2>3. /\ \A f : o = Rename(c, f) <=> c1 = c /\ f = e
        /\ \A f, u : o # Write(c, "temp", f, u)
        /\ o # SetUpd(c) /\ o # ClearUpd(c)
    BY <2>1 DEF Rename, SetUpd, ClearUpd, Mark, Write
  <2>4. CASE c1 # c
    <3>1. D2 = D
      BY <2>2, <2>4
    <3> QED BY <2>3, <2>4, <3>1 DEF Effect
  <2>5. CASE c1 = c /\ D.temp[e] = Absent
    <3>1. D2 = D
      BY <2>2, <2>5
    <3> QED BY <2>3, <2>5, <3>1 DEF Effect
  <2>6. CASE c1 = c /\ D.temp[e] # Absent
    <3>1. Done(o, d) = [d EXCEPT ![c].reg[e] = d[c].temp[e], ![c].temp[e] = Absent]
      BY <2>2, <2>6
    <3>2. D2 = [d[c] EXCEPT !.reg[e] = d[c].temp[e], !.temp[e] = Absent]
      BY <3>1
    <3>3. D2.upd = D.upd /\ D2.temp = [D.temp EXCEPT ![e] = Absent]
          /\ D2.reg = [D.reg EXCEPT ![e] = D.temp[e]]
      BY <1>1, <3>2 DEF Files
    <3>4. D2.temp[e] = Absent /\ D2.reg[e] = D.temp[e]
          /\ \A f \in Exts \ {e} : D2.temp[f] = D.temp[f] /\ D2.reg[f] = D.reg[f]
      BY <1>1, <3>3
    <3> QED BY <2>3, <2>6, <3>3, <3>4 DEF Effect
  <2> QED BY <2>4, <2>5, <2>6
<1>5. CASE \E c1 \in Cats, e \in Exts : o = Copy(c1, e)
  <2>1. PICK c1 \in Cats, e \in Exts : o = Copy(c1, e)
    BY <1>5
  <2>2. Done(o, d) = IF disk[c1].reg[e] = Absent THEN d
                     ELSE [d EXCEPT ![c1].bak[e] = disk[c1].reg[e]]
    BY <2>1 DEF Done, Copy
  <2>3. /\ \A f : o # Rename(c, f) /\ \A u : o # Write(c, "temp", f, u)
        /\ o # SetUpd(c) /\ o # ClearUpd(c)
    BY <2>1 DEF Rename, SetUpd, ClearUpd, Mark, Write, Copy
  <2>4. D2.upd = D.upd /\ D2.temp = D.temp /\ D2.reg = D.reg
    BY <1>1, <2>2 DEF Files
  <2> QED BY <2>3, <2>4 DEF Effect
<1> QED BY <1>2, <1>3, <1>4, <1>5, OperationKinds DEF Sync, Note
-----------------------------------------------------------------------------
(* Type correctness *)

LEMMA OpIsOperation ==
  ASSUME Types, ~Idle
  PROVE  /\ Op \in Operation /\ Rest \in Seq(Procedure) /\ Removed(todo, Op, Rest)
         /\ Tail(todo) \in Seq(Procedure)
<1>1. todo \in Seq(Procedure) /\ todo # <<>>
  BY DEF Types, Idle
<1> QED BY <1>1, Dropped, HeadTailProperties DEF Removed

LEMMA PerformType ==
  ASSUME Types, NEW o \in Operation, o.op \in {"file", "mark", "rename", "copy"}, Perform(o)
  PROVE  disk' \in [Cats -> Files] /\ cuts' \subseteq [Cats -> Files]
<1>1. \A d \in [Cats -> Files] : Done(o, d) \in [Cats -> Files]
  BY DoneType DEF Types
<1> QED BY <1>1 DEF Perform, Types

LEMMA FaultType == ASSUME Types, WriteFault PROVE Types' /\ count.faults' # 0
<1>1. Op \in Operation /\ Tail(todo) \in Seq(Procedure)
  BY OpIsOperation DEF WriteFault
<1>2. disk' \in [Cats -> Files] /\ cuts' \subseteq [Cats -> Files]
  <2>1. CASE Op.op = "file" /\ Op.val # Absent /\ Perform([Op EXCEPT !.val = Broken])
    <3>1. \E c \in Cats, set \in {"temp", "bak"}, e \in Exts, v \in Content : Op = Write(c, set, e, v)
      BY <1>1, <2>1, OperationKinds DEF Mark, Rename, Copy, Sync, Note
    <3>2. PICK c \in Cats, set \in {"temp", "bak"}, e \in Exts, v \in Content : Op = Write(c, set, e, v)
      BY <3>1
    <3>3. [Op EXCEPT !.val = Broken] = Write(c, set, e, Broken)
      BY <3>2 DEF Write
    <3>4. Broken \in Content
      BY DEF Content
    <3>5. Write(c, set, e, Broken)
          \in {Write(c1, s1, e1, v1) : c1 \in Cats, s1 \in {"temp", "bak"}, e1 \in Exts, v1 \in Content}
      BY <3>4
    <3>6. Write(c, set, e, Broken) \in Operation
      BY <3>5 DEF Operation
    <3>7. Write(c, set, e, Broken).op = "file"
      BY DEF Write
    <3> QED BY <2>1, <3>3, <3>6, <3>7, PerformType
  <2>2. CASE Op.op = "copy" /\ Perform(Write(Op.cat, "bak", Op.ext, Broken))
    <3>1. \E c \in Cats, e \in Exts : Op = Copy(c, e)
      BY <1>1, <2>2, OperationKinds DEF Mark, Rename, Write, Sync, Note
    <3>2. PICK c \in Cats, e \in Exts : Op = Copy(c, e)
      BY <3>1
    <3>3. Op.cat = c /\ Op.ext = e
      BY <3>2 DEF Copy
    <3>4. Broken \in Content
      BY DEF Content
    <3>5. Write(c, "bak", e, Broken)
          \in {Write(c1, s1, e1, v1) : c1 \in Cats, s1 \in {"temp", "bak"}, e1 \in Exts, v1 \in Content}
      BY <3>4
    <3>6. Write(c, "bak", e, Broken) \in Operation
      BY <3>5 DEF Operation
    <3>7. Write(c, "bak", e, Broken).op = "file"
      BY DEF Write
    <3> QED BY <2>2, <3>3, <3>6, <3>7, PerformType
  <2>3. CASE UNCHANGED <<disk, cuts>>
    BY <2>3 DEF Types
  <2> QED BY <2>1, <2>2, <2>3 DEF WriteFault
<1>3. count' \in [sessions : 0 .. MaxSessions, crashes : Nat, faults : Nat] /\ count'.faults # 0
  BY DEF WriteFault, Types
<1> QED BY <1>1, <1>2, <1>3 DEF WriteFault, Types

LEMMA RestartType ==
  ASSUME Types, NEW d \in [Cats -> Files], Restart(d)
  PROVE  Types'
<1>1. RollForward(d) \in Seq(Procedure)
  BY PlanRollForward DEF PlanOf
<1>2. session' \in [stage : {"idle", "feed", "start"}, offer : [Cats -> SUBSET {"uri", "cred"}],
                    pending : SUBSET Cats, fed : SUBSET Cats]
  BY DEF Restart, NoSession
<1>3. count' \in [sessions : 0 .. MaxSessions, crashes : Nat, faults : Nat]
  BY DEF Restart, Types
<1> QED BY <1>1, <1>2, <1>3 DEF Restart, Types

(* SaveUris: one procedure for each URI announced *)
LEMMA SaveShape ==
  ASSUME NEW offer \in [Cats -> SUBSET {"uri", "cred"}], Types, count.sessions < MaxSessions
  PROVE  /\ SaveUris(offer) \in Seq(Procedure)
         /\ \A o : Has(SaveUris(offer), o)
                   <=> \E c \in WithUri(offer) : o = Write(c, "temp", "uri", count.sessions + 1)
<1> DEFINE w(c) == Write(c, "temp", "uri", count.sessions + 1)
           f(c) == IF c \in WithUri(offer) THEN <<<<w(c)>>>> ELSE <<>>
           s == f("cups")
           t == f("tc")
<1>1. count.sessions + 1 \in Content /\ "uri" \in Exts /\ "cups" \in Cats /\ "tc" \in Cats
  BY ExtsFinite, ConfAssumption DEF Types, Content, Cats
<1>2. ASSUME NEW c \in Cats
      PROVE  /\ f(c) \in Seq(Procedure)
             /\ \A o : Has(f(c), o) <=> c \in WithUri(offer) /\ o = w(c)
  <2>1. w(c) \in Operation
    BY <1>1, Operations
  <2> DEFINE p == <<w(c)>>
  <2>2. p \in Procedure /\ \A o : In(p, o) <=> o = w(c)
    <3> DEFINE x == w(c)
    <3>1. x \in Operation
      BY <2>1
    <3> HIDE DEF x
    <3>2. <<x>> \in Procedure /\ \A o : In(<<x>>, o) <=> o = x
      BY <3>1, OneOperation
    <3> QED BY <3>2 DEF x
  <2>3. f(c) = IF c \in WithUri(offer) THEN <<p>> ELSE <<>>
    OBVIOUS
  <2> HIDE DEF p
  <2>4. <<p>> \in Seq(Procedure) /\ \A o : Has(<<p>>, o) <=> In(p, o)
    BY <2>2, OneProcedure
  <2>5. <<>> \in Seq(Procedure) /\ \A o : ~Has(<<>>, o)
    BY NoProcedure
  <2> HIDE DEF f, w
  <2>6. CASE c \in WithUri(offer)
    BY <2>2, <2>3, <2>4, <2>6
  <2>7. CASE c \notin WithUri(offer)
    BY <2>3, <2>5, <2>7
  <2> QED BY <2>6, <2>7
<1>3. SaveUris(offer) = s \o t
  BY DEF SaveUris
<1>4. /\ s \in Seq(Procedure) /\ \A o : Has(s, o) <=> "cups" \in WithUri(offer) /\ o = w("cups")
      /\ t \in Seq(Procedure) /\ \A o : Has(t, o) <=> "tc" \in WithUri(offer) /\ o = w("tc")
  BY <1>1, <1>2
<1> HIDE DEF s, t
<1>5. s \o t \in Seq(Procedure) /\ \A o : Has(s \o t, o) <=> Has(s, o) \/ Has(t, o)
  BY <1>4, HasConcat
<1>6. WithUri(offer) \subseteq {"cups", "tc"}
  BY DEF WithUri, Cats
<1> QED BY <1>3, <1>4, <1>5, <1>6

(* cups_update_info: the plan of a response *)
LEMMA RespondPlan ==
  ASSUME Types, NEW offer \in [Cats -> SUBSET {"uri", "cred"}], NEW usingReg \in BOOLEAN,
         count.sessions < MaxSessions
  PROVE  LET td == (IF usingReg THEN BackupOnce("cups") ELSE <<>>) \o <<Reset>> \o SaveUris(offer)
             n == count.sessions + 1
         IN  /\ td \in Seq(Procedure)
             /\ \A c \in Cats : ~Has(td, SetUpd(c)) /\ \A e \in Exts : ~Has(td, Rename(c, e))
             /\ \A c \in Cats, e \in Exts : Has(td, Write(c, "temp", e, Absent))
             /\ \A c \in WithUri(offer) : Has(td, Write(c, "temp", "uri", n))
             /\ \A c \in Cats, e \in Exts : \A v :
                  Has(td, Write(c, "temp", e, v)) => v = Absent \/ (c \in WithUri(offer) /\ e = "uri" /\ v = n)
             /\ \A c \in Cats, e \in Exts : \A v :
                  Follows(td, Write(c, "temp", e, n), Write(c, "temp", e, v)) => v = n
<1> DEFINE b == IF usingReg THEN BackupOnce("cups") ELSE <<>>
           r == <<Reset>>
           s == SaveUris(offer)
           n == count.sessions + 1
           td == (b \o r) \o s
<1>1. n \in Nat /\ n # Absent
  BY DEF Types, Absent
<1>2. b \in Seq(Procedure) /\ \A o : Has(b, o) => Quiet(o)
  <2>1. "cups" \in Cats
    BY DEF Cats
  <2> QED BY <2>1, PlanBackupOnce, NoProcedure
<1>3. r \in Seq(Procedure) /\ \A o : Has(r, o) <=> In(Reset, o)
  BY ResetShape, OneProcedure
<1>4. s \in Seq(Procedure)
      /\ \A o : Has(s, o) <=> \E c \in WithUri(offer) : o = Write(c, "temp", "uri", n)
  BY SaveShape
<1> HIDE DEF b, r, s, n
<1>5. b \o r \in Seq(Procedure) /\ \A o : Has(b \o r, o) <=> Has(b, o) \/ Has(r, o)
  BY <1>2, <1>3, HasConcat
<1>6. td \in Seq(Procedure) /\ \A o : Has(td, o) <=> Has(b \o r, o) \/ Has(s, o)
  <2> DEFINE t == b \o r
  <2>1. t \in Seq(Procedure)
    BY <1>5
  <2> HIDE DEF t
  <2>2. t \o s \in Seq(Procedure) /\ \A o : Has(t \o s, o) <=> Has(t, o) \/ Has(s, o)
    BY <1>4, <2>1, HasConcat
  <2> QED BY <2>2 DEF t
<1>7. \A x, y : Follows(td, x, y) => Follows(b \o r, x, y) \/ Follows(s, x, y) \/ (Has(b \o r, x) /\ Has(s, y))
  <2> DEFINE t == b \o r
  <2>1. t \in Seq(Procedure)
    BY <1>5
  <2> HIDE DEF t
  <2>2. \A x, y : Follows(t \o s, x, y) => Follows(t, x, y) \/ Follows(s, x, y) \/ (Has(t, x) /\ Has(s, y))
    BY <1>4, <2>1, FollowsConcat
  <2> QED BY <2>2 DEF t
<1> HIDE DEF td
<1>8. WithUri(offer) \subseteq Cats /\ "uri" \in Exts
  BY ExtsFinite DEF WithUri
<1>9. ASSUME NEW c \in Cats PROVE ~Has(td, SetUpd(c)) /\ \A e \in Exts : ~Has(td, Rename(c, e))
  <2>1. ~Has(b, SetUpd(c)) /\ \A e \in Exts : ~Has(b, Rename(c, e))
    BY <1>2 DEF Quiet
  <2>2. ~Has(r, SetUpd(c)) /\ \A e \in Exts : ~Has(r, Rename(c, e))
    BY <1>3, ResetShape DEF SetUpd, ClearUpd, Mark, Rename, Unlink, Write, Sync
  <2>3. ~Has(s, SetUpd(c)) /\ \A e \in Exts : ~Has(s, Rename(c, e))
    BY <1>4 DEF SetUpd, Mark, Rename, Write
  <2> QED BY <1>5, <1>6, <2>1, <2>2, <2>3
<1>10. ASSUME NEW c \in Cats, NEW e \in Exts PROVE Has(td, Write(c, "temp", e, Absent))
  <2>1. In(Reset, Unlink(c, "temp", e))
    BY ResetShape
  <2> QED BY <1>3, <1>5, <1>6, <2>1 DEF Unlink
<1>11. ASSUME NEW c \in WithUri(offer) PROVE Has(td, Write(c, "temp", "uri", n))
  BY <1>4, <1>6
<1>12. ASSUME NEW c \in Cats, NEW e \in Exts, NEW v
       PROVE  /\ ~Has(b, Write(c, "temp", e, v))
              /\ Has(r, Write(c, "temp", e, v)) => v = Absent
              /\ Has(s, Write(c, "temp", e, v)) => c \in WithUri(offer) /\ e = "uri" /\ v = n
  <2>1. ~Has(b, Write(c, "temp", e, v))
    BY <1>2 DEF Quiet
  <2>2. Has(r, Write(c, "temp", e, v)) => v = Absent
    BY <1>3, ResetShape DEF ClearUpd, Mark, Unlink, Write, Sync
  <2>3. Has(s, Write(c, "temp", e, v)) => c \in WithUri(offer) /\ e = "uri" /\ v = n
    BY <1>4 DEF Write
  <2> QED BY <2>1, <2>2, <2>3
<1>13. \A c \in Cats, e \in Exts : \A v :
         Has(td, Write(c, "temp", e, v)) => v = Absent \/ (c \in WithUri(offer) /\ e = "uri" /\ v = n)
  BY <1>5, <1>6, <1>12
<1>14. ASSUME NEW c \in Cats, NEW e \in Exts, NEW v,
              Follows(td, Write(c, "temp", e, n), Write(c, "temp", e, v))
       PROVE  v = n
  <2>1. ~Has(b \o r, Write(c, "temp", e, n))
    BY <1>1, <1>5, <1>12
  <2>2. Has(s, Write(c, "temp", e, v))
    BY <1>7, <1>14, <2>1, FollowsHas
  <2> QED BY <1>12, <2>2
<1> QED BY <1>6, <1>9, <1>10, <1>11, <1>13, <1>14 DEF td, b, r, s, n
-----------------------------------------------------------------------------
(* The station begins, and every action of it, preserve the invariant.     *)

LEMMA InitInv == ASSUME Init PROVE Inv
<1>1. /\ NoFiles \in [Exts -> Content] /\ [e \in Exts |-> 0] \in [Exts -> Content]
      /\ MaxSessions \in Nat
  BY ConfAssumption DEF NoFiles, Content
<1>2. [reg |-> [e \in Exts |-> 0], bak |-> NoFiles, temp |-> NoFiles,
       upd |-> FALSE, cpy |-> FALSE, don |-> FALSE] \in Files
  BY <1>1 DEF Files
<1>3. disk \in [Cats -> Files] /\ cuts \subseteq [Cats -> Files]
  BY <1>2 DEF Init
<1>4. todo \in Seq(Procedure) /\ \A o : ~Has(todo, o)
  BY NoProcedure DEF Init
<1>5. session \in [stage : {"idle", "feed", "start"}, offer : [Cats -> SUBSET {"uri", "cred"}],
                   pending : SUBSET Cats, fed : SUBSET Cats] /\ session.stage = "idle"
  BY DEF Init, NoSession
<1>6. count \in [sessions : 0 .. MaxSessions, crashes : Nat, faults : Nat]
  BY <1>1 DEF Init
<1>7. ASSUME NEW c \in Cats PROVE Safe(c)
  <2>1. disk[c].reg \in whole[c] /\ ~disk[c].upd
    BY DEF Init
  <2>2. RegSafe(c, disk[c], todo, whole[c])
    BY <1>4, <2>1, NoUpdate
  <2> QED BY <1>5, <2>2 DEF Safe
<1> QED BY <1>3, <1>4, <1>5, <1>6, <1>7 DEF Inv, Types, Sound

(* Where neither power nor a write has failed, nor fails in this step, the *)
(* sets of both categories are safe.                                       *)
LEMMA Was ==
  ASSUME Inv, UNCHANGED cut, count'.faults = count.faults,
         (\A c \in Cats : Safe(c)) => \A c \in Cats : Safe(c)'
  PROVE  Sound'
BY DEF Inv, Sound

(* One operation is done: it has the effect expected, or none at all.      *)
LEMMA OperationDone ==
  ASSUME Types, Types', ~Idle, todo' = Rest, UNCHANGED <<session, count, whole>>,
         NEW c \in Cats, Safe(c), Effect(Op, c, disk[c], disk'[c])
  PROVE  Safe(c)'
<1>1. Op \in Operation /\ Removed(todo, Op, todo')
  BY OpIsOperation
<1>2. disk[c] \in Files /\ disk'[c] \in Files
  BY DEF Types
<1>3. RegSafe(c, disk[c], todo, whole[c])
  BY DEF Safe
<1>4. RegSafe(c, disk'[c], todo', whole[c])
  BY <1>1, <1>2, <1>3, RegStep
<1>5. ASSUME NEW e \in Exts, session.stage = "feed" PROVE TempSafe(c, e, disk'[c], todo', Target(c, e))
  <2>1. TempSafe(c, e, disk[c], todo, Target(c, e))
    BY <1>5 DEF Safe
  <2> QED BY <1>1, <2>1, TempStep
<1>6. \A e \in Exts : Target(c, e)' = Target(c, e)
  BY DEF Target, New
<1> QED BY <1>4, <1>5, <1>6 DEF Safe

LEMMA FileStepInv == ASSUME Inv, FileStep PROVE Inv'
<1>1. Types /\ ~Idle /\ Op.op \in {"file", "mark", "rename", "copy"} /\ Perform(Op) /\ todo' = Rest
      /\ UNCHANGED <<session, count, whole, cut>>
  BY DEF Inv, FileStep, memory, history
<1>2. Op \in Operation /\ Rest \in Seq(Procedure)
  BY <1>1, OpIsOperation
<1>3. disk' \in [Cats -> Files] /\ cuts' \subseteq [Cats -> Files]
  BY <1>1, <1>2, PerformType
<1>4. Types'
  BY <1>1, <1>2, <1>3 DEF Types
<1>5. ASSUME NEW c \in Cats, Safe(c) PROVE Safe(c)'
  <2>1. disk' = Done(Op, disk) /\ disk \in [Cats -> Files]
    BY <1>1 DEF Perform, Types
  <2>2. Effect(Op, c, disk[c], disk'[c])
    BY <1>1, <1>2, <2>1, DoneEffect
  <2> QED BY <1>1, <1>4, <1>5, <2>2, OperationDone
<1>6. Sound'
  BY <1>1, <1>5, Was
<1> QED BY <1>4, <1>6 DEF Inv

(* sync and the look at the done marker do nothing to the files. *)
LEMMA NoEffect ==
  ASSUME NEW o, o.op \in {"sync", "note"}, NEW c, NEW D
  PROVE  Effect(o, c, D, D)
<1>1. \A e : o # Rename(c, e) /\ \A v : o # Write(c, "temp", e, v)
  BY DEF Rename, Write
<1>2. o # SetUpd(c) /\ o # ClearUpd(c)
  BY DEF SetUpd, ClearUpd, Mark
<1> QED BY <1>1, <1>2 DEF Effect

LEMMA SyncNoteInv == ASSUME Inv, SyncStep \/ NoteStep PROVE Inv'
<1>1. Types /\ ~Idle /\ Op.op \in {"sync", "note"} /\ todo' = Rest
      /\ UNCHANGED <<disk, session, count, whole, cut>> /\ cuts' \subseteq cuts \cup {disk}
  BY DEF Inv, SyncStep, NoteStep, memory, history
<1>2. Rest \in Seq(Procedure)
  BY <1>1, OpIsOperation
<1>3. Types'
  BY <1>1, <1>2 DEF Types
<1>4. ASSUME NEW c \in Cats, Safe(c) PROVE Safe(c)'
  <2>1. Effect(Op, c, disk[c], disk'[c])
    BY <1>1, NoEffect
  <2> QED BY <1>1, <1>3, <1>4, <2>1, OperationDone
<1>5. Sound'
  BY <1>1, <1>4, Was
<1> QED BY <1>3, <1>5 DEF Inv

LEMMA WriteFaultInv == ASSUME Inv, WriteFault PROVE Inv'
BY FaultType DEF Inv, Sound

LEMMA PowerFailureInv == ASSUME Inv, PowerFailure PROVE Inv'
<1>1. PICK d \in cuts : Restart(d) /\ cut' = TRUE
  BY DEF PowerFailure
<1>2. d \in [Cats -> Files]
  BY DEF Inv, Types
<1>3. Types'
  BY <1>1, <1>2, RestartType DEF Inv
<1>4. Sound'
  BY <1>1 DEF Sound
<1> QED BY <1>3, <1>4 DEF Inv

LEMMA CrashInv == ASSUME Inv, Crash PROVE Inv'
<1>1. Types /\ disk \in [Cats -> Files] /\ Restart(disk) /\ UNCHANGED cut
  BY DEF Inv, Types, Crash
<1>2. Types'
  BY <1>1, RestartType
<1>3. /\ disk' = disk /\ todo' = RollForward(disk) /\ whole' = whole
      /\ session'.stage = "start" /\ count'.faults = count.faults
  BY <1>1 DEF Restart, NoSession, Types
<1> DEFINE U == {c \in Cats : disk[c].upd}
<1>4. PlanOf(todo', U, TRUE)
  BY <1>1, <1>3, PlanRollForward
<1>5. ASSUME NEW c \in Cats, Safe(c) PROVE Safe(c)'
  <2>1. RegSafe(c, disk[c], todo, whole[c])
    BY <1>5 DEF Safe
  <2>2. CASE disk[c].upd
    <3>1. c \in U /\ Merged(disk[c]) \in whole[c] /\ TRUE \in BOOLEAN
      BY <2>1, <2>2 DEF RegSafe
    <3>2. RegSafe(c, disk[c], todo', whole[c])
      BY <1>4, <2>2, <3>1, WithUpdate
    <3> QED BY <1>3, <3>2 DEF Safe
  <2>3. CASE ~disk[c].upd
    <3>1. disk[c].reg \in whole[c] /\ c \notin U
      BY <2>1, <2>3 DEF RegSafe
    <3>2. ~Has(todo', SetUpd(c)) /\ \A e \in Exts : ~Has(todo', Rename(c, e))
      BY <1>4, <3>1 DEF PlanOf
    <3>3. RegSafe(c, disk[c], todo', whole[c])
      BY <2>3, <3>1, <3>2, NoUpdate
    <3> QED BY <1>3, <3>3 DEF Safe
  <2> QED BY <2>2, <2>3
<1>6. Sound'
  BY <1>1, <1>3, <1>5, Was
<1> QED BY <1>2, <1>6 DEF Inv

(* The files announced are new, the temporary set is wiped before them.    *)
LEMMA RespondInv ==
  ASSUME Inv, NEW offer \in Offers, NEW usingReg \in BOOLEAN, Respond(offer, usingReg)
  PROVE  Inv'
<1> DEFINE n == count.sessions + 1
<1>1. Types /\ todo = <<>> /\ count.sessions < MaxSessions /\ session.stage = "idle"
      /\ UNCHANGED <<disk, cuts, whole, cut>>
  BY DEF Inv, Respond, Idle
<1>2. offer \in [Cats -> SUBSET {"uri", "cred"}] /\ MaxSessions \in Nat
  BY ConfAssumption
<1>3. /\ todo' \in Seq(Procedure)
      /\ \A c \in Cats : ~Has(todo', SetUpd(c)) /\ \A e \in Exts : ~Has(todo', Rename(c, e))
      /\ \A c \in Cats, e \in Exts : Has(todo', Write(c, "temp", e, Absent))
      /\ \A c \in WithUri(offer) : Has(todo', Write(c, "temp", "uri", n))
      /\ \A c \in Cats, e \in Exts : \A v :
           Has(todo', Write(c, "temp", e, v)) => v = Absent \/ (c \in WithUri(offer) /\ e = "uri" /\ v = n)
      /\ \A c \in Cats, e \in Exts : \A v :
           Follows(todo', Write(c, "temp", e, n), Write(c, "temp", e, v)) => v = n
  <2>1. todo' = (IF usingReg THEN BackupOnce("cups") ELSE <<>>) \o <<Reset>> \o SaveUris(offer)
    BY DEF Respond
  <2> QED BY <1>1, <1>2, <2>1, RespondPlan
<1>4. session' = [stage |-> "feed", offer |-> offer, fed |-> {},
                  pending |-> {c \in Cats : "cred" \in offer[c]}]
      /\ count' = [count EXCEPT !.sessions = n]
  BY DEF Respond
<1>5. Types'
  <2>1. session' \in [stage : {"idle", "feed", "start"}, offer : [Cats -> SUBSET {"uri", "cred"}],
                      pending : SUBSET Cats, fed : SUBSET Cats]
    BY <1>2, <1>4
  <2>2. count' \in [sessions : 0 .. MaxSessions, crashes : Nat, faults : Nat]
    BY <1>1, <1>2, <1>4 DEF Types
  <2> QED BY <1>1, <1>3, <2>1, <2>2 DEF Types
<1>6. count'.faults = count.faults /\ count'.sessions = n /\ session'.stage = "feed"
      /\ session'.offer = offer /\ session'.fed = {}
  BY <1>1, <1>4 DEF Types
<1>7. ASSUME NEW c \in Cats, Safe(c) PROVE Safe(c)'
  <2>1. RegSafe(c, disk[c], <<>>, whole[c])
    BY <1>1, <1>7 DEF Safe
  <2>2. disk[c].reg \in whole[c] /\ ~disk[c].upd
    BY <2>1, IdleSafe
  <2>3. RegSafe(c, disk[c], todo', whole[c])
    BY <1>3, <2>2, NoUpdate
  <2>4. ASSUME NEW e \in Exts PROVE TempSafe(c, e, disk'[c], todo', Target(c, e)')
    <3>1. Target(c, e)' = IF e = "uri" /\ c \in WithUri(offer) THEN n ELSE Absent
      BY <1>6 DEF Target, New, WithUri
    <3>2. CASE e = "uri" /\ c \in WithUri(offer)
      <4>1. Target(c, e)' = n
        BY <3>1, <3>2
      <4>2. Has(todo', Write(c, "temp", e, n)) /\ ~Has(todo', Rename(c, e))
        BY <1>3, <3>2
      <4>3. \A v : Follows(todo', Write(c, "temp", e, n), Write(c, "temp", e, v)) => v = n
        BY <1>3
      <4> HIDE DEF n
      <4> QED BY <4>1, <4>2, <4>3 DEF TempSafe
    <3>3. CASE ~(e = "uri" /\ c \in WithUri(offer))
      <4>1. Target(c, e)' = Absent
        BY <3>1, <3>3
      <4>2. Has(todo', Write(c, "temp", e, Absent)) /\ ~Has(todo', Rename(c, e))
        BY <1>3
      <4>3. \A v : Has(todo', Write(c, "temp", e, v)) => v = Absent
        BY <1>3, <3>3
      <4>4. \A v : Follows(todo', Write(c, "temp", e, Absent), Write(c, "temp", e, v)) => v = Absent
        BY <4>3, FollowsHas
      <4> QED BY <4>1, <4>2, <4>4 DEF TempSafe
    <3> QED BY <3>2, <3>3
  <2> QED BY <1>1, <2>3, <2>4 DEF Safe
<1>8. Sound'
  BY <1>1, <1>6, <1>7, Was
<1> QED BY <1>5, <1>8 DEF Inv

(* A procedure that has nothing to do with an update is called. *)
LEMMA QuietSafe ==
  ASSUME todo = <<>>, UNCHANGED <<disk, session, count, whole>>,
         \A o : Has(todo', o) => Quiet(o), NEW c \in Cats, Safe(c)
  PROVE  Safe(c)'
<1>1. RegSafe(c, disk[c], <<>>, whole[c])
  BY DEF Safe
<1>2. disk[c].reg \in whole[c] /\ ~disk[c].upd
  BY <1>1, IdleSafe
<1>3. /\ ~Has(todo', SetUpd(c)) /\ \A e \in Exts : ~Has(todo', Rename(c, e))
      /\ \A e \in Exts : \A v : ~Has(todo', Write(c, "temp", e, v))
  BY DEF Quiet
<1>4. RegSafe(c, disk[c], todo', whole[c])
  BY <1>2, <1>3, NoUpdate
<1>5. ASSUME NEW e \in Exts, session.stage = "feed" PROVE TempSafe(c, e, disk[c], todo', Target(c, e))
  <2>1. TempSafe(c, e, disk[c], <<>>, Target(c, e))
    BY <1>5 DEF Safe
  <2>2. disk[c].temp[e] = Target(c, e)
    BY <2>1, IdleTemp
  <2> QED BY <1>3, <2>2, FollowsHas DEF TempSafe
<1>6. \A e \in Exts : Target(c, e)' = Target(c, e)
  BY DEF Target, New
<1> QED BY <1>4, <1>5, <1>6 DEF Safe

LEMMA BackupInv == ASSUME Inv, Malformed \/ MuxsConnected PROVE Inv'
<1>1. PICK c \in Cats : todo' = BackupOnce(c)
  BY DEF Malformed, MuxsConnected, Cats
<1>2. todo' \in Seq(Procedure) /\ \A o : Has(todo', o) => Quiet(o)
  BY <1>1, PlanBackupOnce
<1>3. Types /\ todo = <<>> /\ UNCHANGED <<disk, cuts, session, count, whole, cut>>
  BY DEF Inv, Malformed, MuxsConnected, Idle, memory
<1>4. Types'
  BY <1>2, <1>3 DEF Types
<1>5. \A c1 \in Cats : Safe(c1) => Safe(c1)'
  BY <1>2, <1>3, QuietSafe
<1>6. Sound'
  BY <1>3, <1>5, Was
<1> QED BY <1>4, <1>6 DEF Inv

(* The files of a credential are written over the temporary set. *)
LEMMA CredentialInv ==
  ASSUME Inv, NEW k \in Cats, NEW parsed \in BOOLEAN, Credential(k, parsed)
  PROVE  Inv'
<1> DEFINE p == ForExts(CredExts, LAMBDA e : Write(k, "temp", e, count.sessions))
<1>1. Types /\ todo = <<>> /\ session.stage = "feed" /\ UNCHANGED <<disk, cuts, count, whole, cut>>
      /\ todo' = (IF parsed THEN <<p>> ELSE <<>>)
      /\ session' = [session EXCEPT !.pending = @ \ {k}, !.fed = IF parsed THEN @ \cup {k} ELSE @]
  BY DEF Inv, Credential, Idle, history
<1>2. count.sessions \in Content
  BY <1>1 DEF Types, Content
<1>3. p \in Procedure /\ \A o : In(p, o) <=> \E e \in CredExts : o = Write(k, "temp", e, count.sessions)
  BY <1>2, CredWrites
<1> HIDE DEF p
<1>4. <<p>> \in Seq(Procedure) /\ \A o : Has(<<p>>, o) <=> In(p, o)
  BY <1>3, OneProcedure
<1>5. <<>> \in Seq(Procedure) /\ \A o : ~Has(<<>>, o)
  BY NoProcedure
<1>6. todo' \in Seq(Procedure)
      /\ \A o : Has(todo', o) <=> parsed /\ \E e \in CredExts : o = Write(k, "temp", e, count.sessions)
  <2>1. CASE parsed
    BY <1>1, <1>3, <1>4, <2>1
  <2>2. CASE ~parsed
    BY <1>1, <1>5, <2>2
  <2> QED BY <2>1, <2>2
<1>7. /\ session'.stage = "feed" /\ session'.offer = session.offer
      /\ session'.fed = IF parsed THEN session.fed \cup {k} ELSE session.fed
  BY <1>1 DEF Types
<1>8. Types'
  BY <1>1, <1>6 DEF Types
<1>9. ASSUME NEW c \in Cats, Safe(c) PROVE Safe(c)'
  <2>1. RegSafe(c, disk[c], <<>>, whole[c])
    BY <1>1, <1>9 DEF Safe
  <2>2. disk[c].reg \in whole[c] /\ ~disk[c].upd
    BY <2>1, IdleSafe
  <2>3. ~Has(todo', SetUpd(c)) /\ \A e : ~Has(todo', Rename(c, e))
    BY <1>6 DEF SetUpd, Mark, Rename, Write
  <2>4. RegSafe(c, disk[c], todo', whole[c])
    BY <2>2, <2>3, NoUpdate
  <2>5. ASSUME NEW e \in Exts PROVE TempSafe(c, e, disk[c], todo', Target(c, e)')
    <3>1. TempSafe(c, e, disk[c], <<>>, Target(c, e))
      BY <1>1, <1>9 DEF Safe
    <3>2. disk[c].temp[e] = Target(c, e)
      BY <3>1, IdleTemp
    <3>3. \A v : Has(todo', Write(c, "temp", e, v)) <=> parsed /\ c = k /\ e \in CredExts /\ v = count.sessions
      BY <1>6 DEF Write
    <3>4. (e \in CredExts <=> e # "uri") /\ "uri" \notin CredExts
      BY ConfAssumption DEF Exts
    <3>5. New(c, e)' <=> New(c, e) \/ (parsed /\ c = k /\ e \in CredExts)
      BY <1>7, <3>4 DEF New, WithUri
    <3>6. CASE parsed /\ c = k /\ e \in CredExts
      <4>1. Target(c, e)' = count.sessions
        BY <1>1, <3>5, <3>6 DEF Target
      <4>2. Has(todo', Write(c, "temp", e, count.sessions))
        BY <3>3, <3>6
      <4>3. \A v : Follows(todo', Write(c, "temp", e, count.sessions), Write(c, "temp", e, v))
                   => v = count.sessions
        BY <3>3, FollowsHas
      <4> QED BY <2>3, <4>1, <4>2, <4>3 DEF TempSafe
    <3>7. CASE ~(parsed /\ c = k /\ e \in CredExts)
      <4>1. Target(c, e)' = Target(c, e)
        BY <1>1, <3>5, <3>7 DEF Target
      <4>2. \A v : ~Has(todo', Write(c, "temp", e, v))
        BY <3>3, <3>7
      <4> QED BY <2>3, <3>2, <4>1, <4>2, FollowsHas DEF TempSafe
    <3> QED BY <3>6, <3>7
  <2> QED BY <1>1, <2>4, <2>5 DEF Safe
<1>10. Sound'
  BY <1>1, <1>9, Was
<1> QED BY <1>8, <1>10 DEF Inv

(* sys_commitConfigUpdate: the temporary set holds the new files and no    *)
(* others, so that the regular set it is merged into is the renewed one.   *)
LEMMA CommitInv == ASSUME Inv, Commit PROVE Inv'
<1> DEFINE U == updateState \cap Cats
<1>1. Types /\ todo = <<>> /\ session.stage = "feed" /\ session' = NoSession
      /\ UNCHANGED <<disk, cuts, count, cut>>
  BY DEF Inv, Commit, Idle
<1>2. session' \in [stage : {"idle", "feed", "start"}, offer : [Cats -> SUBSET {"uri", "cred"}],
                    pending : SUBSET Cats, fed : SUBSET Cats] /\ session'.stage # "feed"
  BY <1>1 DEF NoSession
<1>3. CASE "error" \in updateState
  <2>1. UNCHANGED <<todo, whole>>
    BY <1>3 DEF Commit
  <2>2. Types'
    BY <1>1, <1>2, <2>1 DEF Types
  <2>3. ASSUME NEW c \in Cats, Safe(c) PROVE Safe(c)'
    BY <1>1, <1>2, <2>1, <2>3 DEF Safe
  <2>4. Sound'
    BY <1>1, <2>3, Was
  <2> QED BY <2>2, <2>4 DEF Inv
<1>4. CASE "error" \notin updateState
  <2>1. PlanOf(todo', U, FALSE)
    BY <1>4, PlanCommit DEF Commit
  <2>2. whole' = [c \in Cats |-> IF c \in updateState THEN whole[c] \cup {Renewed(c)} ELSE whole[c]]
    BY <1>4 DEF Commit
  <2>3. Types'
    BY <1>1, <1>2, <2>1 DEF Types, PlanOf
  <2>4. ASSUME NEW c \in Cats, Safe(c) PROVE Safe(c)'
    <3>1. RegSafe(c, disk[c], <<>>, whole[c])
      BY <1>1, <2>4 DEF Safe
    <3>2. disk[c].reg \in whole[c] /\ ~disk[c].upd
      BY <3>1, IdleSafe
    <3>3. CASE c \in updateState
      <4>1. ASSUME NEW e \in Exts PROVE disk[c].temp[e] = Target(c, e)
        <5>1. TempSafe(c, e, disk[c], <<>>, Target(c, e))
          BY <1>1, <2>4 DEF Safe
        <5> QED BY <5>1, IdleTemp
      <4>2. count.sessions # Absent
        BY <1>1 DEF Types, Absent
      <4>3. Merged(disk[c]) = Renewed(c)
        BY <4>1, <4>2 DEF Merged, Renewed, Target, New
      <4>4. Merged(disk[c]) \in whole'[c] /\ disk[c].reg \in whole'[c]
        BY <2>2, <3>2, <3>3, <4>3
      <4>5. c \in U /\ FALSE \in BOOLEAN
        BY <3>3
      <4>6. RegSafe(c, disk[c], todo', whole'[c])
        BY <2>1, <4>4, <4>5, WithUpdate
      <4> QED BY <1>1, <1>2, <4>6 DEF Safe
    <3>4. CASE c \notin updateState
      <4>1. disk[c].reg \in whole'[c] /\ c \notin U
        BY <2>2, <3>2, <3>4
      <4>2. ~Has(todo', SetUpd(c)) /\ \A e \in Exts : ~Has(todo', Rename(c, e))
        BY <2>1, <4>1 DEF PlanOf
      <4>3. RegSafe(c, disk[c], todo', whole'[c])
        BY <3>2, <4>1, <4>2, NoUpdate
      <4> QED BY <1>1, <1>2, <4>3 DEF Safe
    <3> QED BY <3>3, <3>4
  <2>5. Sound'
    BY <1>1, <2>4, Was
  <2> QED BY <2>3, <2>5 DEF Inv
<1> QED BY <1>3, <1>4

(* A session that breaks down, and a start that is over, leave the files.  *)
LEMMA EndInv == ASSUME Inv, Break \/ Started PROVE Inv'
<1>1. Types /\ session' = NoSession /\ UNCHANGED <<disk, cuts, todo, count, whole, cut>>
  BY DEF Inv, Break, Started, history
<1>2. session' \in [stage : {"idle", "feed", "start"}, offer : [Cats -> SUBSET {"uri", "cred"}],
                    pending : SUBSET Cats, fed : SUBSET Cats] /\ session'.stage # "feed"
  BY <1>1 DEF NoSession
<1>3. Types'
  BY <1>1, <1>2 DEF Types
<1>4. ASSUME NEW c \in Cats, Safe(c) PROVE Safe(c)'
  BY <1>1, <1>2, <1>4 DEF Safe
<1>5. Sound'
  BY <1>1, <1>4, Was
<1> QED BY <1>3, <1>5 DEF Inv

LEMMA NextInv == ASSUME Inv, [Next]_vars PROVE Inv'
<1>1. CASE FileStep
  BY <1>1, FileStepInv
<1>2. CASE SyncStep \/ NoteStep
  BY <1>2, SyncNoteInv
<1>3. CASE WriteFault
  BY <1>3, WriteFaultInv
<1>4. CASE \E offer \in Offers, usingReg \in BOOLEAN : Respond(offer, usingReg)
  BY <1>4, RespondInv
<1>5. CASE Malformed \/ MuxsConnected
  BY <1>5, BackupInv
<1>6. CASE \E c \in Cats, parsed \in BOOLEAN : Credential(c, parsed)
  BY <1>6, CredentialInv
<1>7. CASE Break \/ Started
  BY <1>7, EndInv
<1>8. CASE Commit
  BY <1>8, CommitInv
<1>9. CASE Crash
  BY <1>9, CrashInv
<1>10. CASE PowerFailure
  BY <1>10, PowerFailureInv
<1>11. CASE TcStart \/ TcConnectMuxs \/ UNCHANGED vars
  <2>1. UNCHANGED <<disk, cuts, todo, session, count, whole, cut>>
    BY <1>11 DEF TcStart, TcConnectMuxs, history, vars
  <2>2. Types'
    BY <2>1 DEF Inv, Types
  <2>3. ASSUME NEW c \in Cats PROVE Safe(c)' <=> Safe(c)
    BY <2>1 DEF Safe, Target, New
  <2>4. Sound'
    BY <2>1, <2>3, Was
  <2> QED BY <2>2, <2>4 DEF Inv
<1> QED BY <1>1, <1>2, <1>3, <1>4, <1>5, <1>6, <1>7, <1>8, <1>9, <1>10, <1>11 DEF Next

LEMMA InvRegWhole == ASSUME Inv PROVE RegWhole
<1> SUFFICES ASSUME Idle, ~cut, count.faults = 0, NEW c \in Cats
             PROVE  disk[c].reg \in whole[c]
  BY DEF RegWhole
<1>1. RegSafe(c, disk[c], <<>>, whole[c])
  BY DEF Inv, Sound, Safe, Idle
<1> QED BY <1>1, IdleSafe

(* Once the procedures are over, after any crash of the station, the       *)
(* regular set of each category is the one before an update or the one     *)
(* after it: updateConfigFiles makes the marker before the first rename    *)
(* and takes it away after the last, checkRollForward finishes what the    *)
(* marker tells of, and sys_resetConfigUpdate leaves no file of an earlier *)
(* session in the temporary set.                                           *)
THEOREM UpdateWhole == Spec => []RegWhole
<1>1. Init => Inv
  BY InitInv
<1>2. Inv /\ [Next]_vars => Inv'
  BY NextInv
<1>3. Inv => RegWhole
  BY InvRegWhole
<1> QED BY <1>1, <1>2, <1>3, PTL DEF Spec
-----------------------------------------------------------------------------
(* In procedure p, b and then z follow each a. *)
Leads(p, a, b, z) ==
  \A j \in 1 .. Len(p) : p[j] = a
    => \E l, m \in 1 .. Len(p) : j < l /\ l < m /\ p[l] = b /\ p[m] = z

(* In one of the procedures a comes before b. *)
Within(td, a, b) == \E i \in 1 .. Len(td) : Before(td[i], a, b)

(* The operations that fail when the disk is full *)
Fallible(o) ==
  \/ o.op = "file" /\ o.val # Absent
  \/ o.op = "copy"
  \/ o.op = "mark" /\ o.val = TRUE

SetCpy(c) == Mark(c, "cpy", TRUE)
ClearCpy(c) == Mark(c, "cpy", FALSE)
SetDon(c) == Mark(c, "don", TRUE)
ClearDon(c) == Mark(c, "don", FALSE)

(* Every fallible operation is the done marker or comes before it. *)
Guarded(c, p) == \A j \in 1 .. Len(p) : Fallible(p[j]) => \E l \in 1 .. Len(p) : j <= l /\ p[l] = SetDon(c)

(* What a procedure, begun or not, does of an update and of a backup *)
Commits(c, p) ==
  /\ Leads(p, SetUpd(c), Sync, ClearUpd(c))
  /\ \A e \in Exts : Leads(p, Rename(c, e), Sync, ClearUpd(c))
  /\ In(p, ClearUpd(c)) => \A o : In(p, o) /\ Fallible(o) => o = SetUpd(c)
Saves(c, p) ==
  /\ Leads(p, SetCpy(c), Sync, ClearDon(c)) /\ Leads(p, SetCpy(c), Sync, ClearCpy(c))
  /\ Leads(p, ClearDon(c), Sync, Note(c)) /\ Leads(p, SetDon(c), Sync, Note(c))
  /\ Leads(p, SetDon(c), Sync, ClearCpy(c))
  /\ Leads(p, ClearCpy(c), Sync, Note(c))
  /\ \A e \in Exts : /\ Leads(p, Copy(c, e), Sync, ClearCpy(c))
                     /\ Leads(p, Unlink(c, "bak", e), Sync, ClearCpy(c))
                     /\ \A v : In(p, Write(c, "bak", e, v)) => v = Absent
  /\ In(p, Note(c)) => Guarded(c, p)

(* The order of the operations of all procedures *)
Sorted(c, td) ==
  /\ ~Follows(td, SetUpd(c), SetUpd(c))
  /\ \A e \in Exts : ~Follows(td, Rename(c, e), SetUpd(c))
  /\ ~Follows(td, SetDon(c), ClearDon(c)) /\ ~Follows(td, SetDon(c), SetDon(c))
  /\ ~Follows(td, ClearCpy(c), ClearCpy(c))
  /\ \A e \in Exts : /\ ~Follows(td, Copy(c, e), ClearDon(c))
                     /\ ~Follows(td, Unlink(c, "bak", e), ClearDon(c))
                     /\ ~Follows(td, Copy(c, e), Unlink(c, "bak", e))

Fine(td) ==
  /\ td \in Seq(Procedure)
  /\ \A c \in Cats : Sorted(c, td) /\ \A i \in 1 .. Len(td) : Commits(c, td[i]) /\ Saves(c, td[i])

(* A sync is to come that no failing operation can prevent. *)
Settles(td) ==
  \E i \in 1 .. Len(td) : In(td[i], Sync) /\ \A o : In(td[i], o) => ~Fallible(o)

(* td2 is td without its first operation, o. *)
Advanced(td, o, td2) ==
  /\ Removed(td, o, td2)
  /\ \A a, b : Within(td, a, b) => a = o \/ Within(td2, a, b)
  /\ \A a, b : Within(td2, a, b) => Within(td, a, b)
  /\ Settles(td) => o = Sync \/ Settles(td2)
  /\ \A b, z : (\A i \in 1 .. Len(td) : Leads(td[i], o, b, z)) => Within(td2, b, z)

(* The rest of a procedure *)
LEMMA TailOf ==
  ASSUME NEW h \in Procedure
  PROVE  LET k == Tail(h)
             x == Head(h)
         IN  /\ k \in Seq(Operation) /\ x \in Operation /\ In(h, x)
             /\ \A o : In(h, o) <=> o = x \/ In(k, o)
             /\ \A a, b : Before(h, a, b) <=> (a = x /\ In(k, b)) \/ Before(k, a, b)
             /\ \A a, b, z : Leads(h, a, b, z) => Leads(k, a, b, z) /\ (a = x => Before(k, b, z))
             /\ \A c \in Cats : Guarded(c, h) => Guarded(c, k)
<1> DEFINE k == Tail(h)
           x == Head(h)
<1>1. /\ k \in Seq(Operation) /\ x \in Operation /\ Len(h) \in Nat \ {0} /\ Len(k) \in Nat
      /\ x = h[1] /\ Len(k) = Len(h) - 1 /\ \A i \in 1 .. Len(k) : k[i] = h[i + 1]
  BY HeadTailProperties, EmptySeq, LenProperties DEF Procedure
<1>2. 1 \in 1 .. Len(h) /\ \A i \in 1 .. Len(k) : i + 1 \in 1 .. Len(h) /\ k[i] = h[i + 1] /\ 1 < i + 1
  BY <1>1
<1>3. \A j \in 1 .. Len(h) : j = 1 \/ \E i \in 1 .. Len(k) : j = i + 1 /\ h[j] = k[i]
  <2> SUFFICES ASSUME NEW j \in 1 .. Len(h), j # 1 PROVE \E i \in 1 .. Len(k) : j = i + 1 /\ h[j] = k[i]
    OBVIOUS
  <2>1. j - 1 \in 1 .. Len(k) /\ j = (j - 1) + 1
    BY <1>1
  <2> QED BY <1>1, <2>1
<1> HIDE DEF k, x
<1>4. \A o : In(h, o) <=> o = x \/ In(k, o)
  BY <1>1, <1>2, <1>3, SMTT(30) DEF In
<1>5. ASSUME NEW a, NEW b PROVE Before(h, a, b) <=> (a = x /\ In(k, b)) \/ Before(k, a, b)
  <2>1. ASSUME Before(h, a, b) PROVE (a = x /\ In(k, b)) \/ Before(k, a, b)
    <3>1. PICK j \in 1 .. Len(h), l \in 1 .. Len(h) : j < l /\ h[j] = a /\ h[l] = b
      BY <2>1 DEF Before
    <3>2. PICK m \in 1 .. Len(k) : l = m + 1 /\ h[l] = k[m]
      BY <1>3, <3>1
    <3>3. CASE j = 1
      BY <1>1, <3>1, <3>2, <3>3 DEF In
    <3>4. CASE j # 1
      <4>1. PICK i \in 1 .. Len(k) : j = i + 1 /\ h[j] = k[i]
        BY <1>3, <3>4
      <4>2. i < m
        BY <3>1, <3>2, <4>1
      <4> QED BY <3>1, <3>2, <4>1, <4>2 DEF Before
    <3> QED BY <3>3, <3>4
  <2>2. ASSUME a = x, In(k, b) PROVE Before(h, a, b)
    <3>1. PICK m \in 1 .. Len(k) : k[m] = b
      BY <2>2 DEF In
    <3> QED BY <1>1, <1>2, <2>2, <3>1 DEF Before
  <2>3. ASSUME Before(k, a, b) PROVE Before(h, a, b)
    <3>1. PICK j \in 1 .. Len(k), l \in 1 .. Len(k) : j < l /\ k[j] = a /\ k[l] = b
      BY <2>3 DEF Before
    <3>2. j + 1 < l + 1
      BY <3>1
    <3> QED BY <1>2, <3>1, <3>2 DEF Before
  <2> QED BY <2>1, <2>2, <2>3
<1>6. ASSUME NEW a, NEW b, NEW z, Leads(h, a, b, z)
      PROVE  Leads(k, a, b, z) /\ (a = x => Before(k, b, z))
  <2>1. ASSUME NEW j \in 1 .. Len(h), h[j] = a
        PROVE  \E l, m \in 1 .. Len(k) : j < l + 1 /\ l < m /\ k[l] = b /\ k[m] = z
    <3>1. PICK l \in 1 .. Len(h), m \in 1 .. Len(h) : j < l /\ l < m /\ h[l] = b /\ h[m] = z
      BY <1>6, <2>1 DEF Leads
    <3>2. l # 1 /\ m # 1
      BY <1>1, <3>1
    <3>3. PICK l2 \in 1 .. Len(k) : l = l2 + 1 /\ h[l] = k[l2]
      BY <1>3, <3>2
    <3>4. PICK m2 \in 1 .. Len(k) : m = m2 + 1 /\ h[m] = k[m2]
      BY <1>3, <3>2
    <3>5. j < l2 + 1 /\ l2 < m2
      BY <3>1, <3>3, <3>4
    <3> QED BY <3>1, <3>3, <3>4, <3>5
  <2>2. Leads(k, a, b, z)
    <3> SUFFICES ASSUME NEW j \in 1 .. Len(k), k[j] = a
                 PROVE  \E l, m \in 1 .. Len(k) : j < l /\ l < m /\ k[l] = b /\ k[m] = z
      BY DEF Leads
    <3>1. j + 1 \in 1 .. Len(h) /\ h[j + 1] = a
      BY <1>2
    <3>2. PICK l \in 1 .. Len(k), m \in 1 .. Len(k) : j + 1 < l + 1 /\ l < m /\ k[l] = b /\ k[m] = z
      BY <2>1, <3>1
    <3>3. j < l
      BY <3>2
    <3> QED BY <3>2, <3>3
  <2>3. a = x => Before(k, b, z)
    BY <1>1, <1>2, <2>1 DEF Before
  <2> QED BY <2>2, <2>3
<1>7. ASSUME NEW c \in Cats, Guarded(c, h) PROVE Guarded(c, k)
  <2> SUFFICES ASSUME NEW j \in 1 .. Len(k), Fallible(k[j])
               PROVE  \E l \in 1 .. Len(k) : j <= l /\ k[l] = SetDon(c)
    BY DEF Guarded
  <2>1. j + 1 \in 1 .. Len(h) /\ h[j + 1] = k[j]
    BY <1>2
  <2>2. PICK l \in 1 .. Len(h) : j + 1 <= l /\ h[l] = SetDon(c)
    BY <1>7, <2>1 DEF Guarded
  <2>3. l # 1
    BY <2>2
  <2>4. PICK i \in 1 .. Len(k) : l = i + 1 /\ h[l] = k[i]
    BY <1>3, <2>3
  <2>5. j <= i
    BY <2>2, <2>4
  <2> QED BY <2>2, <2>4, <2>5
<1> QED BY <1>1, <1>4, <1>5, <1>6, <1>7 DEF k, x

LEMMA ShapesOfTail ==
  ASSUME NEW h \in Procedure, NEW c \in Cats
  PROVE  /\ Commits(c, h) => Commits(c, Tail(h))
         /\ Saves(c, h) => Saves(c, Tail(h))
BY TailOf DEF Commits, Saves

(* todo: the procedure in progress, what is left of it, and the others     *)
LEMMA SplitTodo ==
  ASSUME todo \in Seq(Procedure), ~Idle
  PROVE  LET h == Head(todo)
             k == Tail(h)
             t == Tail(todo)
         IN  /\ h \in Procedure /\ Op = Head(h) /\ t \in Seq(Procedure)
             /\ \A i \in 1 .. Len(Rest) : Rest[i] = k \/ \E m \in 1 .. Len(t) : Rest[i] = t[m]
             /\ k = <<>> \/ \E i \in 1 .. Len(Rest) : Rest[i] = k
             /\ \A m \in 1 .. Len(t) : \E i \in 1 .. Len(Rest) : Rest[i] = t[m]
             /\ \A m \in 1 .. Len(t) : \E i \in 1 .. Len(todo) : todo[i] = t[m]
             /\ \E i \in 1 .. Len(todo) : todo[i] = h
             /\ \A i \in 1 .. Len(todo) : todo[i] = h \/ \E m \in 1 .. Len(t) : todo[i] = t[m]
<1> DEFINE h == Head(todo)
           k == Tail(h)
           t == Tail(todo)
<1>1. /\ todo # <<>> /\ h \in Procedure /\ t \in Seq(Procedure) /\ Len(t) = Len(todo) - 1 /\ h = todo[1]
      /\ \A i \in 1 .. Len(t) : t[i] = todo[i + 1]
      /\ Len(todo) \in Nat \ {0} /\ Len(t) \in Nat
  BY HeadTailProperties, EmptySeq, LenProperties DEF Idle
<1>2. k \in Seq(Operation) /\ Len(k) = Len(h) - 1 /\ Len(h) \in Nat \ {0}
  BY <1>1, HeadTailProperties, EmptySeq, LenProperties DEF Procedure
<1>3. Rest = (IF Len(h) = 1 THEN t ELSE <<k>> \o t) /\ Op = Head(h)
  BY DEF Rest, Op
<1> HIDE DEF h, k, t
<1>4. /\ \A m \in 1 .. Len(t) : \E i \in 1 .. Len(todo) : todo[i] = t[m]
      /\ \E i \in 1 .. Len(todo) : todo[i] = h
      /\ \A i \in 1 .. Len(todo) : todo[i] = h \/ \E m \in 1 .. Len(t) : todo[i] = t[m]
  <2>1. \A m \in 1 .. Len(t) : m + 1 \in 1 .. Len(todo)
    BY <1>1
  <2>2. 1 \in 1 .. Len(todo)
    BY <1>1
  <2>3. \A i \in 1 .. Len(todo) : i # 1 => i - 1 \in 1 .. Len(t) /\ (i - 1) + 1 = i
    BY <1>1
  <2> QED BY <1>1, <2>1, <2>2, <2>3
<1>5. CASE Len(h) = 1
  <2>1. k = <<>> /\ Rest = t
    BY <1>2, <1>3, <1>5, EmptySeq
  <2> QED BY <1>1, <1>3, <1>4, <2>1 DEF h, k, t
<1>6. CASE Len(h) # 1
  <2>1. Rest = <<k>> \o t /\ <<k>> \in Seq(Seq(Operation)) /\ t \in Seq(Seq(Operation))
    BY <1>1, <1>2, <1>3, <1>6 DEF Procedure
  <2>2. Len(Rest) = 1 + Len(t) /\ Rest[1] = k /\ \A i \in 2 .. Len(Rest) : Rest[i] = t[i - 1]
    BY <1>1, <2>1
  <2>3. 1 \in 1 .. Len(Rest) /\ \A m \in 1 .. Len(t) : m + 1 \in 2 .. Len(Rest) /\ (m + 1) - 1 = m
    BY <1>1, <2>2
  <2>4. \A i \in 1 .. Len(Rest) : i = 1 \/ (i \in 2 .. Len(Rest) /\ i - 1 \in 1 .. Len(t))
    BY <1>1, <2>2
  <2>5. \A i \in 1 .. Len(Rest) : Rest[i] = k \/ \E m \in 1 .. Len(t) : Rest[i] = t[m]
    BY <2>2, <2>4
  <2>6. \E i \in 1 .. Len(Rest) : Rest[i] = k
    BY <2>2, <2>3
  <2>7. ASSUME NEW m \in 1 .. Len(t) PROVE \E i \in 1 .. Len(Rest) : Rest[i] = t[m]
    <3>1. m + 1 \in 2 .. Len(Rest) /\ (m + 1) - 1 = m
      BY <2>3
    <3>2. Rest[m + 1] = t[m] /\ m + 1 \in 1 .. Len(Rest)
      BY <2>2, <3>1
    <3> QED BY <3>2
  <2> QED BY <1>1, <1>3, <1>4, <2>5, <2>6, <2>7 DEF h, k, t
<1> QED BY <1>5, <1>6

(* An operation is taken from todo. *)
LEMMA OpTaken ==
  ASSUME Fine(todo), ~Idle
  PROVE  Op \in Operation /\ Fine(Rest) /\ Advanced(todo, Op, Rest)
<1> DEFINE h == Head(todo)
           k == Tail(h)
           t == Tail(todo)
<1>1. todo \in Seq(Procedure) /\ ~Idle
  BY DEF Fine
<1>2. Op \in Operation /\ Rest \in Seq(Procedure) /\ Removed(todo, Op, Rest)
  BY <1>1, Dropped DEF Removed
<1>3. /\ h \in Procedure /\ Op = Head(h) /\ t \in Seq(Procedure)
      /\ \A i \in 1 .. Len(Rest) : Rest[i] = k \/ \E m \in 1 .. Len(t) : Rest[i] = t[m]
      /\ k = <<>> \/ \E i \in 1 .. Len(Rest) : Rest[i] = k
      /\ \A m \in 1 .. Len(t) : \E i \in 1 .. Len(Rest) : Rest[i] = t[m]
      /\ \A m \in 1 .. Len(t) : \E i \in 1 .. Len(todo) : todo[i] = t[m]
      /\ \E i \in 1 .. Len(todo) : todo[i] = h
      /\ \A i \in 1 .. Len(todo) : todo[i] = h \/ \E m \in 1 .. Len(t) : todo[i] = t[m]
  BY <1>1, SplitTodo
<1> HIDE DEF t
<1>4. /\ \A o : In(h, o) <=> o = Op \/ In(k, o)
      /\ \A a, b : Before(h, a, b) <=> (a = Op /\ In(k, b)) \/ Before(k, a, b)
      /\ \A a, b, z : Leads(h, a, b, z) => Leads(k, a, b, z) /\ (a = Op => Before(k, b, z))
      /\ \A c \in Cats : (Commits(c, h) => Commits(c, k)) /\ (Saves(c, h) => Saves(c, k))
  BY <1>3, TailOf, ShapesOfTail
<1>5. \A o, a, b : k = <<>> => ~In(k, o) /\ ~Before(k, a, b)
  BY NoOperation
<1> HIDE DEF h, k
<1>6. Fine(Rest)
  <2> SUFFICES ASSUME NEW c \in Cats
               PROVE  Sorted(c, Rest) /\ \A i \in 1 .. Len(Rest) : Commits(c, Rest[i]) /\ Saves(c, Rest[i])
    BY <1>2 DEF Fine
  <2>1. Sorted(c, Rest)
    BY <1>2 DEF Fine, Sorted, Removed
  <2>2. Commits(c, h) /\ Saves(c, h) /\ \A m \in 1 .. Len(t) : Commits(c, t[m]) /\ Saves(c, t[m])
    BY <1>3 DEF Fine
  <2> QED BY <1>3, <1>4, <2>1, <2>2
<1>7. ASSUME NEW a, NEW b
      PROVE  /\ Within(todo, a, b) => a = Op \/ Within(Rest, a, b)
             /\ Within(Rest, a, b) => Within(todo, a, b)
  <2>1. Before(h, a, b) => a = Op \/ Before(k, a, b)
    BY <1>4
  <2>2. Before(k, a, b) => Before(h, a, b) /\ \E i \in 1 .. Len(Rest) : Rest[i] = k
    BY <1>3, <1>4, <1>5
  <2>3. ASSUME Within(todo, a, b), a # Op PROVE Within(Rest, a, b)
    <3>1. PICK i \in 1 .. Len(todo) : Before(todo[i], a, b)
      BY <2>3 DEF Within
    <3>2. CASE todo[i] = h
      BY <2>1, <2>2, <2>3, <3>1, <3>2 DEF Within
    <3>3. CASE \E m \in 1 .. Len(t) : todo[i] = t[m]
      BY <1>3, <3>1, <3>3 DEF Within
    <3> QED BY <1>3, <3>2, <3>3
  <2>4. ASSUME Within(Rest, a, b) PROVE Within(todo, a, b)
    <3>1. PICK i \in 1 .. Len(Rest) : Before(Rest[i], a, b)
      BY <2>4 DEF Within
    <3>2. CASE Rest[i] = k
      BY <1>3, <2>2, <3>1, <3>2 DEF Within
    <3>3. CASE \E m \in 1 .. Len(t) : Rest[i] = t[m]
      BY <1>3, <3>1, <3>3 DEF Within
    <3> QED BY <1>3, <3>2, <3>3
  <2> QED BY <2>3, <2>4
<1>8. Settles(todo) => Op = Sync \/ Settles(Rest)
  <2>1. CASE In(h, Sync) /\ \A o : In(h, o) => ~Fallible(o)
    <3>1. Op = Sync \/ (In(k, Sync) /\ \A o : In(k, o) => ~Fallible(o))
      BY <1>4, <2>1
    <3> QED BY <1>3, <1>5, <3>1 DEF Settles
  <2>2. CASE \E m \in 1 .. Len(t) : In(t[m], Sync) /\ \A o : In(t[m], o) => ~Fallible(o)
    BY <1>3, <2>2 DEF Settles
  <2> QED BY <1>3, <2>1, <2>2 DEF Settles
<1>9. ASSUME NEW b, NEW z, \A i \in 1 .. Len(todo) : Leads(todo[i], Op, b, z)
      PROVE  Within(Rest, b, z)
  <2>1. Before(k, b, z)
    BY <1>3, <1>4, <1>9
  <2> QED BY <1>3, <1>5, <2>1 DEF Within
<1> QED BY <1>2, <1>6, <1>7, <1>8, <1>9 DEF Advanced

(* A failing operation ends its procedure. *)
LEMMA ProcedureEnded ==
  ASSUME Fine(todo), ~Idle
  PROVE  LET h == Head(todo)
             t == Tail(todo)
         IN  /\ Fine(t) /\ In(h, Op) /\ h \in Procedure
             /\ \A c \in Cats : Commits(c, h) /\ Saves(c, h)
             /\ \A o : Has(todo, o) <=> In(h, o) \/ Has(t, o)
             /\ \A a, b : Within(todo, a, b) <=> Before(h, a, b) \/ Within(t, a, b)
             /\ \A a, b : Follows(t, a, b) => Follows(todo, a, b)
             /\ \A b : Has(t, b) => Follows(todo, Op, b)
             /\ Settles(t) => Settles(todo)
             /\ Settles(todo) /\ Fallible(Op) => Settles(t)
<1> DEFINE h == Head(todo)
           t == Tail(todo)
<1>1. todo \in Seq(Procedure) /\ ~Idle
  BY DEF Fine
<1>2. /\ h \in Procedure /\ Op = Head(h) /\ t \in Seq(Procedure)
      /\ \A m \in 1 .. Len(t) : \E i \in 1 .. Len(todo) : todo[i] = t[m]
      /\ \E i \in 1 .. Len(todo) : todo[i] = h
      /\ \A i \in 1 .. Len(todo) : todo[i] = h \/ \E m \in 1 .. Len(t) : todo[i] = t[m]
  BY <1>1, SplitTodo
<1>3. In(h, Op)
  BY <1>2, TailOf
<1>4. todo # <<>> /\ Len(todo) \in Nat \ {0} /\ Len(t) \in Nat /\ Len(t) = Len(todo) - 1 /\ h = todo[1]
      /\ \A i \in 1 .. Len(t) : t[i] = todo[i + 1]
  BY <1>1, HeadTailProperties, EmptySeq, LenProperties DEF Idle
<1> HIDE DEF h, t
<1>5. ASSUME NEW a, NEW b, Follows(t, a, b) PROVE Follows(todo, a, b)
  <2>1. CASE \E i \in 1 .. Len(t) : Before(t[i], a, b)
    BY <1>2, <2>1 DEF Follows
  <2>2. CASE \E i, m \in 1 .. Len(t) : i < m /\ In(t[i], a) /\ In(t[m], b)
    <3>1. PICK i \in 1 .. Len(t), m \in 1 .. Len(t) : i < m /\ In(t[i], a) /\ In(t[m], b)
      BY <2>2
    <3>2. i + 1 \in 1 .. Len(todo) /\ m + 1 \in 1 .. Len(todo) /\ i + 1 < m + 1
      BY <1>4, <3>1
    <3> QED BY <1>4, <3>1, <3>2 DEF Follows
  <2> QED BY <1>5, <2>1, <2>2 DEF Follows
<1>6. ASSUME NEW b, Has(t, b) PROVE Follows(todo, Op, b)
  <2>1. PICK m \in 1 .. Len(t) : In(t[m], b)
    BY <1>6 DEF Has
  <2>2. 1 \in 1 .. Len(todo) /\ m + 1 \in 1 .. Len(todo) /\ 1 < m + 1
    BY <1>4
  <2> QED BY <1>3, <1>4, <2>1, <2>2 DEF Follows
<1>7. Fine(t) /\ \A c \in Cats : Commits(c, h) /\ Saves(c, h)
  <2>1. \A c \in Cats : Sorted(c, t)
    BY <1>5 DEF Fine, Sorted
  <2>2. \A c \in Cats : Commits(c, h) /\ Saves(c, h)
                        /\ \A m \in 1 .. Len(t) : Commits(c, t[m]) /\ Saves(c, t[m])
    BY <1>2 DEF Fine
  <2> QED BY <1>2, <2>1, <2>2 DEF Fine
<1>8. \A o : Has(todo, o) <=> In(h, o) \/ Has(t, o)
  BY <1>2 DEF Has
<1>9. \A a, b : Within(todo, a, b) <=> Before(h, a, b) \/ Within(t, a, b)
  BY <1>2 DEF Within
<1>10. (Settles(t) => Settles(todo)) /\ (Settles(todo) /\ Fallible(Op) => Settles(t))
  BY <1>2, <1>3 DEF Settles
<1> QED BY <1>2, <1>3, <1>5, <1>6, <1>7, <1>8, <1>9, <1>10 DEF h, t

(* Procedures called together *)
LEMMA FineConcat ==
  ASSUME NEW s, NEW t, Fine(s), Fine(t),
         \A c \in Cats :
           /\ \/ ~Has(s, SetUpd(c)) /\ \A e \in Exts : ~Has(s, Rename(c, e))
              \/ ~Has(t, SetUpd(c))
           /\ \/ /\ ~Has(s, SetDon(c)) /\ ~Has(s, ClearCpy(c))
                 /\ \A e \in Exts : ~Has(s, Copy(c, e)) /\ ~Has(s, Unlink(c, "bak", e))
              \/ /\ ~Has(t, ClearDon(c)) /\ ~Has(t, ClearCpy(c)) /\ ~Has(t, SetDon(c))
                 /\ \A e \in Exts : ~Has(t, Unlink(c, "bak", e))
  PROVE  /\ Fine(s \o t)
         /\ \A a, b : Within(s \o t, a, b) <=> Within(s, a, b) \/ Within(t, a, b)
         /\ Settles(s \o t) <=> Settles(s) \/ Settles(t)
<1>1. s \in Seq(Procedure) /\ t \in Seq(Procedure)
  BY DEF Fine
<1>2. s \o t \in Seq(Procedure)
  BY <1>1
<1>3. /\ Len(s) \in Nat /\ Len(t) \in Nat /\ Len(s \o t) = Len(s) + Len(t)
      /\ \A i \in 1 .. Len(s) + Len(t) : (s \o t)[i] = IF i <= Len(s) THEN s[i] ELSE t[i - Len(s)]
  BY <1>1, LenProperties, ConcatProperties
<1> DEFINE u == s \o t
<1>4. /\ \A i \in 1 .. Len(u) : (\E m \in 1 .. Len(s) : u[i] = s[m]) \/ \E m \in 1 .. Len(t) : u[i] = t[m]
      /\ \A m \in 1 .. Len(s) : \E i \in 1 .. Len(u) : u[i] = s[m]
      /\ \A m \in 1 .. Len(t) : \E i \in 1 .. Len(u) : u[i] = t[m]
  <2>1. ASSUME NEW i \in 1 .. Len(u)
        PROVE  (\E m \in 1 .. Len(s) : u[i] = s[m]) \/ \E m \in 1 .. Len(t) : u[i] = t[m]
    <3>1. i \in 1 .. Len(s) \/ (~(i <= Len(s)) /\ i - Len(s) \in 1 .. Len(t))
      BY <1>3
    <3>2. i \in 1 .. Len(s) => i <= Len(s)
      BY <1>3
    <3> QED BY <1>3, <3>1, <3>2
  <2>2. \A m \in 1 .. Len(s) : m \in 1 .. Len(u) /\ m <= Len(s)
    BY <1>3
  <2>3. \A m \in 1 .. Len(t) : Len(s) + m \in 1 .. Len(u) /\ ~(Len(s) + m <= Len(s)) /\ (Len(s) + m) - Len(s) = m
    BY <1>3
  <2>4. Len(u) = Len(s) + Len(t) /\ \A i \in 1 .. Len(u) : u[i] = IF i <= Len(s) THEN s[i] ELSE t[i - Len(s)]
    BY <1>3
  <2> HIDE DEF u
  <2>5. \A m \in 1 .. Len(s) : u[m] = s[m]
    BY <2>2, <2>4
  <2>6. \A m \in 1 .. Len(t) : u[Len(s) + m] = t[m]
    BY <2>3, <2>4
  <2>7. \A m \in 1 .. Len(s) : \E i \in 1 .. Len(u) : u[i] = s[m]
    BY <2>2, <2>5
  <2>8. \A m \in 1 .. Len(t) : \E i \in 1 .. Len(u) : u[i] = t[m]
    BY <2>3, <2>6
  <2> QED BY <2>1, <2>7, <2>8
<1>5. \A a, b : Follows(u, a, b) => Follows(s, a, b) \/ Follows(t, a, b) \/ (Has(s, a) /\ Has(t, b))
  BY <1>1, FollowsConcat
<1> HIDE DEF u
<1>6. ASSUME NEW c \in Cats PROVE Sorted(c, u)
  <2>1. Sorted(c, s) /\ Sorted(c, t)
    BY DEF Fine
  <2> QED BY <1>5, <2>1 DEF Sorted
<1>7. \A c \in Cats : \A i \in 1 .. Len(u) : Commits(c, u[i]) /\ Saves(c, u[i])
  BY <1>4 DEF Fine
<1>8. Fine(u)
  BY <1>2, <1>6, <1>7 DEF Fine, u
<1>9. \A a, b : Within(u, a, b) <=> Within(s, a, b) \/ Within(t, a, b)
  BY <1>4 DEF Within
<1>10. Settles(u) <=> Settles(s) \/ Settles(t)
  BY <1>4 DEF Settles
<1> QED BY <1>8, <1>9, <1>10 DEF u
-----------------------------------------------------------------------------
(* What belongs to an update and to a backup of category c *)
UpdateOf(c, o) == o \in {SetUpd(c), ClearUpd(c)} \/ \E e \in Exts : o = Rename(c, e)
BackupOf(c, o) ==
  \/ o \in {SetCpy(c), ClearCpy(c), SetDon(c), ClearDon(c), Note(c)}
  \/ \E e \in Exts : o = Copy(c, e) \/ \E v : o = Write(c, "bak", e, v)

LEMMA Robust ==
  ASSUME NEW c, NEW e, NEW set
  PROVE  /\ ~Fallible(Sync) /\ ~Fallible(Note(c)) /\ ~Fallible(Rename(c, e)) /\ ~Fallible(Unlink(c, set, e))
         /\ ~Fallible(ClearUpd(c)) /\ ~Fallible(ClearCpy(c)) /\ ~Fallible(ClearDon(c))
BY DEF Fallible, Sync, Note, Rename, Unlink, Write, ClearUpd, ClearCpy, ClearDon, Mark

LEMMA NotBackup ==
  ASSUME NEW c, NEW d, NEW e, NEW v
  PROVE  /\ ~BackupOf(d, Sync) /\ ~BackupOf(d, ClearUpd(c)) /\ ~BackupOf(d, SetUpd(c))
         /\ ~BackupOf(d, Rename(c, e)) /\ ~BackupOf(d, Write(c, "temp", e, v))
<1>1. ~BackupOf(d, Sync)
  BY DEF BackupOf, Sync, SetCpy, ClearCpy, SetDon, ClearDon, Note, Copy, Write, Mark
<1>2. ~BackupOf(d, ClearUpd(c)) /\ ~BackupOf(d, SetUpd(c))
  BY DEF BackupOf, ClearUpd, SetUpd, SetCpy, ClearCpy, SetDon, ClearDon, Note, Copy, Write, Mark
<1>3. ~BackupOf(d, Rename(c, e))
  BY DEF BackupOf, Rename, SetCpy, ClearCpy, SetDon, ClearDon, Note, Copy, Write, Mark
<1>4. ~BackupOf(d, Write(c, "temp", e, v))
  BY DEF BackupOf, Rename, SetCpy, ClearCpy, SetDon, ClearDon, Note, Copy, Write, Mark
<1> QED BY <1>1, <1>2, <1>3, <1>4

LEMMA NotUpdate ==
  ASSUME NEW c, NEW d \in Cats, NEW e, NEW v
  PROVE  /\ ~UpdateOf(d, Sync) /\ ~UpdateOf(d, Note(c)) /\ ~UpdateOf(d, Write(c, "temp", e, v))
         /\ \A o : Quiet(o) => ~UpdateOf(d, o)
<1>1. ~UpdateOf(d, Sync) /\ ~UpdateOf(d, Note(c)) /\ ~UpdateOf(d, Write(c, "temp", e, v))
  BY DEF UpdateOf, Sync, Note, Rename, SetUpd, ClearUpd, Write, Mark
<1>2. \A o : Quiet(o) => ~UpdateOf(d, o)
  BY DEF UpdateOf, Quiet
<1> QED BY <1>1, <1>2

LEMMA LeadsConcat ==
  ASSUME NEW p \in Seq(Operation), NEW q \in Seq(Operation), NEW a, NEW b, NEW z,
         Leads(p, a, b, z) \/ Before(q, b, z), Leads(q, a, b, z)
  PROVE  Leads(p \o q, a, b, z)
<1> DEFINE u == p \o q
<1>1. /\ Len(p) \in Nat /\ Len(q) \in Nat /\ Len(u) = Len(p) + Len(q)
      /\ \A i \in 1 .. Len(p) + Len(q) : u[i] = IF i <= Len(p) THEN p[i] ELSE q[i - Len(p)]
  BY LenProperties, ConcatProperties
<1>2. \A i \in 1 .. Len(p) : i \in 1 .. Len(u) /\ u[i] = p[i] /\ i <= Len(p)
  BY <1>1
<1>3. ASSUME NEW i \in 1 .. Len(q)
      PROVE  Len(p) + i \in 1 .. Len(u) /\ u[Len(p) + i] = q[i] /\ Len(p) < Len(p) + i
  <2>1. Len(p) + i \in 1 .. Len(p) + Len(q) /\ ~(Len(p) + i <= Len(p)) /\ (Len(p) + i) - Len(p) = i
    BY <1>1
  <2> QED BY <1>1, <2>1
<1> HIDE DEF u
<1> SUFFICES ASSUME NEW j \in 1 .. Len(u), u[j] = a
             PROVE  \E l, m \in 1 .. Len(u) : j < l /\ l < m /\ u[l] = b /\ u[m] = z
  BY DEF Leads, u
<1>4. CASE j \in 1 .. Len(p) /\ Leads(p, a, b, z)
  <2>1. PICK l \in 1 .. Len(p), m \in 1 .. Len(p) : j < l /\ l < m /\ p[l] = b /\ p[m] = z
    BY <1>2, <1>4 DEF Leads
  <2> QED BY <1>2, <2>1
<1>5. CASE j \in 1 .. Len(p) /\ Before(q, b, z)
  <2>1. PICK l \in 1 .. Len(q), m \in 1 .. Len(q) : l < m /\ q[l] = b /\ q[m] = z
    BY <1>5 DEF Before
  <2>2. j < Len(p) + l /\ Len(p) + l < Len(p) + m
    BY <1>1, <1>5, <2>1
  <2> QED BY <1>3, <2>1, <2>2
<1>6. CASE j \notin 1 .. Len(p)
  <2>1. j - Len(p) \in 1 .. Len(q) /\ Len(p) + (j - Len(p)) = j
    BY <1>1, <1>6
  <2>2. q[j - Len(p)] = a
    BY <1>3, <2>1
  <2>3. PICK l \in 1 .. Len(q), m \in 1 .. Len(q) : j - Len(p) < l /\ l < m /\ q[l] = b /\ q[m] = z
    BY <2>1, <2>2 DEF Leads
  <2>4. j < Len(p) + l /\ Len(p) + l < Len(p) + m
    BY <1>1, <2>3
  <2> QED BY <1>3, <2>3, <2>4
<1> QED BY <1>4, <1>5, <1>6

LEMMA GuardedConcat ==
  ASSUME NEW p \in Seq(Operation), NEW q \in Seq(Operation), NEW c, In(q, SetDon(c)), Guarded(c, q)
  PROVE  Guarded(c, p \o q)
<1> DEFINE u == p \o q
<1>1. /\ Len(p) \in Nat /\ Len(q) \in Nat /\ Len(u) = Len(p) + Len(q)
      /\ \A i \in 1 .. Len(p) + Len(q) : u[i] = IF i <= Len(p) THEN p[i] ELSE q[i - Len(p)]
  BY LenProperties, ConcatProperties
<1>2. ASSUME NEW i \in 1 .. Len(q)
      PROVE  Len(p) + i \in 1 .. Len(u) /\ u[Len(p) + i] = q[i]
  <2>1. Len(p) + i \in 1 .. Len(p) + Len(q) /\ ~(Len(p) + i <= Len(p)) /\ (Len(p) + i) - Len(p) = i
    BY <1>1
  <2> QED BY <1>1, <2>1
<1> HIDE DEF u
<1> SUFFICES ASSUME NEW j \in 1 .. Len(u), Fallible(u[j])
             PROVE  \E l \in 1 .. Len(u) : j <= l /\ u[l] = SetDon(c)
  BY DEF Guarded, u
<1>3. CASE j \in 1 .. Len(p)
  <2>1. PICK l \in 1 .. Len(q) : q[l] = SetDon(c)
    BY DEF In
  <2>2. j <= Len(p) + l
    BY <1>1, <1>3
  <2> QED BY <1>2, <2>1, <2>2
<1>4. CASE j \notin 1 .. Len(p)
  <2>1. j - Len(p) \in 1 .. Len(q) /\ Len(p) + (j - Len(p)) = j
    BY <1>1, <1>4
  <2>2. Fallible(q[j - Len(p)])
    BY <1>2, <2>1
  <2>3. PICK l \in 1 .. Len(q) : j - Len(p) <= l /\ q[l] = SetDon(c)
    BY <2>1, <2>2 DEF Guarded
  <2>4. j <= Len(p) + l
    BY <1>1, <2>3
  <2> QED BY <1>2, <2>3, <2>4
<1> QED BY <1>3, <1>4

LEMMA NoLead ==
  ASSUME NEW p, NEW a, NEW b, NEW z, ~In(p, a)
  PROVE  Leads(p, a, b, z)
BY DEF In, Leads

LEMMA SavesNothing ==
  ASSUME NEW p, NEW c, \A o : In(p, o) => ~BackupOf(c, o)
  PROVE  Saves(c, p)
<1>1. /\ ~In(p, SetCpy(c)) /\ ~In(p, ClearCpy(c)) /\ ~In(p, SetDon(c)) /\ ~In(p, ClearDon(c)) /\ ~In(p, Note(c))
      /\ \A e \in Exts : ~In(p, Copy(c, e)) /\ \A v : ~In(p, Write(c, "bak", e, v))
  BY DEF BackupOf
<1>2. \A e \in Exts : ~In(p, Unlink(c, "bak", e))
  BY <1>1 DEF Unlink
<1> QED BY <1>1, <1>2, NoLead DEF Saves

LEMMA CommitsNothing ==
  ASSUME NEW p, NEW c, \A o : In(p, o) => ~UpdateOf(c, o)
  PROVE  Commits(c, p)
<1>1. ~In(p, SetUpd(c)) /\ ~In(p, ClearUpd(c)) /\ \A e \in Exts : ~In(p, Rename(c, e))
  BY DEF UpdateOf
<1> QED BY <1>1, NoLead DEF Commits

(* One procedure is called. *)
LEMMA FineOne ==
  ASSUME NEW p \in Procedure,
         \A c \in Cats : Commits(c, p) /\ Saves(c, p) /\ Sorted(c, <<p>>)
  PROVE  /\ Fine(<<p>>)
         /\ \A a, b : Within(<<p>>, a, b) <=> Before(p, a, b)
         /\ Settles(<<p>>) <=> In(p, Sync) /\ \A o : In(p, o) => ~Fallible(o)
<1>1. <<p>> \in Seq(Procedure)
  BY OneProcedure
<1>2. 1 .. Len(<<p>>) = {1} /\ <<p>>[1] = p
  OBVIOUS
<1> QED BY <1>1, <1>2 DEF Fine, Within, Settles

LEMMA SortedNothing ==
  ASSUME NEW td, NEW c,
         \A o : Has(td, o) => o # SetUpd(c) /\ ~BackupOf(c, o)
  PROVE  Sorted(c, td)
<1>1. \A e \in Exts : Unlink(c, "bak", e) = Write(c, "bak", e, Absent)
  BY DEF Unlink
<1> QED BY <1>1, FollowsHas DEF Sorted, BackupOf

(* Nothing is called. *)
LEMMA FineNone == Fine(<<>>) /\ ~Settles(<<>>) /\ \A a, b : ~Within(<<>>, a, b)
<1>1. <<>> \in Seq(Procedure) /\ \A o : ~Has(<<>>, o)
  BY NoProcedure
<1>2. 1 .. Len(<<>>) = {}
  OBVIOUS
<1>3. \A c \in Cats : Sorted(c, <<>>)
  BY <1>1, SortedNothing
<1> QED BY <1>1, <1>2, <1>3 DEF Fine, Settles, Within

LEMMA UpdateFine ==
  ASSUME NEW c \in Cats, NEW r \in BOOLEAN
  PROVE  Fine(<<Update(c, r)>>) /\ \A d \in Cats : \A o : Has(<<Update(c, r)>>, o) => ~BackupOf(d, o)
<1> DEFINE p == Update(c, r)
           w == (IF r THEN <<>> ELSE <<Mark(c, "upd", TRUE)>>) \o <<Sync>> \o ForExts(Exts, LAMBDA e : Rename(c, e))
           z == <<Sync, ClearUpd(c)>>
<1>1. p = w \o z
  BY DEF Update, ClearUpd
<1>2. /\ p \in Procedure
      /\ \A o : In(p, o) => o \in {Sync, ClearUpd(c), SetUpd(c)} \/ \E e \in Exts : o = Rename(c, e)
      /\ \A e : ~Before(p, Rename(c, e), SetUpd(c))
  BY UpdateShape
<1>3. /\ SetUpd(c) # ClearUpd(c) /\ SetUpd(c) # Sync /\ \A e : SetUpd(c) # Rename(c, e)
      /\ \A e : Rename(c, e) # ClearUpd(c) /\ Rename(c, e) # Sync
  BY DEF SetUpd, ClearUpd, Mark, Rename, Sync
<1>4. z \in Seq(Operation) /\ (\A o : In(z, o) <=> o \in {Sync, ClearUpd(c)}) /\ Before(z, Sync, ClearUpd(c))
  <2>1. Sync \in Operation /\ ClearUpd(c) \in Operation
    BY MarksOperations
  <2>2. z \in Seq(Operation) /\ Len(z) = 2 /\ z[1] = Sync /\ z[2] = ClearUpd(c)
    BY <2>1
  <2>3. 1 .. Len(z) = {1, 2} /\ 1 < 2
    BY <2>2
  <2> QED BY <2>2, <2>3 DEF In, Before
<1>5. w \in Seq(Operation) /\ ~Before(w, SetUpd(c), SetUpd(c))
  <2> DEFINE m == IF r THEN <<>> ELSE <<SetUpd(c)>>
             y == <<Sync>>
             q == ForExts(Exts, LAMBDA e : Rename(c, e))
  <2>1. w = (m \o y) \o q
    BY DEF SetUpd
  <2>2. m \in Seq(Operation) /\ \A a, b : ~Before(m, a, b)
    <3>1. CASE r
      BY <3>1, NoOperation
    <3>2. CASE ~r
      <4>1. SetUpd(c) \in Operation
        BY MarksOperations
      <4> QED BY <3>2, <4>1, OneOperation
    <3> QED BY <3>1, <3>2
  <2>3. y \in Seq(Operation) /\ (\A o : In(y, o) <=> o = Sync) /\ \A a, b : ~Before(y, a, b)
    BY MarksOperations, OneOperation
  <2>4. q \in Seq(Operation) /\ \A o : In(q, o) <=> \E e \in Exts : o = Rename(c, e)
    BY Renames
  <2> HIDE DEF m, y, q, w
  <2>5. m \o y \in Seq(Operation) /\ ~Before(m \o y, SetUpd(c), SetUpd(c))
    BY <1>3, <2>2, <2>3, InConcat, BeforeConcat
  <2>6. (m \o y) \o q \in Seq(Operation) /\ ~Before((m \o y) \o q, SetUpd(c), SetUpd(c))
    <3> DEFINE t == m \o y
    <3>1. t \in Seq(Operation) /\ ~Before(t, SetUpd(c), SetUpd(c)) /\ ~In(q, SetUpd(c))
      BY <1>3, <2>4, <2>5
    <3>2. ~Before(q, SetUpd(c), SetUpd(c))
      BY <3>1, BeforeIn
    <3> HIDE DEF t
    <3>3. t \o q \in Seq(Operation) /\ ~Before(t \o q, SetUpd(c), SetUpd(c))
      BY <2>4, <3>1, <3>2, InConcat, BeforeConcat
    <3> QED BY <3>3 DEF t
  <2> QED BY <2>1, <2>6
<1> HIDE DEF w, z
<1>6. Leads(p, SetUpd(c), Sync, ClearUpd(c)) /\ \A e \in Exts : Leads(p, Rename(c, e), Sync, ClearUpd(c))
  <2>1. Leads(z, SetUpd(c), Sync, ClearUpd(c)) /\ \A e \in Exts : Leads(z, Rename(c, e), Sync, ClearUpd(c))
    BY <1>3, <1>4, NoLead
  <2> QED BY <1>1, <1>4, <1>5, <2>1, LeadsConcat
<1>7. ~Before(p, SetUpd(c), SetUpd(c))
  <2>1. ~In(z, SetUpd(c)) /\ ~Before(z, SetUpd(c), SetUpd(c))
    BY <1>3, <1>4, BeforeIn
  <2> QED BY <1>1, <1>4, <1>5, <2>1, BeforeConcat
<1> HIDE DEF p
<1>8. \A d \in Cats : \A o : In(p, o) => ~BackupOf(d, o)
  BY <1>2, NotBackup
<1>9. \A o, a, b : (Has(<<p>>, o) <=> In(p, o)) /\ (Follows(<<p>>, a, b) <=> Before(p, a, b))
  BY <1>2, OneProcedure
<1>10. ASSUME NEW d \in Cats PROVE Commits(d, p)
  <2>1. CASE d = c
    <3>1. \A o : In(p, o) /\ Fallible(o) => o = SetUpd(c)
      BY <1>2, Robust
    <3> QED BY <1>6, <2>1, <3>1 DEF Commits
  <2>2. CASE d # c
    <3>1. \A o : In(p, o) => ~UpdateOf(d, o)
      <4>1. ~UpdateOf(d, Sync) /\ ~UpdateOf(d, ClearUpd(c)) /\ ~UpdateOf(d, SetUpd(c))
            /\ \A e \in Exts : ~UpdateOf(d, Rename(c, e))
        BY <2>2 DEF UpdateOf, Sync, ClearUpd, SetUpd, Mark, Rename
      <4> QED BY <1>2, <4>1
    <3> QED BY <3>1, CommitsNothing
  <2> QED BY <2>1, <2>2
<1>11. ASSUME NEW d \in Cats PROVE Saves(d, p)
  BY <1>8, SavesNothing
<1>12. ASSUME NEW d \in Cats PROVE Sorted(d, <<p>>)
  <2>1. CASE d = c
    <3>1. /\ ~Follows(<<p>>, SetUpd(d), SetUpd(d))
          /\ \A e \in Exts : ~Follows(<<p>>, Rename(d, e), SetUpd(d))
      BY <1>2, <1>7, <1>9, <2>1
    <3>2. \A o : BackupOf(d, o) => ~Has(<<p>>, o)
      BY <1>8, <1>9
    <3>3. ~Has(<<p>>, ClearDon(d)) /\ ~Has(<<p>>, ClearCpy(d)) /\ ~Has(<<p>>, SetDon(d))
          /\ \A e \in Exts : ~Has(<<p>>, Unlink(d, "bak", e))
      BY <3>2 DEF BackupOf, Unlink
    <3> QED BY <3>1, <3>3, FollowsHas DEF Sorted
  <2>2. CASE d # c
    <3>1. \A o : In(p, o) => o # SetUpd(d)
      <4>1. SetUpd(d) # Sync /\ SetUpd(d) # ClearUpd(c) /\ SetUpd(d) # SetUpd(c)
            /\ \A e \in Exts : SetUpd(d) # Rename(c, e)
        BY <2>2 DEF Sync, ClearUpd, SetUpd, Mark, Rename
      <4> QED BY <1>2, <4>1
    <3> QED BY <1>8, <1>9, <3>1, SortedNothing
  <2> QED BY <2>1, <2>2
<1>13. Fine(<<p>>)
  BY <1>2, <1>10, <1>11, <1>12, FineOne
<1> QED BY <1>8, <1>9, <1>13 DEF p

LEMMA PlainFine ==
  ASSUME NEW p \in Procedure,
         \A o : In(p, o) => \A d \in Cats : ~BackupOf(d, o) /\ o # SetUpd(d) /\ \A e \in Exts : o # Rename(d, e),
         (\A o : In(p, o) => ~Fallible(o)) \/ \A d \in Cats : ~In(p, ClearUpd(d))
  PROVE  Fine(<<p>>)
<1>1. ASSUME NEW d \in Cats PROVE Commits(d, p) /\ Saves(d, p) /\ Sorted(d, <<p>>)
  <2>1. ~In(p, SetUpd(d)) /\ \A e \in Exts : ~In(p, Rename(d, e))
    OBVIOUS
  <2>2. Commits(d, p)
    BY <2>1, NoLead DEF Commits
  <2>3. Saves(d, p)
    BY SavesNothing
  <2>4. \A o : Has(<<p>>, o) <=> In(p, o)
    BY OneProcedure
  <2>5. Sorted(d, <<p>>)
    BY <2>4, SortedNothing
  <2> QED BY <2>2, <2>3, <2>5
<1> QED BY <1>1, FineOne

LEMMA ResetFine == Fine(<<Reset>>) /\ Settles(<<Reset>>)
<1>1. Reset \in Procedure
      /\ \A o : In(Reset, o) <=> \/ o = Sync \/ \E c \in Cats : o = ClearUpd(c)
                                 \/ \E c \in Cats, e \in Exts : o = Unlink(c, "temp", e)
  BY ResetShape
<1>2. \A o : In(Reset, o) => ~Fallible(o)
  BY <1>1, Robust
<1>3. ASSUME NEW o, In(Reset, o), NEW d \in Cats
      PROVE  ~BackupOf(d, o) /\ o # SetUpd(d) /\ \A e \in Exts : o # Rename(d, e)
  <2>1. ~BackupOf(d, o)
    BY <1>1, <1>3, NotBackup DEF Unlink
  <2>2. o # SetUpd(d) /\ \A e \in Exts : o # Rename(d, e)
    BY <1>1, <1>3 DEF Sync, ClearUpd, SetUpd, Mark, Rename, Unlink, Write
  <2> QED BY <2>1, <2>2
<1>4. Fine(<<Reset>>)
  BY <1>1, <1>2, <1>3, PlainFine
<1>5. 1 .. Len(<<Reset>>) = {1} /\ <<Reset>>[1] = Reset /\ In(Reset, Sync)
  BY <1>1
<1> QED BY <1>2, <1>4, <1>5 DEF Settles

LEMMA NoteFine == ASSUME NEW c \in Cats PROVE Fine(<<<<Note(c)>>>>)
<1> DEFINE p == <<Note(c)>>
<1>1. p \in Procedure /\ \A o : In(p, o) <=> o = Note(c)
  BY MarksOperations, OneOperation
<1>2. ASSUME NEW d \in Cats
      PROVE  /\ ~In(p, SetUpd(d)) /\ ~In(p, ClearUpd(d)) /\ ~In(p, SetCpy(d)) /\ ~In(p, ClearCpy(d))
             /\ ~In(p, SetDon(d)) /\ ~In(p, ClearDon(d))
             /\ \A e \in Exts : /\ ~In(p, Rename(d, e)) /\ ~In(p, Copy(d, e)) /\ ~In(p, Unlink(d, "bak", e))
                                /\ \A v : ~In(p, Write(d, "bak", e, v))
  <2>1. /\ Note(c) # SetUpd(d) /\ Note(c) # ClearUpd(d) /\ Note(c) # SetCpy(d) /\ Note(c) # ClearCpy(d)
        /\ Note(c) # SetDon(d) /\ Note(c) # ClearDon(d)
        /\ \A e \in Exts : /\ Note(c) # Rename(d, e) /\ Note(c) # Copy(d, e) /\ Note(c) # Unlink(d, "bak", e)
                           /\ \A v : Note(c) # Write(d, "bak", e, v)
    BY DEF Note, SetUpd, ClearUpd, SetCpy, ClearCpy, SetDon, ClearDon, Mark, Rename, Copy, Unlink, Write
  <2> QED BY <1>1, <2>1
<1>3. \A j \in 1 .. Len(p) : ~Fallible(p[j])
  BY Robust
<1>4. \A o : Has(<<p>>, o) <=> In(p, o)
  BY <1>1, OneProcedure
<1> HIDE DEF p
<1>5. ASSUME NEW d \in Cats PROVE Commits(d, p) /\ Saves(d, p) /\ Sorted(d, <<p>>)
  <2>1. Commits(d, p)
    BY <1>2, NoLead DEF Commits
  <2>2. Saves(d, p)
    BY <1>2, <1>3, NoLead DEF Saves, Guarded
  <2>3. Sorted(d, <<p>>)
    BY <1>2, <1>4, FollowsHas DEF Sorted
  <2> QED BY <2>1, <2>2, <2>3
<1>6. Fine(<<p>>)
  BY <1>1, <1>5, FineOne
<1> QED BY <1>6 DEF p

(* backupConfigFiles *)
LEMMA BackupShape ==
  ASSUME NEW c \in Cats, NEW r \in BOOLEAN
  PROVE  LET p == Backup(c, r)
         IN  /\ p \in Procedure
             /\ \A o : In(p, o) <=> \/ o \in {Sync, ClearDon(c), SetDon(c), ClearCpy(c), Note(c)}
                                    \/ (~r /\ o = SetCpy(c))
                                    \/ \E e \in Exts : o = Unlink(c, "bak", e) \/ o = Copy(c, e)
             /\ Before(p, Sync, ClearDon(c))
             /\ Saves(c, p)
             /\ ~Before(p, SetDon(c), ClearDon(c)) /\ ~Before(p, SetDon(c), SetDon(c)) /\ ~Before(p, ClearCpy(c), ClearCpy(c))
             /\ \A e \in Exts : /\ ~Before(p, Copy(c, e), ClearDon(c))
                                /\ ~Before(p, Unlink(c, "bak", e), ClearDon(c))
                                /\ ~Before(p, Copy(c, e), Unlink(c, "bak", e))
<1> DEFINE m == IF r THEN <<>> ELSE <<SetCpy(c)>>
           y == <<Sync, ClearDon(c)>>
           u == ForExts(Exts, LAMBDA e : Unlink(c, "bak", e))
           k == ForExts(Exts, LAMBDA e : Copy(c, e))
           z == <<SetDon(c), Sync, ClearCpy(c), Sync, Note(c)>>
           p == Backup(c, r)
<1>1. p = (((m \o y) \o u) \o k) \o z
  BY DEF Backup, SetCpy, ClearDon, SetDon, ClearCpy
<1>2. /\ SetCpy(c) # Sync /\ SetCpy(c) # ClearDon(c) /\ SetCpy(c) # SetDon(c) /\ SetCpy(c) # ClearCpy(c)
      /\ ClearDon(c) # Sync /\ ClearDon(c) # SetDon(c) /\ ClearDon(c) # ClearCpy(c)
      /\ SetDon(c) # Sync /\ SetDon(c) # ClearCpy(c) /\ ClearCpy(c) # Sync
      /\ Note(c) # SetCpy(c) /\ Note(c) # ClearDon(c) /\ Note(c) # SetDon(c) /\ Note(c) # ClearCpy(c)
  BY DEF SetCpy, ClearCpy, SetDon, ClearDon, Mark, Sync, Note
<1>3. \A e, f : /\ Copy(c, e) \notin {Sync, SetCpy(c), ClearCpy(c), SetDon(c), ClearDon(c), Note(c)}
                /\ Unlink(c, "bak", e) \notin {Sync, SetCpy(c), ClearCpy(c), SetDon(c), ClearDon(c), Note(c)}
                /\ Copy(c, e) # Unlink(c, "bak", f)
  BY DEF SetCpy, ClearCpy, SetDon, ClearDon, Mark, Sync, Note, Copy, Unlink, Write
<1>4. m \in Seq(Operation) /\ (\A o : In(m, o) <=> ~r /\ o = SetCpy(c)) /\ \A a, b : ~Before(m, a, b)
  <2>1. CASE r
    BY <2>1, NoOperation
  <2>2. CASE ~r
    <3>1. SetCpy(c) \in Operation
      BY MarksOperations DEF SetCpy
    <3> QED BY <2>2, <3>1, OneOperation
  <2> QED BY <2>1, <2>2
<1>5. /\ y \in Seq(Operation) /\ (\A o : In(y, o) <=> o \in {Sync, ClearDon(c)})
      /\ Before(y, Sync, ClearDon(c)) /\ \A a, b : Before(y, a, b) => a = Sync
  <2>1. Sync \in Operation /\ ClearDon(c) \in Operation
    BY MarksOperations DEF ClearDon
  <2>2. y \in Seq(Operation) /\ Len(y) = 2 /\ y[1] = Sync /\ y[2] = ClearDon(c)
    BY <2>1
  <2>3. 1 .. Len(y) = {1, 2} /\ 1 < 2 /\ \A j, l \in {1, 2} : j < l => j = 1
    BY <2>2
  <2> QED BY <2>2, <2>3 DEF In, Before
<1>6. u \in Seq(Operation) /\ \A o : In(u, o) <=> \E e \in Exts : o = Unlink(c, "bak", e)
  <2> DEFINE set == "bak"
             q == ForExts(Exts, LAMBDA e : Unlink(c, set, e))
  <2>1. set \in {"temp", "bak"} /\ u = q
    BY DEF u
  <2> HIDE DEF set
  <2>2. q \in Seq(Operation) /\ \A o : In(q, o) <=> \E e \in Exts : o = Unlink(c, set, e)
    BY <2>1, Unlinks
  <2> QED BY <2>1, <2>2 DEF set
<1>7. k \in Seq(Operation) /\ \A o : In(k, o) <=> \E e \in Exts : o = Copy(c, e)
  BY Copies
<1>8. /\ z \in Seq(Operation) /\ Len(z) = 5 /\ z[1] = SetDon(c) /\ z[2] = Sync
      /\ z[3] = ClearCpy(c) /\ z[4] = Sync /\ z[5] = Note(c) /\ 1 .. Len(z) = {1, 2, 3, 4, 5}
  <2>1. {SetDon(c), Sync, ClearCpy(c), Note(c)} \subseteq Operation
    BY MarksOperations DEF SetDon, ClearCpy
  <2> DEFINE d == SetDon(c)
             n == ClearCpy(c)
  <2>2. z = <<d, Sync, n, Sync, Note(c)>> /\ d \in Operation /\ n \in Operation
    BY <2>1
  <2> HIDE DEF d, n, z
  <2>3. z \in Seq(Operation) /\ Len(z) = 5 /\ z[1] = d /\ z[2] = Sync
        /\ z[3] = n /\ z[4] = Sync /\ z[5] = Note(c)
    BY <2>1, <2>2
  <2> QED BY <2>3 DEF d, n
<1> HIDE DEF m, y, u, k, z, p
<1>9. /\ \A o : In(z, o) <=> o \in {SetDon(c), Sync, ClearCpy(c), Note(c)}
      /\ Before(z, Sync, ClearCpy(c)) /\ Before(z, Sync, Note(c))
      /\ ~Before(z, ClearCpy(c), ClearCpy(c)) /\ ~Before(z, SetDon(c), SetDon(c))
  <2>1. 2 < 3 /\ 2 < 5 /\ \A j \in {1, 2, 3, 4, 5} : (z[j] = ClearCpy(c) => j = 3) /\ (z[j] = SetDon(c) => j = 1)
    BY <1>2, <1>8
  <2> QED BY <1>8, <2>1 DEF In, Before
<1>10. /\ Leads(z, SetDon(c), Sync, Note(c)) /\ Leads(z, ClearCpy(c), Sync, Note(c))
       /\ Leads(z, SetDon(c), Sync, ClearCpy(c))
  <2>1. \A j \in {1, 2, 3, 4, 5} : /\ z[j] = SetDon(c) => j = 1
                                   /\ z[j] = ClearCpy(c) => j = 3
    BY <1>2, <1>8
  <2>2. 1 < 4 /\ 3 < 4 /\ 4 < 5 /\ 1 < 2 /\ 2 < 3
    OBVIOUS
  <2> QED BY <1>8, <2>1, <2>2 DEF Leads
<1>11. Guarded(c, z)
  <2>1. \A j \in {1, 2, 3, 4, 5} : Fallible(z[j]) => j = 1
    BY <1>8, Robust
  <2> QED BY <1>8, <2>1 DEF Guarded
<1>12. m \o y \in Seq(Operation) /\ (\A o : In(m \o y, o) <=> In(m, o) \/ In(y, o))
       /\ \A a, b : Before(m \o y, a, b) => Before(m, a, b) \/ Before(y, a, b) \/ (In(m, a) /\ In(y, b))
  BY <1>4, <1>5, InConcat, BeforeConcat
<1> DEFINE w1 == m \o y
           w2 == w1 \o u
           w3 == w2 \o k
<1>13. w1 \in Seq(Operation) /\ (\A o : In(w1, o) <=> (~r /\ o = SetCpy(c)) \/ o \in {Sync, ClearDon(c)})
       /\ \A a, b : Before(w1, a, b) => a \in {Sync, SetCpy(c)}
  BY <1>4, <1>5, <1>12
<1>14. Leads(w1, SetCpy(c), Sync, ClearDon(c)) /\ Before(w1, Sync, ClearDon(c))
  <2>1. Leads(y, SetCpy(c), Sync, ClearDon(c))
    BY <1>2, <1>5, NoLead
  <2>2. Leads(w1, SetCpy(c), Sync, ClearDon(c))
    BY <1>4, <1>5, <2>1, LeadsConcat
  <2>3. Before(w1, Sync, ClearDon(c))
    <3>1. /\ Len(m) \in Nat /\ Len(y) \in Nat /\ Len(w1) = Len(m) + Len(y)
          /\ \A i \in 1 .. Len(m) + Len(y) : w1[i] = IF i <= Len(m) THEN m[i] ELSE y[i - Len(m)]
      BY <1>4, <1>5, LenProperties, ConcatProperties
    <3> HIDE DEF w1
    <3>2. PICK j \in 1 .. Len(y), l \in 1 .. Len(y) : j < l /\ y[j] = Sync /\ y[l] = ClearDon(c)
      BY <1>5 DEF Before
    <3>3. /\ Len(m) + j \in 1 .. Len(w1) /\ ~(Len(m) + j <= Len(m)) /\ (Len(m) + j) - Len(m) = j
          /\ Len(m) + l \in 1 .. Len(w1) /\ ~(Len(m) + l <= Len(m)) /\ (Len(m) + l) - Len(m) = l
          /\ Len(m) + j < Len(m) + l
      BY <3>1, <3>2
    <3>4. w1[Len(m) + j] = Sync /\ w1[Len(m) + l] = ClearDon(c)
      BY <3>1, <3>2, <3>3
    <3> QED BY <3>3, <3>4 DEF Before
  <2> QED BY <2>2, <2>3
<1> HIDE DEF w1
<1>15. /\ w2 \in Seq(Operation) /\ (\A o : In(w2, o) <=> In(w1, o) \/ In(u, o))
       /\ \A a, b : Before(w2, a, b) => Before(w1, a, b) \/ Before(u, a, b) \/ (In(w1, a) /\ In(u, b))
       /\ Leads(w2, SetCpy(c), Sync, ClearDon(c))
  <2>1. Leads(u, SetCpy(c), Sync, ClearDon(c))
    BY <1>3, <1>6, NoLead
  <2> QED BY <1>6, <1>13, <1>14, <2>1, InConcat, BeforeConcat, LeadsConcat
<1> HIDE DEF w2
<1>16. /\ w3 \in Seq(Operation) /\ (\A o : In(w3, o) <=> In(w2, o) \/ In(k, o))
       /\ \A a, b : Before(w3, a, b) => Before(w2, a, b) \/ Before(k, a, b) \/ (In(w2, a) /\ In(k, b))
       /\ Leads(w3, SetCpy(c), Sync, ClearDon(c))
  <2>1. Leads(k, SetCpy(c), Sync, ClearDon(c))
    BY <1>3, <1>7, NoLead
  <2> QED BY <1>7, <1>15, <2>1, InConcat, BeforeConcat, LeadsConcat
<1> HIDE DEF w3
<1>17. p = w3 \o z
  BY <1>1 DEF w1, w2, w3
<1>18. /\ p \in Seq(Operation) /\ (\A o : In(p, o) <=> In(w3, o) \/ In(z, o))
       /\ \A a, b : Before(p, a, b) => Before(w3, a, b) \/ Before(z, a, b) \/ (In(w3, a) /\ In(z, b))
  BY <1>8, <1>16, <1>17, InConcat, BeforeConcat
<1>19. \A o : In(p, o) <=> \/ o \in {Sync, ClearDon(c), SetDon(c), ClearCpy(c), Note(c)}
                           \/ (~r /\ o = SetCpy(c))
                           \/ \E e \in Exts : o = Unlink(c, "bak", e) \/ o = Copy(c, e)
  BY <1>6, <1>7, <1>9, <1>13, <1>15, <1>16, <1>18
<1>20. p \in Procedure
  BY <1>18, <1>19, IsProcedure
<1>21. /\ \A a : ~In(z, a) => Leads(p, a, Sync, ClearCpy(c)) /\ Leads(p, a, Sync, Note(c))
       /\ Leads(p, SetDon(c), Sync, Note(c)) /\ Leads(p, ClearCpy(c), Sync, Note(c))
       /\ Leads(p, SetDon(c), Sync, ClearCpy(c))
  BY <1>8, <1>9, <1>10, <1>16, <1>17, NoLead, LeadsConcat
<1>22. Leads(p, SetCpy(c), Sync, ClearDon(c))
  <2>1. Leads(z, SetCpy(c), Sync, ClearDon(c))
    BY <1>2, <1>9, NoLead
  <2> QED BY <1>8, <1>16, <1>17, <2>1, LeadsConcat
<1>23. ~In(z, SetCpy(c)) /\ ~In(z, ClearDon(c)) /\ \A e : ~In(z, Copy(c, e)) /\ ~In(z, Unlink(c, "bak", e))
  BY <1>2, <1>3, <1>9
<1>24. Guarded(c, p)
  BY <1>8, <1>9, <1>11, <1>16, <1>17, GuardedConcat
<1>25. ASSUME NEW e \in Exts, NEW v, In(p, Write(c, "bak", e, v)) PROVE v = Absent
  BY <1>19, <1>25 DEF Sync, ClearDon, SetDon, ClearCpy, SetCpy, Mark, Note, Copy, Unlink, Write
<1>26. Saves(c, p)
  BY <1>21, <1>22, <1>23, <1>24, <1>25 DEF Saves
<1>27. Before(p, Sync, ClearDon(c))
  <2>1. \A s, t, a, b : s \in Seq(Operation) /\ t \in Seq(Operation) /\ Before(s, a, b) => Before(s \o t, a, b)
    <3> SUFFICES ASSUME NEW s \in Seq(Operation), NEW t \in Seq(Operation), NEW a, NEW b, Before(s, a, b)
                 PROVE  Before(s \o t, a, b)
      OBVIOUS
    <3> DEFINE x == s \o t
    <3>1. /\ Len(s) \in Nat /\ Len(t) \in Nat /\ Len(x) = Len(s) + Len(t)
          /\ \A i \in 1 .. Len(s) + Len(t) : x[i] = IF i <= Len(s) THEN s[i] ELSE t[i - Len(s)]
      BY LenProperties, ConcatProperties
    <3> HIDE DEF x
    <3>2. \A i \in 1 .. Len(s) : i \in 1 .. Len(x) /\ x[i] = s[i]
      BY <3>1
    <3>3. Before(x, a, b)
      BY <3>2 DEF Before
    <3> QED BY <3>3 DEF x
  <2>2. Before(w2, Sync, ClearDon(c))
    BY <1>6, <1>13, <1>14, <2>1 DEF w2
  <2>3. Before(w3, Sync, ClearDon(c))
    BY <1>7, <1>15, <2>1, <2>2 DEF w3
  <2> QED BY <1>8, <1>16, <1>17, <2>1, <2>3
<1>28. ~Before(p, SetDon(c), ClearDon(c)) /\ ~Before(p, SetDon(c), SetDon(c)) /\ ~Before(p, ClearCpy(c), ClearCpy(c))
  <2>1. ~In(w3, SetDon(c)) /\ ~In(w3, ClearCpy(c))
    BY <1>2, <1>3, <1>6, <1>7, <1>13, <1>15, <1>16
  <2> QED BY <1>9, <1>18, <1>23, <2>1, BeforeIn
<1>29. ASSUME NEW e \in Exts
       PROVE  /\ ~Before(p, Copy(c, e), ClearDon(c))
              /\ ~Before(p, Unlink(c, "bak", e), ClearDon(c))
              /\ ~Before(p, Copy(c, e), Unlink(c, "bak", e))
  <2>1. /\ ~In(w1, Copy(c, e)) /\ ~In(w1, Unlink(c, "bak", e)) /\ ~In(u, Copy(c, e))
        /\ ~In(u, ClearDon(c)) /\ ~In(k, ClearDon(c)) /\ ~In(k, Unlink(c, "bak", e))
    BY <1>3, <1>6, <1>7, <1>13
  <2>2. ~In(w2, Copy(c, e))
    BY <1>15, <2>1
  <2>3. ~Before(w2, Unlink(c, "bak", e), ClearDon(c))
    BY <1>15, <2>1, BeforeIn
  <2> QED BY <1>16, <1>18, <1>23, <2>1, <2>2, <2>3, BeforeIn
<1> QED BY <1>19, <1>20, <1>26, <1>27, <1>28, <1>29 DEF p

LEMMA BackupFine ==
  ASSUME NEW c \in Cats, NEW r \in BOOLEAN
  PROVE  Fine(<<Backup(c, r)>>)
<1> DEFINE p == Backup(c, r)
<1>1. /\ p \in Procedure
      /\ \A o : In(p, o) <=> \/ o \in {Sync, ClearDon(c), SetDon(c), ClearCpy(c), Note(c)}
                             \/ (~r /\ o = SetCpy(c))
                             \/ \E e \in Exts : o = Unlink(c, "bak", e) \/ o = Copy(c, e)
      /\ Saves(c, p)
      /\ ~Before(p, SetDon(c), ClearDon(c)) /\ ~Before(p, SetDon(c), SetDon(c)) /\ ~Before(p, ClearCpy(c), ClearCpy(c))
      /\ \A e \in Exts : /\ ~Before(p, Copy(c, e), ClearDon(c))
                         /\ ~Before(p, Unlink(c, "bak", e), ClearDon(c))
                         /\ ~Before(p, Copy(c, e), Unlink(c, "bak", e))
  BY BackupShape
<1>2. \A o : In(p, o) => Quiet(o)
  BY BackupQuiet
<1> HIDE DEF p
<1>3. \A o, a, b : (Has(<<p>>, o) <=> In(p, o)) /\ (Follows(<<p>>, a, b) <=> Before(p, a, b))
  BY <1>1, OneProcedure
<1>4. ASSUME NEW d \in Cats, d # c, NEW o, In(p, o) PROVE ~BackupOf(d, o)
  <2>1. ~BackupOf(d, Sync)
    BY NotBackup
  <2>2. o \in {ClearDon(c), SetDon(c), ClearCpy(c), SetCpy(c)} => ~BackupOf(d, o)
    BY <1>4 DEF BackupOf, SetCpy, ClearCpy, SetDon, ClearDon, Mark, Note, Copy, Write
  <2>3. ~BackupOf(d, Note(c))
    BY <1>4 DEF BackupOf, SetCpy, ClearCpy, SetDon, ClearDon, Mark, Note, Copy, Write
  <2>4. \A e \in Exts : ~BackupOf(d, Unlink(c, "bak", e)) /\ ~BackupOf(d, Copy(c, e))
    BY <1>4 DEF BackupOf, SetCpy, ClearCpy, SetDon, ClearDon, Mark, Note, Copy, Write, Unlink
  <2> QED BY <1>1, <1>4, <2>1, <2>2, <2>3, <2>4
<1>5. ASSUME NEW d \in Cats PROVE Commits(d, p) /\ Saves(d, p) /\ Sorted(d, <<p>>)
  <2>1. Commits(d, p)
    BY <1>2, NotUpdate, CommitsNothing
  <2>2. \A o : Has(<<p>>, o) => o # SetUpd(d)
    BY <1>2, <1>3 DEF Quiet
  <2>3. CASE d = c
    <3>1. Sorted(c, <<p>>)
      BY <1>1, <1>3, <2>2, <2>3, FollowsHas DEF Sorted
    <3> QED BY <1>1, <2>1, <2>3, <3>1
  <2>4. CASE d # c
    BY <1>3, <1>4, <2>1, <2>2, <2>4, SavesNothing, SortedNothing
  <2> QED BY <2>3, <2>4
<1>6. Fine(<<p>>)
  BY <1>1, <1>5, FineOne
<1> QED BY <1>6 DEF p
-----------------------------------------------------------------------------
(* Files D of category c, and ds, what a power failure may leave of them,  *)
(* with td to be done: where an update is marked the temporary set is      *)
(* empty, or a sync will come before the marker goes.  feed: a session     *)
(* feeds the temporary set.                                                *)
Bare(d) == \A e \in Exts : d.temp[e] = Absent     \* the temporary set is empty

MarkSafe(c, D, ds, td, feed) ==
  /\ D \in ds
  /\ D.upd => Has(td, ClearUpd(c)) /\ Covered(c, D, td)
  /\ Has(td, SetUpd(c)) => /\ \A e \in Exts : Has(td, Rename(c, e))
                           /\ \A d \in ds : ~d.upd
  /\ \A d \in ds : d.upd => Bare(d) \/ Within(td, Sync, ClearUpd(c))
  /\ feed => /\ ~Updates(td, c) /\ ~D.upd
             /\ Settles(td) \/ \A d \in ds : ~d.upd
             /\ \A e \in Exts, v \in Content \ {Absent} : ~Follows(td, Write(c, "temp", e, v), Sync)
  /\ ~feed => \A e \in Exts, v \in Content \ {Absent} : ~Has(td, Write(c, "temp", e, v))

(* Where a rename or the marker is to come, a sync will come before the    *)
(* marker goes.                                                            *)
LEMMA UpdateAhead ==
  ASSUME NEW td, Fine(td), NEW c \in Cats, Updates(td, c)
  PROVE  Within(td, Sync, ClearUpd(c)) /\ Has(td, ClearUpd(c))
<1>1. ASSUME NEW a, NEW i \in 1 .. Len(td), In(td[i], a), Leads(td[i], a, Sync, ClearUpd(c))
      PROVE  Before(td[i], Sync, ClearUpd(c))
  <2>1. PICK j \in 1 .. Len(td[i]) : td[i][j] = a
    BY <1>1 DEF In
  <2> QED BY <1>1, <2>1 DEF Leads, Before
<1>2. PICK a \in {SetUpd(c)} \cup {Rename(c, e) : e \in Exts} : Has(td, a)
  BY DEF Updates
<1>3. PICK i \in 1 .. Len(td) : In(td[i], a)
  BY <1>2 DEF Has
<1>4. Leads(td[i], a, Sync, ClearUpd(c))
  BY <1>2 DEF Fine, Commits
<1>5. Before(td[i], Sync, ClearUpd(c))
  BY <1>1, <1>3, <1>4
<1> QED BY <1>5, BeforeIn DEF Within, Has

LEMMA SettlesHas == ASSUME NEW td, Settles(td) PROVE Has(td, Sync)
BY DEF Settles, Has

(* One operation, which may or may not reach the medium, is done; a sync   *)
(* leaves the present files only.                                          *)
LEMMA MarkStep ==
  ASSUME NEW c \in Cats, NEW D, NEW D2, NEW ds, NEW ds2, NEW td, NEW td2, NEW o \in Operation,
         NEW feed \in BOOLEAN, Fine(td), Fine(td2), Advanced(td, o, td2), MarkSafe(c, D, ds, td, feed),
         Effect(o, c, D, D2), D2 \in ds2,
         \A x \in ds2 : x \in ds \/ \E y \in ds : Effect(o, c, y, x),
         o = Sync => D2 = D /\ ds2 = {D}
  PROVE  MarkSafe(c, D2, ds2, td2, feed)
<1>1. Removed(td, o, td2)
  BY DEF Advanced
<1>2. /\ \A e : Rename(c, e) # SetUpd(c) /\ Rename(c, e) # ClearUpd(c)
      /\ \A e, f : Rename(c, e) = Rename(c, f) => e = f
      /\ SetUpd(c) # ClearUpd(c)
      /\ \A e, f : \A v : /\ Rename(c, e) # Write(c, "temp", f, v)
                          /\ SetUpd(c) # Write(c, "temp", f, v)
                          /\ ClearUpd(c) # Write(c, "temp", f, v)
      /\ \A e, f, v, w : Write(c, "temp", e, v) = Write(c, "temp", f, w) => e = f /\ v = w
      /\ Sync # SetUpd(c) /\ Sync # ClearUpd(c) /\ \A e, v : Sync # Rename(c, e) /\ Sync # Write(c, "temp", e, v)
  BY DEF Rename, SetUpd, ClearUpd, Mark, Write, Sync
<1>3. feed => ~Updates(td2, c) /\ \A e \in Exts, v \in Content \ {Absent} : ~Follows(td2, Write(c, "temp", e, v), Sync)
  BY <1>1 DEF MarkSafe, Removed, Updates
<1>4. ~feed => \A e \in Exts, v \in Content \ {Absent} : ~Has(td2, Write(c, "temp", e, v))
  BY <1>1 DEF MarkSafe, Removed
<1>5. Has(td2, SetUpd(c)) => \A e \in Exts : Has(td2, Rename(c, e))
  <2>1. Has(td2, SetUpd(c)) => \A e \in Exts : Has(td, Rename(c, e)) /\ o # Rename(c, e)
    BY <1>1 DEF MarkSafe, Removed, Fine, Sorted
  <2> QED BY <1>1, <2>1 DEF Removed
<1>6. o # Sync => (\A b : Within(td, Sync, b) => Within(td2, Sync, b)) /\ (Settles(td) => Settles(td2))
  BY DEF Advanced
<1>7. CASE o = Sync
  <2>1. D2 = D /\ ds2 = {D} /\ \A x : Has(td, x) => x = Sync \/ Has(td2, x)
    BY <1>1, <1>7 DEF Removed
  <2>2. D.upd => Has(td2, ClearUpd(c)) /\ Covered(c, D, td2)
    BY <1>2, <2>1 DEF MarkSafe, Covered
  <2>3. D.upd => Bare(D) \/ Within(td2, Sync, ClearUpd(c))
    <3>1. D.upd /\ ~Bare(D) => Updates(td2, c)
      BY <2>2 DEF Covered, Updates, Bare
    <3> QED BY <3>1, UpdateAhead
  <2>4. Has(td2, SetUpd(c)) => ~D.upd
    BY <1>1 DEF MarkSafe, Removed
  <2> QED BY <1>3, <1>4, <1>5, <2>1, <2>2, <2>3, <2>4 DEF MarkSafe
<1>8. CASE o = SetUpd(c) \/ \E e \in Exts : o = Rename(c, e)
  <2>1. ~feed /\ Updates(td, c)
    BY <1>1, <1>8 DEF MarkSafe, Removed, Updates
  <2>2. Within(td2, Sync, ClearUpd(c))
    <3>1. \A i \in 1 .. Len(td) : Leads(td[i], o, Sync, ClearUpd(c))
      BY <1>8 DEF Fine, Commits
    <3> QED BY <3>1 DEF Advanced
  <2>3. ~Has(td2, SetUpd(c))
    BY <1>1, <1>8 DEF Removed, Fine, Sorted
  <2>4. Has(td2, ClearUpd(c))
    BY <2>2, BeforeIn DEF Within, Has
  <2>5. D2.upd => Covered(c, D2, td2)
    <3>1. D2.upd => Covered(c, D, td)
      BY <1>1, <1>2, <1>8 DEF Effect, MarkSafe, Covered, Removed
    <3>2. CASE o = SetUpd(c)
      BY <1>1, <1>2, <3>1, <3>2 DEF Effect, Covered, Removed
    <3>3. ASSUME NEW e \in Exts, o = Rename(c, e) PROVE D2.upd => Covered(c, D2, td2)
      BY <1>1, <1>2, <3>1, <3>3 DEF Effect, Covered, Removed
    <3> QED BY <1>8, <3>2, <3>3
  <2> QED BY <1>4, <2>1, <2>2, <2>3, <2>4, <2>5 DEF MarkSafe
<1>9. CASE o = ClearUpd(c)
  <2>1. ~D2.upd /\ \A x \in ds2 : x \in ds \/ ~x.upd
    BY <1>2, <1>9 DEF Effect
  <2>2. Has(td2, SetUpd(c)) => \A x \in ds2 : ~x.upd
    BY <1>1, <2>1 DEF MarkSafe, Removed
  <2>3. \A x \in ds2 : x.upd => Bare(x) \/ Within(td2, Sync, ClearUpd(c))
    BY <1>2, <1>6, <1>9, <2>1 DEF MarkSafe
  <2>4. feed => Settles(td2) \/ \A x \in ds2 : ~x.upd
    BY <1>2, <1>6, <1>9, <2>1 DEF MarkSafe
  <2> QED BY <1>3, <1>4, <1>5, <2>1, <2>2, <2>3, <2>4 DEF MarkSafe
<1>10. CASE o # Sync /\ o # SetUpd(c) /\ o # ClearUpd(c) /\ \A e \in Exts : o # Rename(c, e)
  <2>1. (D2.upd <=> D.upd) /\ \A x \in ds2 : x \in ds \/ \E y \in ds : Effect(o, c, y, x) /\ (x.upd <=> y.upd)
    BY <1>10 DEF Effect
  <2>2. Has(td2, SetUpd(c)) => \A x \in ds2 : ~x.upd
    BY <1>1, <2>1 DEF MarkSafe, Removed
  <2>3. feed => Settles(td2) \/ \A x \in ds2 : ~x.upd
    BY <1>6, <1>10, <2>1 DEF MarkSafe
  <2>4. Has(td, ClearUpd(c)) => Has(td2, ClearUpd(c))
    BY <1>1, <1>10 DEF Removed
  <2>5. \A e \in Exts : Has(td, Rename(c, e)) => Has(td2, Rename(c, e))
    BY <1>1, <1>10 DEF Removed
  <2>6. CASE \E e \in Exts, v \in Content \ {Absent} : o = Write(c, "temp", e, v)
    <3>1. feed
      BY <1>1, <2>6 DEF MarkSafe, Removed
    <3>2. ~D2.upd
      BY <2>1, <3>1 DEF MarkSafe
    <3>3. ~Settles(td2)
      BY <1>1, <2>6, <3>1, SettlesHas DEF MarkSafe, Removed
    <3> QED BY <1>3, <1>4, <1>5, <2>2, <2>3, <3>1, <3>2, <3>3 DEF MarkSafe
  <2>7. CASE \A e \in Exts, v \in Content \ {Absent} : o # Write(c, "temp", e, v)
    <3>1. ASSUME NEW x, NEW y, Effect(o, c, y, x), NEW e \in Exts
          PROVE  x.temp[e] = y.temp[e] \/ x.temp[e] = Absent
      <4>1. CASE \E v : o = Write(c, "temp", e, v)
        <5>1. PICK v : o = Write(c, "temp", e, v)
          BY <4>1
        <5>2. v \in Content
          <6>1. o.op = "file" /\ o.val = v
            BY <5>1 DEF Write
          <6>2. o \in {Write(c1, s1, e1, v1) : c1 \in Cats, s1 \in {"temp", "bak"}, e1 \in Exts, v1 \in Content}
            BY <6>1 DEF Operation, Mark, Rename, Copy, Sync, Note
          <6>3. \A c1, s1, e1, v1 : Write(c1, s1, e1, v1).val = v1
            BY DEF Write
          <6> QED BY <6>1, <6>2, <6>3
        <5> QED BY <2>7, <3>1, <5>1, <5>2 DEF Effect
      <4>2. CASE \A v : o # Write(c, "temp", e, v)
        BY <1>10, <3>1, <4>2 DEF Effect
      <4> QED BY <4>1, <4>2
    <3>2. D2.upd => Covered(c, D2, td2)
      BY <2>1, <2>5, <3>1 DEF MarkSafe, Covered
    <3>3. \A x \in ds2 : x.upd => Bare(x) \/ Within(td2, Sync, ClearUpd(c))
      <4>1. \A x, y : Effect(o, c, y, x) /\ Bare(y) => Bare(x)
        BY <3>1 DEF Bare
      <4> QED BY <1>6, <1>10, <2>1, <4>1 DEF MarkSafe
    <3> QED BY <1>3, <1>4, <1>5, <2>1, <2>2, <2>3, <2>4, <3>2, <3>3 DEF MarkSafe
  <2> QED BY <2>6, <2>7
<1> QED BY <1>7, <1>8, <1>9, <1>10

(* A failing operation ends its procedure: markers stay, and a temporary   *)
(* file changes only if it is that file that could not be written.         *)
Hurt(c, o, D, D2) ==
  /\ D2.upd = D.upd
  /\ \/ \A e \in Exts : D2.temp[e] = D.temp[e]
     \/ \E e \in Exts, v \in Content \ {Absent} : o = Write(c, "temp", e, v)

LEMMA MarkFault ==
  ASSUME NEW c \in Cats, NEW D, NEW D2, NEW ds, NEW ds2, NEW feed \in BOOLEAN,
         Fine(todo), ~Idle, Fallible(Op), MarkSafe(c, D, ds, todo, feed),
         Hurt(c, Op, D, D2), D2 \in ds2,
         \A x \in ds2 : x \in ds \/ \E y \in ds : Hurt(c, Op, y, x)
  PROVE  MarkSafe(c, D2, ds2, Tail(todo), feed)
<1> DEFINE h == Head(todo)
           t == Tail(todo)
<1>1. /\ Fine(t) /\ In(h, Op) /\ h \in Procedure /\ Commits(c, h)
      /\ \A o : Has(todo, o) <=> In(h, o) \/ Has(t, o)
      /\ \A a, b : Within(todo, a, b) <=> Before(h, a, b) \/ Within(t, a, b)
      /\ \A a, b : Follows(t, a, b) => Follows(todo, a, b)
      /\ \A b : Has(t, b) => Follows(todo, Op, b)
      /\ Settles(t) => Settles(todo)
      /\ Settles(todo) /\ Fallible(Op) => Settles(t)
  BY ProcedureEnded
<1> HIDE DEF h, t
<1>2. \A e : In(h, Rename(c, e)) /\ e \in Exts => In(h, ClearUpd(c))
  <2> SUFFICES ASSUME NEW e \in Exts, In(h, Rename(c, e)) PROVE In(h, ClearUpd(c))
    OBVIOUS
  <2>1. Leads(h, Rename(c, e), Sync, ClearUpd(c))
    BY <1>1 DEF Commits
  <2> QED BY <2>1 DEF In, Leads
<1>3. In(h, ClearUpd(c)) => Op = SetUpd(c) /\ ~Has(t, SetUpd(c))
  <2>1. In(h, ClearUpd(c)) => Op = SetUpd(c)
    BY <1>1 DEF Commits
  <2> QED BY <1>1, <2>1 DEF Fine, Sorted
<1>4. D2.upd = D.upd /\ \A x \in ds2 : x \in ds \/ \E y \in ds : Hurt(c, Op, y, x) /\ x.upd = y.upd
  BY DEF Hurt
<1>5. In(h, ClearUpd(c)) => \A x \in ds2 : ~x.upd
  BY <1>1, <1>3, <1>4 DEF MarkSafe
<1>6. Has(t, SetUpd(c)) => (\A e \in Exts : Has(t, Rename(c, e))) /\ \A x \in ds2 : ~x.upd
  BY <1>1, <1>2, <1>3, <1>4 DEF MarkSafe
<1>7. feed => /\ ~Updates(t, c) /\ ~D2.upd /\ (Settles(t) \/ \A x \in ds2 : ~x.upd)
              /\ \A e \in Exts, v \in Content \ {Absent} : ~Follows(t, Write(c, "temp", e, v), Sync)
  BY <1>1, <1>4 DEF MarkSafe, Updates
<1>8. ~feed => \A e \in Exts, v \in Content \ {Absent} : ~Has(t, Write(c, "temp", e, v))
  BY <1>1 DEF MarkSafe
<1>9. CASE \E e \in Exts, v \in Content \ {Absent} : Op = Write(c, "temp", e, v)
  <2>1. Has(todo, Op)
    BY <1>1
  <2>2. feed
    BY <1>9, <2>1 DEF MarkSafe
  <2>3. ~Settles(t)
    BY <1>1, <1>9, <2>2, SettlesHas DEF MarkSafe
  <2>4. (\A x \in ds2 : ~x.upd) /\ ~D2.upd
    BY <1>7, <2>2, <2>3
  <2> QED BY <1>6, <1>7, <1>8, <2>4 DEF MarkSafe, t
<1>10. CASE \A e \in Exts, v \in Content \ {Absent} : Op # Write(c, "temp", e, v)
  <2>1. /\ \A e \in Exts : D2.temp[e] = D.temp[e]
        /\ \A x \in ds2 : x \in ds \/ \E y \in ds : x.upd = y.upd /\ \A e \in Exts : x.temp[e] = y.temp[e]
    BY <1>10 DEF Hurt
  <2>2. D2.upd => Has(t, ClearUpd(c)) /\ Covered(c, D2, t)
    BY <1>1, <1>2, <1>4, <1>5, <2>1 DEF MarkSafe, Covered
  <2>3. ASSUME NEW x \in ds2, x.upd PROVE Bare(x) \/ Within(t, Sync, ClearUpd(c))
    <3>1. PICK y \in ds : x.upd = y.upd /\ (x = y \/ \A e \in Exts : x.temp[e] = y.temp[e])
      BY <2>1
    <3>2. Bare(y) \/ Within(todo, Sync, ClearUpd(c))
      BY <2>3, <3>1 DEF MarkSafe
    <3>3. ~Before(h, Sync, ClearUpd(c))
      BY <1>5, <2>3, BeforeIn
    <3> QED BY <1>1, <3>1, <3>2, <3>3 DEF Bare
  <2> QED BY <1>6, <1>7, <1>8, <2>2, <2>3 DEF MarkSafe, t
<1> QED BY <1>9, <1>10
-----------------------------------------------------------------------------
(* What the procedures called together do of backups: those of the         *)
(* categories of V, begun (r) or to be begun with their markers            *)
BakPlan(td, V, r) ==
  /\ Fine(td)
  /\ \A c \in Cats :
       /\ c \in V => /\ Has(td, ClearCpy(c)) /\ Has(td, Note(c)) /\ Within(td, Sync, ClearDon(c))
                     /\ \A e \in Exts : Has(td, Unlink(c, "bak", e)) /\ Has(td, Copy(c, e))
                     /\ Has(td, SetCpy(c)) <=> ~r
       /\ c \notin V => \A o : Has(td, o) /\ BackupOf(c, o) => o = Note(c)

LEMMA BakConcat ==
  ASSUME NEW s, NEW t, NEW U, NEW V, NEW r \in BOOLEAN, BakPlan(s, U, r), BakPlan(t, V, r), U \cap V = {},
         \A c \in Cats : \/ ~Has(s, SetUpd(c)) /\ \A e \in Exts : ~Has(s, Rename(c, e))
                         \/ ~Has(t, SetUpd(c))
  PROVE  /\ BakPlan(s \o t, U \cup V, r)
         /\ \A o : Has(s \o t, o) <=> Has(s, o) \/ Has(t, o)
         /\ Settles(s \o t) <=> Settles(s) \/ Settles(t)
<1>1. s \in Seq(Procedure) /\ t \in Seq(Procedure)
  BY DEF BakPlan, Fine
<1>2. \A o : Has(s \o t, o) <=> Has(s, o) \/ Has(t, o)
  BY <1>1, HasConcat
<1>3. ASSUME NEW td, NEW c \in Cats, \A o : Has(td, o) /\ BackupOf(c, o) => o = Note(c)
      PROVE  /\ ~Has(td, SetDon(c)) /\ ~Has(td, ClearDon(c)) /\ ~Has(td, ClearCpy(c)) /\ ~Has(td, SetCpy(c))
             /\ \A e \in Exts : ~Has(td, Copy(c, e)) /\ ~Has(td, Unlink(c, "bak", e))
  <2>1. /\ Note(c) # SetCpy(c) /\ Note(c) # ClearCpy(c) /\ Note(c) # SetDon(c) /\ Note(c) # ClearDon(c)
        /\ \A e \in Exts : Note(c) # Copy(c, e) /\ Note(c) # Unlink(c, "bak", e)
    BY DEF Note, SetCpy, ClearCpy, SetDon, ClearDon, Mark, Copy, Unlink, Write
  <2> QED BY <1>3, <2>1 DEF BackupOf, Unlink
<1>4. ASSUME NEW c \in Cats
      PROVE  \/ /\ ~Has(s, SetDon(c)) /\ ~Has(s, ClearCpy(c))
                /\ \A e \in Exts : ~Has(s, Copy(c, e)) /\ ~Has(s, Unlink(c, "bak", e))
             \/ /\ ~Has(t, ClearDon(c)) /\ ~Has(t, ClearCpy(c)) /\ ~Has(t, SetDon(c))
                /\ \A e \in Exts : ~Has(t, Unlink(c, "bak", e))
  <2>1. CASE c \notin U
    <3>1. \A o : Has(s, o) /\ BackupOf(c, o) => o = Note(c)
      BY <2>1 DEF BakPlan
    <3> QED BY <1>3, <3>1
  <2>2. CASE c \notin V
    <3>1. \A o : Has(t, o) /\ BackupOf(c, o) => o = Note(c)
      BY <2>2 DEF BakPlan
    <3> QED BY <1>3, <3>1
  <2> QED BY <2>1, <2>2
<1>5. /\ Fine(s \o t)
      /\ \A a, b : Within(s \o t, a, b) <=> Within(s, a, b) \/ Within(t, a, b)
      /\ Settles(s \o t) <=> Settles(s) \/ Settles(t)
  BY <1>4, FineConcat DEF BakPlan
<1> DEFINE u == s \o t
<1>6. ASSUME NEW c \in Cats, c \in U \cup V
      PROVE  /\ Has(u, ClearCpy(c)) /\ Has(u, Note(c)) /\ Within(u, Sync, ClearDon(c))
             /\ \A e \in Exts : Has(u, Unlink(c, "bak", e)) /\ Has(u, Copy(c, e))
             /\ Has(u, SetCpy(c)) <=> ~r
  <2>1. CASE c \in U
    <3>1. \A o : Has(t, o) /\ BackupOf(c, o) => o = Note(c)
      BY <2>1 DEF BakPlan
    <3>2. ~Has(t, SetCpy(c))
      BY <1>3, <3>1
    <3> QED BY <1>2, <1>5, <2>1, <3>2 DEF BakPlan
  <2>2. CASE c \in V
    <3>1. \A o : Has(s, o) /\ BackupOf(c, o) => o = Note(c)
      BY <2>2 DEF BakPlan
    <3>2. ~Has(s, SetCpy(c))
      BY <1>3, <3>1
    <3> QED BY <1>2, <1>5, <2>2, <3>2 DEF BakPlan
  <2> QED BY <1>6, <2>1, <2>2
<1>7. \A c \in Cats : c \notin U \cup V => \A o : Has(u, o) /\ BackupOf(c, o) => o = Note(c)
  BY <1>2 DEF BakPlan
<1>8. BakPlan(u, U \cup V, r)
  BY <1>5, <1>6, <1>7 DEF BakPlan
<1> QED BY <1>2, <1>5, <1>8

(* Nothing of a backup *)
LEMMA NoBakPlan ==
  ASSUME NEW td, Fine(td), \A c \in Cats : \A o : Has(td, o) /\ BackupOf(c, o) => o = Note(c), NEW r
  PROVE  BakPlan(td, {}, r)
BY DEF BakPlan

LEMMA BakPlanBackup ==
  ASSUME NEW c \in Cats, NEW r \in BOOLEAN
  PROVE  BakPlan(<<Backup(c, r)>>, {c}, r) /\ \A o : Has(<<Backup(c, r)>>, o) => Quiet(o)
<1> DEFINE p == Backup(c, r)
<1>1. /\ p \in Procedure
      /\ \A o : In(p, o) <=> \/ o \in {Sync, ClearDon(c), SetDon(c), ClearCpy(c), Note(c)}
                             \/ (~r /\ o = SetCpy(c))
                             \/ \E e \in Exts : o = Unlink(c, "bak", e) \/ o = Copy(c, e)
      /\ Before(p, Sync, ClearDon(c))
  BY BackupShape
<1>2. Fine(<<p>>)
  BY BackupFine
<1>3. \A o : In(p, o) => Quiet(o)
  BY BackupQuiet
<1> HIDE DEF p
<1>4. \A o : Has(<<p>>, o) <=> In(p, o)
  BY <1>1, OneProcedure
<1>5. Within(<<p>>, Sync, ClearDon(c))
  <2>1. 1 .. Len(<<p>>) = {1} /\ <<p>>[1] = p
    OBVIOUS
  <2> QED BY <1>1, <2>1 DEF Within
<1>6. Has(<<p>>, SetCpy(c)) <=> ~r
  <2>1. /\ SetCpy(c) \notin {Sync, ClearDon(c), SetDon(c), ClearCpy(c), Note(c)}
        /\ \A e \in Exts : SetCpy(c) # Unlink(c, "bak", e) /\ SetCpy(c) # Copy(c, e)
    BY DEF SetCpy, ClearCpy, SetDon, ClearDon, Mark, Sync, Note, Copy, Unlink, Write
  <2> QED BY <1>1, <1>4, <2>1
<1>7. ASSUME NEW d \in Cats, d # c, NEW o, In(p, o) PROVE ~BackupOf(d, o)
  <2>1. ~BackupOf(d, Sync)
    BY NotBackup
  <2>2. o \in {ClearDon(c), SetDon(c), ClearCpy(c), SetCpy(c), Note(c)} => ~BackupOf(d, o)
    BY <1>7 DEF BackupOf, SetCpy, ClearCpy, SetDon, ClearDon, Mark, Note, Copy, Write
  <2>3. \A e \in Exts : ~BackupOf(d, Unlink(c, "bak", e)) /\ ~BackupOf(d, Copy(c, e))
    BY <1>7 DEF BackupOf, SetCpy, ClearCpy, SetDon, ClearDon, Mark, Note, Copy, Write, Unlink
  <2> QED BY <1>1, <1>7, <2>1, <2>2, <2>3
<1>8. BakPlan(<<p>>, {c}, r)
  BY <1>1, <1>2, <1>4, <1>5, <1>6, <1>7 DEF BakPlan
<1> QED BY <1>3, <1>4, <1>8 DEF p

LEMMA BakPlanNone == ASSUME NEW r PROVE BakPlan(<<>>, {}, r)
<1>1. \A o : ~Has(<<>>, o)
  BY NoProcedure
<1> QED BY <1>1, FineNone, NoBakPlan

LEMMA BakPlanOnce ==
  ASSUME NEW c \in Cats
  PROVE  /\ BakPlan(BackupOnce(c), IF bakDone[c] THEN {} ELSE {c}, FALSE)
         /\ \A o : Has(BackupOnce(c), o) => Quiet(o)
<1>1. FALSE \in BOOLEAN
  OBVIOUS
<1>2. BakPlan(<<Backup(c, FALSE)>>, {c}, FALSE) /\ \A o : Has(<<Backup(c, FALSE)>>, o) => Quiet(o)
  BY <1>1, BakPlanBackup
<1>3. CASE bakDone[c]
  <2>1. BackupOnce(c) = <<>>
    BY <1>3 DEF BackupOnce
  <2> QED BY <1>3, <2>1, BakPlanNone, NoProcedure
<1>4. CASE ~bakDone[c]
  <2>1. BackupOnce(c) = <<Backup(c, FALSE)>>
    BY <1>4 DEF BackupOnce
  <2> QED BY <1>2, <1>4, <2>1
<1> QED BY <1>3, <1>4

(* sys_commitConfigUpdate *)
LEMMA BakPlanCommit ==
  ASSUME NEW U
  PROVE  BakPlan((IF "cups" \in U THEN <<Update("cups", FALSE)>> ELSE <<>>)
                 \o (IF "tc" \in U THEN <<Update("tc", FALSE)>> ELSE <<>>), {}, FALSE)
<1> DEFINE f(c) == IF c \in U THEN <<Update(c, FALSE)>> ELSE <<>>
           s == f("cups")
           t == f("tc")
<1>1. "cups" \in Cats /\ "tc" \in Cats /\ FALSE \in BOOLEAN
  BY DEF Cats
<1>2. ASSUME NEW c \in Cats
      PROVE  /\ BakPlan(f(c), {}, FALSE)
             /\ \A d \in Cats : d # c => ~Has(f(c), SetUpd(d)) /\ \A e \in Exts : ~Has(f(c), Rename(d, e))
  <2>1. CASE c \in U
    <3>1. f(c) = <<Update(c, FALSE)>>
      BY <2>1
    <3>2. BakPlan(<<Update(c, FALSE)>>, {}, FALSE)
      BY <1>1, UpdateFine, NoBakPlan
    <3>3. PlanOf(<<Update(c, FALSE)>>, {c}, FALSE)
      BY <1>1, PlanUpdate
    <3>4. \A d \in Cats : d # c => ~Has(<<Update(c, FALSE)>>, SetUpd(d))
                                   /\ \A e \in Exts : ~Has(<<Update(c, FALSE)>>, Rename(d, e))
      BY <3>3 DEF PlanOf
    <3> QED BY <3>1, <3>2, <3>4
  <2>2. CASE c \notin U
    <3>1. f(c) = <<>>
      BY <2>2
    <3> QED BY <3>1, BakPlanNone, NoProcedure
  <2> QED BY <2>1, <2>2
<1>3. /\ BakPlan(s, {}, FALSE) /\ BakPlan(t, {}, FALSE)
      /\ \A d \in Cats : \/ ~Has(s, SetUpd(d)) /\ \A e \in Exts : ~Has(s, Rename(d, e))
                         \/ ~Has(t, SetUpd(d))
  BY <1>1, <1>2 DEF Cats
<1> HIDE DEF s, t
<1>4. BakPlan(s \o t, {} \cup {}, FALSE)
  <2>1. {} \cap {} = {}
    OBVIOUS
  <2> QED BY <1>1, <1>3, <2>1, BakConcat
<1>5. BakPlan(s \o t, {}, FALSE)
  <2>1. {} \cup {} = {}
    OBVIOUS
  <2> QED BY <1>4, <2>1
<1> QED BY <1>5 DEF s, t

(* checkRollForward *)
LEMMA BakPlanForward ==
  ASSUME NEW d \in [Cats -> Files], NEW c \in Cats
  PROVE  LET td == (IF d[c].upd THEN <<Update(c, TRUE)>> ELSE <<>>)
                   \o (IF d[c].cpy THEN <<Backup(c, TRUE)>> ELSE <<>>)
                   \o <<<<Note(c)>>>>
         IN  BakPlan(td, IF d[c].cpy THEN {c} ELSE {}, TRUE) /\ Has(td, Note(c))
<1> DEFINE s == IF d[c].upd THEN <<Update(c, TRUE)>> ELSE <<>>
           t == IF d[c].cpy THEN <<Backup(c, TRUE)>> ELSE <<>>
           u == <<<<Note(c)>>>>
           X == IF d[c].cpy THEN {c} ELSE {}
<1>1. TRUE \in BOOLEAN /\ X \cap {} = {} /\ {} \cap X = {} /\ X \cup {} = X /\ {} \cup X = X
  OBVIOUS
<1>2. BakPlan(s, {}, TRUE)
  BY <1>1, UpdateFine, NoBakPlan, BakPlanNone
<1>3. BakPlan(t, X, TRUE) /\ \A o : Has(t, o) => Quiet(o)
  BY <1>1, BakPlanBackup, BakPlanNone, NoProcedure
<1>4. BakPlan(u, {}, TRUE) /\ Has(u, Note(c)) /\ \A o : Has(u, o) => Quiet(o)
  <2>1. <<Note(c)>> \in Procedure /\ \A o : In(<<Note(c)>>, o) <=> o = Note(c)
    BY MarksOperations, OneOperation
  <2> DEFINE p == <<Note(c)>>
  <2>2. Fine(<<p>>)
    BY NoteFine
  <2> HIDE DEF p
  <2>3. \A o : Has(<<p>>, o) <=> o = Note(c)
    BY <2>1, OneProcedure DEF p
  <2>4. \A x \in Cats : \A o : Has(<<p>>, o) /\ BackupOf(x, o) => o = Note(x)
    <3> SUFFICES ASSUME NEW x \in Cats, BackupOf(x, Note(c)) PROVE Note(c) = Note(x)
      BY <2>3
    <3>1. /\ Note(c) \notin {SetCpy(x), ClearCpy(x), SetDon(x), ClearDon(x)}
          /\ \A e \in Exts : Note(c) # Copy(x, e) /\ \A v : Note(c) # Write(x, "bak", e, v)
      BY DEF Note, SetCpy, ClearCpy, SetDon, ClearDon, Mark, Copy, Write
    <3> QED BY <3>1 DEF BackupOf
  <2>5. BakPlan(<<p>>, {}, TRUE)
    BY <2>2, <2>4, NoBakPlan
  <2> QED BY <2>3, <2>5, QuietOnes DEF p
<1> HIDE DEF s, t, u, X
<1>5. BakPlan(s \o t, X, TRUE)
  <2>1. \A x \in Cats : ~Has(t, SetUpd(x))
    BY <1>3 DEF Quiet
  <2>2. BakPlan(s \o t, {} \cup X, TRUE)
    BY <1>1, <1>2, <1>3, <2>1, BakConcat
  <2> QED BY <1>1, <2>2
<1> DEFINE w == s \o t
<1> HIDE DEF w
<1>6. BakPlan(w \o u, X, TRUE) /\ Has(w \o u, Note(c))
  <2>1. \A x \in Cats : ~Has(u, SetUpd(x))
    BY <1>4 DEF Quiet
  <2>2. BakPlan(w, X, TRUE)
    BY <1>5 DEF w
  <2>3. BakPlan(w \o u, X \cup {}, TRUE) /\ \A o : Has(w \o u, o) <=> Has(w, o) \/ Has(u, o)
    BY <1>1, <1>4, <2>1, <2>2, BakConcat
  <2> QED BY <1>1, <1>4, <2>3
<1> QED BY <1>6 DEF s, t, u, w, X

LEMMA BakPlanRollForward ==
  ASSUME NEW d \in [Cats -> Files]
  PROVE  /\ BakPlan(RollForward(d), {c \in Cats : d[c].cpy}, TRUE)
         /\ \A c \in Cats : Has(RollForward(d), Note(c))
<1> DEFINE f(c) == (IF d[c].upd THEN <<Update(c, TRUE)>> ELSE <<>>)
                   \o (IF d[c].cpy THEN <<Backup(c, TRUE)>> ELSE <<>>)
                   \o <<<<Note(c)>>>>
           s == f("cups")
           t == f("tc")
           X == IF d["cups"].cpy THEN {"cups"} ELSE {}
           Y == IF d["tc"].cpy THEN {"tc"} ELSE {}
<1>1. /\ "cups" \in Cats /\ "tc" \in Cats /\ X \cap Y = {} /\ X \cup Y = {c \in Cats : d[c].cpy} /\ TRUE \in BOOLEAN
      /\ \A c \in Cats : c = "cups" \/ c = "tc"
  BY DEF Cats
<1>2. BakPlan(s, X, TRUE) /\ BakPlan(t, Y, TRUE) /\ Has(s, Note("cups")) /\ Has(t, Note("tc"))
  BY <1>1, BakPlanForward
<1>3. RollForward(d) = s \o t
  BY DEF RollForward
<1>4. \A c \in Cats : ~Has(t, SetUpd(c))
  <2>1. PlanOf(t, IF d["tc"].upd THEN {"tc"} ELSE {}, TRUE)
    BY <1>1, PlanForward
  <2> HIDE DEF t
  <2> QED BY <2>1 DEF PlanOf
<1> HIDE DEF s, t, X, Y
<1>5. BakPlan(s \o t, X \cup Y, TRUE) /\ \A o : Has(s \o t, o) <=> Has(s, o) \/ Has(t, o)
  BY <1>1, <1>2, <1>4, BakConcat
<1> QED BY <1>1, <1>2, <1>3, <1>5

(* The temporary files of one category *)
LEMMA BakPlanFeed ==
  ASSUME NEW p \in Procedure, NEW r,
         \A o : In(p, o) => \E c \in Cats, e \in Exts, v \in Content : o = Write(c, "temp", e, v)
  PROVE  BakPlan(<<p>>, {}, r) /\ ~Has(<<p>>, Sync)
         /\ \A c \in Cats : ~Has(<<p>>, SetUpd(c)) /\ \A e \in Exts : ~Has(<<p>>, Rename(c, e))
<1>1. ASSUME NEW o, In(p, o), NEW d \in Cats
      PROVE  ~BackupOf(d, o) /\ o # SetUpd(d) /\ o # ClearUpd(d) /\ o # Sync /\ \A e \in Exts : o # Rename(d, e)
  <2>1. PICK c \in Cats, e \in Exts, v \in Content : o = Write(c, "temp", e, v)
    BY <1>1
  <2>2. ~BackupOf(d, o)
    BY <2>1, NotBackup
  <2> QED BY <2>1, <2>2 DEF SetUpd, ClearUpd, Mark, Sync, Rename, Write
<1>2. Fine(<<p>>)
  BY <1>1, PlainFine
<1>3. \A o : Has(<<p>>, o) <=> In(p, o)
  BY OneProcedure
<1>4. BakPlan(<<p>>, {}, r)
  BY <1>1, <1>2, <1>3, NoBakPlan
<1>5. "cups" \in Cats
  BY DEF Cats
<1> QED BY <1>1, <1>3, <1>4, <1>5

(* cups_update_info *)
LEMMA BakPlanRespond ==
  ASSUME Types, NEW offer \in [Cats -> SUBSET {"uri", "cred"}], NEW usingReg \in BOOLEAN,
         count.sessions < MaxSessions
  PROVE  LET td == (IF usingReg THEN BackupOnce("cups") ELSE <<>>) \o <<Reset>> \o SaveUris(offer)
         IN  /\ BakPlan(td, IF usingReg /\ ~bakDone["cups"] THEN {"cups"} ELSE {}, FALSE)
             /\ Settles(td)
             /\ \A c \in Cats, e \in Exts, v \in Content \ {Absent} : ~Follows(td, Write(c, "temp", e, v), Sync)
<1> DEFINE b == IF usingReg THEN BackupOnce("cups") ELSE <<>>
           V == IF usingReg /\ ~bakDone["cups"] THEN {"cups"} ELSE {}
           y == <<Reset>>
           n == count.sessions + 1
           f(c) == IF c \in WithUri(offer) THEN <<<<Write(c, "temp", "uri", n)>>>> ELSE <<>>
           s == f("cups")
           t == f("tc")
<1>1. /\ "cups" \in Cats /\ "tc" \in Cats /\ FALSE \in BOOLEAN /\ "uri" \in Exts
      /\ n \in Content
  BY ExtsFinite, ConfAssumption DEF Cats, Content, Types
<1>2. BakPlan(b, V, FALSE) /\ \A o : Has(b, o) => Quiet(o)
  <2>1. BakPlan(BackupOnce("cups"), IF bakDone["cups"] THEN {} ELSE {"cups"}, FALSE)
        /\ \A o : Has(BackupOnce("cups"), o) => Quiet(o)
    BY <1>1, BakPlanOnce
  <2> QED BY <2>1, BakPlanNone, NoProcedure
<1>3. /\ BakPlan(y, {}, FALSE) /\ Settles(y)
      /\ \A c \in Cats : ~Has(y, SetUpd(c))
      /\ \A c \in Cats, e \in Exts, v \in Content \ {Absent} : ~Has(y, Write(c, "temp", e, v))
  <2>1. Reset \in Procedure
        /\ \A o : In(Reset, o) <=> \/ o = Sync \/ \E c \in Cats : o = ClearUpd(c)
                                   \/ \E c \in Cats, e \in Exts : o = Unlink(c, "temp", e)
    BY ResetShape
  <2>2. \A o : Has(y, o) <=> In(Reset, o)
    BY <2>1, OneProcedure
  <2>3. \A c \in Cats : \A o : In(Reset, o) => ~BackupOf(c, o)
    <3> SUFFICES ASSUME NEW c \in Cats, NEW o, In(Reset, o) PROVE ~BackupOf(c, o)
      OBVIOUS
    <3> QED BY <2>1, NotBackup DEF Unlink
  <2>4. \A c \in Cats : ~In(Reset, SetUpd(c))
    BY <2>1 DEF SetUpd, ClearUpd, Mark, Sync, Unlink, Write
  <2>5. \A c \in Cats, e \in Exts, v \in Content \ {Absent} : ~In(Reset, Write(c, "temp", e, v))
    BY <2>1 DEF ClearUpd, Mark, Sync, Unlink, Write
  <2> QED BY <2>2, <2>3, <2>4, <2>5, ResetFine, NoBakPlan
<1>4. ASSUME NEW c \in Cats
      PROVE  BakPlan(f(c), {}, FALSE) /\ ~Has(f(c), Sync)
             /\ \A d \in Cats : ~Has(f(c), SetUpd(d)) /\ \A e \in Exts : ~Has(f(c), Rename(d, e))
  <2>1. CASE c \in WithUri(offer)
    <3> DEFINE x == Write(c, "temp", "uri", n)
    <3>1. x \in Operation
      BY <1>1, Operations
    <3>2. <<x>> \in Procedure /\ \A o : In(<<x>>, o) <=> o = x
      <4> HIDE DEF x
      <4> QED BY <3>1, OneOperation
    <3>3. \A o : In(<<x>>, o) => \E d \in Cats, e \in Exts, v \in Content : o = Write(d, "temp", e, v)
      BY <1>1, <3>2
    <3> DEFINE p == <<x>>
    <3>4. f(c) = <<p>>
      BY <2>1
    <3> HIDE DEF p, f
    <3>5. p \in Procedure /\ \A o : In(p, o) => \E d \in Cats, e \in Exts, v \in Content : o = Write(d, "temp", e, v)
      BY <3>2, <3>3 DEF p
    <3>6. BakPlan(<<p>>, {}, FALSE) /\ ~Has(<<p>>, Sync)
          /\ \A d \in Cats : ~Has(<<p>>, SetUpd(d)) /\ \A e \in Exts : ~Has(<<p>>, Rename(d, e))
      BY <3>5, BakPlanFeed
    <3> QED BY <3>4, <3>6
  <2>2. CASE c \notin WithUri(offer)
    <3>1. f(c) = <<>>
      BY <2>2
    <3> HIDE DEF f
    <3> QED BY <3>1, BakPlanNone, NoProcedure
  <2> QED BY <2>1, <2>2
<1>5. BakPlan(s, {}, FALSE) /\ BakPlan(t, {}, FALSE) /\ ~Has(s, Sync) /\ ~Has(t, Sync)
      /\ \A d \in Cats : ~Has(s, SetUpd(d)) /\ ~Has(t, SetUpd(d))
  BY <1>1, <1>4
<1>6. SaveUris(offer) = s \o t
  BY DEF SaveUris
<1>7. V \cap {} = {} /\ V \cup {} = V /\ {} \cap {} = {} /\ {} \cup {} = {}
  OBVIOUS
<1> HIDE DEF b, V, y, f, s, t, n
<1> DEFINE g == s \o t
           k == b \o y
           td == k \o g
<1>8. BakPlan(g, {}, FALSE) /\ ~Has(g, Sync) /\ \A d \in Cats : ~Has(g, SetUpd(d))
  <2>1. BakPlan(s \o t, {} \cup {}, FALSE) /\ \A o : Has(s \o t, o) <=> Has(s, o) \/ Has(t, o)
    BY <1>1, <1>5, <1>7, BakConcat
  <2> QED BY <1>5, <1>7, <2>1
<1>9. BakPlan(k, V, FALSE) /\ Settles(k) /\ \A o : Has(k, o) <=> Has(b, o) \/ Has(y, o)
  <2>1. BakPlan(b \o y, V \cup {}, FALSE) /\ (\A o : Has(b \o y, o) <=> Has(b, o) \/ Has(y, o))
        /\ (Settles(b \o y) <=> Settles(b) \/ Settles(y))
    BY <1>1, <1>2, <1>3, <1>7, BakConcat
  <2> QED BY <1>3, <1>7, <2>1
<1> HIDE DEF g, k
<1>10. BakPlan(td, V, FALSE) /\ Settles(td)
  <2>1. BakPlan(k \o g, V \cup {}, FALSE) /\ (Settles(k \o g) <=> Settles(k) \/ Settles(g))
    BY <1>1, <1>7, <1>8, <1>9, BakConcat
  <2> QED BY <1>7, <1>9, <2>1
<1>11. ASSUME NEW c \in Cats, NEW e \in Exts, NEW v \in Content \ {Absent}, Follows(td, Write(c, "temp", e, v), Sync)
       PROVE  FALSE
  <2>1. k \in Seq(Procedure) /\ g \in Seq(Procedure)
    BY <1>8, <1>9 DEF BakPlan, Fine
  <2>2. Has(k, Write(c, "temp", e, v))
    BY <1>8, <1>11, <2>1, FollowsConcat, FollowsHas
  <2> QED BY <1>2, <1>3, <1>9, <2>2 DEF Quiet
<1>12. (IF usingReg THEN BackupOnce("cups") ELSE <<>>) \o <<Reset>> \o SaveUris(offer) = td
  BY <1>6 DEF b, y, g, k
<1> HIDE DEF td
<1> QED BY <1>10, <1>11, <1>12 DEF V
-----------------------------------------------------------------------------
(* What one operation does to the backup set, r being the regular set      *)
(* whose files it may copy                                                 *)
BackupEffect(o, c, r, D, D2) ==
  /\ D2.cpy <=> o = SetCpy(c) \/ (o # ClearCpy(c) /\ D.cpy)
  /\ D2.don <=> o = SetDon(c) \/ (o # ClearDon(c) /\ D.don)
  /\ \A e \in Exts :
       /\ \A v : o = Write(c, "bak", e, v) => D2.bak[e] = v
       /\ (\A v : o # Write(c, "bak", e, v))
            => D2.bak[e] = IF o = Copy(c, e) /\ r[e] # Absent THEN r[e] ELSE D.bak[e]

LEMMA DoneBackup ==
  ASSUME NEW o \in Operation, o.op \in {"file", "mark", "rename", "copy"},
         disk \in [Cats -> Files], NEW d \in [Cats -> Files], NEW c \in Cats
  PROVE  BackupEffect(o, c, disk[c].reg, d[c], Done(o, d)[c])
<1> DEFINE D == d[c]
           D2 == Done(o, d)[c]
           r == disk[c].reg
<1>1. D \in Files /\ D.bak \in [Exts -> Content] /\ D.cpy \in BOOLEAN /\ D.don \in BOOLEAN
  BY DEF Files
<1>2. CASE \E c1 \in Cats, set \in {"temp", "bak"}, e \in Exts, v \in Content : o = Write(c1, set, e, v)
  <2>1. PICK c1 \in Cats, set \in {"temp", "bak"}, e \in Exts, v \in Content : o = Write(c1, set, e, v)
    BY <1>2
  <2>2. Done(o, d) = [d EXCEPT ![c1][set][e] = v]
    BY <2>1 DEF Done, Write
  <2>3. /\ \A f : o # Copy(c, f)
        /\ o # SetCpy(c) /\ o # ClearCpy(c) /\ o # SetDon(c) /\ o # ClearDon(c)
        /\ \A f, u : o = Write(c, "bak", f, u) => c1 = c /\ set = "bak" /\ f = e /\ u = v
    BY <2>1 DEF Copy, SetCpy, ClearCpy, SetDon, ClearDon, Mark, Write
  <2>4. CASE c1 # c \/ set = "temp"
    <3>1. D2.cpy = D.cpy /\ D2.don = D.don /\ D2.bak = D.bak
      BY <1>1, <2>2, <2>4 DEF Files
    <3>2. \A f, u : o # Write(c, "bak", f, u)
      BY <2>3, <2>4
    <3> QED BY <2>3, <3>1, <3>2 DEF BackupEffect
  <2>5. CASE c1 = c /\ set = "bak"
    <3>1. D2.cpy = D.cpy /\ D2.don = D.don /\ D2.bak = [D.bak EXCEPT ![e] = v]
      BY <1>1, <2>2, <2>5 DEF Files
    <3>2. o = Write(c, "bak", e, v)
      BY <2>1, <2>5
    <3>3. D2.bak[e] = v /\ \A f \in Exts \ {e} : D2.bak[f] = D.bak[f]
      BY <1>1, <3>1
    <3>4. \A f \in Exts : /\ \A u : o = Write(c, "bak", f, u) => D2.bak[f] = u
                          /\ (\A u : o # Write(c, "bak", f, u)) => D2.bak[f] = D.bak[f]
      BY <2>3, <3>2, <3>3
    <3> QED BY <2>3, <3>1, <3>4 DEF BackupEffect
  <2> QED BY <2>4, <2>5
<1>3. CASE \E c1 \in Cats, taf \in {"upd", "cpy", "don"}, b \in BOOLEAN : o = Mark(c1, taf, b)
  <2>1. PICK c1 \in Cats, taf \in {"upd", "cpy", "don"}, b \in BOOLEAN : o = Mark(c1, taf, b)
    BY <1>3
  <2>2. Done(o, d) = [d EXCEPT ![c1][taf] = b]
    BY <2>1 DEF Done, Mark
  <2>3. /\ \A f : o # Copy(c, f) /\ \A u : o # Write(c, "bak", f, u)
        /\ o = SetCpy(c) <=> c1 = c /\ taf = "cpy" /\ b = TRUE
        /\ o = ClearCpy(c) <=> c1 = c /\ taf = "cpy" /\ b = FALSE
        /\ o = SetDon(c) <=> c1 = c /\ taf = "don" /\ b = TRUE
        /\ o = ClearDon(c) <=> c1 = c /\ taf = "don" /\ b = FALSE
    BY <2>1 DEF Copy, SetCpy, ClearCpy, SetDon, ClearDon, Mark, Write
  <2>4. D2.bak = D.bak
    BY <1>1, <2>2 DEF Files
  <2>5. D2.cpy = (IF c1 = c /\ taf = "cpy" THEN b ELSE D.cpy) /\ D2.don = IF c1 = c /\ taf = "don" THEN b ELSE D.don
    BY <1>1, <2>2 DEF Files
  <2>6. /\ D2.cpy <=> o = SetCpy(c) \/ (o # ClearCpy(c) /\ D.cpy)
        /\ D2.don <=> o = SetDon(c) \/ (o # ClearDon(c) /\ D.don)
    BY <2>3, <2>5
  <2> QED BY <2>3, <2>4, <2>6 DEF BackupEffect
<1>4. CASE \E c1 \in Cats, e \in Exts : o = Rename(c1, e)
  <2>1. PICK c1 \in Cats, e \in Exts : o = Rename(c1, e)
    BY <1>4
  <2>2. Done(o, d) = IF d[c1].temp[e] = Absent THEN d
                     ELSE [d EXCEPT ![c1].reg[e] = d[c1].temp[e], ![c1].temp[e] = Absent]
    BY <2>1 DEF Done, Rename
  <2>3. /\ \A f : o # Copy(c, f) /\ \A u : o # Write(c, "bak", f, u)
        /\ o # SetCpy(c) /\ o # ClearCpy(c) /\ o # SetDon(c) /\ o # ClearDon(c)
    BY <2>1 DEF Rename, Copy, SetCpy, ClearCpy, SetDon, ClearDon, Mark, Write
  <2>4. D2.cpy = D.cpy /\ D2.don = D.don /\ D2.bak = D.bak
    BY <1>1, <2>2 DEF Files
  <2> QED BY <2>3, <2>4 DEF BackupEffect
<1>5. CASE \E c1 \in Cats, e \in Exts : o = Copy(c1, e)
  <2>1. PICK c1 \in Cats, e \in Exts : o = Copy(c1, e)
    BY <1>5
  <2>2. Done(o, d) = IF disk[c1].reg[e] = Absent THEN d
                     ELSE [d EXCEPT ![c1].bak[e] = disk[c1].reg[e]]
    BY <2>1 DEF Done, Copy
  <2>3. /\ \A f : o = Copy(c, f) <=> c1 = c /\ f = e
        /\ \A f, u : o # Write(c, "bak", f, u)
        /\ o # SetCpy(c) /\ o # ClearCpy(c) /\ o # SetDon(c) /\ o # ClearDon(c)
    BY <2>1 DEF Copy, SetCpy, ClearCpy, SetDon, ClearDon, Mark, Write
  <2>4. D2.cpy = D.cpy /\ D2.don = D.don
    BY <1>1, <2>2 DEF Files
  <2>5. CASE c1 # c \/ r[e] = Absent
    <3>1. D2.bak = D.bak
      BY <1>1, <2>2, <2>5 DEF Files
    <3> QED BY <2>3, <2>4, <2>5, <3>1 DEF BackupEffect
  <2>6. CASE c1 = c /\ r[e] # Absent
    <3>1. D2.bak = [D.bak EXCEPT ![e] = r[e]]
      BY <1>1, <2>2, <2>6 DEF Files
    <3>2. D2.bak[e] = r[e] /\ \A f \in Exts \ {e} : D2.bak[f] = D.bak[f]
      BY <1>1, <3>1
    <3> QED BY <2>3, <2>4, <2>6, <3>2 DEF BackupEffect
  <2> QED BY <2>5, <2>6
<1> QED BY <1>2, <1>3, <1>4, <1>5, OperationKinds DEF Sync, Note
-----------------------------------------------------------------------------
(* The second inductive invariant, on top of the first: it holds whatever  *)
(* fails.                                                                  *)
Cuts(c) == {d[c] : d \in cuts}

Noted(c) ==
  /\ bakDone[c] = disk[c].don \/ Has(todo, Note(c))
  /\ session.stage # "start" /\ Has(todo, SetDon(c)) => ~disk[c].don /\ ~bakDone[c]

Orderly ==
  /\ Fine(todo)
  /\ disk \in cuts
  /\ bakDone \in [Cats -> BOOLEAN]
  /\ updateState \subseteq Cats \cup {"error"}
  /\ \A c \in Cats : MarkSafe(c, disk[c], Cuts(c), todo, session.stage = "feed") /\ Noted(c)

(* What the medium holds after an operation, and what may be left of it    *)
LEMMA CutsOf ==
  ASSUME NEW o, disk \in cuts, Perform(o)
  PROVE  /\ disk' \in cuts' /\ disk' = Done(o, disk)
         /\ \A x \in cuts' : x \in cuts \/ \E y \in cuts : x = Done(o, y)
BY DEF Perform

LEMMA CutsEffect ==
  ASSUME Types, NEW o \in Operation, o.op \in {"file", "mark", "rename", "copy"},
         disk \in cuts, Perform(o), NEW c \in Cats
  PROVE  /\ disk'[c] \in Cuts(c)'
         /\ Effect(o, c, disk[c], disk'[c]) /\ BackupEffect(o, c, disk[c].reg, disk[c], disk'[c])
         /\ \A x \in Cuts(c)' : x \in Cuts(c) \/ \E y \in Cuts(c) : /\ Effect(o, c, y, x)
                                                                    /\ BackupEffect(o, c, disk[c].reg, y, x)
<1>1. /\ disk' \in cuts' /\ disk' = Done(o, disk)
      /\ \A x \in cuts' : x \in cuts \/ \E y \in cuts : x = Done(o, y)
  BY CutsOf
<1>2. disk \in [Cats -> Files] /\ cuts \subseteq [Cats -> Files]
  BY DEF Types
<1>3. \A y \in [Cats -> Files] : /\ Effect(o, c, y[c], Done(o, y)[c])
                                 /\ BackupEffect(o, c, disk[c].reg, y[c], Done(o, y)[c])
  BY <1>2, DoneEffect, DoneBackup
<1>4. disk'[c] \in Cuts(c)'
  BY <1>1 DEF Cuts
<1>5. ASSUME NEW x \in Cuts(c)'
      PROVE  x \in Cuts(c) \/ \E y \in Cuts(c) : Effect(o, c, y, x) /\ BackupEffect(o, c, disk[c].reg, y, x)
  <2>1. PICK d \in cuts' : x = d[c]
    BY <1>5 DEF Cuts
  <2>2. CASE d \in cuts
    BY <2>1, <2>2 DEF Cuts
  <2>3. CASE \E y \in cuts : d = Done(o, y)
    <3>1. PICK y \in cuts : d = Done(o, y)
      BY <2>3
    <3>2. Effect(o, c, y[c], x) /\ BackupEffect(o, c, disk[c].reg, y[c], x)
      BY <1>2, <1>3, <2>1, <3>1
    <3>3. y[c] \in Cuts(c)
      BY DEF Cuts
    <3> QED BY <3>2, <3>3
  <2> QED BY <1>1, <2>2, <2>3
<1> QED BY <1>1, <1>2, <1>3, <1>4, <1>5

(* The look at the done marker is still to come after a marker is made.    *)
LEMMA NoteAhead ==
  ASSUME NEW td, NEW o, NEW td2, Fine(td), Advanced(td, o, td2), NEW c \in Cats,
         o \in {SetDon(c), ClearDon(c)}
  PROVE  Has(td2, Note(c))
<1>1. \A i \in 1 .. Len(td) : Leads(td[i], o, Sync, Note(c))
  BY DEF Fine, Saves
<1>2. Within(td2, Sync, Note(c))
  BY <1>1 DEF Advanced
<1> QED BY <1>2, BeforeIn DEF Within, Has

LEMMA NotedStep ==
  ASSUME Types, Fine(todo), ~Idle, UNCHANGED <<session, bakDone>>, todo' = Rest,
         NEW c \in Cats, Noted(c), Op # Note(c), BackupEffect(Op, c, disk[c].reg, disk[c], disk'[c]),
         disk[c].don \in BOOLEAN, disk'[c].don \in BOOLEAN
  PROVE  Noted(c)'
<1>1. Op \in Operation /\ Advanced(todo, Op, todo') /\ Removed(todo, Op, todo')
  BY OpTaken DEF Advanced
<1>2. SetDon(c) # ClearDon(c)
  BY DEF SetDon, ClearDon, Mark
<1>3. CASE Op \in {SetDon(c), ClearDon(c)}
  <2>1. Has(todo', Note(c))
    BY <1>1, <1>3, NoteAhead
  <2>2. ~Has(todo', SetDon(c)) \/ Op = ClearDon(c)
    BY <1>1, <1>3 DEF Removed, Fine, Sorted
  <2>3. Op = ClearDon(c) => ~disk'[c].don
    BY <1>2 DEF BackupEffect
  <2>4. Has(todo', SetDon(c)) => Has(todo, SetDon(c))
    BY <1>1 DEF Removed
  <2> QED BY <2>1, <2>2, <2>3, <2>4 DEF Noted
<1>4. CASE Op \notin {SetDon(c), ClearDon(c)}
  <2>1. disk'[c].don = disk[c].don
    BY <1>4 DEF BackupEffect
  <2>2. Has(todo, Note(c)) => Has(todo', Note(c))
    BY <1>1 DEF Removed
  <2>3. Has(todo', SetDon(c)) => Has(todo, SetDon(c))
    BY <1>1 DEF Removed
  <2> QED BY <2>1, <2>2, <2>3 DEF Noted
<1> QED BY <1>3, <1>4

LEMMA FileStepOrderly == ASSUME Inv, Inv', Orderly, FileStep PROVE Orderly'
<1>1. Types /\ Types' /\ ~Idle /\ Op.op \in {"file", "mark", "rename", "copy"} /\ Perform(Op) /\ todo' = Rest
      /\ UNCHANGED <<session, bakDone, updateState>>
  BY DEF Inv, FileStep, memory, history
<1>2. Fine(todo) /\ Op \in Operation /\ Fine(Rest) /\ Advanced(todo, Op, Rest)
  BY <1>1, OpTaken DEF Orderly
<1>3. disk \in cuts /\ disk' \in cuts'
  BY <1>1, CutsOf DEF Orderly
<1>4. ASSUME NEW c \in Cats
      PROVE  MarkSafe(c, disk'[c], Cuts(c)', todo', session'.stage = "feed") /\ Noted(c)'
  <2>1. /\ disk'[c] \in Cuts(c)'
        /\ Effect(Op, c, disk[c], disk'[c]) /\ BackupEffect(Op, c, disk[c].reg, disk[c], disk'[c])
        /\ \A x \in Cuts(c)' : x \in Cuts(c) \/ \E y \in Cuts(c) : Effect(Op, c, y, x)
    BY <1>1, <1>2, <1>3, CutsEffect
  <2>2. Op # Sync /\ Op # Note(c)
    BY <1>1 DEF Sync, Note
  <2>3. MarkSafe(c, disk[c], Cuts(c), todo, session.stage = "feed") /\ Noted(c)
    BY DEF Orderly
  <2>4. MarkSafe(c, disk'[c], Cuts(c)', Rest, session.stage = "feed")
    <3> DEFINE feed == session.stage = "feed"
               ds == Cuts(c)
               ds2 == Cuts(c)'
    <3>1. feed \in BOOLEAN
      OBVIOUS
    <3>2. MarkSafe(c, disk[c], ds, todo, feed)
      BY <2>3
    <3>3. disk'[c] \in ds2 /\ \A x \in ds2 : x \in ds \/ \E y \in ds : Effect(Op, c, y, x)
      BY <2>1
    <3> HIDE DEF feed, ds, ds2
    <3>4. MarkSafe(c, disk'[c], ds2, Rest, feed)
      BY <1>2, <2>1, <2>2, <3>1, <3>2, <3>3, MarkStep
    <3> QED BY <3>4 DEF feed, ds2
  <2>5. disk[c].don \in BOOLEAN /\ disk'[c].don \in BOOLEAN
    BY <1>1 DEF Types, Files
  <2>6. Noted(c)'
    BY <1>1, <1>2, <2>1, <2>2, <2>3, <2>5, NotedStep
  <2> QED BY <1>1, <2>4, <2>6
<1>5. bakDone' \in [Cats -> BOOLEAN] /\ updateState' \subseteq Cats \cup {"error"}
  BY <1>1 DEF Orderly
<1> QED BY <1>1, <1>2, <1>3, <1>4, <1>5 DEF Orderly

LEMMA SyncStepOrderly == ASSUME Inv, Inv', Orderly, SyncStep PROVE Orderly'
<1>1. Types /\ ~Idle /\ Op.op = "sync" /\ cuts' = {disk} /\ todo' = Rest
      /\ UNCHANGED <<disk, session, bakDone, updateState>>
  BY DEF Inv, SyncStep, memory, history
<1>2. Fine(todo) /\ Op \in Operation /\ Fine(Rest) /\ Advanced(todo, Op, Rest) /\ Removed(todo, Op, Rest)
  BY <1>1, OpTaken DEF Orderly, Advanced
<1>3. Op = Sync
  BY <1>1, <1>2, OperationKinds DEF Write, Mark, Rename, Copy, Note
<1>4. ASSUME NEW c \in Cats
      PROVE  MarkSafe(c, disk'[c], Cuts(c)', todo', session'.stage = "feed") /\ Noted(c)'
  <2>1. Cuts(c)' = {disk[c]} /\ disk'[c] = disk[c]
    BY <1>1 DEF Cuts
  <2>2. Effect(Op, c, disk[c], disk[c])
    BY <1>1, NoEffect
  <2>3. MarkSafe(c, disk[c], {disk[c]}, Rest, session.stage = "feed")
    <3> DEFINE feed == session.stage = "feed"
               ds == Cuts(c)
    <3>1. feed \in BOOLEAN /\ disk[c] \in ds
      BY DEF Orderly, MarkSafe
    <3>2. MarkSafe(c, disk[c], ds, todo, feed)
      BY DEF Orderly
    <3> HIDE DEF feed, ds
    <3>3. MarkSafe(c, disk[c], {disk[c]}, Rest, feed)
      BY <1>2, <1>3, <2>2, <3>1, <3>2, MarkStep
    <3> QED BY <3>3 DEF feed
  <2>4. Op # Note(c) /\ Op # SetDon(c)
    BY <1>3 DEF Sync, Note, SetDon, Mark
  <2>5. Noted(c)'
    BY <1>1, <1>2, <2>4 DEF Orderly, Noted, Removed
  <2> QED BY <1>1, <2>1, <2>3, <2>5
<1> QED BY <1>1, <1>2, <1>4 DEF Orderly

LEMMA NoteStepOrderly == ASSUME Inv, Inv', Orderly, NoteStep PROVE Orderly'
<1>1. Types /\ ~Idle /\ Op.op = "note" /\ todo' = Rest /\ bakDone' = [bakDone EXCEPT ![Op.cat] = disk[Op.cat].don]
      /\ UNCHANGED <<disk, cuts, session, updateState>>
  BY DEF Inv, NoteStep, history
<1>2. Fine(todo) /\ Op \in Operation /\ Fine(Rest) /\ Advanced(todo, Op, Rest) /\ Removed(todo, Op, Rest)
  BY <1>1, OpTaken DEF Orderly, Advanced
<1>3. PICK k \in Cats : Op = Note(k)
  BY <1>1, <1>2, OperationKinds DEF Write, Mark, Rename, Copy, Sync
<1>4. Op.cat = k /\ Op # Sync
  BY <1>3 DEF Note, Sync
<1>5. bakDone' \in [Cats -> BOOLEAN] /\ bakDone'[k] = disk[k].don /\ \A c \in Cats : c # k => bakDone'[c] = bakDone[c]
  BY <1>1, <1>4 DEF Orderly, Types, Files
<1>6. ASSUME NEW c \in Cats
      PROVE  MarkSafe(c, disk'[c], Cuts(c)', todo', session'.stage = "feed") /\ Noted(c)'
  <2>1. Cuts(c)' = Cuts(c)
    BY <1>1 DEF Cuts
  <2>2. Effect(Op, c, disk[c], disk[c])
    BY <1>1, NoEffect
  <2>3. MarkSafe(c, disk[c], Cuts(c), Rest, session.stage = "feed")
    <3> DEFINE feed == session.stage = "feed"
               ds == Cuts(c)
    <3>1. feed \in BOOLEAN /\ disk[c] \in ds
      BY DEF Orderly, MarkSafe
    <3>2. MarkSafe(c, disk[c], ds, todo, feed)
      BY DEF Orderly
    <3> HIDE DEF feed, ds
    <3>3. MarkSafe(c, disk[c], ds, Rest, feed)
      BY <1>2, <1>4, <2>2, <3>1, <3>2, MarkStep
    <3> QED BY <3>3 DEF feed, ds
  <2>4. Has(Rest, SetDon(c)) => Has(todo, SetDon(c))
    BY <1>2 DEF Removed
  <2>5. CASE c = k
    BY <1>1, <1>5, <2>1, <2>3, <2>4, <2>5 DEF Orderly, Noted
  <2>6. CASE c # k
    <3>1. Op # Note(c)
      BY <1>3, <2>6 DEF Note
    <3>2. Noted(c)'
      BY <1>1, <1>2, <1>5, <2>4, <2>6, <3>1 DEF Orderly, Noted, Removed
    <3> QED BY <1>1, <2>1, <2>3, <3>2
  <2> QED BY <2>5, <2>6
<1> QED BY <1>1, <1>2, <1>5, <1>6 DEF Orderly

(* A write that fails *)
LEMMA FaultHurts ==
  ASSUME Types, Orderly, WriteFault, NEW c \in Cats
  PROVE  /\ Fallible(Op)
         /\ disk'[c] \in Cuts(c)' /\ Hurt(c, Op, disk[c], disk'[c]) /\ disk'[c].don = disk[c].don
         /\ \A x \in Cuts(c)' : x \in Cuts(c) \/ \E y \in Cuts(c) : Hurt(c, Op, y, x)
<1>1. ~Idle /\ Fine(todo) /\ disk \in cuts
  BY DEF WriteFault, Orderly
<1>2. Op \in Operation
  BY <1>1, OpTaken
<1>3. Broken \in Content /\ Broken # Absent
  BY DEF Content, Broken, Absent
<1>4. disk[c] \in Files /\ disk[c].don \in BOOLEAN
  BY DEF Types, Files
<1>5. ASSUME NEW k \in Cats, NEW set \in {"temp", "bak"}, NEW e \in Exts,
             Perform(Write(k, set, e, Broken)),
             set = "temp" => \E v \in Content \ {Absent} : Op = Write(k, "temp", e, v)
      PROVE  /\ disk'[c] \in Cuts(c)' /\ Hurt(c, Op, disk[c], disk'[c]) /\ disk'[c].don = disk[c].don
             /\ \A x \in Cuts(c)' : x \in Cuts(c) \/ \E y \in Cuts(c) : Hurt(c, Op, y, x)
  <2> DEFINE o == Write(k, set, e, Broken)
  <2>1. o \in Operation /\ o.op = "file"
    <3>1. o \in {Write(c1, s1, e1, v1) : c1 \in Cats, s1 \in {"temp", "bak"}, e1 \in Exts, v1 \in Content}
      BY <1>3
    <3>2. o \in Operation
      BY <3>1 DEF Operation
    <3>3. o.op = "file"
      BY DEF Write
    <3> QED BY <3>2, <3>3
  <2>2. /\ o # SetUpd(c) /\ o # ClearUpd(c) /\ o # SetDon(c) /\ o # ClearDon(c) /\ \A f : o # Rename(c, f)
        /\ \A f, v : o = Write(c, "temp", f, v) => k = c /\ set = "temp" /\ f = e
    BY DEF SetUpd, ClearUpd, SetDon, ClearDon, Mark, Rename, Write
  <2>3. Perform(o)
    BY <1>5
  <2> HIDE DEF o
  <2>4. /\ disk'[c] \in Cuts(c)'
        /\ Effect(o, c, disk[c], disk'[c]) /\ BackupEffect(o, c, disk[c].reg, disk[c], disk'[c])
        /\ \A x \in Cuts(c)' : x \in Cuts(c) \/ \E y \in Cuts(c) : Effect(o, c, y, x)
    BY <1>1, <2>1, <2>3, CutsEffect
  <2>5. disk'[c].don = disk[c].don
    <3>1. disk'[c].don <=> disk[c].don
      BY <2>2, <2>4 DEF BackupEffect
    <3>2. disk'[c].don \in BOOLEAN
      <4>1. disk' \in [Cats -> Files]
        BY <2>1, <2>3, PerformType
      <4> QED BY <4>1 DEF Files
    <3> QED BY <1>4, <3>1, <3>2
  <2>6. ASSUME NEW x \in Files, NEW y \in Files, Effect(o, c, y, x) PROVE Hurt(c, Op, y, x)
    <3>1. x.upd = y.upd
      BY <2>2, <2>6 DEF Effect, Files
    <3>2. CASE k = c /\ set = "temp"
      BY <1>5, <3>1, <3>2 DEF Hurt
    <3>3. CASE ~(k = c /\ set = "temp")
      BY <2>2, <2>6, <3>1, <3>3 DEF Hurt, Effect
    <3> QED BY <3>2, <3>3
  <2>7. Cuts(c) \subseteq Files /\ Cuts(c)' \subseteq Files /\ disk[c] \in Files /\ disk'[c] \in Files
    <3>1. disk' \in [Cats -> Files] /\ cuts' \subseteq [Cats -> Files]
      BY <2>1, <2>3, PerformType
    <3> QED BY <3>1 DEF Types, Cuts
  <2> QED BY <2>4, <2>5, <2>6, <2>7
<1>6. CASE Op.op = "file" /\ Op.val # Absent /\ Perform([Op EXCEPT !.val = Broken])
  <2>1. \E k \in Cats, set \in {"temp", "bak"}, e \in Exts, v \in Content : Op = Write(k, set, e, v)
    BY <1>2, <1>6, OperationKinds DEF Mark, Rename, Copy, Sync, Note
  <2>2. PICK k \in Cats, set \in {"temp", "bak"}, e \in Exts, v \in Content : Op = Write(k, set, e, v)
    BY <2>1
  <2>3. [Op EXCEPT !.val = Broken] = Write(k, set, e, Broken) /\ v # Absent
    BY <1>6, <2>2 DEF Write
  <2>4. Fallible(Op)
    BY <1>6 DEF Fallible
  <2> QED BY <1>5, <1>6, <2>2, <2>3, <2>4
<1>7. CASE Op.op = "copy" /\ Perform(Write(Op.cat, "bak", Op.ext, Broken))
  <2>1. \E k \in Cats, e \in Exts : Op = Copy(k, e)
    BY <1>2, <1>7, OperationKinds DEF Mark, Rename, Write, Sync, Note
  <2>2. PICK k \in Cats, e \in Exts : Op = Copy(k, e)
    BY <2>1
  <2>3. Op.cat = k /\ Op.ext = e
    BY <2>2 DEF Copy
  <2>4. Fallible(Op)
    BY <1>7 DEF Fallible
  <2>5. "bak" \in {"temp", "bak"} /\ "bak" # "temp" /\ Perform(Write(k, "bak", e, Broken))
    BY <1>7, <2>3
  <2> QED BY <1>5, <2>4, <2>5
<1>8. CASE Op.op = "mark" /\ Op.val = TRUE /\ UNCHANGED <<disk, cuts>>
  <2>1. Fallible(Op)
    BY <1>8 DEF Fallible
  <2>2. Cuts(c)' = Cuts(c) /\ disk[c] \in Cuts(c)
    BY <1>1, <1>8 DEF Cuts
  <2> QED BY <1>8, <2>1, <2>2 DEF Hurt
<1> QED BY <1>6, <1>7, <1>8 DEF WriteFault

LEMMA WriteFaultOrderly == ASSUME Inv, Inv', Orderly, WriteFault PROVE Orderly'
<1>1. Types /\ ~Idle /\ session.stage # "start" /\ todo' = Tail(todo) /\ UNCHANGED <<session, bakDone>>
  BY DEF Inv, WriteFault, history
<1>2. Fine(todo) /\ Fine(Tail(todo)) /\ Op \in Operation
  BY <1>1, ProcedureEnded, OpTaken DEF Orderly
<1>3. ASSUME NEW c \in Cats
      PROVE  MarkSafe(c, disk'[c], Cuts(c)', todo', session'.stage = "feed") /\ Noted(c)'
  <2>1. /\ Fallible(Op)
        /\ disk'[c] \in Cuts(c)' /\ Hurt(c, Op, disk[c], disk'[c]) /\ disk'[c].don = disk[c].don
        /\ \A x \in Cuts(c)' : x \in Cuts(c) \/ \E y \in Cuts(c) : Hurt(c, Op, y, x)
    BY <1>1, FaultHurts
  <2>2. MarkSafe(c, disk'[c], Cuts(c)', Tail(todo), session.stage = "feed")
    <3> DEFINE feed == session.stage = "feed"
               ds == Cuts(c)
               ds2 == Cuts(c)'
    <3>1. feed \in BOOLEAN
      OBVIOUS
    <3>2. MarkSafe(c, disk[c], ds, todo, feed)
      BY DEF Orderly
    <3>3. disk'[c] \in ds2 /\ \A x \in ds2 : x \in ds \/ \E y \in ds : Hurt(c, Op, y, x)
      BY <2>1
    <3> HIDE DEF feed, ds, ds2
    <3>4. MarkSafe(c, disk'[c], ds2, Tail(todo), feed)
      BY <1>1, <1>2, <2>1, <3>1, <3>2, <3>3, MarkFault
    <3> QED BY <3>4 DEF feed, ds2
  <2>3. Noted(c)'
    <3> DEFINE h == Head(todo)
    <3>1. /\ In(h, Op) /\ Saves(c, h)
          /\ \A o : Has(todo, o) <=> In(h, o) \/ Has(Tail(todo), o)
      BY <1>1, <1>2, ProcedureEnded
    <3> HIDE DEF h
    <3>2. CASE In(h, Note(c))
      <4>1. Guarded(c, h)
        BY <3>1, <3>2 DEF Saves
      <4>2. In(h, SetDon(c))
        BY <2>1, <3>1, <4>1 DEF In, Guarded
      <4>3. ~disk[c].don /\ ~bakDone[c]
        BY <1>1, <3>1, <4>2 DEF Orderly, Noted
      <4>4. disk[c].don \in BOOLEAN /\ bakDone[c] \in BOOLEAN
        BY <1>1 DEF Types, Files, Orderly
      <4> QED BY <1>1, <2>1, <4>3, <4>4 DEF Noted
    <3>3. CASE ~In(h, Note(c))
      BY <1>1, <2>1, <3>1, <3>3 DEF Orderly, Noted
    <3> QED BY <3>2, <3>3
  <2> QED BY <1>1, <2>2, <2>3
<1>4. disk' \in cuts'
  BY CutsOf DEF Orderly, WriteFault
<1>5. updateState' \subseteq Cats \cup {"error"}
  BY DEF WriteFault, Orderly
<1> QED BY <1>1, <1>2, <1>3, <1>4, <1>5 DEF Orderly

(* When nothing is to be done *)
LEMMA IdleMark ==
  ASSUME NEW c \in Cats, NEW D, NEW ds, NEW feed, MarkSafe(c, D, ds, <<>>, feed)
  PROVE  /\ D \in ds /\ ~D.upd /\ \A d \in ds : d.upd => Bare(d)
         /\ feed => \A d \in ds : ~d.upd
<1>1. /\ \A o : ~Has(<<>>, o)
      /\ ~Settles(<<>>) /\ ~Within(<<>>, Sync, ClearUpd(c))
  BY NoProcedure, FineNone
<1> QED BY <1>1 DEF MarkSafe

LEMMA RestMark ==
  ASSUME NEW c \in Cats, NEW D, NEW ds, NEW td, NEW feed \in BOOLEAN,
         D \in ds, ~D.upd, \A d \in ds : d.upd => Bare(d), ~Updates(td, c),
         feed => /\ Settles(td) \/ \A d \in ds : ~d.upd
                 /\ \A e \in Exts, v \in Content \ {Absent} : ~Follows(td, Write(c, "temp", e, v), Sync),
         ~feed => \A e \in Exts, v \in Content \ {Absent} : ~Has(td, Write(c, "temp", e, v))
  PROVE  MarkSafe(c, D, ds, td, feed)
BY DEF MarkSafe, Updates

(* Procedures called when the done marker is known *)
LEMMA NotedCall ==
  ASSUME Orderly, todo = <<>>, UNCHANGED <<disk, bakDone>>, NEW V, NEW r, BakPlan(todo', V, r), NEW c \in Cats,
         c \in V => ~bakDone[c]
  PROVE  Noted(c)'
<1>1. bakDone[c] = disk[c].don
  BY NoProcedure DEF Orderly, Noted
<1>2. Has(todo', SetDon(c)) => c \in V
  <2>1. SetDon(c) # Note(c)
    BY DEF SetDon, Note, Mark
  <2> QED BY <2>1 DEF BakPlan, BackupOf
<1> QED BY <1>1, <1>2 DEF Noted

LEMMA RespondOrderly ==
  ASSUME Inv, Inv', Orderly, NEW offer \in Offers, NEW usingReg \in BOOLEAN, Respond(offer, usingReg)
  PROVE  Orderly'
<1>1. Types /\ todo = <<>> /\ count.sessions < MaxSessions
      /\ UNCHANGED <<disk, cuts, bakDone>> /\ updateState' = WithUri(offer) /\ session'.stage = "feed"
  BY DEF Inv, Respond, Idle
<1>2. offer \in [Cats -> SUBSET {"uri", "cred"}]
  BY ConfAssumption
<1> DEFINE V == IF usingReg /\ ~bakDone["cups"] THEN {"cups"} ELSE {}
<1>3. todo' = (IF usingReg THEN BackupOnce("cups") ELSE <<>>) \o <<Reset>> \o SaveUris(offer)
  BY DEF Respond
<1>4. /\ BakPlan(todo', V, FALSE) /\ Settles(todo')
      /\ \A c \in Cats, e \in Exts, v \in Content \ {Absent} : ~Follows(todo', Write(c, "temp", e, v), Sync)
  BY <1>1, <1>2, <1>3, BakPlanRespond
<1>5. \A c \in Cats : ~Updates(todo', c)
  BY <1>1, <1>2, <1>3, RespondPlan DEF Updates
<1>6. \A c \in V : ~bakDone[c]
  OBVIOUS
<1> HIDE DEF V
<1>7. ASSUME NEW c \in Cats
      PROVE  MarkSafe(c, disk'[c], Cuts(c)', todo', session'.stage = "feed") /\ Noted(c)'
  <2>1. /\ disk[c] \in Cuts(c) /\ ~disk[c].upd /\ \A d \in Cuts(c) : d.upd => Bare(d)
    BY <1>1, IdleMark DEF Orderly
  <2>2. MarkSafe(c, disk[c], Cuts(c), todo', TRUE)
    <3> DEFINE feed == TRUE
    <3>1. feed \in BOOLEAN /\ feed
      OBVIOUS
    <3> HIDE DEF feed
    <3>2. MarkSafe(c, disk[c], Cuts(c), todo', feed)
      BY <1>4, <1>5, <2>1, <3>1, RestMark
    <3> QED BY <3>2 DEF feed
  <2>3. Cuts(c)' = Cuts(c)
    BY <1>1 DEF Cuts
  <2>4. Noted(c)'
    BY <1>1, <1>4, <1>6, NotedCall
  <2> QED BY <1>1, <2>2, <2>3, <2>4
<1>8. updateState' \subseteq Cats \cup {"error"}
  BY <1>1 DEF WithUri
<1> QED BY <1>1, <1>4, <1>7, <1>8 DEF Orderly, BakPlan

(* A procedure that is no update, while the station is idle or fed *)
LEMMA QuietOrderly ==
  ASSUME Orderly, todo = <<>>, UNCHANGED <<disk, cuts, bakDone, session, updateState>>,
         NEW V, NEW r, BakPlan(todo', V, r), \A c \in V : ~bakDone[c], \A o : Has(todo', o) => Quiet(o)
  PROVE  Orderly'
<1>1. ASSUME NEW c \in Cats
      PROVE  MarkSafe(c, disk'[c], Cuts(c)', todo', session'.stage = "feed") /\ Noted(c)'
  <2> DEFINE feed == session.stage = "feed"
  <2>1. feed \in BOOLEAN
    OBVIOUS
  <2>2. MarkSafe(c, disk[c], Cuts(c), <<>>, feed)
    BY DEF Orderly
  <2> HIDE DEF feed
  <2>3. /\ disk[c] \in Cuts(c) /\ ~disk[c].upd /\ \A d \in Cuts(c) : d.upd => Bare(d)
        /\ feed => \A d \in Cuts(c) : ~d.upd
    BY <2>2, IdleMark
  <2>4. ~Updates(todo', c) /\ \A e \in Exts, v \in Content \ {Absent} : ~Has(todo', Write(c, "temp", e, v))
    BY DEF Quiet, Updates
  <2>5. MarkSafe(c, disk[c], Cuts(c), todo', feed)
    BY <2>1, <2>3, <2>4, FollowsHas, RestMark
  <2>6. Cuts(c)' = Cuts(c)
    BY DEF Cuts
  <2>7. Noted(c)'
    BY NotedCall
  <2> QED BY <2>5, <2>6, <2>7 DEF feed
<1> QED BY <1>1 DEF Orderly, BakPlan

LEMMA BackupOrderly == ASSUME Inv, Inv', Orderly, Malformed \/ MuxsConnected PROVE Orderly'
<1>1. PICK c \in Cats : todo' = BackupOnce(c)
  BY DEF Malformed, MuxsConnected, Cats
<1>2. todo = <<>> /\ UNCHANGED <<disk, cuts, bakDone, session, updateState>>
  BY DEF Malformed, MuxsConnected, Idle, memory
<1> DEFINE V == IF bakDone[c] THEN {} ELSE {c}
<1>3. BakPlan(todo', V, FALSE) /\ (\A o : Has(todo', o) => Quiet(o)) /\ \A k \in V : ~bakDone[k]
  BY <1>1, BakPlanOnce
<1> HIDE DEF V
<1> QED BY <1>2, <1>3, QuietOrderly

LEMMA CredentialOrderly ==
  ASSUME Inv, Inv', Orderly, NEW k \in Cats, NEW parsed \in BOOLEAN, Credential(k, parsed)
  PROVE  Orderly'
<1> DEFINE p == ForExts(CredExts, LAMBDA e : Write(k, "temp", e, count.sessions))
<1>1. Types /\ todo = <<>> /\ session.stage = "feed" /\ UNCHANGED <<disk, cuts, bakDone>>
      /\ todo' = (IF parsed THEN <<p>> ELSE <<>>) /\ updateState' = updateState \cup {k}
      /\ session' = [session EXCEPT !.pending = @ \ {k}, !.fed = IF parsed THEN @ \cup {k} ELSE @]
  BY DEF Inv, Credential, Idle, history
<1>2. count.sessions \in Content /\ session'.stage = "feed"
  BY <1>1 DEF Types, Content
<1>3. p \in Procedure /\ \A o : In(p, o) <=> \E e \in CredExts : o = Write(k, "temp", e, count.sessions)
  BY <1>2, CredWrites
<1>4. \A o : In(p, o) => \E c \in Cats, e \in Exts, v \in Content : o = Write(c, "temp", e, v)
  BY <1>2, <1>3 DEF Exts
<1> HIDE DEF p
<1>5. BakPlan(<<p>>, {}, FALSE) /\ ~Has(<<p>>, Sync)
      /\ \A c \in Cats : ~Has(<<p>>, SetUpd(c)) /\ \A e \in Exts : ~Has(<<p>>, Rename(c, e))
  BY <1>3, <1>4, BakPlanFeed
<1>6. BakPlan(todo', {}, FALSE) /\ ~Has(todo', Sync) /\ \A c \in Cats : ~Updates(todo', c)
  BY <1>1, <1>5, BakPlanNone, NoProcedure DEF Updates
<1>7. ASSUME NEW c \in Cats
      PROVE  MarkSafe(c, disk'[c], Cuts(c)', todo', session'.stage = "feed") /\ Noted(c)'
  <2> DEFINE feed == TRUE
  <2>1. MarkSafe(c, disk[c], Cuts(c), <<>>, feed) /\ feed \in BOOLEAN
    BY <1>1 DEF Orderly
  <2>2. disk[c] \in Cuts(c) /\ ~disk[c].upd /\ \A d \in Cuts(c) : ~d.upd
    BY <2>1, IdleMark
  <2>3. \A e \in Exts, v \in Content \ {Absent} : ~Follows(todo', Write(c, "temp", e, v), Sync)
    BY <1>6, FollowsHas
  <2>4. feed
    OBVIOUS
  <2> HIDE DEF feed
  <2>5. MarkSafe(c, disk[c], Cuts(c), todo', feed)
    BY <1>6, <2>1, <2>2, <2>3, <2>4, RestMark
  <2>6. Cuts(c)' = Cuts(c)
    BY <1>1 DEF Cuts
  <2>7. Noted(c)'
    <3> DEFINE V == {}
               r == FALSE
    <3>1. BakPlan(todo', V, r) /\ (c \in V => ~bakDone[c])
      BY <1>6
    <3> HIDE DEF V, r
    <3> QED BY <1>1, <3>1, NotedCall
  <2> QED BY <1>1, <1>2, <2>5, <2>6, <2>7 DEF feed
<1>8. updateState' \subseteq Cats \cup {"error"}
  BY <1>1 DEF Orderly
<1> QED BY <1>1, <1>6, <1>7, <1>8 DEF Orderly, BakPlan

(* sys_commitConfigUpdate: no marker was left by an earlier update. *)
LEMMA CommitOrderly == ASSUME Inv, Inv', Orderly, Commit PROVE Orderly'
<1>1. Types /\ todo = <<>> /\ session.stage = "feed" /\ session'.stage # "feed" /\ UNCHANGED <<disk, cuts, bakDone>>
  BY DEF Inv, Commit, Idle, NoSession
<1> DEFINE U == IF "error" \in updateState THEN {} ELSE updateState \cap Cats
<1>2. BakPlan(todo', {}, FALSE) /\ PlanOf(todo', U, FALSE)
  <2>1. CASE "error" \in updateState
    <3>1. todo' = <<>> /\ U = {}
      BY <1>1, <2>1 DEF Commit
    <3> QED BY <3>1, BakPlanNone, PlanNothing
  <2>2. CASE "error" \notin updateState
    <3>1. U = updateState \cap Cats
      BY <2>2
    <3> HIDE DEF U
    <3>2. todo' = (IF "cups" \in updateState THEN <<Update("cups", FALSE)>> ELSE <<>>)
                  \o (IF "tc" \in updateState THEN <<Update("tc", FALSE)>> ELSE <<>>)
      BY <2>2 DEF Commit
    <3> QED BY <3>1, <3>2, BakPlanCommit, PlanCommit
  <2> QED BY <2>1, <2>2
<1> HIDE DEF U
<1>3. ASSUME NEW c \in Cats
      PROVE  MarkSafe(c, disk'[c], Cuts(c)', todo', session'.stage = "feed") /\ Noted(c)'
  <2> DEFINE yes == TRUE
             no == FALSE
  <2>1. MarkSafe(c, disk[c], Cuts(c), <<>>, yes) /\ yes
    BY <1>1 DEF Orderly
  <2> HIDE DEF yes
  <2>2. disk[c] \in Cuts(c) /\ ~disk[c].upd /\ \A d \in Cuts(c) : ~d.upd
    BY <2>1, IdleMark
  <2>3. /\ Has(todo', SetUpd(c)) => \A e \in Exts : Has(todo', Rename(c, e))
        /\ \A e \in Exts, v \in Content : ~Has(todo', Write(c, "temp", e, v))
    BY <1>2 DEF PlanOf
  <2>4. MarkSafe(c, disk[c], Cuts(c), todo', no)
    BY <2>2, <2>3 DEF MarkSafe
  <2>5. Cuts(c)' = Cuts(c)
    BY <1>1 DEF Cuts
  <2>6. Noted(c)'
    <3> DEFINE V == {}
               r == FALSE
    <3>1. BakPlan(todo', V, r) /\ (c \in V => ~bakDone[c])
      BY <1>2
    <3> HIDE DEF V, r
    <3> QED BY <1>1, <3>1, NotedCall
  <2> QED BY <1>1, <2>4, <2>5, <2>6
<1>4. updateState' \subseteq Cats \cup {"error"}
  BY DEF Orderly, Commit
<1> QED BY <1>1, <1>2, <1>3, <1>4 DEF Orderly, BakPlan

(* The station starts from files d: what they mark is to be done first.    *)
LEMMA RestartOrderly ==
  ASSUME Inv, Inv', Orderly, NEW d \in [Cats -> Files], Restart(d)
  PROVE  Orderly'
<1>1. /\ disk' = d /\ cuts' = {d} /\ todo' = RollForward(d) /\ session'.stage = "start"
      /\ bakDone' = [c \in Cats |-> FALSE] /\ updateState' = {}
  BY DEF Restart, NoSession
<1> DEFINE U == {c \in Cats : d[c].upd}
           V == {c \in Cats : d[c].cpy}
<1>2. PlanOf(todo', U, TRUE) /\ BakPlan(todo', V, TRUE) /\ \A c \in Cats : Has(todo', Note(c))
  BY <1>1, PlanRollForward, BakPlanRollForward
<1>3. ASSUME NEW c \in Cats
      PROVE  MarkSafe(c, disk'[c], Cuts(c)', todo', session'.stage = "feed") /\ Noted(c)'
  <2>1. Cuts(c)' = {d[c]} /\ disk'[c] = d[c]
    BY <1>1 DEF Cuts
  <2>2. d[c].upd => c \in U
    OBVIOUS
  <2> HIDE DEF U
  <2>3. d[c].upd => Has(todo', ClearUpd(c)) /\ \A e \in Exts : Has(todo', Rename(c, e))
    BY <1>2, <2>2 DEF PlanOf
  <2>4. d[c].upd => Within(todo', Sync, ClearUpd(c))
    <3>1. d[c].upd => Updates(todo', c)
      BY <2>3, ExtsFinite DEF Updates
    <3> QED BY <1>2, <3>1, UpdateAhead DEF BakPlan
  <2>5. ~Has(todo', SetUpd(c)) /\ \A e \in Exts, v \in Content : ~Has(todo', Write(c, "temp", e, v))
    BY <1>2 DEF PlanOf
  <2> DEFINE no == FALSE
  <2>6. MarkSafe(c, d[c], {d[c]}, todo', no)
    BY <2>3, <2>4, <2>5 DEF MarkSafe, Covered
  <2>7. Noted(c)'
    BY <1>1, <1>2 DEF Noted
  <2> QED BY <1>1, <2>1, <2>6, <2>7
<1>4. bakDone' \in [Cats -> BOOLEAN] /\ updateState' \subseteq Cats \cup {"error"} /\ disk' \in cuts'
  BY <1>1
<1> QED BY <1>2, <1>3, <1>4 DEF Orderly, BakPlan

LEMMA EndOrderly == ASSUME Inv, Inv', Orderly, Break \/ Started PROVE Orderly'
<1>1. todo = <<>> /\ session'.stage # "feed" /\ UNCHANGED <<disk, cuts, todo, bakDone, updateState>>
  BY DEF Break, Started, Idle, NoSession
<1>2. ASSUME NEW c \in Cats
      PROVE  MarkSafe(c, disk'[c], Cuts(c)', todo', session'.stage = "feed") /\ Noted(c)'
  <2> DEFINE feed == session.stage = "feed"
             no == FALSE
  <2>1. MarkSafe(c, disk[c], Cuts(c), <<>>, feed)
    BY <1>1 DEF Orderly
  <2> HIDE DEF feed
  <2>2. disk[c] \in Cuts(c) /\ ~disk[c].upd /\ \A d \in Cuts(c) : d.upd => Bare(d)
    BY <2>1, IdleMark
  <2>3. \A o : ~Has(<<>>, o)
    BY NoProcedure
  <2>4. MarkSafe(c, disk[c], Cuts(c), <<>>, no)
    BY <2>2, <2>3 DEF MarkSafe
  <2>5. Cuts(c)' = Cuts(c)
    BY <1>1 DEF Cuts
  <2>6. Noted(c)'
    BY <1>1, <2>3 DEF Orderly, Noted
  <2> QED BY <1>1, <2>4, <2>5, <2>6
<1> QED BY <1>1, <1>2 DEF Orderly

LEMMA NextOrderly == ASSUME Inv, Inv', Orderly, [Next]_vars PROVE Orderly'
<1>1. CASE FileStep \/ SyncStep \/ NoteStep \/ WriteFault
  BY <1>1, FileStepOrderly, SyncStepOrderly, NoteStepOrderly, WriteFaultOrderly
<1>2. CASE \E offer \in Offers, usingReg \in BOOLEAN : Respond(offer, usingReg)
  BY <1>2, RespondOrderly
<1>3. CASE Malformed \/ MuxsConnected
  BY <1>3, BackupOrderly
<1>4. CASE \E c \in Cats, parsed \in BOOLEAN : Credential(c, parsed)
  BY <1>4, CredentialOrderly
<1>5. CASE Commit
  BY <1>5, CommitOrderly
<1>6. CASE Break \/ Started
  BY <1>6, EndOrderly
<1>7. CASE Crash \/ PowerFailure
  <2>1. PICK d \in [Cats -> Files] : Restart(d)
    BY <1>7 DEF Crash, PowerFailure, Inv, Types
  <2> QED BY <2>1, RestartOrderly
<1>8. CASE TcStart \/ TcConnectMuxs \/ UNCHANGED vars
  <2>1. UNCHANGED <<disk, cuts, todo, bakDone, updateState, session>>
    BY <1>8 DEF TcStart, TcConnectMuxs, vars
  <2>2. \A c \in Cats : Cuts(c)' = Cuts(c) /\ (Noted(c)' <=> Noted(c))
    BY <2>1 DEF Cuts, Noted
  <2> QED BY <2>1, <2>2 DEF Orderly
<1> QED BY <1>1, <1>2, <1>3, <1>4, <1>5, <1>6, <1>7, <1>8 DEF Next

LEMMA InitOrderly == ASSUME Init PROVE Orderly
<1>1. todo = <<>> /\ cuts = {disk} /\ session.stage # "feed" /\ updateState = {} /\ bakDone = [c \in Cats |-> FALSE]
  BY DEF Init, NoSession
<1>2. ASSUME NEW c \in Cats PROVE MarkSafe(c, disk[c], Cuts(c), todo, session.stage = "feed") /\ Noted(c)
  <2>1. Cuts(c) = {disk[c]} /\ ~disk[c].upd /\ disk[c].don = FALSE
    <3> DEFINE z == [e \in Exts |-> 0]
    <3>1. disk[c] = [reg |-> z, bak |-> NoFiles, temp |-> NoFiles, upd |-> FALSE, cpy |-> FALSE, don |-> FALSE]
      BY DEF Init
    <3> HIDE DEF z
    <3>2. ~disk[c].upd /\ disk[c].don = FALSE
      BY <3>1
    <3>3. Cuts(c) = {disk[c]}
      BY <1>1 DEF Cuts
    <3> QED
      BY <3>2, <3>3
  <2>2. \A o : ~Has(<<>>, o)
    BY NoProcedure
  <2> DEFINE no == FALSE
  <2>3. MarkSafe(c, disk[c], Cuts(c), <<>>, no)
    BY <2>1, <2>2 DEF MarkSafe
  <2>4. Noted(c)
    BY <1>1, <2>1, <2>2 DEF Noted
  <2> QED BY <1>1, <2>3, <2>4
<1>3. disk \in cuts /\ bakDone \in [Cats -> BOOLEAN] /\ updateState \subseteq Cats \cup {"error"}
  BY <1>1
<1> QED BY <1>1, <1>2, <1>3, FineNone DEF Orderly

-----------------------------------------------------------------------------
(* The third inductive invariant: what TC has read is what is in force and *)
(* about to stay in force, unless an update was committed since then.      *)
Fresh ==
  /\ dial.stage # "off" /\ dial.latest =>
       dial.set = disk["tc"].reg /\ \A e \in Exts : ~Has(todo, Rename("tc", e))
  /\ \A c \in Cats : proven[c].latest => proven[c].set = ordered[c]

Dialled ==
  /\ dial \in Dial
  /\ ordered \in [Cats -> [Exts -> Content]] /\ proven \in [Cats -> Proof]
  /\ count.faults = 0 => Fresh

LEMMA TcCat == "tc" \in Cats /\ "cups" \in Cats
BY DEF Cats

LEMMA TcSet == ASSUME Types PROVE disk["tc"].reg \in [Exts -> Content]
BY TcCat DEF Types, Files

(* Nothing about TC changes, its regular set only by renames to be done. *)
LEMMA DialKept ==
  ASSUME Dialled, UNCHANGED <<dial, ordered, proven>>, count'.faults = count.faults,
         (\A e \in Exts : ~Has(todo, Rename("tc", e)))
           => disk'["tc"].reg = disk["tc"].reg /\ \A e \in Exts : ~Has(todo', Rename("tc", e))
  PROVE  Dialled'
<1>1. Fresh => Fresh'
  BY DEF Fresh
<1> QED BY <1>1 DEF Dialled

LEMMA StepDialled == ASSUME Inv, Inv', Dialled, FileStep \/ SyncStep \/ NoteStep PROVE Dialled'
<1>1. /\ Types /\ Types' /\ ~Idle /\ todo' = Rest /\ UNCHANGED <<dial, ordered, proven, count>>
  BY DEF Inv, FileStep, SyncStep, NoteStep, memory, history
<1>2. Op \in Operation /\ Removed(todo, Op, Rest)
  BY <1>1, OpIsOperation
<1>3. Effect(Op, "tc", disk["tc"], disk'["tc"])
  <2>1. CASE FileStep
    <3>1. Op.op \in {"file", "mark", "rename", "copy"} /\ disk' = Done(Op, disk)
      BY <2>1 DEF FileStep, Perform
    <3>2. disk \in [Cats -> Files]
      BY <1>1 DEF Types
    <3> QED BY <1>2, <3>1, <3>2, TcCat, DoneEffect
  <2>2. CASE SyncStep \/ NoteStep
    <3>1. Op.op \in {"sync", "note"} /\ disk' = disk
      BY <2>2 DEF SyncStep, NoteStep
    <3> QED BY <3>1, NoEffect
  <2> QED BY <2>1, <2>2
<1>4. ASSUME \A e \in Exts : ~Has(todo, Rename("tc", e))
      PROVE  disk'["tc"].reg = disk["tc"].reg /\ \A e \in Exts : ~Has(todo', Rename("tc", e))
  <2>1. \A e \in Exts : Op # Rename("tc", e) /\ ~Has(todo', Rename("tc", e))
    BY <1>1, <1>2, <1>4 DEF Removed
  <2>2. \A e \in Exts : disk'["tc"].reg[e] = disk["tc"].reg[e]
    BY <1>3, <2>1 DEF Effect
  <2>3. disk["tc"].reg \in [Exts -> Content] /\ disk'["tc"].reg \in [Exts -> Content]
    BY <1>1, TcCat DEF Types, Files
  <2> QED BY <2>1, <2>2, <2>3
<1> QED BY <1>1, <1>4, DialKept

(* sys_backupConfig for a set that worked *)
LEMMA Called ==
  ASSUME Types, Dialled, NEW c \in Cats, NEW p \in Proof, CallBackup(c, p),
         count.faults = 0 /\ p.latest => p.set = disk[c].reg
  PROVE  /\ ordered' \in [Cats -> [Exts -> Content]] /\ proven' \in [Cats -> Proof]
         /\ count.faults = 0 => \A k \in Cats : proven'[k].latest => proven'[k].set = ordered'[k]
<1>1. disk[c].reg \in [Exts -> Content]
  BY DEF Types, Files
<1>2. CASE bakDone[c]
  BY <1>2 DEF CallBackup, Dialled, Fresh
<1>3. CASE ~bakDone[c]
  <2>1. /\ ordered' = [ordered EXCEPT ![c] = disk[c].reg] /\ proven' = [proven EXCEPT ![c] = p]
        /\ ordered \in [Cats -> [Exts -> Content]] /\ proven \in [Cats -> Proof]
    BY <1>3 DEF CallBackup, Dialled
  <2>2. ordered' \in [Cats -> [Exts -> Content]] /\ proven' \in [Cats -> Proof]
    BY <1>1, <2>1
  <2>3. ASSUME count.faults = 0, NEW k \in Cats, proven'[k].latest PROVE proven'[k].set = ordered'[k]
    <3>1. CASE k = c
      BY <2>1, <2>3, <3>1
    <3>2. CASE k # c
      <4>1. proven'[k] = proven[k] /\ ordered'[k] = ordered[k]
        BY <2>1, <3>2
      <4> QED BY <2>3, <4>1 DEF Dialled, Fresh
    <3> QED BY <3>1, <3>2
  <2> QED BY <2>2, <2>3
<1> QED BY <1>2, <1>3

LEMMA CupsProof == ASSUME Types PROVE CupsSet \in Proof /\ CupsSet.set = disk["cups"].reg
<1>1. disk["cups"].reg \in [Exts -> Content]
  BY TcCat DEF Types, Files
<1> QED BY <1>1 DEF CupsSet, Proof

(* A response of CUPS, and a malformed one *)
LEMMA CupsDialled ==
  ASSUME Inv, Dialled, Malformed \/ \E offer \in Offers, usingReg \in BOOLEAN : Respond(offer, usingReg)
  PROVE  Dialled'
<1>1. /\ Types /\ UNCHANGED <<disk, dial>> /\ count'.faults = count.faults
      /\ \A e \in Exts : ~Has(todo', Rename("tc", e))
      /\ CallBackup("cups", CupsSet) \/ UNCHANGED <<ordered, proven>>
  <2>1. CASE Malformed
    <3>1. todo' = BackupOnce("cups") /\ UNCHANGED <<disk, dial, count>> /\ CallBackup("cups", CupsSet)
      BY <2>1 DEF Malformed, memory
    <3>2. \A o : Has(todo', o) => Quiet(o)
      BY <3>1, TcCat, PlanBackupOnce
    <3> QED BY <3>1, <3>2, TcCat DEF Quiet, Inv
  <2>2. ASSUME NEW offer \in Offers, NEW usingReg \in BOOLEAN, Respond(offer, usingReg)
        PROVE  /\ UNCHANGED <<disk, dial>> /\ count'.faults = count.faults
               /\ \A e \in Exts : ~Has(todo', Rename("tc", e))
               /\ CallBackup("cups", CupsSet) \/ UNCHANGED <<ordered, proven>>
    <3>1. /\ todo' = (IF usingReg THEN BackupOnce("cups") ELSE <<>>) \o <<Reset>> \o SaveUris(offer)
          /\ count.sessions < MaxSessions /\ UNCHANGED <<disk, dial>>
          /\ count' = [count EXCEPT !.sessions = @ + 1]
          /\ CallBackup("cups", CupsSet) \/ UNCHANGED <<ordered, proven>>
      BY <2>2 DEF Respond
    <3>2. offer \in [Cats -> SUBSET {"uri", "cred"}] /\ Types
      BY ConfAssumption DEF Inv
    <3>3. \A e \in Exts : ~Has(todo', Rename("tc", e))
      BY <3>1, <3>2, TcCat, RespondPlan
    <3>4. count'.faults = count.faults
      BY <3>1, <3>2 DEF Types
    <3> QED BY <3>1, <3>3, <3>4
  <2> QED BY <2>1, <2>2 DEF Inv
<1>2. /\ ordered' \in [Cats -> [Exts -> Content]] /\ proven' \in [Cats -> Proof]
      /\ count.faults = 0 => \A k \in Cats : proven'[k].latest => proven'[k].set = ordered'[k]
  <2>1. CASE CallBackup("cups", CupsSet)
    BY <1>1, <2>1, TcCat, CupsProof, Called
  <2>2. CASE UNCHANGED <<ordered, proven>>
    BY <2>2 DEF Dialled, Fresh
  <2> QED BY <1>1, <2>1, <2>2
<1> QED BY <1>1, <1>2 DEF Dialled, Fresh

LEMMA TcDialled == ASSUME Inv, Dialled, TcStart \/ TcConnectMuxs \/ MuxsConnected PROVE Dialled'
<1>1. Types /\ UNCHANGED <<disk, count>> /\ todo = <<>> /\ \A o : ~Has(<<>>, o)
  BY NoProcedure DEF Inv, TcStart, TcConnectMuxs, MuxsConnected, Idle
<1>2. disk["tc"].reg \in [Exts -> Content] /\ "uri" \in Exts
  BY <1>1, TcSet, ExtsFinite
<1>3. CASE TcStart
  <2>1. /\ dial' = [stage |-> "uri", set |-> disk["tc"].reg, latest |-> TRUE]
        /\ UNCHANGED <<todo, ordered, proven>>
    BY <1>3 DEF TcStart, history
  <2>2. dial' \in Dial
    BY <1>2, <2>1 DEF Dial
  <2> QED BY <1>1, <2>1, <2>2 DEF Dialled, Fresh
<1>4. CASE TcConnectMuxs
  <2> DEFINE now == [e \in Exts |-> IF e = "uri" THEN dial.set[e] ELSE disk["tc"].reg[e]]
  <2>1. /\ dial \in Dial /\ dial.stage = "uri" /\ dial' = [dial EXCEPT !.stage = "muxs", !.set = now]
        /\ UNCHANGED <<todo, ordered, proven>>
    BY <1>4 DEF TcConnectMuxs, history, Dialled
  <2>2. now \in [Exts -> Content]
    BY <1>2, <2>1 DEF Dial
  <2>3. dial.set = disk["tc"].reg => now = disk["tc"].reg
    BY <1>2
  <2> HIDE DEF now
  <2>4. dial' \in Dial /\ dial'.latest = dial.latest /\ dial'.set = now
    BY <2>1, <2>2 DEF Dial
  <2>5. ASSUME count.faults = 0, dial'.latest PROVE dial'.set = disk["tc"].reg
    BY <2>1, <2>3, <2>4, <2>5 DEF Dialled, Fresh
  <2> QED BY <1>1, <2>1, <2>4, <2>5 DEF Dialled, Fresh
<1>5. CASE MuxsConnected
  <2> DEFINE p == [set |-> dial.set, latest |-> dial.latest]
  <2>1. /\ dial \in Dial /\ dial.stage = "muxs" /\ dial' = [dial EXCEPT !.stage = "uri"]
        /\ todo' = BackupOnce("tc") /\ CallBackup("tc", p)
    BY <1>5 DEF MuxsConnected, Dialled
  <2>2. p \in Proof /\ (count.faults = 0 /\ p.latest => p.set = disk["tc"].reg)
    BY <2>1 DEF Dial, Proof, Dialled, Fresh
  <2> HIDE DEF p
  <2>3. /\ ordered' \in [Cats -> [Exts -> Content]] /\ proven' \in [Cats -> Proof]
        /\ count.faults = 0 => \A k \in Cats : proven'[k].latest => proven'[k].set = ordered'[k]
    BY <1>1, <2>1, <2>2, TcCat, Called
  <2>4. \A o : Has(todo', o) => Quiet(o)
    BY <2>1, TcCat, PlanBackupOnce
  <2>5. \A e \in Exts : ~Has(todo', Rename("tc", e))
    BY <2>4, TcCat DEF Quiet
  <2>6. dial' \in Dial /\ dial'.latest = dial.latest /\ dial'.set = dial.set
    BY <2>1 DEF Dial
  <2>7. ASSUME count.faults = 0, dial'.latest PROVE dial'.set = disk["tc"].reg
    BY <2>1, <2>6, <2>7 DEF Dialled, Fresh
  <2> QED BY <1>1, <2>3, <2>5, <2>6, <2>7 DEF Dialled, Fresh
<1> QED BY <1>3, <1>4, <1>5

LEMMA CommitDialled == ASSUME Inv, Dialled, Commit PROVE Dialled'
<1>1. /\ Types /\ todo = <<>> /\ UNCHANGED <<disk, count, ordered, proven>>
      /\ \A o : ~Has(<<>>, o)
  BY NoProcedure DEF Inv, Commit, Idle
<1>2. CASE "error" \in updateState
  <2>1. UNCHANGED <<todo, dial>>
    BY <1>2 DEF Commit
  <2> QED BY <1>1, <2>1, DialKept
<1>3. CASE "error" \notin updateState /\ "tc" \in updateState
  <2>1. dial \in Dial /\ dial' = [dial EXCEPT !.latest = FALSE]
    BY <1>3 DEF Commit, Dialled
  <2>2. dial' \in Dial /\ ~dial'.latest
    BY <2>1 DEF Dial
  <2> QED BY <1>1, <2>2 DEF Dialled, Fresh
<1>4. CASE "error" \notin updateState /\ "tc" \notin updateState
  <2>1. /\ dial' = dial
        /\ todo' = (IF "cups" \in updateState THEN <<Update("cups", FALSE)>> ELSE <<>>)
                   \o (IF "tc" \in updateState THEN <<Update("tc", FALSE)>> ELSE <<>>)
    BY <1>4 DEF Commit
  <2>2. PlanOf(todo', updateState \cap Cats, FALSE)
    BY <2>1, PlanCommit
  <2>3. \A e \in Exts : ~Has(todo', Rename("tc", e))
    BY <1>4, <2>2, TcCat DEF PlanOf
  <2> QED BY <1>1, <2>1, <2>3, DialKept
<1> QED BY <1>2, <1>3, <1>4

(* A session goes on or ends; nothing is renamed. *)
LEMMA SessionDialled ==
  ASSUME Inv, Dialled, Break \/ Started \/ \E c \in Cats, parsed \in BOOLEAN : Credential(c, parsed)
  PROVE  Dialled'
<1>1. Types /\ todo = <<>> /\ UNCHANGED <<disk, count, dial, ordered, proven>> /\ \A o : ~Has(<<>>, o)
  BY NoProcedure DEF Inv, Break, Started, Credential, Idle, history
<1>2. \A e \in Exts : ~Has(todo', Rename("tc", e))
  <2>1. CASE Break \/ Started
    BY <1>1, <2>1 DEF Break, Started
  <2>2. ASSUME NEW k \in Cats, NEW parsed \in BOOLEAN, Credential(k, parsed)
        PROVE  \A e \in Exts : ~Has(todo', Rename("tc", e))
    <3> DEFINE p == ForExts(CredExts, LAMBDA e : Write(k, "temp", e, count.sessions))
    <3>1. todo' = IF parsed THEN <<p>> ELSE <<>>
      BY <2>2 DEF Credential
    <3>2. count.sessions \in Content
      BY <1>1 DEF Types, Content
    <3>3. p \in Procedure /\ \A o : In(p, o) <=> \E e \in CredExts : o = Write(k, "temp", e, count.sessions)
      BY <3>2, CredWrites
    <3> HIDE DEF p
    <3>4. \A e \in Exts : ~In(p, Rename("tc", e))
      BY <3>3 DEF Rename, Write
    <3>5. \A e \in Exts : ~Has(<<p>>, Rename("tc", e))
      BY <3>3, <3>4, OneProcedure
    <3> QED BY <1>1, <3>1, <3>5
  <2> QED BY <2>1, <2>2
<1> QED BY <1>1, <1>2, DialKept

LEMMA NextDialled == ASSUME Inv, Inv', Dialled, [Next]_vars PROVE Dialled'
<1>1. Types
  BY DEF Inv
<1>2. CASE FileStep \/ SyncStep \/ NoteStep
  BY <1>2, StepDialled
<1>3. CASE WriteFault
  <2>1. count'.faults # 0
    BY <1>1, <1>3, FaultType
  <2>2. UNCHANGED <<dial, ordered, proven>>
    BY <1>3 DEF WriteFault, history
  <2> QED BY <2>1, <2>2 DEF Dialled
<1>4. CASE Malformed \/ \E offer \in Offers, usingReg \in BOOLEAN : Respond(offer, usingReg)
  BY <1>4, CupsDialled
<1>5. CASE TcStart \/ TcConnectMuxs \/ MuxsConnected
  BY <1>5, TcDialled
<1>6. CASE Commit
  BY <1>6, CommitDialled
<1>7. CASE Break \/ Started \/ \E c \in Cats, parsed \in BOOLEAN : Credential(c, parsed)
  BY <1>7, SessionDialled
<1>8. CASE Crash \/ PowerFailure
  <2>1. /\ dial' = Off /\ UNCHANGED <<ordered, proven>>
        /\ count' = [count EXCEPT !.crashes = @ + 1]
    BY <1>8 DEF Crash, PowerFailure, Restart
  <2>2. count'.faults = count.faults
    BY <1>1, <2>1 DEF Types
  <2>3. Off \in Dial /\ Off.stage = "off"
    BY DEF Off, Dial, NoFiles, Content
  <2> QED BY <2>1, <2>2, <2>3 DEF Dialled, Fresh
<1>9. CASE UNCHANGED vars
  <2>1. UNCHANGED <<disk, todo, count, dial, ordered, proven>>
    BY <1>9 DEF vars
  <2> QED BY <2>1, DialKept
<1> QED BY <1>2, <1>3, <1>4, <1>5, <1>6, <1>7, <1>8, <1>9 DEF Next

LEMMA InitDialled == ASSUME Init PROVE Dialled
<1>1. /\ dial = Off /\ ordered = [c \in Cats |-> NoFiles]
      /\ proven = [c \in Cats |-> [set |-> NoFiles, latest |-> TRUE]]
  BY DEF Init
<1>2. Off \in Dial /\ Off.stage = "off" /\ NoFiles \in [Exts -> Content]
  BY DEF Off, Dial, NoFiles, Content
<1> QED BY <1>1, <1>2 DEF Dialled, Fresh, Proof
-----------------------------------------------------------------------------
LEMMA OrderlyTypeOK == ASSUME Inv, Orderly, Dialled PROVE TypeOK
<1>1. Idle => \A c \in Cats : bakDone[c] = disk[c].don
  BY NoProcedure DEF Orderly, Noted, Idle
<1> QED BY <1>1 DEF TypeOK, Inv, Types, Orderly, Dialled

LEMMA OrderlyNoStaleMarker == ASSUME Inv, Orderly PROVE NoStaleMarker
<1> SUFFICES ASSUME Idle, NEW d \in cuts, NEW c \in Cats, d[c].upd
             PROVE  d[c].temp = NoFiles
  BY DEF NoStaleMarker
<1> DEFINE feed == session.stage = "feed"
<1>1. MarkSafe(c, disk[c], Cuts(c), <<>>, feed) /\ d[c] \in Cuts(c)
  BY DEF Orderly, Idle, Cuts
<1> HIDE DEF feed
<1>2. Bare(d[c])
  BY <1>1, IdleMark
<1>3. d[c].temp \in [Exts -> Content]
  BY DEF Inv, Types, Files
<1> QED BY <1>2, <1>3 DEF Bare, NoFiles

(* sys_resetConfigUpdate syncs before the next temporary files are written *)
(* and updateConfigFiles before it takes the marker away: at rest, nothing *)
(* that a power failure may leave on disk has the marker of an update and  *)
(* temporary files, which belong to a later update, possibly not complete. *)
THEOREM MarkersRight == Spec => []NoStaleMarker
<1>1. Init => Inv /\ Orderly
  BY InitInv, InitOrderly
<1>2. Inv /\ Orderly /\ [Next]_vars => Inv' /\ Orderly'
  BY NextInv, NextOrderly
<1>3. Inv /\ Orderly => NoStaleMarker
  BY OrderlyNoStaleMarker
<1> QED BY <1>1, <1>2, <1>3, PTL DEF Spec

(* The data have their shapes, and whenever the station runs and no file   *)
(* operation is pending, bakDone, which backupConfigFiles sets from a look *)
(* at the done marker, still says what the marker on disk says.            *)
THEOREM TypesRight == Spec => []TypeOK
<1>1. Init => Inv /\ Orderly /\ Dialled
  BY InitInv, InitOrderly, InitDialled
<1>2. Inv /\ Orderly /\ Dialled /\ [Next]_vars => Inv' /\ Orderly' /\ Dialled'
  BY NextInv, NextOrderly, NextDialled
<1>3. Inv /\ Orderly /\ Dialled => TypeOK
  BY OrderlyTypeOK
<1> QED BY <1>1, <1>2, <1>3, PTL DEF Spec
-----------------------------------------------------------------------------
(* Files D of category c, and ds, what a power failure may leave of them,  *)
(* with td to be done; P is the set to be backed up.  From the marker of a *)
(* copy to the sync after the last operation the regular set stays P, and  *)
(* what copies are missing or not safe is done again or still to be done.  *)
Saving(c, D, td, P) ==
  /\ \A e \in Exts :
       IF P[e] = Absent THEN D.bak[e] = Absent \/ Has(td, Unlink(c, "bak", e))
       ELSE Has(td, Copy(c, e)) \/ (D.bak[e] = P[e] /\ ~Has(td, Unlink(c, "bak", e)))
  /\ D.cpy \/ Has(td, SetCpy(c))

(* What of it holds of d, one of ds *)
Saved(c, D, td, P, d) ==
  /\ d.cpy \/ Has(td, ClearCpy(c))
       => /\ d.reg = P /\ (d.upd => Bare(d))
          /\ \A e \in Exts : Has(td, Rename(c, e)) => Bare(d)
          /\ ~Has(td, SetUpd(c))
  /\ d.don /\ ~d.cpy => d.bak = P
  /\ d.cpy => Has(td, ClearCpy(c)) \/ Within(td, Sync, Note(c))
  /\ d.reg = D.reg \/ Within(td, Sync, ClearUpd(c))
  /\ d.don = D.don \/ Within(td, Sync, Note(c))
  /\ Has(td, ClearCpy(c)) => /\ d.bak = P \/ Within(td, Sync, ClearCpy(c))
                             /\ d.cpy \/ Within(td, Sync, ClearDon(c))

BakSafe(c, D, ds, td, P) ==
  /\ D \in ds
  /\ D.cpy => Has(td, ClearCpy(c))
  /\ Has(td, ClearCpy(c)) => Saving(c, D, td, P)
  /\ \A d \in ds : Saved(c, D, td, P, d)

(* When a temporary file is written no update is marked or to come. *)
LEMMA Feeding ==
  ASSUME NEW c \in Cats, NEW D, NEW ds, NEW td, NEW td2, NEW feed \in BOOLEAN, MarkSafe(c, D, ds, td, feed),
         NEW e \in Exts, NEW v \in Content \ {Absent}, Advanced(td, Write(c, "temp", e, v), td2)
  PROVE  ~Updates(td, c) /\ \A d \in ds : ~d.upd
<1> DEFINE o == Write(c, "temp", e, v)
<1>1. Removed(td, o, td2)
  BY DEF Advanced
<1>2. Has(td, o)
  BY <1>1 DEF Removed
<1>3. feed
  BY <1>2 DEF MarkSafe
<1>4. ~Has(td2, Sync)
  BY <1>1, <1>3 DEF MarkSafe, Removed
<1>5. ~Settles(td)
  <2>1. o # Sync
    BY DEF Write, Sync
  <2>2. ~Settles(td2)
    BY <1>4, SettlesHas
  <2> QED BY <2>1, <2>2 DEF Advanced
<1> QED BY <1>3, <1>5 DEF MarkSafe

(* What follows the operations of a backup *)
LEMMA BakLeads ==
  ASSUME NEW c \in Cats, NEW td, NEW td2, NEW o, Fine(td), Fine(td2), Advanced(td, o, td2)
  PROVE  /\ o = SetCpy(c) => Has(td2, ClearCpy(c)) /\ Within(td2, Sync, ClearCpy(c)) /\ Within(td2, Sync, ClearDon(c))
         /\ o \in {SetDon(c), ClearDon(c), ClearCpy(c)} => Within(td2, Sync, Note(c))
         /\ o = SetDon(c) => Has(td2, ClearCpy(c)) /\ ~Within(td, Sync, ClearDon(c))
         /\ o = ClearCpy(c) => ~Has(td2, ClearCpy(c)) /\ ~Within(td, Sync, ClearCpy(c))
         /\ \A e \in Exts : o = Rename(c, e) => Within(td2, Sync, ClearUpd(c))
         /\ \A e \in Exts : o = Copy(c, e)
              => /\ Has(td2, ClearCpy(c)) /\ Within(td2, Sync, ClearCpy(c)) /\ ~Within(td, Sync, ClearDon(c))
                 /\ ~Has(td2, Unlink(c, "bak", e))
         /\ \A e \in Exts : \A v : o = Write(c, "bak", e, v)
              => /\ v = Absent /\ o = Unlink(c, "bak", e)
                 /\ Has(td2, ClearCpy(c)) /\ Within(td2, Sync, ClearCpy(c)) /\ ~Within(td, Sync, ClearDon(c))
<1>1. Removed(td, o, td2)
  BY DEF Advanced
<1>2. \A b, z : (\A i \in 1 .. Len(td) : Leads(td[i], o, b, z)) => Within(td2, b, z)
  BY DEF Advanced
<1>3. \A p, a, b : Within(p, a, b) => Has(p, b)
  BY BeforeIn DEF Within, Has
<1>4. \A i \in 1 .. Len(td) : Saves(c, td[i]) /\ Commits(c, td[i])
  BY DEF Fine
<1>5. /\ ~Follows(td, SetDon(c), ClearDon(c)) /\ ~Follows(td, ClearCpy(c), ClearCpy(c))
      /\ \A e \in Exts : /\ ~Follows(td, Copy(c, e), ClearDon(c)) /\ ~Follows(td, Unlink(c, "bak", e), ClearDon(c))
                         /\ ~Follows(td, Copy(c, e), Unlink(c, "bak", e))
  BY DEF Fine, Sorted
<1>6. \A x : ~Follows(td, o, x) => ~Has(td2, x)
  BY <1>1 DEF Removed
<1>7. \A x : ~Follows(td, o, x) /\ o # Sync => ~Within(td, Sync, x)
  BY <1>3, <1>6 DEF Advanced
<1>8. /\ Sync # SetCpy(c) /\ Sync # SetDon(c) /\ Sync # ClearCpy(c)
      /\ \A e, v : Sync # Copy(c, e) /\ Sync # Write(c, "bak", e, v)
  BY DEF Sync, SetCpy, SetDon, ClearCpy, Mark, Copy, Write
<1>9. o = SetCpy(c) => Has(td2, ClearCpy(c)) /\ Within(td2, Sync, ClearCpy(c)) /\ Within(td2, Sync, ClearDon(c))
  BY <1>2, <1>3, <1>4 DEF Saves
<1>10. o \in {SetDon(c), ClearDon(c), ClearCpy(c)} => Within(td2, Sync, Note(c))
  BY <1>2, <1>4 DEF Saves
<1>11. o = SetDon(c) => Has(td2, ClearCpy(c)) /\ ~Within(td, Sync, ClearDon(c))
  BY <1>2, <1>3, <1>4, <1>5, <1>7, <1>8 DEF Saves
<1>12. o = ClearCpy(c) => ~Has(td2, ClearCpy(c)) /\ ~Within(td, Sync, ClearCpy(c))
  BY <1>5, <1>6, <1>7, <1>8
<1>13. \A e \in Exts : o = Rename(c, e) => Within(td2, Sync, ClearUpd(c))
  BY <1>2, <1>4 DEF Commits
<1>14. \A e \in Exts : o = Copy(c, e)
         => /\ Has(td2, ClearCpy(c)) /\ Within(td2, Sync, ClearCpy(c)) /\ ~Within(td, Sync, ClearDon(c))
            /\ ~Has(td2, Unlink(c, "bak", e))
  BY <1>2, <1>3, <1>4, <1>5, <1>6, <1>7, <1>8 DEF Saves
<1>15. ASSUME NEW e \in Exts, NEW v, o = Write(c, "bak", e, v)
       PROVE  /\ v = Absent /\ o = Unlink(c, "bak", e)
              /\ Has(td2, ClearCpy(c)) /\ Within(td2, Sync, ClearCpy(c)) /\ ~Within(td, Sync, ClearDon(c))
  <2>1. v = Absent
    BY <1>1, <1>4, <1>15 DEF Removed, Has, Saves
  <2>2. o = Unlink(c, "bak", e)
    BY <1>15, <2>1 DEF Unlink
  <2>3. o # Sync
    BY <1>8, <1>15
  <2> QED BY <1>2, <1>3, <1>4, <1>5, <1>7, <2>1, <2>2, <2>3 DEF Saves
<1> QED BY <1>9, <1>10, <1>11, <1>12, <1>13, <1>14, <1>15

(* One of ds after an operation that did reach the medium, or did not *)
LEMMA SavedStep ==
  ASSUME NEW c \in Cats, NEW D \in Files, NEW D2 \in Files, NEW x \in Files, NEW y \in Files, NEW td, NEW td2,
         NEW o \in Operation, NEW P \in [Exts -> Content], Fine(td), Fine(td2), Advanced(td, o, td2), o # Sync,
         \A e \in Exts, v \in Content \ {Absent} : o = Write(c, "temp", e, v) => ~Updates(td, c) /\ ~y.upd,
         Effect(o, c, D, D2), BackupEffect(o, c, D.reg, D, D2), Saved(c, D, td, P, y),
         x = y \/ (Effect(o, c, y, x) /\ BackupEffect(o, c, D.reg, y, x))
  PROVE  Saved(c, D2, td2, P, x)
<1>1. Removed(td, o, td2) /\ \A b : Within(td, Sync, b) => Within(td2, Sync, b)
  BY DEF Advanced
<1>2. \A b : (Has(td2, b) => Has(td, b)) /\ (Has(td, b) => o = b \/ Has(td2, b)) /\ Has(td, o)
      /\ (Within(td2, Sync, b) => Within(td, Sync, b))
  BY <1>1 DEF Removed, Advanced
<1>3. /\ x.reg \in [Exts -> Content] /\ y.reg \in [Exts -> Content] /\ D.reg \in [Exts -> Content]
      /\ D2.reg \in [Exts -> Content] /\ x.bak \in [Exts -> Content] /\ y.bak \in [Exts -> Content]
      /\ x.don \in BOOLEAN /\ y.don \in BOOLEAN /\ D.don \in BOOLEAN /\ D2.don \in BOOLEAN
  BY DEF Files
<1>4. x.cpy \/ Has(td2, ClearCpy(c)) => y.cpy \/ Has(td, ClearCpy(c))
  <2>1. o = SetCpy(c) => Has(td2, ClearCpy(c))
    BY BakLeads
  <2> QED BY <1>2, <2>1 DEF BackupEffect
<1>5. x.cpy \/ Has(td2, ClearCpy(c))
        => /\ x.reg = P /\ (x.upd => Bare(x))
           /\ \A e \in Exts : Has(td2, Rename(c, e)) => Bare(x)
           /\ ~Has(td2, SetUpd(c))
  <2> SUFFICES ASSUME y.cpy \/ Has(td, ClearCpy(c))
               PROVE  /\ x.reg = P /\ (x.upd => Bare(x))
                      /\ \A e \in Exts : Has(td2, Rename(c, e)) => Bare(x)
                      /\ ~Has(td2, SetUpd(c))
    BY <1>4
  <2>1. /\ y.reg = P /\ (y.upd => Bare(y))
        /\ \A e \in Exts : Has(td, Rename(c, e)) => Bare(y)
        /\ ~Has(td, SetUpd(c))
    BY DEF Saved
  <2>2. CASE x = y
    BY <1>2, <2>1, <2>2
  <2>3. CASE Effect(o, c, y, x)
    <3>1. \A e \in Exts : x.reg[e] = P[e]
      BY <1>2, <2>1, <2>3 DEF Effect, Bare
    <3>2. x.upd => y.upd
      BY <1>2, <2>1, <2>3 DEF Effect
    <3>3. ASSUME Bare(y), y.upd \/ Updates(td, c) PROVE Bare(x)
      <4> SUFFICES ASSUME NEW e \in Exts PROVE x.temp[e] = Absent
        BY DEF Bare
      <4>1. CASE \E v : o = Write(c, "temp", e, v)
        <5>1. PICK v : o = Write(c, "temp", e, v)
          BY <4>1
        <5>2. v \in Content
          <6>1. \A k, taf, b, f : /\ o # Mark(k, taf, b) /\ o # Rename(k, f) /\ o # Copy(k, f)
                                  /\ o # Sync /\ o # Note(k)
            BY <5>1 DEF Write, Mark, Rename, Copy, Sync, Note
          <6>2. PICK k \in Cats, set \in {"temp", "bak"}, f \in Exts, w \in Content : o = Write(k, set, f, w)
            BY <6>1, OperationKinds
          <6> QED BY <5>1, <6>2 DEF Write
        <5>3. v = Absent
          BY <3>3, <5>1, <5>2
        <5> QED BY <2>3, <5>1, <5>3 DEF Effect
      <4>2. CASE o = Rename(c, e)
        BY <2>3, <4>2 DEF Effect
      <4> QED BY <2>3, <3>3, <4>1, <4>2 DEF Effect, Bare
    <3>4. \A e \in Exts : Has(td2, Rename(c, e)) => Bare(y) /\ Updates(td, c)
      BY <1>2, <2>1 DEF Updates
    <3>5. ~Has(td2, SetUpd(c)) /\ x.reg = P
      BY <1>2, <1>3, <2>1, <3>1
    <3> QED BY <2>1, <3>2, <3>3, <3>4, <3>5
  <2> QED BY <2>2, <2>3
<1>6. x.don /\ ~x.cpy => x.bak = P
  <2> SUFFICES ASSUME x.don, ~x.cpy PROVE x.bak = P
    OBVIOUS
  <2>1. CASE x = y
    BY <2>1 DEF Saved
  <2>2. CASE BackupEffect(o, c, D.reg, y, x)
    <3>1. ~y.cpy \/ o = ClearCpy(c)
      BY <2>2 DEF BackupEffect
    <3>2. o # SetDon(c)
      <4>1. SetDon(c) # ClearCpy(c)
        BY DEF SetDon, ClearCpy, Mark
      <4>2. o = SetDon(c) => y.cpy
        <5>1. o = SetDon(c) => Has(td2, ClearCpy(c)) /\ ~Within(td, Sync, ClearDon(c))
          BY BakLeads
        <5> QED BY <1>2, <5>1 DEF Saved
      <4> QED BY <3>1, <4>1, <4>2
    <3>3. y.don
      BY <2>2, <3>2 DEF BackupEffect
    <3>4. CASE \E e \in Exts : o = Copy(c, e) \/ \E v : o = Write(c, "bak", e, v)
      <4>1. Has(td2, ClearCpy(c)) /\ ~Within(td, Sync, ClearDon(c))
        BY <3>4, BakLeads
      <4>2. y.cpy
        BY <1>2, <4>1 DEF Saved
      <4>3. o # ClearCpy(c)
        BY <3>4 DEF Copy, Write, ClearCpy, Mark
      <4> QED BY <3>1, <4>2, <4>3
    <3>5. CASE ~\E e \in Exts : o = Copy(c, e) \/ \E v : o = Write(c, "bak", e, v)
      <4>1. \A e \in Exts : x.bak[e] = y.bak[e]
        BY <2>2, <3>5 DEF BackupEffect
      <4>2. x.bak = y.bak
        BY <1>3, <4>1
      <4>3. y.bak = P
        <5>1. CASE ~y.cpy
          BY <3>3, <5>1 DEF Saved
        <5>2. CASE o = ClearCpy(c)
          <6>1. ~Within(td, Sync, ClearCpy(c))
            BY <5>2, BakLeads
          <6> QED BY <1>2, <5>2, <6>1 DEF Saved
        <5> QED BY <3>1, <5>1, <5>2
      <4> QED BY <4>2, <4>3
    <3> QED BY <3>4, <3>5
  <2> QED BY <2>1, <2>2
<1>7. x.cpy => Has(td2, ClearCpy(c)) \/ Within(td2, Sync, Note(c))
  <2>1. o = SetCpy(c) => Has(td2, ClearCpy(c))
    BY BakLeads
  <2>2. o = ClearCpy(c) => Within(td2, Sync, Note(c))
    BY BakLeads
  <2>3. y.cpy => Has(td, ClearCpy(c)) \/ Within(td, Sync, Note(c))
    BY DEF Saved
  <2> QED BY <1>1, <1>2, <2>1, <2>2, <2>3 DEF BackupEffect
<1>8. x.reg = D2.reg \/ Within(td2, Sync, ClearUpd(c))
  <2>1. CASE \E e \in Exts : o = Rename(c, e)
    BY <2>1, BakLeads
  <2>2. CASE ~\E e \in Exts : o = Rename(c, e)
    <3>1. \A e \in Exts : D2.reg[e] = D.reg[e] /\ x.reg[e] = y.reg[e]
      BY <2>2 DEF Effect
    <3>2. D2.reg = D.reg /\ x.reg = y.reg
      BY <1>3, <3>1
    <3> QED BY <1>1, <3>2 DEF Saved
  <2> QED BY <2>1, <2>2
<1>9. x.don = D2.don \/ Within(td2, Sync, Note(c))
  <2>1. CASE o \in {SetDon(c), ClearDon(c)}
    BY <2>1, BakLeads
  <2>2. CASE o \notin {SetDon(c), ClearDon(c)}
    <3>1. (D2.don <=> D.don) /\ (x.don <=> y.don)
      BY <2>2 DEF BackupEffect
    <3>2. D2.don = D.don /\ x.don = y.don
      BY <1>3, <3>1
    <3> QED BY <1>1, <3>2 DEF Saved
  <2> QED BY <2>1, <2>2
<1>10. ASSUME Has(td2, ClearCpy(c))
       PROVE  /\ x.bak = P \/ Within(td2, Sync, ClearCpy(c))
              /\ x.cpy \/ Within(td2, Sync, ClearDon(c))
  <2>1. /\ y.bak = P \/ Within(td2, Sync, ClearCpy(c))
        /\ y.cpy \/ Within(td2, Sync, ClearDon(c))
    BY <1>1, <1>2, <1>10 DEF Saved
  <2>2. o # ClearCpy(c)
    BY <1>10, BakLeads
  <2>3. y.cpy => x.cpy
    BY <2>2 DEF BackupEffect
  <2>4. CASE \E e \in Exts : o = Copy(c, e) \/ \E v : o = Write(c, "bak", e, v)
    <3>1. Within(td2, Sync, ClearCpy(c))
      BY <2>4, BakLeads
    <3> QED BY <2>1, <2>3, <3>1
  <2>5. CASE ~\E e \in Exts : o = Copy(c, e) \/ \E v : o = Write(c, "bak", e, v)
    <3>1. \A e \in Exts : x.bak[e] = y.bak[e]
      BY <2>5 DEF BackupEffect
    <3>2. x.bak = y.bak
      BY <1>3, <3>1
    <3> QED BY <2>1, <2>3, <3>2
  <2> QED BY <2>4, <2>5
<1> QED BY <1>5, <1>6, <1>7, <1>8, <1>9, <1>10 DEF Saved

(* The files present after an operation of a backup *)
LEMMA SavingStep ==
  ASSUME NEW c \in Cats, NEW D \in Files, NEW D2 \in Files, NEW td, NEW td2,
         NEW o, NEW P \in [Exts -> Content], Fine(td), Fine(td2), Advanced(td, o, td2),
         Saving(c, D, td, P), BackupEffect(o, c, D.reg, D, D2), D.reg = P, Has(td2, ClearCpy(c))
  PROVE  Saving(c, D2, td2, P)
<1>1. Removed(td, o, td2)
  BY DEF Advanced
<1>2. \A b : (Has(td2, b) => Has(td, b)) /\ (Has(td, b) => o = b \/ Has(td2, b)) /\ Has(td, o)
  BY <1>1 DEF Removed
<1>3. /\ \A e, f : Copy(c, e) # Unlink(c, "bak", f) /\ (Copy(c, e) = Copy(c, f) => e = f)
      /\ \A e, f, v : /\ Copy(c, e) # Write(c, "bak", f, v)
                      /\ Unlink(c, "bak", e) = Write(c, "bak", f, v) => e = f /\ v = Absent
  BY DEF Copy, Unlink, Write
<1>4. D2.cpy \/ Has(td2, SetCpy(c))
  <2>1. o # ClearCpy(c)
    BY BakLeads
  <2> QED BY <1>2, <2>1 DEF Saving, BackupEffect
<1>5. ASSUME NEW e \in Exts
      PROVE  IF P[e] = Absent THEN D2.bak[e] = Absent \/ Has(td2, Unlink(c, "bak", e))
             ELSE Has(td2, Copy(c, e)) \/ (D2.bak[e] = P[e] /\ ~Has(td2, Unlink(c, "bak", e)))
  <2>1. CASE \E v : o = Write(c, "bak", e, v)
    <3>1. o = Unlink(c, "bak", e)
      BY <2>1, BakLeads
    <3>2. D2.bak[e] = Absent
      BY <3>1 DEF Unlink, BackupEffect
    <3>3. P[e] # Absent => Has(td2, Copy(c, e))
      BY <1>2, <1>3, <3>1 DEF Saving
    <3> QED BY <3>2, <3>3
  <2>2. CASE o = Copy(c, e)
    <3>1. D2.bak[e] = IF P[e] # Absent THEN P[e] ELSE D.bak[e]
      BY <1>3, <2>2 DEF BackupEffect
    <3>2. ~Has(td2, Unlink(c, "bak", e))
      BY <2>2, BakLeads
    <3>3. P[e] = Absent => D.bak[e] = Absent \/ Has(td2, Unlink(c, "bak", e))
      BY <1>2, <1>3, <2>2 DEF Saving
    <3> QED BY <3>1, <3>2, <3>3
  <2>3. CASE o # Copy(c, e) /\ \A v : o # Write(c, "bak", e, v)
    <3>1. D2.bak[e] = D.bak[e]
      BY <2>3 DEF BackupEffect
    <3>2. o # Unlink(c, "bak", e)
      BY <2>3 DEF Unlink
    <3> QED BY <1>2, <2>3, <3>1, <3>2 DEF Saving
  <2> QED BY <2>1, <2>2, <2>3
<1> QED BY <1>4, <1>5 DEF Saving

(* A sync leaves the present files only. *)
LEMMA SavedSync ==
  ASSUME NEW c \in Cats, NEW D \in Files, NEW ds, NEW td, NEW td2, NEW P \in [Exts -> Content],
         Fine(td), Fine(td2), Advanced(td, Sync, td2), BakSafe(c, D, ds, td, P)
  PROVE  BakSafe(c, D, {D}, td2, P)
<1>1. Removed(td, Sync, td2)
  BY DEF Advanced
<1>2. /\ Sync # SetCpy(c) /\ Sync # ClearCpy(c) /\ \A e : Sync # Copy(c, e) /\ Sync # Unlink(c, "bak", e)
  BY DEF Sync, SetCpy, ClearCpy, Mark, Copy, Unlink, Write
<1>3. /\ \A b : Has(td2, b) => Has(td, b)
      /\ Has(td, SetCpy(c)) <=> Has(td2, SetCpy(c))
      /\ Has(td, ClearCpy(c)) <=> Has(td2, ClearCpy(c))
      /\ \A e : Has(td, Copy(c, e)) <=> Has(td2, Copy(c, e))
      /\ \A e : Has(td, Unlink(c, "bak", e)) <=> Has(td2, Unlink(c, "bak", e))
  BY <1>1, <1>2 DEF Removed
<1>4. (D.cpy => Has(td2, ClearCpy(c))) /\ (Has(td2, ClearCpy(c)) => Saving(c, D, td2, P))
  BY <1>3 DEF BakSafe, Saving
<1>5. D \in ds /\ Saved(c, D, td, P, D)
  BY DEF BakSafe
<1>6. ASSUME Has(td2, ClearCpy(c))
      PROVE  /\ D.bak = P \/ Within(td2, Sync, ClearCpy(c))
             /\ D.cpy \/ Within(td2, Sync, ClearDon(c))
  <2>1. \A i \in 1 .. Len(td2) : Saves(c, td2[i])
    BY DEF Fine
  <2>2. ASSUME NEW i \in 1 .. Len(td2), NEW a, NEW b, NEW z, In(td2[i], a), Leads(td2[i], a, b, z)
        PROVE  Within(td2, b, z)
    BY <2>2 DEF In, Leads, Before, Within
  <2>3. Has(td2, SetCpy(c)) => Within(td2, Sync, ClearDon(c))
    BY <2>1, <2>2 DEF Has, Saves
  <2>4. \A e \in Exts : Has(td2, Copy(c, e)) \/ Has(td2, Unlink(c, "bak", e)) => Within(td2, Sync, ClearCpy(c))
    BY <2>1, <2>2 DEF Has, Saves
  <2>5. ASSUME ~Within(td2, Sync, ClearCpy(c)) PROVE D.bak = P
    <3>1. \A e \in Exts : D.bak[e] = P[e]
      BY <1>4, <1>6, <2>4, <2>5 DEF Saving
    <3>2. D.bak \in [Exts -> Content]
      BY DEF Files
    <3> QED BY <3>1, <3>2
  <2> QED BY <1>4, <1>6, <2>3, <2>5 DEF Saving
<1>7. Saved(c, D, td2, P, D)
  BY <1>3, <1>4, <1>5, <1>6 DEF Saved
<1> QED BY <1>4, <1>7 DEF BakSafe

LEMMA BakStep ==
  ASSUME NEW c \in Cats, NEW D \in Files, NEW D2 \in Files, NEW ds \in SUBSET Files, NEW ds2 \in SUBSET Files,
         NEW td, NEW td2, NEW o \in Operation, NEW feed \in BOOLEAN, NEW P \in [Exts -> Content],
         Fine(td), Fine(td2), Advanced(td, o, td2), MarkSafe(c, D, ds, td, feed), BakSafe(c, D, ds, td, P),
         Effect(o, c, D, D2), BackupEffect(o, c, D.reg, D, D2), D2 \in ds2,
         \A x \in ds2 : x \in ds \/ \E y \in ds : Effect(o, c, y, x) /\ BackupEffect(o, c, D.reg, y, x),
         o = Sync => D2 = D /\ ds2 = {D}
  PROVE  BakSafe(c, D2, ds2, td2, P)
<1>1. CASE o = Sync
  BY <1>1, SavedSync
<1>2. CASE o # Sync
  <2>1. \A b : (Has(td2, b) => Has(td, b)) /\ (Has(td, b) => o = b \/ Has(td2, b))
    BY DEF Advanced, Removed
  <2>2. D2.cpy => Has(td2, ClearCpy(c))
    <3>1. o = SetCpy(c) => Has(td2, ClearCpy(c))
      BY BakLeads
    <3> QED BY <2>1, <3>1 DEF BakSafe, BackupEffect
  <2>3. ASSUME Has(td2, ClearCpy(c)) PROVE Saving(c, D2, td2, P)
    <3>1. Saving(c, D, td, P) /\ D.reg = P
      BY <2>1, <2>3 DEF BakSafe, Saved
    <3> QED BY <2>3, <3>1, SavingStep
  <2>4. ASSUME NEW x \in ds2 PROVE Saved(c, D2, td2, P, x)
    <3>1. PICK y \in ds : x = y \/ (Effect(o, c, y, x) /\ BackupEffect(o, c, D.reg, y, x))
      BY <2>4
    <3>2. \A e \in Exts, v \in Content \ {Absent} : o = Write(c, "temp", e, v) => ~Updates(td, c) /\ ~y.upd
      BY <3>1, Feeding
    <3>3. Saved(c, D, td, P, y) /\ x \in Files /\ y \in Files
      BY <3>1 DEF BakSafe
    <3> QED BY <1>2, <3>1, <3>2, <3>3, SavedStep
  <2> QED BY <2>2, <2>3, <2>4 DEF BakSafe
<1> QED BY <1>1, <1>2

(* At rest: nothing is being copied, what is on the medium does not differ *)
LEMMA IdleBak ==
  ASSUME NEW c \in Cats, NEW D, NEW ds, NEW P, BakSafe(c, D, ds, <<>>, P)
  PROVE  D \in ds /\ \A d \in ds : ~d.cpy /\ d.reg = D.reg /\ d.don = D.don /\ (d.don => d.bak = P)
<1>1. /\ \A o : ~Has(<<>>, o)
      /\ \A a, b : ~Within(<<>>, a, b)
  BY NoProcedure, FineNone
<1> QED BY <1>1 DEF BakSafe, Saved

(* No backup of category c is called. *)
LEMMA NoBackup ==
  ASSUME NEW c \in Cats, NEW D, NEW ds, NEW P, NEW td, BakSafe(c, D, ds, <<>>, P), ~Has(td, ClearCpy(c))
  PROVE  BakSafe(c, D, ds, td, P)
<1>1. D \in ds /\ \A d \in ds : ~d.cpy /\ d.reg = D.reg /\ d.don = D.don /\ (d.don => d.bak = P)
  BY IdleBak
<1> QED BY <1>1 DEF BakSafe, Saved

(* A backup of category c is called, begun (r) or to be begun.  What is    *)
(* left of the files is whatever P says of one, D, or the same in all.     *)
LEMMA BackupCalled ==
  ASSUME NEW c \in Cats, NEW D, NEW ds, NEW P, NEW td, NEW V, NEW r, BakPlan(td, V, r), c \in V,
         D \in ds, ~Has(td, SetUpd(c)), r => \A d \in ds : d.cpy,
         \A d \in ds : /\ d.reg = P /\ d.don = D.don /\ (d.upd => Bare(d)) /\ (d.don => d.cpy)
                       /\ \A e \in Exts : Has(td, Rename(c, e)) => Bare(d)
  PROVE  BakSafe(c, D, ds, td, P)
<1>1. /\ Fine(td) /\ Has(td, ClearCpy(c)) /\ Within(td, Sync, ClearDon(c))
      /\ \A e \in Exts : Has(td, Unlink(c, "bak", e)) /\ Has(td, Copy(c, e))
      /\ Has(td, SetCpy(c)) <=> ~r
  BY DEF BakPlan
<1>2. Within(td, Sync, ClearCpy(c))
  <2>1. PICK e \in Exts : TRUE
    BY DEF Exts
  <2>2. PICK i \in 1 .. Len(td) : In(td[i], Copy(c, e))
    BY <1>1 DEF Has
  <2>3. Leads(td[i], Copy(c, e), Sync, ClearCpy(c))
    BY <1>1, <2>1, <2>2 DEF Fine, Saves
  <2> QED BY <2>2, <2>3 DEF In, Leads, Before, Within
<1>3. Saving(c, D, td, P)
  BY <1>1 DEF Saving
<1>4. \A d \in ds : Saved(c, D, td, P, d)
  BY <1>1, <1>2 DEF Saved
<1> QED BY <1>1, <1>3, <1>4 DEF BakSafe
-----------------------------------------------------------------------------
(* The backups of both categories *)
Backed ==
  /\ ordered \in [Cats -> [Exts -> Content]]
  /\ count.faults = 0 => \A c \in Cats : BakSafe(c, disk[c], Cuts(c), todo, ordered[c])

LEMMA NoBackupEffect ==
  ASSUME NEW o, o.op \in {"sync", "note"}, NEW c, NEW r, NEW D
  PROVE  BackupEffect(o, c, r, D, D)
<1>1. \A e : o # Copy(c, e) /\ \A v : o # Write(c, "bak", e, v)
  BY DEF Copy, Write
<1>2. o # SetCpy(c) /\ o # ClearCpy(c) /\ o # SetDon(c) /\ o # ClearDon(c)
  BY DEF SetCpy, ClearCpy, SetDon, ClearDon, Mark
<1> QED BY <1>1, <1>2 DEF BackupEffect

LEMMA CutsFiles ==
  ASSUME Types, NEW c \in Cats
  PROVE  disk[c] \in Files /\ Cuts(c) \in SUBSET Files
BY DEF Types, Cuts

(* One operation, done or failed *)
LEMMA StepBacked ==
  ASSUME Inv, Inv', Orderly, Backed, FileStep \/ SyncStep \/ NoteStep
  PROVE  Backed'
<1>1. Types /\ Types' /\ ~Idle /\ todo' = Rest /\ UNCHANGED <<count, ordered>>
  BY DEF Inv, FileStep, SyncStep, NoteStep, memory, history
<1>2. Fine(todo) /\ Op \in Operation /\ Fine(Rest) /\ Advanced(todo, Op, Rest) /\ disk \in cuts
  BY <1>1, OpTaken DEF Orderly
<1>3. ASSUME NEW c \in Cats, BakSafe(c, disk[c], Cuts(c), todo, ordered[c])
      PROVE  BakSafe(c, disk'[c], Cuts(c)', todo', ordered'[c])
  <2> DEFINE D == disk[c]
             D2 == disk'[c]
             ds == Cuts(c)
             ds2 == Cuts(c)'
             P == ordered[c]
             feed == session.stage = "feed"
  <2>1. /\ Effect(Op, c, D, D2) /\ BackupEffect(Op, c, D.reg, D, D2) /\ D2 \in ds2
        /\ \A x \in ds2 : x \in ds \/ \E y \in ds : Effect(Op, c, y, x) /\ BackupEffect(Op, c, D.reg, y, x)
        /\ Op = Sync => D2 = D /\ ds2 = {D}
    <3>1. CASE FileStep
      <4>1. Op.op \in {"file", "mark", "rename", "copy"} /\ Perform(Op)
        BY <3>1 DEF FileStep
      <4>2. Op # Sync
        BY <4>1 DEF Sync
      <4> QED BY <1>1, <1>2, <4>1, <4>2, CutsEffect
    <3>2. CASE SyncStep
      <4>1. Op.op = "sync" /\ D2 = D /\ ds2 = {D}
        BY <3>2 DEF SyncStep, Cuts
      <4>2. Effect(Op, c, D, D) /\ BackupEffect(Op, c, D.reg, D, D)
        BY <4>1, NoEffect, NoBackupEffect
      <4>3. D \in ds
        BY <1>2 DEF Cuts
      <4> QED BY <4>1, <4>2, <4>3
    <3>3. CASE NoteStep
      <4>1. Op.op = "note" /\ D2 = D /\ ds2 = ds
        BY <3>3 DEF NoteStep, Cuts
      <4>2. Effect(Op, c, D, D) /\ BackupEffect(Op, c, D.reg, D, D)
        BY <4>1, NoEffect, NoBackupEffect
      <4>3. D \in ds /\ Op # Sync
        BY <1>2, <4>1 DEF Cuts, Sync
      <4> QED BY <4>1, <4>2, <4>3
    <3> QED BY <3>1, <3>2, <3>3
  <2>2. D \in Files /\ D2 \in Files /\ ds \in SUBSET Files /\ ds2 \in SUBSET Files
    <3>1. D \in Files /\ ds \in SUBSET Files
      BY <1>1, CutsFiles
    <3>2. D2 \in Files /\ ds2 \in SUBSET Files
      BY <1>1 DEF Types, Cuts
    <3> QED BY <3>1, <3>2
  <2>3. P \in [Exts -> Content] /\ feed \in BOOLEAN /\ MarkSafe(c, D, ds, todo, feed)
    BY DEF Backed, Orderly
  <2>4. BakSafe(c, D, ds, todo, P) /\ todo' = Rest /\ ordered'[c] = P
    BY <1>1, <1>3
  <2> HIDE DEF D, D2, ds, ds2, P, feed
  <2>5. BakSafe(c, D2, ds2, Rest, P)
    BY <1>2, <2>1, <2>2, <2>3, <2>4, BakStep
  <2> QED BY <2>4, <2>5 DEF D2, ds2
<1> QED BY <1>1, <1>3 DEF Backed

(* Procedures called at rest: backups of the categories of V, after a      *)
(* connection with the regular set that was not yet backed up              *)
LEMMA CalledBacked ==
  ASSUME Inv, Orderly, Backed, todo = <<>>, UNCHANGED <<disk, cuts>>, count'.faults = count.faults,
         NEW V \in SUBSET Cats, NEW r, ~r, BakPlan(todo', V, r),
         \A c \in V : ~bakDone[c] /\ ~Updates(todo', c),
         ordered' = [c \in Cats |-> IF c \in V THEN disk[c].reg ELSE ordered[c]]
  PROVE  Backed'
<1>1. Types
  BY DEF Inv
<1>2. ordered' \in [Cats -> [Exts -> Content]]
  BY <1>1 DEF Backed, Types, Files
<1>3. ASSUME NEW c \in Cats, BakSafe(c, disk[c], Cuts(c), todo, ordered[c])
      PROVE  BakSafe(c, disk'[c], Cuts(c)', todo', ordered'[c])
  <2> DEFINE D == disk[c]
             ds == Cuts(c)
             P == ordered[c]
             Q == ordered'[c]
  <2>1. ds = Cuts(c)' /\ disk'[c] = D
    BY DEF Cuts
  <2>2. BakSafe(c, D, ds, <<>>, P)
    BY <1>3
  <2>3. D \in ds /\ \A d \in ds : ~d.cpy /\ d.reg = D.reg /\ d.don = D.don /\ (d.don => d.bak = P)
    BY <2>2, IdleBak
  <2>4. CASE c \notin V
    <3>1. Q = P /\ ~Has(todo', ClearCpy(c))
      <4>1. ClearCpy(c) # Note(c)
        BY DEF ClearCpy, Mark, Note
      <4> QED BY <2>4, <4>1 DEF BakPlan, BackupOf
    <3> HIDE DEF D, ds, P, Q
    <3>2. BakSafe(c, D, ds, todo', P)
      BY <2>2, <3>1, NoBackup
    <3> QED BY <2>1, <3>1, <3>2 DEF Q
  <2>5. CASE c \in V
    <3>1. Q = D.reg /\ ~Has(todo', SetUpd(c)) /\ \A e \in Exts : ~Has(todo', Rename(c, e))
      BY <2>5 DEF Updates
    <3>2. \A d \in ds : d.upd => Bare(d)
      BY IdleMark DEF Orderly
    <3>3. ~D.don
      BY <2>5, NoProcedure DEF Orderly, Noted
    <3> HIDE DEF D, ds, P, Q
    <3>4. BakSafe(c, D, ds, todo', Q)
      BY <2>3, <2>5, <3>1, <3>2, <3>3, BackupCalled
    <3> QED BY <2>1, <3>4 DEF Q
  <2> QED BY <2>4, <2>5
<1>4. count'.faults = 0 => \A c \in Cats : BakSafe(c, disk[c], Cuts(c), todo, ordered[c])
  BY DEF Backed
<1> QED BY <1>2, <1>3, <1>4 DEF Backed

(* The set that is to be backed up *)
LEMMA ProvenSet ==
  ASSUME Backed, NEW c \in Cats, NEW works \in BOOLEAN, NEW p,
         IF works THEN CallBackup(c, p) ELSE UNCHANGED <<ordered, proven>>
  PROVE  LET V == IF works /\ ~bakDone[c] THEN {c} ELSE {}
         IN  ordered' = [k \in Cats |-> IF k \in V THEN disk[k].reg ELSE ordered[k]]
BY DEF Backed, CallBackup

LEMMA RespondBacked ==
  ASSUME Inv, Orderly, Backed, NEW offer \in Offers, NEW usingReg \in BOOLEAN, Respond(offer, usingReg)
  PROVE  Backed'
<1> DEFINE V == IF usingReg /\ ~bakDone["cups"] THEN {"cups"} ELSE {}
           r == FALSE
<1>1. Types /\ todo = <<>> /\ count.sessions < MaxSessions /\ UNCHANGED <<disk, cuts>> /\ count'.faults = count.faults
  <2>1. Types /\ todo = <<>> /\ count.sessions < MaxSessions /\ UNCHANGED <<disk, cuts>>
        /\ count' = [count EXCEPT !.sessions = @ + 1]
    BY DEF Inv, Respond, Idle
  <2> QED BY <2>1 DEF Types
<1>2. offer \in [Cats -> SUBSET {"uri", "cred"}]
  BY ConfAssumption
<1>3. todo' = (IF usingReg THEN BackupOnce("cups") ELSE <<>>) \o <<Reset>> \o SaveUris(offer)
  BY DEF Respond
<1>4. BakPlan(todo', V, r) /\ ~r
  BY <1>1, <1>2, <1>3, BakPlanRespond
<1>5. \A c \in Cats : ~Updates(todo', c)
  BY <1>1, <1>2, <1>3, RespondPlan DEF Updates
<1>6. V \in SUBSET Cats /\ \A c \in V : ~bakDone[c] /\ ~Updates(todo', c)
  BY <1>5 DEF Cats
<1>7. ordered' = [c \in Cats |-> IF c \in V THEN disk[c].reg ELSE ordered[c]]
  BY ProvenSet DEF Respond, Cats
<1> HIDE DEF V, r
<1> QED BY <1>1, <1>4, <1>6, <1>7, CalledBacked

LEMMA ConnectedBacked ==
  ASSUME Inv, Orderly, Backed, Malformed \/ MuxsConnected
  PROVE  Backed'
<1> DEFINE r == FALSE
<1>1. PICK c \in Cats, p \in {CupsSet, [set |-> dial.set, latest |-> dial.latest]} :
        todo' = BackupOnce(c) /\ CallBackup(c, p)
  BY DEF Malformed, MuxsConnected, Cats
<1>2. todo = <<>> /\ UNCHANGED <<disk, cuts, count>>
  BY DEF Malformed, MuxsConnected, Idle, memory
<1> DEFINE V == IF bakDone[c] THEN {} ELSE {c}
<1>3. BakPlan(todo', V, r) /\ \A o : Has(todo', o) => Quiet(o)
  BY <1>1, BakPlanOnce
<1>4. V \in SUBSET Cats /\ \A k \in V : ~bakDone[k] /\ ~Updates(todo', k)
  BY <1>3 DEF Updates, Quiet
<1>5. ~r
  OBVIOUS
<1>6. ordered' = [k \in Cats |-> IF k \in V THEN disk[k].reg ELSE ordered[k]]
  BY <1>1 DEF Backed, CallBackup
<1> HIDE DEF r, V
<1> QED BY <1>2, <1>3, <1>4, <1>5, <1>6, CalledBacked

(* Procedures without a backup *)
LEMMA OtherBacked ==
  ASSUME Backed, todo = <<>>, UNCHANGED <<disk, cuts, count, ordered>>, \A c \in Cats : ~Has(todo', ClearCpy(c))
  PROVE  Backed'
<1>1. ASSUME NEW c \in Cats, BakSafe(c, disk[c], Cuts(c), todo, ordered[c])
      PROVE  BakSafe(c, disk'[c], Cuts(c)', todo', ordered'[c])
  <2> DEFINE D == disk[c]
             ds == Cuts(c)
             P == ordered[c]
  <2>1. ds = Cuts(c)' /\ disk'[c] = D /\ ordered'[c] = P
    BY DEF Cuts
  <2>2. BakSafe(c, D, ds, <<>>, P)
    BY <1>1
  <2> HIDE DEF D, ds, P
  <2>3. BakSafe(c, D, ds, todo', P)
    BY <2>2, NoBackup
  <2> QED BY <2>1, <2>3
<1> QED BY <1>1 DEF Backed

LEMMA SessionBacked ==
  ASSUME Inv, Backed, Commit \/ Break \/ Started \/ \E c \in Cats, parsed \in BOOLEAN : Credential(c, parsed)
  PROVE  Backed'
<1>1. todo = <<>> /\ UNCHANGED <<disk, cuts, count, ordered>>
  BY DEF Commit, Break, Started, Credential, history, Idle
<1>2. ASSUME NEW c \in Cats PROVE ~Has(todo', ClearCpy(c))
  <2>1. ~Has(<<>>, ClearCpy(c))
    BY NoProcedure
  <2>2. CASE Commit
    <3>1. CASE "error" \in updateState
      BY <1>1, <2>1, <2>2, <3>1 DEF Commit
    <3>2. CASE "error" \notin updateState
      <4>1. todo' = (IF "cups" \in updateState THEN <<Update("cups", FALSE)>> ELSE <<>>)
                    \o (IF "tc" \in updateState THEN <<Update("tc", FALSE)>> ELSE <<>>)
        BY <2>2, <3>2 DEF Commit
      <4> DEFINE V == {}
                 r == FALSE
      <4>2. BakPlan(todo', V, r) /\ c \notin V
        BY <4>1, BakPlanCommit
      <4> HIDE DEF V, r
      <4>3. ClearCpy(c) # Note(c)
        BY DEF ClearCpy, Mark, Note
      <4> QED BY <4>2, <4>3 DEF BakPlan, BackupOf
    <3> QED BY <3>1, <3>2
  <2>3. CASE Break \/ Started
    BY <1>1, <2>1, <2>3 DEF Break, Started
  <2>4. ASSUME NEW k \in Cats, NEW parsed \in BOOLEAN, Credential(k, parsed) PROVE ~Has(todo', ClearCpy(c))
    <3> DEFINE p == ForExts(CredExts, LAMBDA e : Write(k, "temp", e, count.sessions))
    <3>1. todo' = IF parsed THEN <<p>> ELSE <<>>
      BY <2>4 DEF Credential
    <3>2. count.sessions \in Content
      BY DEF Inv, Types, Content
    <3>3. p \in Procedure /\ \A o : In(p, o) <=> \E e \in CredExts : o = Write(k, "temp", e, count.sessions)
      BY <3>2, CredWrites
    <3> HIDE DEF p
    <3>4. ~In(p, ClearCpy(c))
      BY <3>3 DEF ClearCpy, Mark, Write
    <3>5. ~Has(<<p>>, ClearCpy(c))
      BY <3>4 DEF Has
    <3> QED BY <2>1, <3>1, <3>5
  <2> QED BY <2>2, <2>3, <2>4
<1> QED BY <1>1, <1>2, OtherBacked

(* A start: what was being copied when the station stopped is copied again. *)
LEMMA RestartBacked ==
  ASSUME Inv, Orderly, Backed, NEW d \in cuts, Restart(d)
  PROVE  Backed'
<1>1. d \in [Cats -> Files]
  BY DEF Inv, Types
<1>2. /\ disk' = d /\ cuts' = {d} /\ todo' = RollForward(d) /\ ordered' = ordered /\ count'.faults = count.faults
  <2>1. count \in [sessions : 0 .. MaxSessions, crashes : Nat, faults : Nat]
    BY DEF Inv, Types
  <2> QED BY <2>1 DEF Restart
<1> DEFINE U == {c \in Cats : d[c].upd}
           V == {c \in Cats : d[c].cpy}
           r == TRUE
<1>3. PlanOf(todo', U, r) /\ BakPlan(todo', V, r)
  BY <1>1, <1>2, PlanRollForward, BakPlanRollForward
<1>4. r
  OBVIOUS
<1> HIDE DEF r
<1>5. ASSUME NEW c \in Cats, BakSafe(c, disk[c], Cuts(c), todo, ordered[c])
      PROVE  BakSafe(c, disk'[c], Cuts(c)', todo', ordered'[c])
  <2> DEFINE D == d[c]
             ds == {d[c]}
             P == ordered[c]
             old == disk[c]
  <2>1. disk'[c] = D /\ Cuts(c)' = ds /\ ordered'[c] = P
    BY <1>2 DEF Cuts
  <2>2. Saved(c, old, todo, P, D)
    BY <1>5 DEF BakSafe, Cuts
  <2>3. ~Has(todo', SetUpd(c)) /\ \A e \in Exts : Has(todo', Rename(c, e)) => D.upd
    BY <1>3, <1>4 DEF PlanOf
  <2>4. CASE ~D.cpy
    <3>1. c \notin V
      BY <2>4
    <3>2. ~Has(todo', ClearCpy(c))
      <4>1. ClearCpy(c) # Note(c)
        BY DEF ClearCpy, Mark, Note
      <4> HIDE DEF V
      <4> QED BY <1>3, <3>1, <4>1 DEF BakPlan, BackupOf
    <3>3. BakSafe(c, D, ds, todo', P)
      BY <2>2, <2>4, <3>2 DEF BakSafe, Saved
    <3> QED BY <2>1, <3>3
  <2>5. CASE D.cpy
    <3>1. c \in V
      BY <2>5
    <3>2. D.reg = P /\ (D.upd => Bare(D))
      BY <2>2, <2>5 DEF Saved
    <3>3. D \in ds /\ (r => \A x \in ds : x.cpy)
          /\ \A x \in ds : /\ x.reg = P /\ x.don = D.don /\ (x.upd => Bare(x)) /\ (x.don => x.cpy)
                           /\ \A e \in Exts : Has(todo', Rename(c, e)) => Bare(x)
      BY <2>3, <2>5, <3>2
    <3> HIDE DEF V, D, ds, P
    <3>4. BakSafe(c, D, ds, todo', P)
      BY <1>3, <2>3, <3>1, <3>3, BackupCalled
    <3> QED BY <2>1, <3>4
  <2> QED BY <2>4, <2>5
<1>6. ordered' \in [Cats -> [Exts -> Content]]
      /\ (count'.faults = 0 => \A c \in Cats : BakSafe(c, disk[c], Cuts(c), todo, ordered[c]))
  BY <1>2 DEF Backed
<1> QED BY <1>5, <1>6 DEF Backed

LEMMA NextBacked == ASSUME Inv, Inv', Orderly, Backed, [Next]_vars PROVE Backed'
<1>1. CASE FileStep \/ SyncStep \/ NoteStep
  BY <1>1, StepBacked
<1>2. CASE WriteFault
  <2>1. count' = [count EXCEPT !.faults = @ + 1] /\ ordered' = ordered
    BY <1>2 DEF WriteFault, history
  <2>2. count \in [sessions : 0 .. MaxSessions, crashes : Nat, faults : Nat]
    BY DEF Inv, Types
  <2>3. count'.faults # 0
    BY <2>1, <2>2
  <2> QED BY <2>1, <2>3 DEF Backed
<1>3. CASE \E offer \in Offers, usingReg \in BOOLEAN : Respond(offer, usingReg)
  BY <1>3, RespondBacked
<1>4. CASE Malformed \/ MuxsConnected
  BY <1>4, ConnectedBacked
<1>5. CASE Commit \/ Break \/ Started \/ \E c \in Cats, parsed \in BOOLEAN : Credential(c, parsed)
  BY <1>5, SessionBacked
<1>6. CASE Crash \/ PowerFailure
  <2>1. PICK d \in cuts : Restart(d)
    BY <1>6 DEF Crash, PowerFailure, Orderly
  <2> QED BY <2>1, RestartBacked
<1>7. CASE TcStart \/ TcConnectMuxs \/ UNCHANGED vars
  <2>1. UNCHANGED <<disk, cuts, todo, count, ordered>>
    BY <1>7 DEF TcStart, TcConnectMuxs, history, vars
  <2> QED BY <2>1 DEF Backed, Cuts
<1> QED BY <1>1, <1>2, <1>3, <1>4, <1>5, <1>6, <1>7 DEF Next

LEMMA InitBacked == ASSUME Init PROVE Backed
<1>1. ordered \in [Cats -> [Exts -> Content]]
  BY DEF Init, NoFiles, Content
<1>2. ASSUME NEW c \in Cats PROVE BakSafe(c, disk[c], Cuts(c), todo, ordered[c])
  <2>1. todo = <<>> /\ Cuts(c) = {disk[c]} /\ ~disk[c].cpy /\ ~disk[c].don
    BY DEF Init, Cuts
  <2>2. ~Has(<<>>, ClearCpy(c))
    BY NoProcedure
  <2> QED BY <2>1, <2>2 DEF BakSafe, Saved
<1> QED BY <1>1, <1>2 DEF Backed

LEMMA BackedBakProven == ASSUME Backed, Dialled PROVE BakProven
<1> SUFFICES ASSUME Idle, count.faults = 0, NEW c \in Cats, disk[c].don
             PROVE  disk[c].bak = ordered[c] /\ (proven[c].latest => disk[c].bak = proven[c].set)
  BY DEF BakProven
<1>1. BakSafe(c, disk[c], Cuts(c), <<>>, ordered[c])
  BY DEF Backed, Idle
<1>2. disk[c].bak = ordered[c]
  BY <1>1, IdleBak
<1>3. proven[c].latest => proven[c].set = ordered[c]
  BY DEF Dialled, Fresh
<1> QED BY <1>2, <1>3

(* backupConfigFiles makes the marker of the copy and syncs before it      *)
(* takes the done marker away, and syncs the copies before it takes the    *)
(* marker of the copy away; checkRollForward copies again when it finds    *)
(* the marker.  So a backup marked as done is the regular set as it was    *)
(* when the station had connected and called for it, whatever crashes and  *)
(* power failures came between, unless a write failed; and it is what the  *)
(* station had connected with, unless an update of the set of TC came      *)
(* between tc_start, which read it, and the connection.                    *)
THEOREM BackupSound == Spec => []BakProven
<1>1. Init => Inv /\ Orderly /\ Backed /\ Dialled
  BY InitInv, InitOrderly, InitBacked, InitDialled
<1>2. Inv /\ Orderly /\ Backed /\ Dialled /\ [Next]_vars => Inv' /\ Orderly' /\ Backed' /\ Dialled'
  BY NextInv, NextOrderly, NextBacked, NextDialled
<1>3. Backed /\ Dialled => BakProven
  BY BackedBakProven
<1> QED BY <1>1, <1>2, <1>3, PTL DEF Spec
=============================================================================
