---------------------------- MODULE RmtShProofs ----------------------------
(***************************************************************************)
(* Proofs about the remote shells of rmtsh.c, for any number of sessions,  *)
(* sizes of buffers, frames and chunks.  Each session has two streams: the *)
(* output of the shell, cut into reads, chunks and compactions, and the    *)
(* bytes for it, which overtake nothing in dnbuf.  The invariant says of   *)
(* one session how the places where its bytes are make up its streams.     *)
(***************************************************************************)
EXTENDS RmtSh, SequenceTheorems, TLAPS

Session == [run : BOOLEAN, up : Seq(Nat), sink : Nat, dn : Seq(Nat), dnsink : Nat, wrfn : BOOLEAN]
Shell == [tty : Seq(Nat), unread : 0 .. TTYSZ, ended : BOOLEAN]
Link == [room : 0 .. SENDBUF, peer : [Sessions -> BOOLEAN], missed : [Sessions -> BOOLEAN]]

(* upbuf is compacted as soon as it may be. *)
UpSound(v) ==
  /\ v.sink <= Len(v.up) /\ Len(v.up) <= UPBUFSZ
  /\ Len(v.up) >= UPBUFHI => v.sink = 0

DnSound(v) == v.dnsink <= Len(v.dn) /\ Len(v.dn) <= DNBUFSZ

(* Seq all are numbers in order, each of which is one of mk. *)
Kept(all, mk) ==
  /\ \A i, j \in 1 .. Len(all) : i < j => all[i] < all[j]
  /\ \A i \in 1 .. Len(all) : \E j \in 1 .. Len(mk) : all[i] = mk[j]

All(v, h, sn) == sn \o Rest(v.up, v.sink) \o h.tty

(* Output of session v with shell h that wrote mk, sent sn; dr: dropped *)
Upstream(v, h, mk, sn, dr) ==
  /\ mk \in Seq(Nat) /\ sn \in Seq(Nat)
  /\ Kept(All(v, h, sn), mk)
  /\ ~dr => All(v, h, sn) = mk

Downstream(v, gv, ty) ==
  /\ gv \in Seq(Nat) /\ ty \in Seq(Nat)
  /\ ty \o Rest(v.dn, v.dnsink) = gv

Till(mk, n) == \A j \in 1 .. Len(mk) : mk[j] <= n

(* A full upbuf is sent on, or the session stopped, before up_read ends; *)
(* without TC it never gets full.                                        *)
Drains(s) == Len(session[s].up) = UPBUFSZ => reading = s /\ tc # "none"

SessionInv(s) ==
  /\ session[s] \in Session /\ UpSound(session[s]) /\ DnSound(session[s])
  /\ shell[s] \in Shell
  /\ Upstream(session[s], shell[s], made[s], seen[s], dropped[s])
  /\ Till(made[s], produced)
  /\ Downstream(session[s], given[s], typed[s])
  /\ Drains(s)

Types ==
  /\ tc \in {"none", "down", "up"} /\ reading \in Sessions \cup {None} /\ answer \in BOOLEAN
  /\ session \in [Sessions -> Session] /\ shell \in [Sessions -> Shell]
  /\ link \in Link
  /\ made \in [Sessions -> Seq(Nat)] /\ seen \in [Sessions -> Seq(Nat)]
  /\ given \in [Sessions -> Seq(Nat)] /\ typed \in [Sessions -> Seq(Nat)]
  /\ dropped \in [Sessions -> BOOLEAN]
  /\ produced \in 0 .. MaxOut /\ received \in 0 .. MaxIn /\ starts \in 0 .. MaxStarts

IInv == Types /\ (\A s \in Sessions : SessionInv(s)) /\ PeerInformed
-----------------------------------------------------------------------------
(* Lemmas about sequences *)

LEMMA Sizes ==
  /\ {UPBUFSZ, DNBUFSZ, WS_CHUNKS, SENDBUF, TTYSZ, UPBUFHI} \subseteq Nat
  /\ UPBUFHI >= 1 /\ UPBUFHI < UPBUFSZ /\ WS_CHUNKS > 1 /\ DNBUFSZ > 0 /\ TTYSZ > 0
BY RmtShAssumption DEF UPBUFHI

LEMMA Bounds ==
  MaxOut \in Nat /\ MaxIn \in Nat /\ MaxStarts \in Nat /\ Lengths \subseteq Nat /\ None \notin Sessions
BY RmtShAssumption

LEMMA Parts ==
  ASSUME NEW q \in Seq(Nat), NEW m \in Nat, NEW n \in Nat, m <= n, n <= Len(q)
  PROVE  /\ SubSeq(q, m + 1, n) \in Seq(Nat) /\ Len(SubSeq(q, m + 1, n)) = n - m
         /\ \A i \in 1 .. n - m : SubSeq(q, m + 1, n)[i] = q[m + i]
         /\ Rest(q, n) \in Seq(Nat) /\ Len(Rest(q, n)) = Len(q) - n
         /\ \A i \in 1 .. Len(q) - n : Rest(q, n)[i] = q[n + i]
         /\ SubSeq(q, m + 1, n) \o Rest(q, n) = Rest(q, m)
<1>1. Len(q) \in Nat /\ \A i \in 1 .. Len(q) : q[i] \in Nat
  BY LenProperties, ElementOfSeq
<1>2. ASSUME NEW a \in Nat, NEW b \in Nat, a <= b, b <= Len(q)
      PROVE  /\ SubSeq(q, a + 1, b) \in Seq(Nat) /\ Len(SubSeq(q, a + 1, b)) = b - a
             /\ \A i \in 1 .. b - a : SubSeq(q, a + 1, b)[i] = q[a + i]
  <2>1. \A i \in a + 1 .. b : q[i] \in Nat
    BY <1>1, <1>2
  <2>2. a + 1 \in Int /\ b \in Int /\ b - (a + 1) + 1 = b - a
    OBVIOUS
  <2>3. /\ SubSeq(q, a + 1, b) \in Seq(Nat)
        /\ Len(SubSeq(q, a + 1, b)) = IF a + 1 <= b THEN b - (a + 1) + 1 ELSE 0
        /\ \A i \in 1 .. b - (a + 1) + 1 : SubSeq(q, a + 1, b)[i] = q[a + 1 + i - 1]
    BY <2>1, <2>2, SubSeqProperties
  <2>4. Len(SubSeq(q, a + 1, b)) = b - a
    BY <1>2, <2>3
  <2>5. ASSUME NEW i \in 1 .. b - a PROVE SubSeq(q, a + 1, b)[i] = q[a + i]
    <3>1. i \in 1 .. b - (a + 1) + 1 /\ a + 1 + i - 1 = a + i
      OBVIOUS
    <3> QED
      BY <2>3, <3>1
  <2> QED
    BY <2>3, <2>4, <2>5
<1>3. /\ SubSeq(q, m + 1, n) \in Seq(Nat) /\ Len(SubSeq(q, m + 1, n)) = n - m
      /\ \A i \in 1 .. n - m : SubSeq(q, m + 1, n)[i] = q[m + i]
  BY <1>2
<1>4. ASSUME NEW k \in Nat, k <= Len(q)
      PROVE  /\ Rest(q, k) \in Seq(Nat) /\ Len(Rest(q, k)) = Len(q) - k
             /\ \A i \in 1 .. Len(q) - k : Rest(q, k)[i] = q[k + i]
  BY <1>1, <1>2, <1>4 DEF Rest
<1>5. SubSeq(q, m + 1, n) \o Rest(q, n) = Rest(q, m)
  <2>1. m + 1 \in 1 .. Len(q) + 1 /\ n \in (m + 1) - 1 .. Len(q) /\ Len(q) \in n .. Len(q)
    BY <1>1
  <2> QED
    BY <2>1, ConcatAdjacentSubSeq DEF Rest
<1> QED
  BY <1>1, <1>3, <1>4, <1>5

LEMMA RestIs ==
  ASSUME NEW q \in Seq(Nat), NEW n \in Nat, n <= Len(q)
  PROVE  /\ Rest(q, n) \in Seq(Nat) /\ Len(Rest(q, n)) = Len(q) - n
         /\ \A i \in 1 .. Len(q) - n : Rest(q, n)[i] = q[n + i]
BY Parts

LEMMA Joined ==
  ASSUME NEW a \in Seq(Nat), NEW b \in Seq(Nat)
  PROVE  /\ a \o b \in Seq(Nat) /\ Len(a \o b) = Len(a) + Len(b)
         /\ \A i \in 1 .. Len(a) : (a \o b)[i] = a[i]
         /\ \A i \in 1 .. Len(b) : (a \o b)[Len(a) + i] = b[i]
         /\ Len(a) \in Nat /\ Len(b) \in Nat
BY ConcatProperties, LenProperties

LEMMA Associates ==
  ASSUME NEW a \in Seq(Nat), NEW b \in Seq(Nat), NEW c \in Seq(Nat)
  PROVE  (a \o b) \o c = a \o (b \o c)
BY ConcatAssociative, SMTT(30)

(* What follows a position in the first of two sequences *)
LEMMA RestOfJoined ==
  ASSUME NEW a \in Seq(Nat), NEW b \in Seq(Nat), NEW n \in Nat, n <= Len(a)
  PROVE  Rest(a \o b, n) = Rest(a, n) \o b
<1> DEFINE p == a \o b
           r == Rest(a, n)
           q == r \o b
           t == Rest(p, n)
<1>1. /\ p \in Seq(Nat) /\ Len(p) = Len(a) + Len(b)
      /\ \A i \in 1 .. Len(a) : p[i] = a[i]
      /\ \A i \in 1 .. Len(b) : p[Len(a) + i] = b[i]
      /\ Len(a) \in Nat /\ Len(b) \in Nat
  BY Joined
<1>2. /\ r \in Seq(Nat) /\ Len(r) = Len(a) - n
      /\ \A i \in 1 .. Len(a) - n : r[i] = a[n + i]
  BY RestIs
<1> HIDE DEF p, r
<1>3. /\ q \in Seq(Nat) /\ Len(q) = Len(a) - n + Len(b)
      /\ \A i \in 1 .. Len(a) - n : q[i] = r[i]
      /\ \A i \in 1 .. Len(b) : q[Len(a) - n + i] = b[i]
  <2>1. /\ q \in Seq(Nat) /\ Len(q) = Len(r) + Len(b)
        /\ \A i \in 1 .. Len(r) : q[i] = r[i]
        /\ \A i \in 1 .. Len(b) : q[Len(r) + i] = b[i]
    BY <1>2, Joined
  <2> HIDE DEF q
  <2> QED
    BY <1>2, <2>1
<1>4. /\ t \in Seq(Nat) /\ Len(t) = Len(a) + Len(b) - n
      /\ \A i \in 1 .. Len(a) + Len(b) - n : t[i] = p[n + i]
  <2>1. n <= Len(p)
    BY <1>1
  <2>2. /\ t \in Seq(Nat) /\ Len(t) = Len(p) - n
        /\ \A i \in 1 .. Len(p) - n : t[i] = p[n + i]
    BY <1>1, <2>1, RestIs
  <2> QED
    BY <1>1, <2>2
<1> HIDE DEF q, t
<1>5. Len(t) = Len(q)
  BY <1>1, <1>3, <1>4
<1>6. ASSUME NEW i \in 1 .. Len(t) PROVE t[i] = q[i]
  <2>1. i \in 1 .. Len(a) + Len(b) - n /\ t[i] = p[n + i]
    BY <1>4
  <2>2. CASE i <= Len(a) - n
    <3>1. i \in 1 .. Len(a) - n /\ n + i \in 1 .. Len(a)
      BY <1>1, <2>1, <2>2
    <3> QED
      BY <1>1, <1>2, <1>3, <2>1, <3>1
  <2>3. CASE i > Len(a) - n
    <3> DEFINE k == i - (Len(a) - n)
    <3>1. k \in 1 .. Len(b) /\ n + i = Len(a) + k /\ i = Len(a) - n + k
      BY <1>1, <2>1, <2>3
    <3> HIDE DEF k
    <3>2. t[i] = p[Len(a) + k] /\ q[i] = q[Len(a) - n + k]
      BY <2>1, <3>1
    <3> QED
      BY <1>1, <1>3, <3>1, <3>2
  <2> QED
    BY <1>1, <2>1, <2>2, <2>3
<1>7. t = q
  BY <1>3, <1>4, <1>5, <1>6, SeqEqual
<1> QED
  BY <1>7 DEF t, q, p, r

LEMMA NothingTaken ==
  ASSUME NEW q \in Seq(Nat)
  PROVE  Rest(q, 0) = q
BY SubSeqFull DEF Rest

LEMMA AllTaken ==
  ASSUME NEW q \in Seq(Nat)
  PROVE  Rest(q, Len(q)) = <<>>
<1>1. Len(q) \in Nat
  BY LenProperties
<1> QED
  BY <1>1, SubSeqEmpty DEF Rest

LEMMA FrontAndRest ==
  ASSUME NEW q \in Seq(Nat), NEW n \in Nat, n <= Len(q)
  PROVE  /\ Front(q, n) \in Seq(Nat) /\ Len(Front(q, n)) = n
         /\ Front(q, n) \o Rest(q, n) = q
<1>1. /\ SubSeq(q, 0 + 1, n) \in Seq(Nat) /\ Len(SubSeq(q, 0 + 1, n)) = n - 0
      /\ SubSeq(q, 0 + 1, n) \o Rest(q, n) = Rest(q, 0)
  BY Parts, SMTT(30)
<1>2. 0 + 1 = 1 /\ n - 0 = n
  OBVIOUS
<1> QED
  BY <1>1, <1>2, NothingTaken DEF Front

LEMMA SmallerOf ==
  ASSUME NEW m \in Int, NEW n \in Int
  PROVE  Smaller(m, n) \in {m, n} /\ Smaller(m, n) <= m /\ Smaller(m, n) <= n
BY DEF Smaller

(* Order and origin survive if a part in the middle goes. *)
LEMMA MiddleGone ==
  ASSUME NEW a \in Seq(Nat), NEW b \in Seq(Nat), NEW c \in Seq(Nat), NEW mk \in Seq(Nat),
         Kept(a \o (b \o c), mk)
  PROVE  Kept(a \o c, mk)
<1> DEFINE p == a \o (b \o c)
           q == a \o c
           f(i) == IF i <= Len(a) THEN i ELSE i + Len(b)
<1>1. /\ Len(a) \in Nat /\ Len(b) \in Nat /\ Len(c) \in Nat
      /\ b \o c \in Seq(Nat) /\ Len(b \o c) = Len(b) + Len(c)
      /\ \A i \in 1 .. Len(c) : (b \o c)[Len(b) + i] = c[i]
  BY Joined
<1>2. /\ q \in Seq(Nat) /\ Len(q) = Len(a) + Len(c)
      /\ \A i \in 1 .. Len(a) : q[i] = a[i]
      /\ \A i \in 1 .. Len(c) : q[Len(a) + i] = c[i]
  BY Joined
<1>3. /\ p \in Seq(Nat) /\ Len(p) = Len(a) + (Len(b) + Len(c))
      /\ \A i \in 1 .. Len(a) : p[i] = a[i]
      /\ \A i \in 1 .. Len(b) + Len(c) : p[Len(a) + i] = (b \o c)[i]
  <2> DEFINE r == b \o c
  <2>1. r \in Seq(Nat) /\ Len(r) = Len(b) + Len(c)
    BY <1>1
  <2> HIDE DEF r
  <2>2. /\ a \o r \in Seq(Nat) /\ Len(a \o r) = Len(a) + Len(r)
        /\ \A i \in 1 .. Len(a) : (a \o r)[i] = a[i]
        /\ \A i \in 1 .. Len(r) : (a \o r)[Len(a) + i] = r[i]
    BY <2>1, Joined
  <2> QED
    BY <2>1, <2>2 DEF r
<1> HIDE DEF p, q
<1>4. ASSUME NEW i \in 1 .. Len(q) PROVE f(i) \in 1 .. Len(p) /\ q[i] = p[f(i)]
  <2>1. CASE i <= Len(a)
    BY <1>1, <1>2, <1>3, <2>1
  <2>2. CASE i > Len(a)
    <3> DEFINE k == i - Len(a)
    <3>1. k \in 1 .. Len(c) /\ i = Len(a) + k /\ Len(b) + k \in 1 .. Len(b) + Len(c)
      BY <1>1, <1>2, <2>2
    <3>2. f(i) = Len(a) + (Len(b) + k)
      BY <1>1, <2>2, <3>1
    <3> HIDE DEF k, f
    <3>3. q[i] = c[k] /\ p[f(i)] = (b \o c)[Len(b) + k]
      BY <1>2, <1>3, <3>1, <3>2
    <3>4. f(i) \in 1 .. Len(p)
      <4>1. Len(p) = Len(a) + (Len(b) + Len(c))
        BY <1>3
      <4> QED
        BY <1>1, <3>1, <3>2, <4>1
    <3> QED
      BY <1>1, <3>1, <3>3, <3>4
  <2> QED
    BY <1>1, <1>2, <2>1, <2>2
<1>5. ASSUME NEW i \in 1 .. Len(q), NEW j \in 1 .. Len(q), i < j PROVE f(i) < f(j)
  BY <1>1, <1>2, <1>5, SMTT(30)
<1> HIDE DEF f
<1>6. Kept(p, mk)
  BY DEF p
<1>7. ASSUME NEW i \in 1 .. Len(q), NEW j \in 1 .. Len(q), i < j PROVE q[i] < q[j]
  <2>1. /\ f(i) \in 1 .. Len(p) /\ f(j) \in 1 .. Len(p) /\ f(i) < f(j)
        /\ q[i] = p[f(i)] /\ q[j] = p[f(j)]
    BY <1>4, <1>5, <1>7
  <2> QED
    BY <1>6, <2>1 DEF Kept
<1>8. ASSUME NEW i \in 1 .. Len(q) PROVE \E j \in 1 .. Len(mk) : q[i] = mk[j]
  <2>1. f(i) \in 1 .. Len(p) /\ q[i] = p[f(i)]
    BY <1>4
  <2> QED
    BY <1>6, <2>1 DEF Kept
<1>9. Kept(q, mk)
  BY <1>7, <1>8 DEF Kept
<1> QED
  BY <1>9 DEF q

(* A new and greater number at the end *)
LEMMA NumberAdded ==
  ASSUME NEW a \in Seq(Nat), NEW mk \in Seq(Nat), NEW n \in Nat,
         Kept(a, mk), Till(mk, n)
  PROVE  /\ Kept(Append(a, n + 1), Append(mk, n + 1))
         /\ Till(Append(mk, n + 1), n + 1)
<1>1. /\ Len(a) \in Nat /\ Len(Append(a, n + 1)) = Len(a) + 1
      /\ \A i \in 1 .. Len(a) : Append(a, n + 1)[i] = a[i]
      /\ Append(a, n + 1)[Len(a) + 1] = n + 1
  BY AppendProperties, LenProperties
<1>2. /\ Len(mk) \in Nat /\ Len(Append(mk, n + 1)) = Len(mk) + 1
      /\ \A i \in 1 .. Len(mk) : Append(mk, n + 1)[i] = mk[i] /\ mk[i] \in Nat
      /\ Append(mk, n + 1)[Len(mk) + 1] = n + 1
  BY AppendProperties, LenProperties, ElementOfSeq
<1> DEFINE b == Append(a, n + 1)
           c == Append(mk, n + 1)
<1> HIDE DEF b, c
<1>3. ASSUME NEW i \in 1 .. Len(a) PROVE a[i] <= n /\ a[i] \in Nat
  <2>1. PICK j \in 1 .. Len(mk) : a[i] = mk[j]
    BY DEF Kept
  <2> QED
    BY <1>2, <2>1 DEF Till
<1>4. ASSUME NEW i \in 1 .. Len(b), NEW j \in 1 .. Len(b), i < j PROVE b[i] < b[j]
  <2>1. i \in 1 .. Len(a) /\ b[i] = a[i]
    BY <1>1, <1>4 DEF b
  <2>2. CASE j = Len(a) + 1
    BY <1>1, <1>3, <2>1, <2>2 DEF b
  <2>3. CASE j # Len(a) + 1
    <3>1. j \in 1 .. Len(a) /\ b[j] = a[j]
      BY <1>1, <2>3 DEF b
    <3> QED
      BY <1>4, <2>1, <3>1 DEF Kept
  <2> QED
    BY <2>2, <2>3
<1>5. ASSUME NEW i \in 1 .. Len(b) PROVE \E j \in 1 .. Len(c) : b[i] = c[j]
  <2>1. CASE i = Len(a) + 1
    <3>1. Len(mk) + 1 \in 1 .. Len(c)
      BY <1>2 DEF c
    <3> QED
      BY <1>1, <1>2, <2>1, <3>1 DEF b, c
  <2>2. CASE i # Len(a) + 1
    <3>1. i \in 1 .. Len(a) /\ b[i] = a[i]
      BY <1>1, <2>2 DEF b
    <3>2. PICK j \in 1 .. Len(mk) : a[i] = mk[j]
      BY <3>1 DEF Kept
    <3>3. j \in 1 .. Len(c) /\ c[j] = mk[j]
      BY <1>2 DEF c
    <3> QED
      BY <3>1, <3>2, <3>3
  <2> QED
    BY <2>1, <2>2
<1>6. ASSUME NEW j \in 1 .. Len(c) PROVE c[j] <= n + 1
  BY <1>2 DEF c, Till
<1> QED
  BY <1>4, <1>5, <1>6 DEF Kept, Till, b, c
-----------------------------------------------------------------------------
(* Lemmas about the buffers of a session *)

(* Compaction frees what was sent. *)
LEMMA CompactedUp ==
  ASSUME NEW v \in Session, v.sink <= Len(v.up)
  PROVE  /\ Compacted(v) \in Session
         /\ Compacted(v).sink <= Len(Compacted(v).up)
         /\ Len(Compacted(v).up) >= UPBUFHI => Compacted(v).sink = 0
         /\ Rest(Compacted(v).up, Compacted(v).sink) = Rest(v.up, v.sink)
         /\ Len(Compacted(v).up) <= Len(v.up)
         /\ Len(v.up) >= UPBUFHI => Len(Compacted(v).up) = Len(v.up) - v.sink
         /\ Compacted(v).run = v.run /\ Compacted(v).dn = v.dn /\ Compacted(v).dnsink = v.dnsink
<1>1. v.up \in Seq(Nat) /\ v.sink \in Nat /\ Len(v.up) \in Nat
  BY LenProperties DEF Session
<1>2. CASE Len(v.up) >= UPBUFHI /\ v.sink > 0
  <2> DEFINE r == Rest(v.up, v.sink)
             a == [v EXCEPT !.up = r]
             b == [a EXCEPT !.sink = 0]
  <2>1. r \in Seq(Nat) /\ Len(r) = Len(v.up) - v.sink
    BY <1>1, RestIs
  <2>2. Compacted(v) = b
    BY <1>2 DEF Compacted
  <2> HIDE DEF r
  <2>3. a \in Session /\ a.up = r /\ a.run = v.run /\ a.dn = v.dn /\ a.dnsink = v.dnsink
    BY <2>1 DEF Session
  <2> HIDE DEF a
  <2>4. /\ b \in Session /\ b.up = r /\ b.sink = 0
        /\ b.run = v.run /\ b.dn = v.dn /\ b.dnsink = v.dnsink
    BY <2>3 DEF Session
  <2> HIDE DEF b
  <2>5. Rest(r, 0) = r
    BY <2>1, NothingTaken
  <2> QED
    BY <1>1, <2>1, <2>2, <2>4, <2>5 DEF r
<1>3. CASE ~(Len(v.up) >= UPBUFHI /\ v.sink > 0)
  <2>1. Compacted(v) = v
    BY <1>3 DEF Compacted
  <2> QED
    BY <1>1, <1>3, <2>1, Sizes, SMTT(30)
<1> QED
  BY <1>2, <1>3

(* Without TC the older half of upbuf goes. *)
LEMMA CutUp ==
  ASSUME NEW v \in Session, v.sink <= Len(v.up), v.sink <= UPBUFHI
  PROVE  /\ Cut(v) \in Session /\ Cut(v).up = v.up
         /\ v.sink <= Cut(v).sink /\ Cut(v).sink <= Len(v.up)
         /\ Len(v.up) >= UPBUFHI => Cut(v).sink = UPBUFHI
         /\ Len(v.up) < UPBUFHI => Cut(v) = v
         /\ Cut(v).run = v.run /\ Cut(v).dn = v.dn /\ Cut(v).dnsink = v.dnsink
<1>1. v.up \in Seq(Nat) /\ v.sink \in Nat /\ Len(v.up) \in Nat /\ UPBUFHI \in Nat
  BY LenProperties, Sizes DEF Session
<1>2. CASE Len(v.up) >= UPBUFHI
  <2>1. Cut(v) = [v EXCEPT !.sink = UPBUFHI]
    BY <1>2 DEF Cut
  <2>2. /\ Cut(v) \in Session /\ Cut(v).up = v.up /\ Cut(v).sink = UPBUFHI
        /\ Cut(v).run = v.run /\ Cut(v).dn = v.dn /\ Cut(v).dnsink = v.dnsink
    BY <1>1, <2>1 DEF Session
  <2> QED
    BY <1>1, <1>2, <2>2
<1>3. CASE Len(v.up) < UPBUFHI
  <2>1. Cut(v) = v
    BY <1>1, <1>3 DEF Cut
  <2> QED
    BY <1>1, <1>3, <2>1
<1> QED
  BY <1>1, <1>2, <1>3

(* dn_write takes n bytes from the front of what waits. *)
LEMMA WrittenDn ==
  ASSUME NEW v \in Session, DnSound(v), NEW n \in Nat, n <= Len(v.dn) - v.dnsink,
         NEW gv, NEW ty, Downstream(v, gv, ty)
  PROVE  /\ Written(v, n) \in Session /\ DnSound(Written(v, n))
         /\ Downstream(Written(v, n), gv, ty \o SubSeq(v.dn, v.dnsink + 1, v.dnsink + n))
         /\ Written(v, n).run = v.run /\ Written(v, n).up = v.up /\ Written(v, n).sink = v.sink
<1> DEFINE w == Written(v, n)
           x == SubSeq(v.dn, v.dnsink + 1, v.dnsink + n)
<1>1. /\ v.dn \in Seq(Nat) /\ v.dnsink \in Nat /\ Len(v.dn) \in Nat /\ DNBUFSZ \in Nat
      /\ v.dnsink <= Len(v.dn) /\ Len(v.dn) <= DNBUFSZ
  BY LenProperties, Sizes DEF Session, DnSound
<1>2. gv \in Seq(Nat) /\ ty \in Seq(Nat) /\ ty \o Rest(v.dn, v.dnsink) = gv
  BY DEF Downstream
<1>3. /\ x \in Seq(Nat) /\ Rest(v.dn, v.dnsink + n) \in Seq(Nat)
      /\ x \o Rest(v.dn, v.dnsink + n) = Rest(v.dn, v.dnsink)
  <2>1. v.dnsink + n \in Nat /\ v.dnsink <= v.dnsink + n /\ v.dnsink + n <= Len(v.dn)
    BY <1>1
  <2> QED
    BY <1>1, <2>1, Parts
<1>4. /\ w \in Session /\ w.run = v.run /\ w.up = v.up /\ w.sink = v.sink
      /\ IF n = Len(v.dn) - v.dnsink THEN w.dn = <<>> /\ w.dnsink = 0
         ELSE w.dn = v.dn /\ w.dnsink = v.dnsink + n
  <2>1. CASE n = Len(v.dn) - v.dnsink
    <3> DEFINE a == [v EXCEPT !.dn = <<>>]
               b == [a EXCEPT !.dnsink = 0]
               c == [b EXCEPT !.wrfn = FALSE]
    <3>1. w = c
      BY <2>1 DEF Written
    <3>2. a \in Session /\ a.run = v.run /\ a.up = v.up /\ a.sink = v.sink /\ a.dn = <<>>
      BY EmptySeq DEF Session
    <3> HIDE DEF a
    <3>3. b \in Session /\ b.run = v.run /\ b.up = v.up /\ b.sink = v.sink /\ b.dn = <<>> /\ b.dnsink = 0
      BY <3>2 DEF Session
    <3> HIDE DEF b
    <3>4. c \in Session /\ c.run = v.run /\ c.up = v.up /\ c.sink = v.sink /\ c.dn = <<>> /\ c.dnsink = 0
      BY <3>3 DEF Session
    <3> HIDE DEF c, w
    <3> QED
      BY <2>1, <3>1, <3>4
  <2>2. CASE n # Len(v.dn) - v.dnsink
    <3> DEFINE k == v.dnsink + n
               a == [v EXCEPT !.dnsink = k]
               b == [a EXCEPT !.wrfn = TRUE]
    <3>1. w = b
      BY <2>2 DEF Written
    <3>2. k \in Nat
      BY <1>1
    <3> HIDE DEF k
    <3>3. a \in Session /\ a.run = v.run /\ a.up = v.up /\ a.sink = v.sink /\ a.dn = v.dn
          /\ a.dnsink = k
      BY <3>2 DEF Session
    <3> HIDE DEF a
    <3>4. b \in Session /\ b.run = v.run /\ b.up = v.up /\ b.sink = v.sink /\ b.dn = v.dn
          /\ b.dnsink = k
      BY <3>3 DEF Session
    <3> HIDE DEF b, w
    <3> QED
      BY <2>2, <3>1, <3>4 DEF k
  <2> QED
    BY <2>1, <2>2
<1> HIDE DEF w, x
<1>5. Rest(w.dn, w.dnsink) = Rest(v.dn, v.dnsink + n) /\ DnSound(w)
  <2>1. CASE n = Len(v.dn) - v.dnsink
    <3>1. Rest(v.dn, v.dnsink + n) = <<>>
      <4>1. v.dnsink + n = Len(v.dn)
        BY <1>1, <2>1
      <4> QED
        BY <1>1, <4>1, AllTaken
    <3>2. <<>> \in Seq(Nat) /\ Len(<<>>) = 0 /\ Rest(<<>>, 0) = <<>>
      BY EmptySeq, NothingTaken
    <3> QED
      BY <1>1, <1>4, <2>1, <3>1, <3>2 DEF DnSound
  <2>2. CASE n # Len(v.dn) - v.dnsink
    BY <1>1, <1>4, <2>2 DEF DnSound
  <2> QED
    BY <2>1, <2>2
<1>6. ty \o x \in Seq(Nat) /\ (ty \o x) \o Rest(v.dn, v.dnsink + n) = gv
  <2> DEFINE r == Rest(v.dn, v.dnsink + n)
  <2>1. r \in Seq(Nat) /\ x \in Seq(Nat) /\ x \o r = Rest(v.dn, v.dnsink)
    BY <1>3
  <2> HIDE DEF r
  <2>2. (ty \o x) \o r = ty \o (x \o r)
    BY <1>2, <2>1, Associates
  <2>3. ty \o x \in Seq(Nat)
    BY <1>2, <2>1, Joined
  <2> QED
    BY <1>2, <2>1, <2>2, <2>3 DEF r
<1>7. Downstream(w, gv, ty \o x)
  BY <1>2, <1>5, <1>6 DEF Downstream
<1> QED
  BY <1>4, <1>5, <1>7 DEF w, x

(* Compaction in dn_fill, which leaves no space unused *)
LEMMA FittedDn ==
  ASSUME NEW v \in Session, DnSound(v), NEW n \in Nat,
         NEW gv, NEW ty, Downstream(v, gv, ty)
  PROVE  /\ Fitted(v, n) \in Session /\ DnSound(Fitted(v, n)) /\ Downstream(Fitted(v, n), gv, ty)
         /\ Fitted(v, n).run = v.run /\ Fitted(v, n).up = v.up /\ Fitted(v, n).sink = v.sink
         /\ Len(Fitted(v, n).dn) + n > DNBUFSZ => Len(gv) - Len(ty) + n > DNBUFSZ
<1> DEFINE w == Fitted(v, n)
<1>1. /\ v.dn \in Seq(Nat) /\ v.dnsink \in Nat /\ Len(v.dn) \in Nat /\ DNBUFSZ \in Nat
      /\ v.dnsink <= Len(v.dn) /\ Len(v.dn) <= DNBUFSZ
  BY LenProperties, Sizes DEF Session, DnSound
<1>2. gv \in Seq(Nat) /\ ty \in Seq(Nat) /\ ty \o Rest(v.dn, v.dnsink) = gv
  BY DEF Downstream
<1>3. /\ Rest(v.dn, v.dnsink) \in Seq(Nat) /\ Len(Rest(v.dn, v.dnsink)) = Len(v.dn) - v.dnsink
      /\ Rest(Rest(v.dn, v.dnsink), 0) = Rest(v.dn, v.dnsink)
  BY <1>1, RestIs, NothingTaken
<1>4. Len(ty) \in Nat /\ Len(gv) - Len(ty) = Len(v.dn) - v.dnsink
  <2>1. Len(gv) = Len(ty) + Len(Rest(v.dn, v.dnsink)) /\ Len(ty) \in Nat
    BY <1>2, <1>3, Joined
  <2> QED
    BY <1>1, <1>3, <2>1
<1>5. CASE Len(v.dn) + n > DNBUFSZ /\ v.dnsink > 0
  <2> DEFINE r == Rest(v.dn, v.dnsink)
             a == [v EXCEPT !.dn = r]
             b == [a EXCEPT !.dnsink = 0]
  <2>1. w = b
    BY <1>5 DEF Fitted
  <2>2. r \in Seq(Nat) /\ Len(r) = Len(v.dn) - v.dnsink /\ Rest(r, 0) = r /\ ty \o r = gv
    BY <1>2, <1>3
  <2> HIDE DEF r
  <2>3. a \in Session /\ a.dn = r /\ a.run = v.run /\ a.up = v.up /\ a.sink = v.sink
    BY <2>2 DEF Session
  <2> HIDE DEF a
  <2>4. b \in Session /\ b.dn = r /\ b.dnsink = 0 /\ b.run = v.run /\ b.up = v.up /\ b.sink = v.sink
    BY <2>3 DEF Session
  <2> HIDE DEF b, w
  <2>5. DnSound(w) /\ Downstream(w, gv, ty)
    <3>1. DnSound(w)
      BY <1>1, <2>1, <2>2, <2>4 DEF DnSound
    <3>2. w.dn = r /\ w.dnsink = 0
      BY <2>1, <2>4
    <3>3. Downstream(w, gv, ty)
      BY <1>2, <2>2, <3>2 DEF Downstream
    <3> QED
      BY <3>1, <3>3
  <2>6. Len(w.dn) = Len(gv) - Len(ty)
    BY <1>4, <2>1, <2>2, <2>4
  <2> QED
    BY <2>1, <2>4, <2>5, <2>6 DEF w
<1>6. CASE ~(Len(v.dn) + n > DNBUFSZ /\ v.dnsink > 0)
  <2>1. w = v
    BY <1>6 DEF Fitted
  <2>2. Len(w.dn) + n > DNBUFSZ => Len(gv) - Len(ty) + n > DNBUFSZ
    BY <1>1, <1>4, <1>6, <2>1
  <2> HIDE DEF w
  <2> QED
    BY <2>1, <2>2 DEF w
<1> QED
  BY <1>5, <1>6
-----------------------------------------------------------------------------
(* Lemmas about the output of a session *)

LEMMA AllOf ==
  ASSUME NEW v \in Session, v.sink <= Len(v.up), NEW h \in Shell, NEW sn \in Seq(Nat)
  PROVE  /\ Rest(v.up, v.sink) \in Seq(Nat) /\ h.tty \in Seq(Nat)
         /\ All(v, h, sn) = sn \o (Rest(v.up, v.sink) \o h.tty)
<1>1. v.up \in Seq(Nat) /\ v.sink \in Nat /\ h.tty \in Seq(Nat)
  BY DEF Session, Shell
<1> DEFINE r == Rest(v.up, v.sink)
<1>2. r \in Seq(Nat)
  BY <1>1, RestIs
<1>3. (sn \o r) \o h.tty = sn \o (r \o h.tty)
  <2> HIDE DEF r
  <2> QED
    BY <1>1, <1>2, Associates
<1> QED
  BY <1>1, <1>2, <1>3 DEF All

(* Compaction does not change what waits. *)
LEMMA CompactedAll ==
  ASSUME NEW v \in Session, v.sink <= Len(v.up), NEW h, NEW sn
  PROVE  All(Compacted(v), h, sn) = All(v, h, sn)
BY CompactedUp DEF All

(* A read moves bytes from the terminal to the end of upbuf. *)
Filled(v, h, n) == [v EXCEPT !.up = @ \o Front(h.tty, n)]
Emptied(h, n) == [h EXCEPT !.tty = Rest(@, n)]

LEMMA ReadUp ==
  ASSUME NEW v \in Session, UpSound(v), NEW h \in Shell, NEW sn \in Seq(Nat),
         NEW n \in Nat, n <= Len(h.tty), n <= Space(v)
  PROVE  /\ Filled(v, h, n) \in Session /\ Emptied(h, n) \in Shell
         /\ Filled(v, h, n).sink <= Len(Filled(v, h, n).up) /\ Filled(v, h, n).sink <= UPBUFHI
         /\ Len(Filled(v, h, n).up) = Len(v.up) + n /\ Len(Filled(v, h, n).up) <= UPBUFSZ
         /\ Filled(v, h, n).run = v.run /\ Filled(v, h, n).dn = v.dn /\ Filled(v, h, n).dnsink = v.dnsink
         /\ All(Filled(v, h, n), Emptied(h, n), sn) = All(v, h, sn)
<1>1. /\ v.up \in Seq(Nat) /\ v.sink \in Nat /\ Len(v.up) \in Nat /\ h.tty \in Seq(Nat)
      /\ v.sink <= Len(v.up) /\ UPBUFHI \in Nat /\ UPBUFSZ \in Nat
  BY LenProperties, Sizes DEF Session, Shell, UpSound
<1> DEFINE w == Filled(v, h, n)
           g == Emptied(h, n)
           f == Front(h.tty, n)
           t == Rest(h.tty, n)
           u == v.up \o f
           r == Rest(v.up, v.sink)
<1>2. f \in Seq(Nat) /\ Len(f) = n /\ f \o t = h.tty
  BY <1>1, FrontAndRest
<1>3. t \in Seq(Nat)
  BY <1>1, RestIs
<1>4. r \in Seq(Nat)
  BY <1>1, RestIs
<1> HIDE DEF f, t, r
<1>5. u \in Seq(Nat) /\ Len(u) = Len(v.up) + n
  BY <1>1, <1>2, Joined
<1>6. Rest(u, v.sink) = r \o f
  BY <1>1, <1>2, RestOfJoined DEF r
<1> HIDE DEF u
<1>7. /\ w \in Session /\ w.up = u /\ w.sink = v.sink
      /\ w.run = v.run /\ w.dn = v.dn /\ w.dnsink = v.dnsink
  <2>1. w = [v EXCEPT !.up = u]
    BY DEF u, f, Filled
  <2> QED
    BY <1>5, <2>1 DEF Session
<1>8. g \in Shell /\ g.tty = t
  <2>1. g = [h EXCEPT !.tty = t]
    BY DEF t, Emptied
  <2> QED
    BY <1>3, <2>1 DEF Shell
<1> HIDE DEF w, g
<1>9. w.sink <= Len(w.up) /\ w.sink <= UPBUFHI
  <2>1. v.sink <= UPBUFHI
    BY <1>1 DEF UpSound
  <2>2. v.sink <= Len(u)
    BY <1>1, <1>5
  <2> QED
    BY <1>7, <2>1, <2>2
<1>10. Len(w.up) = Len(v.up) + n /\ Len(w.up) <= UPBUFSZ
  BY <1>1, <1>5, <1>7 DEF Space
<1>11. All(w, g, sn) = sn \o ((r \o f) \o t)
  <2>1. w \in Session /\ w.sink <= Len(w.up) /\ g \in Shell /\ sn \in Seq(Nat)
    BY <1>7, <1>8, <1>9
  <2>2. All(w, g, sn) = sn \o (Rest(w.up, w.sink) \o g.tty)
    BY ONLY <2>1, AllOf
  <2> QED
    BY <1>6, <1>7, <1>8, <2>2
<1>12. All(v, h, sn) = sn \o (r \o (f \o t))
  BY <1>1, <1>2, AllOf DEF r
<1>13. (r \o f) \o t = r \o (f \o t)
  BY <1>2, <1>3, <1>4, Associates
<1> QED
  BY <1>7, <1>8, <1>9, <1>10, <1>11, <1>12, <1>13 DEF w, g

(* A frame moves bytes from the front of what waits to the LNS. *)
LEMMA SentUp ==
  ASSUME NEW v \in Session, NEW h \in Shell, NEW sn \in Seq(Nat),
         NEW m \in Nat, v.sink + m <= Len(v.up)
  PROVE  /\ [v EXCEPT !.sink = @ + m] \in Session
         /\ sn \o SubSeq(v.up, v.sink + 1, v.sink + m) \in Seq(Nat)
         /\ All([v EXCEPT !.sink = @ + m], h, sn \o SubSeq(v.up, v.sink + 1, v.sink + m)) = All(v, h, sn)
<1>1. v.up \in Seq(Nat) /\ v.sink \in Nat /\ Len(v.up) \in Nat /\ h.tty \in Seq(Nat)
  BY LenProperties DEF Session, Shell
<1> DEFINE k == v.sink + m
           w == [v EXCEPT !.sink = k]
           x == SubSeq(v.up, v.sink + 1, k)
           r == Rest(v.up, k)
<1>2. k \in Nat /\ v.sink <= k /\ k <= Len(v.up)
  BY <1>1
<1> HIDE DEF k
<1>3. x \in Seq(Nat) /\ r \in Seq(Nat) /\ x \o r = Rest(v.up, v.sink)
  BY <1>1, <1>2, Parts
<1>4. w \in Session /\ w.up = v.up /\ w.sink = k
  BY <1>2 DEF Session
<1> HIDE DEF w, x, r
<1>5. sn \o x \in Seq(Nat) /\ (sn \o x) \o r = sn \o (x \o r)
  BY <1>3, Joined, Associates
<1>6. All(w, h, sn \o x) = ((sn \o x) \o r) \o h.tty
  BY <1>4 DEF All, r
<1>7. All(v, h, sn) = (sn \o (x \o r)) \o h.tty
  BY <1>3 DEF All
<1>8. w = [v EXCEPT !.sink = @ + m] /\ x = SubSeq(v.up, v.sink + 1, v.sink + m)
  BY DEF w, x, k
<1> QED
  BY <1>4, <1>5, <1>6, <1>7, <1>8

(* What is dropped without TC is cut out of the middle. *)
LEMMA CutAll ==
  ASSUME NEW v \in Session, v.sink <= Len(v.up), v.sink <= UPBUFHI, NEW h \in Shell,
         NEW sn \in Seq(Nat), NEW mk \in Seq(Nat), Kept(All(v, h, sn), mk)
  PROVE  Kept(All(Cut(v), h, sn), mk)
<1>1. CASE Len(v.up) < UPBUFHI
  BY <1>1, CutUp
<1>2. CASE ~(Len(v.up) < UPBUFHI)
  <2>1. /\ v.up \in Seq(Nat) /\ v.sink \in Nat /\ Len(v.up) \in Nat /\ h.tty \in Seq(Nat)
        /\ UPBUFHI \in Nat /\ UPBUFHI <= Len(v.up)
    BY <1>2, LenProperties, Sizes, SMTT(30) DEF Session, Shell
  <2> DEFINE x == SubSeq(v.up, v.sink + 1, UPBUFHI)
             r == Rest(v.up, UPBUFHI)
  <2>2. x \in Seq(Nat) /\ r \in Seq(Nat) /\ x \o r = Rest(v.up, v.sink)
    BY <2>1, Parts
  <2>3. Cut(v) \in Session /\ Cut(v).up = v.up /\ Cut(v).sink = UPBUFHI
    BY <2>1, CutUp
  <2>4. All(Cut(v), h, sn) = sn \o (r \o h.tty)
    BY <2>1, <2>3, AllOf
  <2> HIDE DEF x, r
  <2>5. All(v, h, sn) = sn \o (x \o (r \o h.tty))
    <3>1. All(v, h, sn) = sn \o ((x \o r) \o h.tty)
      BY <2>2, AllOf
    <3>2. (x \o r) \o h.tty = x \o (r \o h.tty)
      <4> DEFINE y == h.tty
      <4>1. x \in Seq(Nat) /\ r \in Seq(Nat) /\ y \in Seq(Nat)
        BY <2>1, <2>2
      <4> HIDE DEF y
      <4>2. (x \o r) \o y = x \o (r \o y)
        BY ONLY <4>1, Associates, ZenonT(60)
      <4> QED
        BY <4>2 DEF y
    <3> QED
      BY <3>1, <3>2
  <2> DEFINE c == r \o h.tty
  <2>6. c \in Seq(Nat)
    BY <2>1, <2>2, Joined
  <2> HIDE DEF c
  <2>7. Kept(sn \o (x \o c), mk)
    BY <2>5 DEF c
  <2>8. Kept(sn \o c, mk)
    BY <2>2, <2>6, <2>7, MiddleGone
  <2> QED
    BY <2>4, <2>8 DEF c
<1> QED
  BY <1>1, <1>2
-----------------------------------------------------------------------------
(* Lemmas about the steps *)

LEMMA NotFull ==
  ASSUME IInv, NEW s \in Sessions, reading # s \/ tc = "none"
  PROVE  Len(session[s].up) # UPBUFSZ
BY DEF IInv, SessionInv, Drains

(* What a step does not touch stays sound. *)
LEMMA OthersSound ==
  ASSUME IInv, NEW s \in Sessions,
         session'[s] = session[s], shell'[s] = shell[s], made'[s] = made[s], seen'[s] = seen[s],
         given'[s] = given[s], typed'[s] = typed[s], dropped'[s] = dropped[s],
         produced' \in Nat, produced <= produced',
         \/ reading # s \/ tc = "none"
         \/ reading' = reading /\ tc' = tc
  PROVE  SessionInv(s)'
<1>1. SessionInv(s)
  BY DEF IInv
<1>2. produced \in Nat /\ made[s] \in Seq(Nat)
  BY RmtShAssumption DEF IInv, Types
<1>3. Till(made[s], produced')
  <2>1. ASSUME NEW j \in 1 .. Len(made[s]) PROVE made[s][j] <= produced'
    <3>1. made[s][j] <= produced /\ made[s][j] \in Nat
      BY <1>1, <1>2, ElementOfSeq DEF SessionInv, Till
    <3> QED
      BY <1>2, <3>1
  <2> QED
    BY <2>1 DEF Till
<1>4. Drains(s)'
  <2>1. CASE reading # s \/ tc = "none"
    BY <2>1, NotFull DEF Drains
  <2>2. CASE reading' = reading /\ tc' = tc
    BY <1>1, <2>2 DEF SessionInv, Drains
  <2> QED
    BY <2>1, <2>2
<1> QED
  BY <1>1, <1>3, <1>4 DEF SessionInv

(* Nothing is left of a session that was stopped. *)
LEMMA ClosedSound ==
  /\ Closed \in Session /\ UpSound(Closed) /\ DnSound(Closed) /\ NoShell \in Shell
  /\ Upstream(Closed, NoShell, <<>>, <<>>, FALSE) /\ Downstream(Closed, <<>>, <<>>)
  /\ \A n : Till(<<>>, n)
  /\ Len(Closed.up) # UPBUFSZ /\ ~Closed.run
<1>1. <<>> \in Seq(Nat) /\ Len(<<>>) = 0 /\ Rest(<<>>, 0) = <<>> /\ <<>> \o <<>> = <<>>
  BY EmptySeq, NothingTaken, ConcatEmptySeq
<1>2. Closed \in Session /\ NoShell \in Shell
  BY <1>1, Sizes DEF Closed, NoShell, Session, Shell
<1>3. UpSound(Closed) /\ DnSound(Closed) /\ Len(Closed.up) # UPBUFSZ /\ ~Closed.run
  BY <1>1, Sizes DEF UpSound, DnSound, Closed
<1>4. All(Closed, NoShell, <<>>) = <<>>
  BY <1>1 DEF All, Closed, NoShell
<1>5. Upstream(Closed, NoShell, <<>>, <<>>, FALSE)
  BY <1>1, <1>4 DEF Upstream, Kept
<1>6. Downstream(Closed, <<>>, <<>>)
  BY <1>1 DEF Downstream, Closed
<1>7. \A n : Till(<<>>, n)
  <2> HIDE DEF Closed
  <2>1. \A j \in 1 .. Len(<<>>) : FALSE
    BY <1>1
  <2> QED
    BY <2>1 DEF Till
<1> QED
  BY <1>2, <1>3, <1>5, <1>6, <1>7

LEMMA StoppedSound ==
  ASSUME NEW s \in Sessions,
         session'[s] = Closed, shell'[s] = NoShell, made'[s] = <<>>, seen'[s] = <<>>,
         given'[s] = <<>>, typed'[s] = <<>>, dropped'[s] = FALSE
  PROVE  SessionInv(s)'
BY ClosedSound DEF SessionInv, Drains

(* The frame without data, or none *)
LEMMA EofLink ==
  ASSUME link \in Link, NEW s \in Sessions
  PROVE  /\ Eof(link, s) \in Link
         /\ \A t \in Sessions \ {s} : /\ Eof(link, s).peer[t] = link.peer[t]
                                      /\ Eof(link, s).missed[t] = link.missed[t]
         /\ Eof(link, s).missed[s] \/ ~Eof(link, s).peer[s]
<1> DEFINE l == Eof(link, s)
<1>1. CASE Grants(link, WS_CHUNKS)
  <2> DEFINE r == link.room - 1
             p == [link.peer EXCEPT ![s] = FALSE]
             m == [link.missed EXCEPT ![s] = FALSE]
             a == [link EXCEPT !.room = r]
             b == [a EXCEPT !.peer = p]
             c == [b EXCEPT !.missed = m]
  <2>1. l = c
    BY <1>1 DEF Eof, Link
  <2>2. r \in 0 .. SENDBUF
    BY <1>1, Sizes DEF Grants, Link
  <2>3. /\ p \in [Sessions -> BOOLEAN] /\ p[s] = FALSE
        /\ \A t \in Sessions \ {s} : p[t] = link.peer[t]
    BY DEF Link
  <2>4. /\ m \in [Sessions -> BOOLEAN]
        /\ \A t \in Sessions \ {s} : m[t] = link.missed[t]
    BY DEF Link
  <2> HIDE DEF r, p, m
  <2>5. a \in Link
    BY <2>2 DEF Link
  <2> HIDE DEF a
  <2>6. b \in Link /\ b.peer = p
    BY <2>3, <2>5 DEF Link
  <2> HIDE DEF b
  <2>7. c \in Link /\ c.peer = p /\ c.missed = m
    BY <2>4, <2>6 DEF Link
  <2> HIDE DEF c, l
  <2> QED
    BY <2>1, <2>3, <2>4, <2>7 DEF l
<1>2. CASE ~Grants(link, WS_CHUNKS)
  <2> DEFINE m == [link.missed EXCEPT ![s] = TRUE]
             a == [link EXCEPT !.missed = m]
  <2>1. l = a
    BY <1>2 DEF Eof, Link
  <2>2. /\ m \in [Sessions -> BOOLEAN] /\ m[s] = TRUE
        /\ \A t \in Sessions \ {s} : m[t] = link.missed[t]
    BY DEF Link
  <2> HIDE DEF m
  <2>3. a \in Link /\ a.peer = link.peer /\ a.missed = m
    BY <2>2 DEF Link
  <2> HIDE DEF a, l
  <2> QED
    BY <2>1, <2>2, <2>3 DEF l
<1> QED
  BY <1>1, <1>2

LEMMA StopStep ==
  ASSUME IInv, NEW s \in Sessions, Stop(s), tc' = tc, answer' = answer, reading' = None,
         reading \in {None, s}, produced' = produced, starts' = starts,
         received' \in 0 .. MaxIn
  PROVE  IInv'
<1>1. Types /\ link \in Link /\ PeerInformed
  BY DEF IInv, Types
<1>2. /\ session' = [session EXCEPT ![s] = Closed] /\ shell' = [shell EXCEPT ![s] = NoShell]
      /\ made' = [made EXCEPT ![s] = <<>>] /\ seen' = [seen EXCEPT ![s] = <<>>]
      /\ given' = [given EXCEPT ![s] = <<>>] /\ typed' = [typed EXCEPT ![s] = <<>>]
      /\ dropped' = [dropped EXCEPT ![s] = FALSE] /\ link' = Eof(link, s)
  BY DEF Stop, Stopped, Forget
<1>3. Types'
  BY <1>1, <1>2, ClosedSound, EofLink, EmptySeq DEF Types
<1>4. ASSUME NEW t \in Sessions PROVE SessionInv(t)'
  <2>1. CASE t = s
    BY <1>1, <1>2, <2>1, StoppedSound DEF Types
  <2>2. CASE t # s
    <3>1. /\ session'[t] = session[t] /\ shell'[t] = shell[t] /\ made'[t] = made[t]
          /\ seen'[t] = seen[t] /\ given'[t] = given[t] /\ typed'[t] = typed[t]
          /\ dropped'[t] = dropped[t]
      BY <1>1, <1>2, <2>2 DEF Types
    <3>2. reading # t
      BY <2>2, RmtShAssumption
    <3>3. produced' \in Nat /\ produced <= produced'
      BY <1>1, RmtShAssumption DEF Types
    <3> QED
      BY <3>1, <3>2, <3>3, OthersSound
  <2> QED
    BY <2>1, <2>2
<1>5. PeerInformed'
  <2> SUFFICES ASSUME ~answer, NEW t \in Sessions, ~link'.missed[t]
               PROVE  link'.peer[t] = session'[t].run
    BY DEF PeerInformed
  <2>1. CASE t = s
    <3>1. ~link'.peer[t]
      BY <1>1, <1>2, <2>1, EofLink
    <3>2. session'[t] = Closed /\ link' \in Link
      BY <1>1, <1>2, <1>3, <2>1 DEF Types
    <3>3. link'.peer[t] = FALSE
      BY <3>1, <3>2 DEF Link
    <3>4. session'[t].run = FALSE
      BY <3>2 DEF Closed
    <3> QED
      BY <3>3, <3>4
  <2>2. CASE t # s
    <3>1. link'.peer[t] = link.peer[t] /\ link'.missed[t] = link.missed[t]
      BY <1>1, <1>2, <2>2, EofLink
    <3>2. session'[t] = session[t]
      BY <1>1, <1>2, <2>2 DEF Types
    <3> QED
      BY <1>1, <3>1, <3>2 DEF PeerInformed
  <2> QED
    BY <2>1, <2>2
<1> QED
  BY <1>3, <1>4, <1>5 DEF IInv
-----------------------------------------------------------------------------
LEMMA InitIInv == Init => IInv
<1> SUFFICES ASSUME Init PROVE IInv
  OBVIOUS
<1>1. link \in Link
  BY Sizes DEF Init, Link
<1>2. Types
  <2>1. session \in [Sessions -> Session] /\ shell \in [Sessions -> Shell]
    BY ClosedSound DEF Init
  <2>2. /\ made \in [Sessions -> Seq(Nat)] /\ seen \in [Sessions -> Seq(Nat)]
        /\ given \in [Sessions -> Seq(Nat)] /\ typed \in [Sessions -> Seq(Nat)]
        /\ dropped \in [Sessions -> BOOLEAN]
    BY EmptySeq DEF Init
  <2>3. tc \in {"none", "down", "up"} /\ reading \in Sessions \cup {None} /\ answer \in BOOLEAN
    BY DEF Init
  <2>4. /\ MaxOut \in Nat /\ MaxIn \in Nat /\ MaxStarts \in Nat
        /\ produced = 0 /\ received = 0 /\ starts = 0
    BY Bounds DEF Init
  <2>5. produced \in 0 .. MaxOut /\ received \in 0 .. MaxIn /\ starts \in 0 .. MaxStarts
    BY <2>4
  <2> QED
    BY <1>1, <2>1, <2>2, <2>3, <2>5 DEF Types
<1>3. ASSUME NEW s \in Sessions PROVE SessionInv(s)
  BY ClosedSound DEF Init, SessionInv, Drains
<1>4. PeerInformed
  BY DEF Init, PeerInformed, Closed
<1> QED
  BY <1>2, <1>3, <1>4 DEF IInv

LEMMA ShellWritesStep ==
  ASSUME IInv, NEW s \in Sessions, ShellWrites(s)
  PROVE  IInv'
<1> DEFINE n == produced + 1
<1>1. /\ Types /\ PeerInformed /\ SessionInv(s)
      /\ produced \in Nat /\ produced < MaxOut /\ produced' = n /\ n \in Nat
      /\ shell[s] \in Shell /\ made[s] \in Seq(Nat) /\ seen[s] \in Seq(Nat)
      /\ session[s] \in Session /\ session[s].sink <= Len(session[s].up)
  <2>1. Types /\ PeerInformed /\ SessionInv(s)
    BY DEF IInv
  <2>2. produced \in Nat /\ n \in Nat
    BY <2>1, RmtShAssumption DEF Types
  <2>3. produced < MaxOut /\ produced' = n
    BY DEF ShellWrites
  <2> HIDE DEF n
  <2> QED
    BY <2>1, <2>2, <2>3 DEF Types, SessionInv, UpSound
<1> DEFINE g == [shell[s] EXCEPT !.tty = Append(@, n)]
           mk == Append(made[s], n)
<1>2. g \in Shell /\ g.tty = Append(shell[s].tty, n) /\ mk \in Seq(Nat) /\ shell[s].tty \in Seq(Nat)
  BY <1>1, AppendProperties DEF Shell
<1>3. /\ shell' = [shell EXCEPT ![s] = g] /\ made' = [made EXCEPT ![s] = mk]
      /\ UNCHANGED <<tc, session, reading, answer, link, seen, given, typed, dropped, received, starts>>
  BY <1>1 DEF ShellWrites, Types
<1> DEFINE a == All(session[s], shell[s], seen[s])
<1>4. a \in Seq(Nat) /\ All(session[s], g, seen[s]) = Append(a, n)
  <2> DEFINE r == Rest(session[s].up, session[s].sink)
             q == seen[s] \o r
  <2>1. r \in Seq(Nat)
    BY <1>1, AllOf
  <2> HIDE DEF r
  <2>2. q \in Seq(Nat)
    BY <1>1, <2>1, Joined
  <2> HIDE DEF q
  <2>3. a = q \o shell[s].tty /\ All(session[s], g, seen[s]) = q \o Append(shell[s].tty, n)
    BY <1>2 DEF All, q, r
  <2>4. Append(shell[s].tty, n) = shell[s].tty \o <<n>> /\ <<n>> \in Seq(Nat)
    <3>1. Append(shell[s].tty, n) = shell[s].tty \o <<n>>
      BY <1>1, <1>2, AppendIsConcat
    <3>2. <<n>> \in Seq(Nat)
      BY <1>1
    <3> QED
      BY <3>1, <3>2
  <2>5. (q \o shell[s].tty) \o <<n>> = q \o (shell[s].tty \o <<n>>)
    BY <1>2, <2>2, <2>4, Associates
  <2>6. q \o shell[s].tty \in Seq(Nat)
    BY <1>2, <2>2, Joined
  <2>7. Append(q \o shell[s].tty, n) = (q \o shell[s].tty) \o <<n>>
    BY <1>1, <2>6, AppendIsConcat
  <2> QED
    BY <2>3, <2>4, <2>5, <2>6, <2>7
<1>5. Upstream(session[s], g, mk, seen[s], dropped[s]) /\ Till(mk, n)
  <2>1. /\ Kept(a, made[s]) /\ Till(made[s], produced)
        /\ ~dropped[s] => a = made[s]
    BY <1>1 DEF SessionInv, Upstream
  <2> HIDE DEF a
  <2>2. Kept(Append(a, n), mk) /\ Till(mk, n)
    BY <1>1, <1>4, <2>1, NumberAdded
  <2> QED
    BY <1>1, <1>2, <1>4, <2>1, <2>2 DEF Upstream
<1> HIDE DEF g, mk, n, a
<1>6. ASSUME NEW t \in Sessions PROVE SessionInv(t)'
  <2>1. CASE t = s
    <3>1. shell'[s] = g /\ made'[s] = mk
      BY <1>1, <1>3 DEF Types
    <3> QED
      BY <1>1, <1>2, <1>3, <1>5, <2>1, <3>1 DEF SessionInv, Drains
  <2>2. CASE t # s
    <3>1. shell'[t] = shell[t] /\ made'[t] = made[t]
      BY <1>1, <1>3, <2>2 DEF Types
    <3>2. produced' \in Nat /\ produced <= produced'
      BY <1>1 DEF n
    <3> QED
      BY <1>3, <3>1, <3>2, OthersSound
  <2> QED
    BY <2>1, <2>2
<1>7. produced' \in 0 .. MaxOut
  <2>1. MaxOut \in Nat /\ produced \in Nat /\ produced < MaxOut /\ produced' = produced + 1
    BY <1>1, RmtShAssumption DEF n
  <2> QED
    BY <2>1
<1>8. Types'
  BY <1>1, <1>2, <1>3, <1>7 DEF Types
<1>9. PeerInformed'
  BY <1>1, <1>3 DEF PeerInformed
<1> QED
  BY <1>6, <1>8, <1>9 DEF IInv

(* What changes neither the terminal's output nor a buffer *)
LEMMA ShellStep ==
  ASSUME IInv, NEW s \in Sessions, NEW g \in Shell, g.tty = shell[s].tty,
         shell' = [shell EXCEPT ![s] = g],
         UNCHANGED <<tc, session, reading, answer, link, history, produced, received, starts>>
  PROVE  IInv'
<1>1. Types /\ PeerInformed /\ SessionInv(s) /\ produced \in Nat
  BY RmtShAssumption, SMTT(30) DEF IInv, Types
<1>2. ASSUME NEW t \in Sessions PROVE SessionInv(t)'
  <2>1. CASE t = s
    <3>1. shell'[s] = g
      BY <1>1 DEF Types
    <3>2. All(session[s], g, seen[s]) = All(session[s], shell[s], seen[s])
      BY DEF All
    <3> QED
      BY <1>1, <2>1, <3>1, <3>2 DEF SessionInv, Drains, Upstream, history
  <2>2. CASE t # s
    <3>1. shell'[t] = shell[t]
      BY <1>1, <2>2 DEF Types
    <3> QED
      BY <1>1, <3>1, OthersSound DEF history
  <2> QED
    BY <2>1, <2>2
<1>3. Types'
  BY <1>1 DEF Types, history
<1>4. PeerInformed'
  BY <1>1 DEF PeerInformed
<1> QED
  BY <1>2, <1>3, <1>4 DEF IInv

LEMMA ShellReadsStep ==
  ASSUME IInv, NEW s \in Sessions, ShellReads(s) \/ ShellEnds(s)
  PROVE  IInv'
<1>1. shell \in [Sessions -> Shell] /\ shell[s] \in Shell /\ 0 \in 0 .. TTYSZ
  BY Sizes DEF IInv, Types
<1>2. CASE ShellReads(s)
  <2> DEFINE g == [shell[s] EXCEPT !.unread = 0]
  <2>1. g \in Shell /\ g.tty = shell[s].tty
    BY <1>1 DEF Shell
  <2>2. shell' = [shell EXCEPT ![s] = g]
    BY <1>1, <1>2 DEF ShellReads
  <2> HIDE DEF g
  <2> QED
    BY <1>2, <2>1, <2>2, ShellStep DEF ShellReads
<1>3. CASE ShellEnds(s)
  <2> DEFINE g == [shell[s] EXCEPT !.ended = TRUE]
  <2>1. g \in Shell /\ g.tty = shell[s].tty
    BY <1>1 DEF Shell
  <2>2. shell' = [shell EXCEPT ![s] = g]
    BY <1>1, <1>3 DEF ShellEnds
  <2> HIDE DEF g
  <2> QED
    BY <1>3, <2>1, <2>2, ShellStep DEF ShellEnds
<1> QED
  BY <1>2, <1>3

LEMMA ReadableStep ==
  ASSUME IInv, NEW s \in Sessions, Readable(s)
  PROVE  IInv'
<1>1. /\ reading = None /\ ~answer /\ reading' = s
      /\ UNCHANGED <<tc, session, shell, answer, link, history, produced, received, starts>>
  BY DEF Readable, Idle
<1>2. Types /\ PeerInformed /\ produced \in Nat
  BY RmtShAssumption, SMTT(30) DEF IInv, Types
<1>3. ASSUME NEW t \in Sessions PROVE SessionInv(t)'
  <2>1. reading # t
    BY <1>1, RmtShAssumption
  <2> QED
    BY <1>1, <1>2, <2>1, OthersSound DEF history
<1>4. Types'
  BY <1>1, <1>2 DEF Types, history
<1>5. PeerInformed'
  BY <1>1, <1>2 DEF PeerInformed
<1> QED
  BY <1>3, <1>4, <1>5 DEF IInv

LEMMA ReadNoneStep ==
  ASSUME IInv, NEW s \in Sessions, ReadNone(s)
  PROVE  IInv'
<1>1. /\ reading = s /\ reading' = None /\ Space(session[s]) > 0
      /\ UNCHANGED <<tc, session, shell, answer, link, history, produced, received, starts>>
  BY DEF ReadNone
<1>2. Types /\ PeerInformed /\ produced \in Nat /\ SessionInv(s) /\ session[s].up \in Seq(Nat)
  <2>1. Types /\ PeerInformed /\ SessionInv(s)
    BY DEF IInv
  <2>2. session[s] \in Session
    BY <2>1 DEF SessionInv
  <2>3. produced \in Nat
    BY <2>1, Bounds DEF Types
  <2> QED
    BY <2>1, <2>2, <2>3 DEF Session
<1>3. ASSUME NEW t \in Sessions PROVE SessionInv(t)'
  <2>1. CASE t = s
    <3>1. Len(session[s].up) # UPBUFSZ
      BY <1>1, <1>2, Sizes, LenProperties DEF Space
    <3> QED
      BY <1>1, <1>2, <2>1, <3>1 DEF SessionInv, Drains, history
  <2>2. CASE t # s
    <3>1. reading # t
      BY <1>1, <2>2
    <3> QED
      BY <1>1, <1>2, <3>1, OthersSound DEF history
  <2> QED
    BY <2>1, <2>2
<1>4. Types'
  BY <1>1, <1>2 DEF Types, history
<1>5. PeerInformed'
  BY <1>1, <1>2 DEF PeerInformed
<1> QED
  BY <1>3, <1>4, <1>5 DEF IInv

LEMMA ReadEndStep ==
  ASSUME IInv, NEW s \in Sessions, ReadEnd(s)
  PROVE  IInv'
<1>1. received \in 0 .. MaxIn
  BY DEF IInv, Types
<1> QED
  BY <1>1, StopStep DEF ReadEnd

LEMMA ReadDataStep ==
  ASSUME IInv, NEW s \in Sessions, ReadData(s)
  PROVE  IInv'
<1> DEFINE n == Smaller(Space(session[s]), Len(shell[s].tty))
           v == Filled(session[s], shell[s], n)
           g == Emptied(shell[s], n)
           m == Chunk(v)
           a == All(session[s], shell[s], seen[s])
<1>1. Types /\ PeerInformed /\ SessionInv(s) /\ link \in Link
  BY DEF IInv, Types
<1>2. /\ session[s] \in Session /\ shell[s] \in Shell /\ made[s] \in Seq(Nat) /\ seen[s] \in Seq(Nat)
      /\ UpSound(session[s]) /\ DnSound(session[s]) /\ Kept(a, made[s])
      /\ ~dropped[s] => a = made[s]
  BY <1>1 DEF SessionInv, Upstream
<1>3. /\ reading = s /\ n > 0 /\ shell' = [shell EXCEPT ![s] = g]
      /\ UNCHANGED <<tc, reading, answer, made, given, typed, produced, received, starts>>
      /\ \/ /\ tc = "none"
            /\ session' = [session EXCEPT ![s] = Compacted(Cut(v))]
            /\ dropped' = [dropped EXCEPT ![s] = @ \/ Len(v.up) >= UPBUFHI]
            /\ UNCHANGED <<link, seen>>
         \/ /\ tc # "none" /\ Grants(link, m + 1)
            /\ link' = [link EXCEPT !.room = @ - (m + 1)]
            /\ seen' = [seen EXCEPT ![s] = @ \o SubSeq(v.up, v.sink + 1, v.sink + m)]
            /\ session' = [session EXCEPT ![s] = Compacted([v EXCEPT !.sink = @ + m])]
            /\ UNCHANGED dropped
         \/ /\ tc # "none" /\ ~Grants(link, m + 1)
            /\ session' = [session EXCEPT ![s] = Compacted(v)]
            /\ UNCHANGED <<link, seen, dropped>>
  <2>1. shell' = [shell EXCEPT ![s] = g]
    BY <1>1 DEF ReadData, Emptied, Types
  <2> QED
    BY <2>1 DEF ReadData, Filled
<1>4. n \in Nat /\ n <= Len(shell[s].tty) /\ n <= Space(session[s])
  <2>1. Space(session[s]) \in Int /\ Len(shell[s].tty) \in Nat
    <3>1. session[s].up \in Seq(Nat) /\ shell[s].tty \in Seq(Nat)
      BY <1>2 DEF Session, Shell
    <3>2. Len(session[s].up) \in Nat /\ Len(shell[s].tty) \in Nat /\ UPBUFSZ \in Nat
      BY <3>1, LenProperties, Sizes
    <3> QED
      BY <3>2 DEF Space
  <2>2. n \in {Space(session[s]), Len(shell[s].tty)} /\ n <= Len(shell[s].tty) /\ n <= Space(session[s])
    BY <2>1, SmallerOf
  <2>3. n > 0
    BY <1>3
  <2> HIDE DEF n
  <2> QED
    BY <2>1, <2>2, <2>3
<1> HIDE DEF n
<1>5. /\ v \in Session /\ g \in Shell /\ v.sink <= Len(v.up) /\ v.sink <= UPBUFHI
      /\ Len(v.up) <= UPBUFSZ
      /\ v.run = session[s].run /\ v.dn = session[s].dn /\ v.dnsink = session[s].dnsink
      /\ All(v, g, seen[s]) = a
  BY <1>2, <1>4, ReadUp
<1> HIDE DEF v, g, a
<1>6. v.up \in Seq(Nat) /\ v.sink \in Nat /\ Len(v.up) \in Nat
  BY <1>5, LenProperties DEF Session
<1>7. PICK w : /\ session' = [session EXCEPT ![s] = w] /\ w \in Session /\ UpSound(w)
               /\ w.run = v.run /\ w.dn = v.dn /\ w.dnsink = v.dnsink
               /\ Len(w.up) # UPBUFSZ \/ tc # "none"
               /\ link' \in Link /\ link'.peer = link.peer /\ link'.missed = link.missed
               /\ seen' \in [Sessions -> Seq(Nat)] /\ dropped' \in [Sessions -> BOOLEAN]
               /\ \A t \in Sessions \ {s} : seen'[t] = seen[t] /\ dropped'[t] = dropped[t]
               /\ Kept(All(w, g, seen'[s]), made[s])
               /\ ~dropped'[s] => All(w, g, seen'[s]) = made[s]
  <2>1. CASE /\ tc = "none"
             /\ session' = [session EXCEPT ![s] = Compacted(Cut(v))]
             /\ dropped' = [dropped EXCEPT ![s] = @ \/ Len(v.up) >= UPBUFHI]
             /\ UNCHANGED <<link, seen>>
    <3> DEFINE c == Cut(v)
               w == Compacted(c)
    <3>1. /\ c \in Session /\ c.up = v.up /\ c.sink <= Len(c.up)
          /\ Len(v.up) >= UPBUFHI => c.sink = UPBUFHI
          /\ Len(v.up) < UPBUFHI => c = v
          /\ c.run = v.run /\ c.dn = v.dn /\ c.dnsink = v.dnsink
      BY <1>5, CutUp
    <3>2. Kept(All(c, g, seen[s]), made[s])
      BY <1>2, <1>5, CutAll
    <3> HIDE DEF c
    <3>3. /\ w \in Session /\ w.sink <= Len(w.up) /\ Len(w.up) <= Len(c.up)
          /\ Len(w.up) >= UPBUFHI => w.sink = 0
          /\ Len(c.up) >= UPBUFHI => Len(w.up) = Len(c.up) - c.sink
          /\ w.run = c.run /\ w.dn = c.dn /\ w.dnsink = c.dnsink
      BY <3>1, CompactedUp
    <3>4. All(w, g, seen[s]) = All(c, g, seen[s])
      BY <3>1, CompactedAll
    <3> HIDE DEF w
    <3>5. w.up \in Seq(Nat) /\ Len(w.up) \in Nat
      BY <3>3, LenProperties DEF Session
    <3>6. UpSound(w) /\ Len(w.up) # UPBUFSZ
      <4>1. w.sink <= Len(w.up) /\ Len(w.up) <= Len(v.up) /\ (Len(w.up) >= UPBUFHI => w.sink = 0)
        BY <3>1, <3>3
      <4>2. Len(w.up) # UPBUFSZ
        <5>1. CASE Len(v.up) >= UPBUFHI
          <6>1. Len(w.up) = Len(v.up) - UPBUFHI
            BY <3>1, <3>3, <5>1
          <6> QED
            BY <1>5, <1>6, <6>1, Sizes
        <5>2. CASE ~(Len(v.up) >= UPBUFHI)
          BY <1>6, <3>5, <4>1, <5>2, Sizes
        <5> QED
          BY <5>1, <5>2
      <4>3. Len(w.up) <= UPBUFSZ
        BY <1>5, <1>6, <3>5, <4>1, Sizes, SMTT(30)
      <4> QED
        BY <4>1, <4>2, <4>3 DEF UpSound
    <3>7. /\ dropped' \in [Sessions -> BOOLEAN] /\ \A t \in Sessions \ {s} : dropped'[t] = dropped[t]
          /\ dropped'[s] = (dropped[s] \/ Len(v.up) >= UPBUFHI)
      BY <1>1, <2>1 DEF Types
    <3>8. ~dropped'[s] => All(w, g, seen[s]) = made[s]
      <4> SUFFICES ASSUME ~dropped'[s] PROVE All(w, g, seen[s]) = made[s]
        OBVIOUS
      <4>1. ~dropped[s] /\ ~(Len(v.up) >= UPBUFHI)
        BY <3>7
      <4>2. c = v
        BY <1>6, <3>1, <4>1, Sizes
      <4> QED
        BY <1>2, <1>5, <3>4, <4>1, <4>2
    <3> QED
      BY <1>1, <2>1, <3>1, <3>2, <3>3, <3>4, <3>6, <3>7, <3>8 DEF Types, c, w
  <2>2. CASE /\ tc # "none" /\ Grants(link, m + 1)
             /\ link' = [link EXCEPT !.room = @ - (m + 1)]
             /\ seen' = [seen EXCEPT ![s] = @ \o SubSeq(v.up, v.sink + 1, v.sink + m)]
             /\ session' = [session EXCEPT ![s] = Compacted([v EXCEPT !.sink = @ + m])]
             /\ UNCHANGED dropped
    <3>1. m \in Nat /\ v.sink + m <= Len(v.up)
      <4>1. /\ WS_CHUNKS - 1 \in Int /\ Len(v.up) - v.sink \in Int
            /\ WS_CHUNKS - 1 >= 0 /\ Len(v.up) - v.sink >= 0
        BY <1>5, <1>6, Sizes
      <4>2. m \in {WS_CHUNKS - 1, Len(v.up) - v.sink} /\ m <= Len(v.up) - v.sink
        BY <4>1, SmallerOf DEF Chunk
      <4> HIDE DEF m
      <4> QED
        BY <1>6, <4>1, <4>2
    <3> DEFINE c == [v EXCEPT !.sink = @ + m]
               w == Compacted(c)
               q == seen[s] \o SubSeq(v.up, v.sink + 1, v.sink + m)
               r == link.room - (m + 1)
    <3> HIDE DEF m
    <3>2. c \in Session /\ q \in Seq(Nat) /\ All(c, g, q) = a
      BY <1>2, <1>5, <3>1, SentUp, SMTT(30)
    <3>3. /\ c.up = v.up /\ c.sink <= Len(c.up)
          /\ c.run = v.run /\ c.dn = v.dn /\ c.dnsink = v.dnsink
      BY <1>5, <3>1 DEF Session
    <3>4. session' = [session EXCEPT ![s] = w] /\ seen' = [seen EXCEPT ![s] = q]
      BY <1>1, <2>2 DEF Types
    <3>5. link' = [link EXCEPT !.room = r] /\ r \in 0 .. SENDBUF
      <4>1. link.room \in 0 .. SENDBUF /\ link.room >= m + 1 /\ link' = [link EXCEPT !.room = r]
        BY <1>1, <2>2 DEF Grants, Link
      <4> QED
        BY <3>1, <4>1, Sizes
    <3> HIDE DEF c, q, r
    <3>6. /\ w \in Session /\ w.sink <= Len(w.up) /\ Len(w.up) <= Len(c.up)
          /\ Len(w.up) >= UPBUFHI => w.sink = 0
          /\ w.run = c.run /\ w.dn = c.dn /\ w.dnsink = c.dnsink
      BY <3>2, <3>3, CompactedUp
    <3>7. All(w, g, q) = All(c, g, q)
      BY <3>2, <3>3, CompactedAll
    <3> HIDE DEF w
    <3>8. w.up \in Seq(Nat) /\ Len(w.up) \in Nat
      BY <3>6, LenProperties DEF Session
    <3>9. UpSound(w)
      BY <1>5, <1>6, <3>3, <3>6, <3>8, Sizes, SMTT(30) DEF UpSound
    <3>10. link' \in Link /\ link'.peer = link.peer /\ link'.missed = link.missed
      BY <1>1, <3>5 DEF Link
    <3>11. /\ seen' \in [Sessions -> Seq(Nat)] /\ seen'[s] = q
           /\ \A t \in Sessions \ {s} : seen'[t] = seen[t]
      BY <1>1, <3>2, <3>4 DEF Types
    <3> QED
      BY <1>1, <1>2, <2>2, <3>2, <3>3, <3>4, <3>6, <3>7, <3>9, <3>10, <3>11 DEF Types
  <2>3. CASE /\ tc # "none" /\ ~Grants(link, m + 1)
             /\ session' = [session EXCEPT ![s] = Compacted(v)]
             /\ UNCHANGED <<link, seen, dropped>>
    <3> DEFINE w == Compacted(v)
    <3>1. /\ w \in Session /\ w.sink <= Len(w.up) /\ Len(w.up) <= Len(v.up)
          /\ Len(w.up) >= UPBUFHI => w.sink = 0
          /\ w.run = v.run /\ w.dn = v.dn /\ w.dnsink = v.dnsink
      BY <1>5, CompactedUp
    <3>2. All(w, g, seen[s]) = a
      BY <1>5, CompactedAll
    <3> HIDE DEF w
    <3>3. w.up \in Seq(Nat) /\ Len(w.up) \in Nat
      BY <3>1, LenProperties DEF Session
    <3>4. UpSound(w)
      BY <1>5, <1>6, <3>1, <3>3, Sizes, SMTT(30) DEF UpSound
    <3> QED
      BY <1>1, <1>2, <2>3, <3>1, <3>2, <3>4 DEF Types, w
  <2> QED
    BY <1>3, <2>1, <2>2, <2>3
<1>8. session'[s] = w /\ shell'[s] = g
  BY <1>1, <1>3, <1>7 DEF Types
<1>9. DnSound(w) /\ Downstream(w, given[s], typed[s])
  BY <1>1, <1>2, <1>5, <1>7 DEF SessionInv, DnSound, Downstream
<1>10. Upstream(w, g, made[s], seen'[s], dropped'[s])
  BY <1>2, <1>7 DEF Upstream
<1>11. ASSUME NEW t \in Sessions PROVE SessionInv(t)'
  <2>1. CASE t = s
    BY <1>1, <1>3, <1>5, <1>7, <1>8, <1>9, <1>10, <2>1 DEF SessionInv, Drains
  <2>2. CASE t # s
    <3>1. session'[t] = session[t] /\ shell'[t] = shell[t] /\ produced \in Nat
      BY <1>1, <1>3, <1>7, <2>2, Bounds DEF Types
    <3> QED
      BY <1>3, <1>7, <2>2, <3>1, OthersSound
  <2> QED
    BY <2>1, <2>2
<1>12. Types'
  BY <1>1, <1>3, <1>5, <1>7 DEF Types
<1>13. PeerInformed'
  <2>1. \A t \in Sessions : session'[t].run = session[t].run
    BY <1>1, <1>5, <1>7 DEF Types
  <2> QED
    BY <1>1, <1>3, <1>7, <2>1 DEF PeerInformed
<1> QED
  BY <1>11, <1>12, <1>13 DEF IInv

(* What dn_write writes is not more than there is. *)
LEMMA WriteAmount ==
  ASSUME NEW s \in Sessions, shell[s] \in Shell, NEW v \in Session, DnSound(v), Write(s, v)
  PROVE  LET n == Smaller(Len(v.dn) - v.dnsink, TTYSZ - shell[s].unread)
         IN  /\ n \in Nat /\ n <= Len(v.dn) - v.dnsink
             /\ shell[s].unread + n \in 0 .. TTYSZ
             /\ session' = [session EXCEPT ![s] = Written(v, n)]
<1> DEFINE n == Smaller(Len(v.dn) - v.dnsink, TTYSZ - shell[s].unread)
<1>1. v.dn \in Seq(Nat) /\ v.dnsink \in Nat /\ shell[s].unread \in 0 .. TTYSZ /\ TTYSZ \in Nat
  BY Sizes DEF Session, Shell
<1>2. Len(v.dn) \in Nat /\ v.dnsink <= Len(v.dn)
  BY <1>1, LenProperties DEF DnSound
<1>3. Len(v.dn) - v.dnsink \in Nat /\ TTYSZ - shell[s].unread \in Nat
  BY <1>1, <1>2
<1>4. /\ n \in {Len(v.dn) - v.dnsink, TTYSZ - shell[s].unread}
      /\ n <= Len(v.dn) - v.dnsink /\ n <= TTYSZ - shell[s].unread
  BY <1>3, SmallerOf
<1>5. session' = [session EXCEPT ![s] = Written(v, n)]
  BY DEF Write
<1> HIDE DEF n
<1>6. n \in Nat /\ n <= Len(v.dn) - v.dnsink /\ shell[s].unread + n \in 0 .. TTYSZ
  BY <1>1, <1>3, <1>4, SMTT(30)
<1> QED
  BY <1>5, <1>6 DEF n

LEMMA WriteStep ==
  ASSUME IInv, NEW s \in Sessions, NEW v \in Session, NEW gv,
         v.run = session[s].run, v.up = session[s].up, v.sink = session[s].sink,
         DnSound(v), Downstream(v, gv, typed[s]),
         Write(s, v), given' = [given EXCEPT ![s] = gv], received' \in 0 .. MaxIn,
         UNCHANGED <<tc, link, reading, answer, made, seen, dropped, produced, starts>>
  PROVE  IInv'
<1> DEFINE n == Smaller(Len(v.dn) - v.dnsink, TTYSZ - shell[s].unread)
           w == Written(v, n)
           ty == typed[s] \o SubSeq(v.dn, v.dnsink + 1, v.dnsink + n)
           g == [shell[s] EXCEPT !.unread = @ + n]
<1>1. /\ Types /\ PeerInformed /\ SessionInv(s) /\ produced \in Nat
      /\ session[s] \in Session /\ shell[s] \in Shell
  <2>1. Types /\ PeerInformed /\ SessionInv(s)
    BY DEF IInv
  <2> QED
    BY <2>1, Bounds DEF Types
<1>2. /\ session' = [session EXCEPT ![s] = w] /\ shell' = [shell EXCEPT ![s] = g]
      /\ typed' = [typed EXCEPT ![s] = ty]
  BY <1>1 DEF Write, Types
<1>3. /\ n \in Nat /\ n <= Len(v.dn) - v.dnsink
      /\ shell[s].unread + n \in 0 .. TTYSZ
  BY <1>1, WriteAmount
<1> HIDE DEF n
<1>4. g \in Shell /\ g.tty = shell[s].tty
  BY <1>1, <1>3 DEF Shell
<1>5. /\ w \in Session /\ DnSound(w) /\ Downstream(w, gv, ty)
      /\ w.run = session[s].run /\ w.up = session[s].up /\ w.sink = session[s].sink
  BY <1>3, WrittenDn
<1> HIDE DEF w, ty, g
<1>6. /\ session'[s] = w /\ shell'[s] = g /\ typed'[s] = ty /\ given'[s] = gv
      /\ \A t \in Sessions \ {s} : /\ session'[t] = session[t] /\ shell'[t] = shell[t]
                                   /\ typed'[t] = typed[t] /\ given'[t] = given[t]
  BY <1>1, <1>2 DEF Types
<1>7. UpSound(w) /\ Upstream(w, g, made[s], seen[s], dropped[s])
  <2>1. All(w, g, seen[s]) = All(session[s], shell[s], seen[s])
    BY <1>4, <1>5 DEF All
  <2> QED
    BY <1>1, <1>5, <2>1 DEF SessionInv, UpSound, Upstream
<1>8. ASSUME NEW t \in Sessions PROVE SessionInv(t)'
  <2>1. CASE t = s
    BY <1>1, <1>4, <1>5, <1>6, <1>7, <2>1 DEF SessionInv, Drains
  <2>2. CASE t # s
    BY <1>1, <1>6, <2>2, OthersSound
  <2> QED
    BY <2>1, <2>2
<1>9. Types'
  <2>1. ty \in Seq(Nat) /\ gv \in Seq(Nat)
    BY <1>5 DEF Downstream
  <2> QED
    BY <1>1, <1>2, <1>4, <1>5, <2>1 DEF Types
<1>10. PeerInformed'
  <2>1. \A t \in Sessions : session'[t].run = session[t].run
    BY <1>5, <1>6
  <2> QED
    BY <1>1, <2>1 DEF PeerInformed
<1> QED
  BY <1>8, <1>9, <1>10 DEF IInv

LEMMA WritableStep ==
  ASSUME IInv, NEW s \in Sessions, Writable(s)
  PROVE  IInv'
<1>1. /\ reading = None /\ UNCHANGED <<tc, reading, answer, produced, received, starts>>
      /\ received' \in 0 .. MaxIn
  BY DEF Writable, Idle, IInv, Types
<1>2. CASE Write(s, session[s]) /\ UNCHANGED <<link, made, seen, given, dropped>>
  <2>1. /\ session[s] \in Session /\ DnSound(session[s])
        /\ Downstream(session[s], given[s], typed[s])
    BY DEF IInv, SessionInv
  <2>2. given' = [given EXCEPT ![s] = given[s]]
    BY <1>2 DEF IInv, Types
  <2> QED
    BY <1>1, <1>2, <2>1, <2>2, WriteStep
<1>3. CASE Stop(s)
  BY <1>1, <1>3, StopStep
<1> QED
  BY <1>2, <1>3 DEF Writable

(* dn_fill appends what the LNS sent. *)
LEMMA AddedDn ==
  ASSUME NEW v \in Session, DnSound(v), NEW gv, NEW ty, Downstream(v, gv, ty),
         NEW data \in Seq(Nat), Len(v.dn) + Len(data) <= DNBUFSZ
  PROVE  LET w == [v EXCEPT !.dn = @ \o data]
         IN  /\ w \in Session /\ w.run = v.run /\ w.up = v.up /\ w.sink = v.sink
             /\ DnSound(w) /\ Downstream(w, gv \o data, ty)
<1> DEFINE w == [v EXCEPT !.dn = @ \o data]
           dn == v.dn \o data
           r == Rest(v.dn, v.dnsink)
<1>1. v.dn \in Seq(Nat) /\ v.dnsink \in Nat /\ Len(v.dn) \in Nat /\ v.dnsink <= Len(v.dn)
  BY LenProperties DEF Session, DnSound
<1>2. dn \in Seq(Nat) /\ Len(dn) = Len(v.dn) + Len(data) /\ Len(data) \in Nat
  BY <1>1, Joined
<1>3. r \in Seq(Nat) /\ Rest(dn, v.dnsink) = r \o data
  BY <1>1, RestIs, RestOfJoined
<1>4. w = [v EXCEPT !.dn = dn]
  OBVIOUS
<1> HIDE DEF dn, r
<1>5. /\ w \in Session /\ w.dn = dn /\ w.dnsink = v.dnsink
      /\ w.run = v.run /\ w.up = v.up /\ w.sink = v.sink
  BY <1>2, <1>4 DEF Session
<1> HIDE DEF w
<1>6. DnSound(w)
  <2>1. v.dnsink <= Len(dn) /\ Len(dn) <= DNBUFSZ
    BY <1>1, <1>2
  <2> QED
    BY <1>5, <2>1 DEF DnSound
<1>7. Downstream(w, gv \o data, ty)
  <2>1. gv \in Seq(Nat) /\ ty \in Seq(Nat) /\ ty \o r = gv
    BY DEF Downstream, r
  <2>2. gv \o data \in Seq(Nat)
    BY <2>1, Joined
  <2>3. (ty \o r) \o data = ty \o (r \o data)
    BY <1>3, <2>1, Associates, ZenonT(60)
  <2> QED
    BY <1>3, <1>5, <2>1, <2>2, <2>3 DEF Downstream
<1> QED
  BY <1>5, <1>6, <1>7 DEF w

LEMMA BinaryStep ==
  ASSUME IInv, NEW s \in Sessions, NEW n \in Lengths, Binary(s, n)
  PROVE  IInv'
<1> DEFINE data == [k \in 1 .. n |-> received + k]
           v == Fitted(session[s], n)
           w == [v EXCEPT !.dn = @ \o data]
           gv == given[s] \o data
<1>1. /\ session[s] \in Session /\ DnSound(session[s]) /\ Downstream(session[s], given[s], typed[s])
      /\ given \in [Sessions -> Seq(Nat)] /\ n \in Nat
      /\ received \in Nat /\ received' = received + n /\ received + n <= MaxIn
  <2>1. received \in Nat /\ n \in Nat
    BY Bounds DEF IInv, Types
  <2> QED
    BY <2>1 DEF IInv, Types, SessionInv, Binary
<1>2. /\ reading = None /\ UNCHANGED <<tc, reading, answer, produced, starts>>
      /\ received' \in 0 .. MaxIn
  <2>1. MaxIn \in Nat
    BY Bounds
  <2>2. received' \in 0 .. MaxIn
    BY <1>1, <2>1
  <2> QED
    BY <2>2 DEF Binary, Idle
<1>3. CASE Stop(s)
  BY <1>2, <1>3, StopStep
<1>4. CASE ~Stop(s)
  <2>1. /\ Len(v.dn) + n <= DNBUFSZ /\ given' = [given EXCEPT ![s] = gv] /\ Write(s, w)
        /\ UNCHANGED <<link, made, seen, dropped>>
    BY <1>1, <1>4 DEF Binary
  <2>2. data \in Seq(Nat) /\ Len(data) = n
    BY <1>1
  <2>3. /\ v \in Session /\ DnSound(v) /\ Downstream(v, given[s], typed[s])
        /\ v.run = session[s].run /\ v.up = session[s].up /\ v.sink = session[s].sink
    BY <1>1, FittedDn
  <2> HIDE DEF v, data
  <2>4. /\ w \in Session /\ w.run = v.run /\ w.up = v.up /\ w.sink = v.sink
        /\ DnSound(w) /\ Downstream(w, gv, typed[s])
    BY <2>1, <2>2, <2>3, AddedDn
  <2> HIDE DEF w
  <2> HIDE DEF gv
  <2> QED
    BY <1>2, <2>1, <2>3, <2>4, WriteStep
<1> QED
  BY <1>3, <1>4

LEMMA RequestStep ==
  ASSUME IInv, NEW stop \in Sessions \cup {None}, NEW start \in Sessions \cup {None},
         Request(stop, start)
  PROVE  IInv'
<1> DEFINE stops == stop # None /\ session[stop].run
           ended == IF stops THEN [session EXCEPT ![stop] = Closed] ELSE session
           gone == IF stops THEN {stop} ELSE {}
           begins == start # None /\ ~ended[start].run /\ starts < MaxStarts
<1>1. /\ reading = None /\ answer' = TRUE /\ UNCHANGED <<tc, produced, received>>
      /\ link' = IF stops THEN Eof(link, stop) ELSE link
      /\ \/ /\ begins
            /\ session' = [ended EXCEPT ![start].run = TRUE]
            /\ reading' = start /\ starts' = starts + 1
         \/ session' = ended /\ UNCHANGED <<reading, starts>>
      /\ shell' = [s \in Sessions |-> IF s \in gone THEN NoShell ELSE shell[s]]
      /\ made' = [s \in Sessions |-> IF s \in gone THEN <<>> ELSE made[s]]
      /\ seen' = [s \in Sessions |-> IF s \in gone THEN <<>> ELSE seen[s]]
      /\ given' = [s \in Sessions |-> IF s \in gone THEN <<>> ELSE given[s]]
      /\ typed' = [s \in Sessions |-> IF s \in gone THEN <<>> ELSE typed[s]]
      /\ dropped' = [s \in Sessions |-> s \notin gone /\ dropped[s]]
  BY DEF Request, Stopped, Idle
<1>2. Types /\ produced \in Nat /\ MaxStarts \in Nat
  <2>1. Types
    BY DEF IInv
  <2> QED
    BY <2>1, Bounds DEF Types
<1>3. gone \subseteq Sessions /\ (stops => stop \in Sessions)
  BY Bounds
<1>4. /\ ended \in [Sessions -> Session]
      /\ \A t \in Sessions : ended[t] = IF t \in gone THEN Closed ELSE session[t]
  BY <1>2, <1>3, ClosedSound DEF Types
<1> HIDE DEF ended
<1>5. /\ session' \in [Sessions -> Session]
      /\ \A t \in Sessions : session'[t] = ended[t] \/ session'[t] = [ended[t] EXCEPT !.run = TRUE]
  <2>1. CASE session' = ended
    BY <1>4, <2>1
  <2>2. CASE begins /\ session' = [ended EXCEPT ![start].run = TRUE]
    <3>1. start \in Sessions /\ ended[start] \in Session
      BY <1>4, <2>2
    <3>2. [ended[start] EXCEPT !.run = TRUE] \in Session
      BY <3>1 DEF Session
    <3> QED
      BY <1>4, <2>2, <3>1, <3>2
  <2> QED
    BY <1>1, <2>1, <2>2
<1>6. ASSUME NEW t \in Sessions
      PROVE  /\ session'[t] \in Session /\ session'[t].up = ended[t].up
             /\ session'[t].sink = ended[t].sink
             /\ session'[t].dn = ended[t].dn /\ session'[t].dnsink = ended[t].dnsink
  <2>1. ended[t] \in Session
    BY <1>4
  <2> QED
    BY <1>5, <2>1 DEF Session
<1>7. reading' \in Sessions \cup {None} /\ starts' \in 0 .. MaxStarts
  <2>1. starts \in 0 .. MaxStarts
    BY <1>2 DEF Types
  <2> QED
    BY <1>1, <1>2, <2>1
<1>8. link' \in Link
  BY <1>1, <1>2, <1>3, EofLink DEF Types
<1> HIDE DEF stops, begins
<1>9. ASSUME NEW t \in Sessions PROVE SessionInv(t)'
  <2>1. CASE t \in gone
    <3>1. /\ ended[t] = Closed /\ shell'[t] = NoShell /\ made'[t] = <<>> /\ seen'[t] = <<>>
          /\ given'[t] = <<>> /\ typed'[t] = <<>> /\ dropped'[t] = FALSE
      BY <1>1, <1>4, <2>1
    <3>2. UpSound(session'[t]) /\ DnSound(session'[t])
      BY <1>6, <3>1, ClosedSound DEF UpSound, DnSound
    <3>3. All(session'[t], NoShell, <<>>) = All(Closed, NoShell, <<>>)
      BY <1>6, <3>1 DEF All
    <3>4. /\ Upstream(session'[t], NoShell, <<>>, <<>>, FALSE)
          /\ Downstream(session'[t], <<>>, <<>>)
      BY <1>6, <3>1, <3>3, ClosedSound DEF Upstream, Downstream
    <3>5. Drains(t)'
      BY <1>6, <3>1, ClosedSound DEF Drains
    <3> QED
      BY <1>6, <3>1, <3>2, <3>4, <3>5, ClosedSound DEF SessionInv
  <2>2. CASE t \notin gone
    <3>1. /\ ended[t] = session[t] /\ shell'[t] = shell[t] /\ made'[t] = made[t] /\ seen'[t] = seen[t]
          /\ given'[t] = given[t] /\ typed'[t] = typed[t] /\ dropped'[t] = dropped[t]
      BY <1>1, <1>2, <1>4, <2>2 DEF Types
    <3>2. SessionInv(t)
      BY DEF IInv
    <3>3. UpSound(session'[t]) /\ DnSound(session'[t])
      BY <1>6, <3>1, <3>2, SMTT(30) DEF SessionInv, UpSound, DnSound
    <3>4. All(session'[t], shell[t], seen[t]) = All(session[t], shell[t], seen[t])
      BY <1>6, <3>1 DEF All
    <3>5. /\ Upstream(session'[t], shell[t], made[t], seen[t], dropped[t])
          /\ Downstream(session'[t], given[t], typed[t])
      BY <1>6, <3>1, <3>2, <3>4 DEF SessionInv, Upstream, Downstream
    <3>6. Drains(t)'
      <4>1. Len(session[t].up) # UPBUFSZ
        BY <1>1, NotFull, Bounds
      <4> QED
        BY <1>6, <3>1, <4>1 DEF Drains
    <3> QED
      BY <1>1, <1>6, <3>1, <3>2, <3>3, <3>5, <3>6 DEF SessionInv
  <2> QED
    BY <2>1, <2>2
<1>10. Types'
  <2>1. shell' \in [Sessions -> Shell] /\ dropped' \in [Sessions -> BOOLEAN]
    BY <1>1, <1>2, ClosedSound DEF Types
  <2>2. /\ made' \in [Sessions -> Seq(Nat)] /\ seen' \in [Sessions -> Seq(Nat)]
        /\ given' \in [Sessions -> Seq(Nat)] /\ typed' \in [Sessions -> Seq(Nat)]
    BY <1>1, <1>2, EmptySeq DEF Types
  <2> QED
    BY <1>1, <1>2, <1>5, <1>7, <1>8, <2>1, <2>2 DEF Types
<1>11. PeerInformed'
  BY <1>1 DEF PeerInformed
<1> QED
  BY <1>9, <1>10, <1>11 DEF IInv

(* Steps of the connection: sessions stay as they are. *)
LEMMA LinkStep ==
  ASSUME IInv, reading = None, UNCHANGED <<session, shell, reading, history, produced, received, starts>>,
         tc' \in {"none", "down", "up"}, answer' \in BOOLEAN, link' \in Link, PeerInformed'
  PROVE  IInv'
<1>1. Types /\ produced \in Nat
  <2>1. Types
    BY DEF IInv
  <2> QED
    BY <2>1, Bounds DEF Types
<1>2. ASSUME NEW t \in Sessions PROVE SessionInv(t)'
  <2>1. reading # t
    BY Bounds
  <2> QED
    BY <1>1, <2>1, OthersSound DEF history
<1>3. Types'
  BY <1>1 DEF Types, history
<1> QED
  BY <1>2, <1>3 DEF IInv

LEMMA ConnectionStep ==
  ASSUME IInv, Connection
  PROVE  IInv'
<1>1. /\ link \in Link /\ PeerInformed /\ reading = None /\ answer' = answer /\ answer \in BOOLEAN
      /\ tc' \in {"none", "down", "up"} /\ session' = session
  BY DEF IInv, Types, Connection, TcStarts, TcConnects, TcLost, TcFreed, Drained, Idle
<1>2. CASE \E r \in 0 .. SENDBUF : link' = [link EXCEPT !.room = r]
  <2>1. link' \in Link /\ link'.peer = link.peer /\ link'.missed = link.missed
    BY <1>1, <1>2 DEF Link
  <2>2. PeerInformed'
    BY <1>1, <2>1 DEF PeerInformed
  <2> QED
    BY <1>1, <2>1, <2>2, LinkStep DEF Connection
<1>3. CASE link' = Unsure
  <2>1. link' \in Link /\ link'.missed = [s \in Sessions |-> TRUE]
    BY <1>1, <1>3 DEF Link, Unsure
  <2>2. PeerInformed'
    BY <2>1 DEF PeerInformed
  <2> QED
    BY <1>1, <2>1, <2>2, LinkStep DEF Connection
<1>4. CASE link' = link
  <2>1. PeerInformed'
    BY <1>1, <1>4 DEF PeerInformed
  <2> QED
    BY <1>1, <1>4, <2>1, LinkStep DEF Connection
<1>5. \/ link' = link \/ link' = Unsure
      \/ \E r \in 0 .. SENDBUF : link' = [link EXCEPT !.room = r]
  <2>1. link.room \in 0 .. SENDBUF /\ SENDBUF \in 0 .. SENDBUF
    BY <1>1, Sizes DEF Link
  <2>2. CASE Drained
    <3>1. PICK r \in link.room + 1 .. SENDBUF : link' = [link EXCEPT !.room = r]
      BY <2>2 DEF Drained
    <3>2. r \in 0 .. SENDBUF
      BY <2>1
    <3> QED
      BY <3>1, <3>2
  <2>3. CASE TcConnects
    BY <2>1, <2>3 DEF TcConnects
  <2> QED
    BY <2>2, <2>3 DEF Connection, TcStarts, TcLost, TcFreed
<1> QED
  BY <1>2, <1>3, <1>4, <1>5

LEMMA RespondStep ==
  ASSUME IInv, Respond
  PROVE  IInv'
<1>1. /\ link \in Link /\ session \in [Sessions -> Session] /\ tc \in {"none", "down", "up"}
  BY DEF IInv, Types
<1>2. \A s \in Sessions : session[s].run \in BOOLEAN
  BY <1>1 DEF Session
<1>3. link' \in Link /\ \A s \in Sessions : ~link'.missed[s] => link'.peer[s] = session[s].run
  <2>1. CASE Grants(link, WS_CHUNKS)
    <3> DEFINE r == link.room - WS_CHUNKS
    <3>1. link' = [room |-> r, peer |-> [s \in Sessions |-> session[s].run],
                   missed |-> [s \in Sessions |-> FALSE]]
      BY <2>1 DEF Respond
    <3>2. r \in 0 .. SENDBUF
      BY <1>1, <2>1, Sizes DEF Grants, Link
    <3> HIDE DEF r
    <3> QED
      BY <1>2, <3>1, <3>2 DEF Link
  <2>2. CASE ~Grants(link, WS_CHUNKS)
    <3>1. link' = [link EXCEPT !.missed = [s \in Sessions |-> TRUE]]
      BY <2>2 DEF Respond
    <3> QED
      BY <1>1, <3>1 DEF Link
  <2> QED
    BY <2>1, <2>2
<1>4. PeerInformed'
  BY <1>3 DEF PeerInformed, Respond
<1> QED
  BY <1>1, <1>3, <1>4, LinkStep DEF Respond

LEMMA StepIInv ==
  ASSUME IInv, [Next]_vars
  PROVE  IInv'
<1>1. CASE UNCHANGED vars
  BY <1>1 DEF vars, history, IInv, Types, SessionInv, Drains, PeerInformed
<1>2. ASSUME NEW s \in Sessions, ShellWrites(s) \/ ShellReads(s) \/ ShellEnds(s) PROVE IInv'
  BY <1>2, ShellWritesStep, ShellReadsStep
<1>3. ASSUME NEW s \in Sessions, Readable(s) \/ UpRead(s) \/ Writable(s) PROVE IInv'
  BY <1>3, ReadableStep, ReadNoneStep, ReadEndStep, ReadDataStep, WritableStep DEF UpRead
<1> QED
  BY <1>1, <1>2, <1>3, ConnectionStep, RespondStep, BinaryStep, RequestStep DEF Next
-----------------------------------------------------------------------------
(* What rmtsh.c keeps of every session from one step to the next, together *)
(* with what the LNS knows.                                                *)
THEOREM Invariance == Spec => []IInv
<1>1. Init => IInv
  BY InitIInv
<1>2. IInv /\ [Next]_vars => IInv'
  BY StepIInv
<1> QED
  BY <1>1, <1>2, PTL DEF Spec

(* The shapes of the data: both buffers stay within their sizes, and what  *)
(* up_read and dn_write have taken is not more than there is.              *)
THEOREM TypesRight == Spec => []TypeOK
<1>1. ASSUME IInv PROVE TypeOK
  <2>1. ASSUME NEW s \in Sessions
        PROVE  /\ session[s].run \in BOOLEAN /\ session[s].wrfn \in BOOLEAN
               /\ session[s].up \in Seq(Nat) /\ session[s].dn \in Seq(Nat)
               /\ session[s].sink \in 0 .. Len(session[s].up) /\ Len(session[s].up) <= UPBUFSZ
               /\ session[s].dnsink \in 0 .. Len(session[s].dn) /\ Len(session[s].dn) <= DNBUFSZ
               /\ shell[s].tty \in Seq(Nat) /\ shell[s].unread \in 0 .. TTYSZ
               /\ shell[s].ended \in BOOLEAN
    <3>1. /\ session[s] \in Session /\ shell[s] \in Shell
          /\ UpSound(session[s]) /\ DnSound(session[s])
      BY <1>1 DEF IInv, SessionInv
    <3>2. /\ session[s].up \in Seq(Nat) /\ session[s].dn \in Seq(Nat)
          /\ session[s].sink \in Nat /\ session[s].dnsink \in Nat
      BY <3>1 DEF Session
    <3>3. Len(session[s].up) \in Nat /\ Len(session[s].dn) \in Nat
      BY <3>2, LenProperties
    <3>4. /\ session[s].sink \in 0 .. Len(session[s].up)
          /\ session[s].dnsink \in 0 .. Len(session[s].dn)
      BY <3>1, <3>2, <3>3 DEF UpSound, DnSound
    <3> QED
      BY <3>1, <3>4 DEF Session, Shell, UpSound, DnSound
  <2>2. Types
    BY <1>1 DEF IInv
  <2> QED
    BY <2>1, <2>2 DEF Types, TypeOK, Link
<1> QED
  BY <1>1, Invariance, PTL

(* Whatever the order of reads, chunks, compactions, frames and writes,    *)
(* neither stream of a session loses, repeats, swaps or mixes in a byte;   *)
(* output is left out only while there was no TC.                          *)
THEOREM StreamsSound == Spec => []StreamsWhole
<1>1. ASSUME IInv PROVE StreamsWhole
  <2>1. ASSUME NEW s \in Sessions
        PROVE  LET all == seen[s] \o Rest(session[s].up, session[s].sink) \o shell[s].tty
               IN  /\ \A i, j \in DOMAIN all : i < j => all[i] < all[j]
                   /\ \A i \in DOMAIN all : \E j \in DOMAIN made[s] : all[i] = made[s][j]
                   /\ ~dropped[s] => all = made[s]
    <3> DEFINE all == All(session[s], shell[s], seen[s])
    <3>1. /\ session[s] \in Session /\ shell[s] \in Shell /\ UpSound(session[s])
          /\ made[s] \in Seq(Nat) /\ seen[s] \in Seq(Nat) /\ Kept(all, made[s])
          /\ ~dropped[s] => all = made[s]
      BY <1>1 DEF IInv, SessionInv, Upstream
    <3>2. all \in Seq(Nat)
      <4> DEFINE r == Rest(session[s].up, session[s].sink)
      <4>1. r \in Seq(Nat) /\ shell[s].tty \in Seq(Nat) /\ all = seen[s] \o (r \o shell[s].tty)
        BY <3>1, AllOf DEF UpSound
      <4> HIDE DEF r
      <4>2. r \o shell[s].tty \in Seq(Nat)
        BY <4>1, Joined
      <4> QED
        BY <3>1, <4>1, <4>2, Joined
    <3>3. DOMAIN all = 1 .. Len(all) /\ DOMAIN made[s] = 1 .. Len(made[s])
      BY <3>1, <3>2, LenProperties
    <3>4. all = seen[s] \o Rest(session[s].up, session[s].sink) \o shell[s].tty
      BY DEF All
    <3> HIDE DEF all
    <3>5. /\ \A i, j \in DOMAIN all : i < j => all[i] < all[j]
          /\ \A i \in DOMAIN all : \E j \in DOMAIN made[s] : all[i] = made[s][j]
          /\ ~dropped[s] => all = made[s]
      BY <3>1, <3>3 DEF Kept
    <3> QED
      BY <3>4, <3>5
  <2>2. ASSUME NEW s \in Sessions
        PROVE  typed[s] \o Rest(session[s].dn, session[s].dnsink) = given[s]
    BY <1>1 DEF IInv, SessionInv, Downstream
  <2> QED
    BY <2>1, <2>2 DEF StreamsWhole, OutputWhole, InputWhole
<1> QED
  BY <1>1, Invariance, PTL

(* The LNS knows which sessions run unless a message found no space.       *)
THEOREM PeerTold == Spec => []PeerInformed
<1>1. IInv => PeerInformed
  BY DEF IInv
<1> QED
  BY <1>1, Invariance, PTL

(* dn_write does not end a session. *)
LEMMA WriteRuns ==
  ASSUME IInv, NEW t \in Sessions, NEW v \in Session, NEW gv, NEW ty,
         v.run, DnSound(v), Downstream(v, gv, ty), Write(t, v),
         NEW s \in Sessions, session[s].run
  PROVE  session'[s].run
<1> DEFINE n == Smaller(Len(v.dn) - v.dnsink, TTYSZ - shell[t].unread)
           w == Written(v, n)
<1>1. shell[t] \in Shell /\ session \in [Sessions -> Session]
  BY DEF IInv, Types
<1>2. n \in Nat /\ n <= Len(v.dn) - v.dnsink /\ session' = [session EXCEPT ![t] = w]
  BY <1>1, WriteAmount
<1> HIDE DEF n
<1>3. w.run
  BY <1>2, WrittenDn
<1> HIDE DEF w
<1> QED
  BY <1>1, <1>2, <1>3

(* Why a session ended in this step *)
Cause(s) ==
  IF reading = s
  THEN (shell[s].ended /\ shell[s].tty = <<>>) \/ UpstreamStuck(session[s])
  ELSE \/ answer' \/ shell[s].ended
       \/ Len(given[s]) - Len(typed[s]) + (received' - received) > DNBUFSZ

LEMMA ReadCause ==
  ASSUME IInv, NEW t \in Sessions, ReadEnd(t), NEW s \in Sessions, session[s].run, ~session'[s].run
  PROVE  Cause(s)
<1>1. session \in [Sessions -> Session] /\ SessionInv(s)
  BY DEF IInv, Types
<1>2. t = s /\ reading = s
  BY <1>1 DEF ReadEnd, Stop
<1>3. CASE Space(session[s]) = 0
  <2>1. session[s].up \in Seq(Nat)
    BY <1>1 DEF SessionInv, Session
  <2>2. Len(session[s].up) = UPBUFSZ
    <3>1. Len(session[s].up) \in Nat /\ UPBUFSZ \in Nat
      BY <2>1, LenProperties, Sizes
    <3> QED
      BY <1>3, <3>1 DEF Space
  <2>3. session[s].sink = 0 /\ tc # "none"
    BY <1>1, <2>2, Sizes DEF SessionInv, UpSound, Drains
  <2> QED
    BY <1>2, <2>2, <2>3 DEF Cause, UpstreamStuck
<1> QED
  BY <1>2, <1>3 DEF ReadEnd, Cause

LEMMA WritableCause ==
  ASSUME IInv, NEW t \in Sessions, Writable(t), NEW s \in Sessions, session[s].run, ~session'[s].run
  PROVE  Cause(s)
<1>1. session \in [Sessions -> Session] /\ SessionInv(t) /\ reading # s
  BY Bounds DEF IInv, Types, Writable, Idle
<1>2. ~Write(t, session[t])
  <2>1. /\ session[t] \in Session /\ session[t].run /\ DnSound(session[t])
        /\ Downstream(session[t], given[t], typed[t])
    BY <1>1 DEF SessionInv, Writable
  <2> QED
    BY <2>1, WriteRuns
<1>3. shell[t].ended /\ Stop(t)
  BY <1>2 DEF Writable
<1>4. t = s
  BY <1>1, <1>3 DEF Stop
<1> QED
  BY <1>1, <1>3, <1>4 DEF Cause

LEMMA BinaryCause ==
  ASSUME IInv, NEW t \in Sessions, NEW n \in Lengths, Binary(t, n),
         NEW s \in Sessions, session[s].run, ~session'[s].run
  PROVE  Cause(s)
<1> DEFINE data == [k \in 1 .. n |-> received + k]
           v == Fitted(session[t], n)
           w == [v EXCEPT !.dn = @ \o data]
<1>1. /\ session \in [Sessions -> Session] /\ session[t] \in Session /\ session[t].run
      /\ DnSound(session[t]) /\ Downstream(session[t], given[t], typed[t])
      /\ reading # s /\ n \in Nat /\ received \in Nat /\ received' = received + n
  <2>1. reading # s
    BY Bounds DEF Binary, Idle
  <2>2. session \in [Sessions -> Session] /\ SessionInv(t)
    BY DEF IInv, Types
  <2>3. received \in Nat /\ n \in Nat
    BY Bounds DEF IInv, Types
  <2> QED
    BY <2>1, <2>2, <2>3 DEF SessionInv, Binary
<1>2. /\ v \in Session /\ DnSound(v) /\ Downstream(v, given[t], typed[t]) /\ v.run
      /\ Len(v.dn) + n > DNBUFSZ => Len(given[t]) - Len(typed[t]) + n > DNBUFSZ
  BY <1>1, FittedDn
<1>3. \/ Len(v.dn) + n <= DNBUFSZ /\ Write(t, w)
      \/ (Len(v.dn) + n > DNBUFSZ \/ shell[t].ended) /\ Stop(t)
  BY DEF Binary
<1>4. CASE Len(v.dn) + n <= DNBUFSZ /\ Write(t, w)
  <2> DEFINE gv == given[t] \o data
  <2>1. data \in Seq(Nat) /\ Len(data) = n
    BY <1>1
  <2> HIDE DEF v, data
  <2>2. w \in Session /\ w.run /\ DnSound(w) /\ Downstream(w, gv, typed[t])
    BY <1>2, <1>4, <2>1, AddedDn
  <2> HIDE DEF w, gv
  <2> QED
    BY <1>4, <2>2, WriteRuns
<1>5. CASE (Len(v.dn) + n > DNBUFSZ \/ shell[t].ended) /\ Stop(t)
  <2>1. t = s
    BY <1>1, <1>5 DEF Stop
  <2>2. shell[s].ended \/ Len(given[s]) - Len(typed[s]) + n > DNBUFSZ
    BY <1>2, <1>5, <2>1
  <2>3. received' - received = n
    BY <1>1
  <2> QED
    BY <1>1, <2>2, <2>3 DEF Cause
<1> QED
  BY <1>3, <1>4, <1>5

(* up_read goes on with the session that it reads. *)
LEMMA ReadRuns ==
  ASSUME IInv, NEW t \in Sessions, ReadData(t), NEW s \in Sessions, session[s].run
  PROVE  session'[s].run
<1> DEFINE n == Smaller(Space(session[t]), Len(shell[t].tty))
           u == session[t].up \o Front(shell[t].tty, n)
           v == [session[t] EXCEPT !.up = u]
           m == v.sink + Chunk(v)
           c == [v EXCEPT !.sink = m]
<1>1. session \in [Sessions -> Session] /\ session[t] \in Session
  BY DEF IInv, Types
<1>2. \/ session' = [session EXCEPT ![t] = Compacted(Cut(v))]
      \/ session' = [session EXCEPT ![t] = Compacted(c)]
      \/ session' = [session EXCEPT ![t] = Compacted(v)]
  BY DEF ReadData
<1>3. v.run = session[t].run
  <2> HIDE DEF u
  <2> QED
    BY <1>1 DEF Session
<1> HIDE DEF m, u
<1>4. c.run = v.run
  BY <1>1 DEF Session
<1>5. Compacted(v).run = v.run
  BY <1>1 DEF Session, Compacted
<1>6. Compacted(c).run = c.run
  BY <1>1 DEF Session, Compacted
<1>7. Compacted(Cut(v)).run = v.run
  BY <1>1 DEF Session, Cut, Compacted
<1> HIDE DEF v, c
<1> QED
  BY <1>1, <1>2, <1>3, <1>4, <1>5, <1>6, <1>7

(* A session only ends if its shell did, if the LNS wants it or if a       *)
(* buffer is really full: up_read and dn_fill never take space that        *)
(* compaction regains for used.                                            *)
THEOREM StopsRightly == Spec => StopsForCause
<1>1. ASSUME IInv, [Next]_vars, NEW s \in Sessions, session[s].run, ~session'[s].run
      PROVE  Cause(s)
  <2>1. session # session'
    BY <1>1
  <2>2. ASSUME NEW t \in Sessions, Readable(t) \/ UpRead(t) \/ Writable(t) PROVE Cause(s)
    <3>1. ~Readable(t) /\ ~ReadNone(t)
      BY <2>1 DEF Readable, ReadNone
    <3>2. ~ReadData(t)
      BY <1>1, ReadRuns
    <3> QED
      BY <1>1, <2>2, <3>1, <3>2, ReadCause, WritableCause DEF UpRead
  <2>3. ASSUME NEW stop \in Sessions \cup {None}, NEW start \in Sessions \cup {None},
               Request(stop, start)
        PROVE  Cause(s)
    BY <2>3, Bounds DEF Request, Idle, Cause
  <2>4. ~(Connection \/ Respond) /\ ~UNCHANGED vars
    BY <2>1 DEF Connection, Respond, vars
  <2>5. ~(\E t \in Sessions : ShellWrites(t) \/ ShellReads(t) \/ ShellEnds(t))
    BY <2>1 DEF ShellWrites, ShellReads, ShellEnds
  <2>6. ASSUME NEW t \in Sessions, NEW n \in Lengths, Binary(t, n) PROVE Cause(s)
    BY <1>1, <2>6, BinaryCause
  <2> QED
    BY <1>1, <2>2, <2>3, <2>4, <2>5, <2>6 DEF Next
<1>2. IInv /\ [Next]_vars
        => [\A s \in Sessions : session[s].run /\ ~session'[s].run =>
             IF reading = s
             THEN (shell[s].ended /\ shell[s].tty = <<>>) \/ UpstreamStuck(session[s])
             ELSE \/ answer' \/ shell[s].ended
                  \/ Len(given[s]) - Len(typed[s]) + (received' - received) > DNBUFSZ]_vars
  BY <1>1 DEF Cause
<1> QED
  BY <1>2, Invariance, PTL DEF Spec, StopsForCause
=============================================================================
