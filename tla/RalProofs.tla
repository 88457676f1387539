----------------------------- MODULE RalProofs -----------------------------
(***************************************************************************)
(* Proofs about the pipes between master and slave (ral_master.c and       *)
(* ral_slave.c), for any size of a read and of a pipe and any number of    *)
(* requests, sessions and crashes.                                         *)
(*                                                                         *)
(* What is on its way to the master, in the spill buffer, in the buffer of *)
(* the procedure that reads and in the pipe, is one stream of whole        *)
(* messages; what is on its way to the slave is one stream in which a      *)
(* CONFIG comes before all that needs a radio.  The requests with an       *)
(* answer, on their way to the slave, and their answers, on their way      *)
(* back, are numbered along both, and as long as the master does not ask   *)
(* again too early, each of them is one that it can tell.                  *)
(***************************************************************************)
EXTENDS RalPipe, SequenceTheorems, TLAPS

Upward == {"TX", "TX_NOCCA", "TXSTATUS", "SYNCED", "RX"}
Long(c) == c.cmd \in {"RX", "SYNCED"}

(* A sequence of whole messages of at most two cells, as a property of     *)
(* neighbouring cells.                                                     *)
Framed(s) ==
  \A i \in 1 .. Len(s) :
    /\ s[i].cmd \in Upward
    /\ s[i].part = 1 \/ (s[i].part = 2 /\ Long(s[i]))
    /\ s[i].part = 2 => i > 1 /\ s[i - 1] = [s[i] EXCEPT !.part = 1]
    /\ s[i].part = 1 /\ Long(s[i]) => i < Len(s) /\ s[i + 1] = [s[i] EXCEPT !.part = 2]

LEMMA Sizes ==
  /\ ReadMax \in Nat /\ ReadMax >= 2
  /\ \A cmd \in Upward : Size(cmd) = IF cmd \in {"RX", "SYNCED"} THEN 2 ELSE 1
  /\ \A cmd \in Commands : Size(cmd) = IF cmd = "CONFIG" THEN ReadMax ELSE 1
BY PipeAssumption DEF Size, Upward, Commands

LEMMA CellsShape ==
  ASSUME NEW cmd \in Commands \cup Upward, NEW arg \in Nat
  PROVE  /\ Cells(cmd, arg) \in Seq(Cell) /\ Len(Cells(cmd, arg)) = Size(cmd)
         /\ Size(cmd) \in Nat /\ Size(cmd) >= 1
         /\ \A k \in 1 .. Size(cmd) : Cells(cmd, arg)[k] = [cmd |-> cmd, arg |-> arg, part |-> k]
<1>1. Size(cmd) \in Nat /\ Size(cmd) >= 1 /\ Size(cmd) <= ReadMax /\ ReadMax \in Nat
  BY Sizes DEF Size
<1>2. ASSUME NEW k \in 1 .. Size(cmd) PROVE [cmd |-> cmd, arg |-> arg, part |-> k] \in Cell
  <2>1. k \in 1 .. ReadMax /\ cmd \in Commands \cup {"RX", "SYNCED"}
    BY <1>1 DEF Upward, Commands
  <2> QED
    BY <2>1 DEF Cell
<1>3. Cells(cmd, arg) = [k \in 1 .. Size(cmd) |-> [cmd |-> cmd, arg |-> arg, part |-> k]]
  BY DEF Cells
<1> HIDE DEF Size
<1>4. Cells(cmd, arg) \in [1 .. Size(cmd) -> Cell]
  BY <1>2, <1>3
<1>5. Cells(cmd, arg) \in Seq(Cell) /\ Len(Cells(cmd, arg)) = Size(cmd)
  BY <1>1, <1>4
<1> QED
  BY <1>1, <1>3, <1>5

LEMMA CellsFramed ==
  ASSUME NEW cmd \in Upward, NEW arg \in Nat
  PROVE  Framed(Cells(cmd, arg))
<1> DEFINE s == Cells(cmd, arg)
<1>1. /\ s \in Seq(Cell) /\ Len(s) = Size(cmd)
      /\ Size(cmd) = IF cmd \in {"RX", "SYNCED"} THEN 2 ELSE 1
      /\ \A k \in 1 .. Size(cmd) : s[k] = [cmd |-> cmd, arg |-> arg, part |-> k]
  BY CellsShape, Sizes
<1> HIDE DEF s
<1> SUFFICES ASSUME NEW i \in 1 .. Len(s)
             PROVE  /\ s[i].cmd \in Upward
                    /\ s[i].part = 1 \/ (s[i].part = 2 /\ Long(s[i]))
                    /\ s[i].part = 2 => i > 1 /\ s[i - 1] = [s[i] EXCEPT !.part = 1]
                    /\ s[i].part = 1 /\ Long(s[i]) => i < Len(s) /\ s[i + 1] = [s[i] EXCEPT !.part = 2]
  BY DEF Framed, s
<1>2. s[i] = [cmd |-> cmd, arg |-> arg, part |-> i]
  BY <1>1
<1>3. CASE cmd \in {"RX", "SYNCED"}
  <2>1. Size(cmd) = 2 /\ Len(s) = 2 /\ i \in {1, 2}
    BY <1>1, <1>3
  <2>2. s[1] = [cmd |-> cmd, arg |-> arg, part |-> 1] /\ s[2] = [cmd |-> cmd, arg |-> arg, part |-> 2]
    <3>1. 1 \in 1 .. Size(cmd) /\ 2 \in 1 .. Size(cmd)
      BY <2>1
    <3> HIDE DEF Size
    <3> QED
      BY <1>1, <3>1
  <2> QED
    BY <1>2, <1>3, <2>1, <2>2 DEF Long
<1>4. CASE cmd \notin {"RX", "SYNCED"}
  <2>1. i = 1
    BY <1>1, <1>4
  <2> QED
    BY <1>2, <1>4, <2>1 DEF Long
<1> QED
  BY <1>3, <1>4

LEMMA SingleFramed ==
  ASSUME NEW c \in Cell, c.cmd \in Upward, ~Long(c), c.part = 1
  PROVE  <<c>> \in Seq(Cell) /\ Framed(<<c>>)
BY DEF Framed

LEMMA JoinedFramed ==
  ASSUME NEW s \in Seq(Cell), NEW t \in Seq(Cell), Framed(s), Framed(t)
  PROVE  Framed(s \o t)
<1> DEFINE u == s \o t
<1>1. /\ Len(s) \in Nat /\ Len(t) \in Nat /\ Len(u) = Len(s) + Len(t)
      /\ \A i \in 1 .. Len(s) : u[i] = s[i]
      /\ \A i \in 1 .. Len(t) : u[Len(s) + i] = t[i]
  BY ConcatProperties, LenProperties
<1> HIDE DEF u
<1> SUFFICES ASSUME NEW i \in 1 .. Len(u)
             PROVE  /\ u[i].cmd \in Upward
                    /\ u[i].part = 1 \/ (u[i].part = 2 /\ Long(u[i]))
                    /\ u[i].part = 2 => i > 1 /\ u[i - 1] = [u[i] EXCEPT !.part = 1]
                    /\ u[i].part = 1 /\ Long(u[i]) => i < Len(u) /\ u[i + 1] = [u[i] EXCEPT !.part = 2]
  BY DEF Framed, u
<1>2. CASE i \in 1 .. Len(s)
  <2>1. u[i] = s[i] /\ (i > 1 => u[i - 1] = s[i - 1]) /\ (i < Len(s) => u[i + 1] = s[i + 1])
    BY <1>1, <1>2
  <2> QED
    BY <1>1, <1>2, <2>1 DEF Framed
<1>3. CASE i \notin 1 .. Len(s)
  <2> DEFINE k == i - Len(s)
  <2>1. k \in 1 .. Len(t) /\ i = Len(s) + k
    BY <1>1, <1>3
  <2>2. u[i] = t[k]
    BY <1>1, <2>1
  <2>3. k > 1 => i > 1 /\ u[i - 1] = t[k - 1]
    <3>1. k > 1 => k - 1 \in 1 .. Len(t) /\ i - 1 = Len(s) + (k - 1) /\ i > 1
      BY <1>1, <2>1
    <3> QED
      BY <1>1, <3>1
  <2>4. k < Len(t) => i < Len(u) /\ u[i + 1] = t[k + 1]
    <3>1. k < Len(t) => k + 1 \in 1 .. Len(t) /\ i + 1 = Len(s) + (k + 1) /\ i < Len(u)
      BY <1>1, <2>1
    <3> QED
      BY <1>1, <3>1
  <2> HIDE DEF k
  <2> QED
    BY <2>1, <2>2, <2>3, <2>4, SMTT(30) DEF Framed
<1> QED
  BY <1>2, <1>3

(* What is left of a sequence without its first n elements *)
LEMMA BackSeq ==
  ASSUME NEW S, NEW q \in Seq(S), NEW n \in 0 .. Len(q)
  PROVE  /\ Back(q, n) \in Seq(S) /\ Len(Back(q, n)) = Len(q) - n
         /\ \A i \in 1 .. Len(q) - n : Back(q, n)[i] = q[n + i]
<1>1. Len(q) \in Nat /\ n \in Nat /\ n <= Len(q)
  BY LenProperties
<1>2. \A k \in n + 1 .. Len(q) : q[k] \in S
  BY <1>1, ElementOfSeq
<1>3. n + 1 \in Int /\ Len(q) \in Int
  BY <1>1
<1>4. /\ SubSeq(q, n + 1, Len(q)) \in Seq(S)
      /\ Len(SubSeq(q, n + 1, Len(q))) = (IF n + 1 <= Len(q) THEN Len(q) - (n + 1) + 1 ELSE 0)
      /\ \A i \in 1 .. Len(q) - (n + 1) + 1 : SubSeq(q, n + 1, Len(q))[i] = q[(n + 1) + i - 1]
  BY <1>2, <1>3, SubSeqProperties
<1> DEFINE b == SubSeq(q, n + 1, Len(q))
<1>5. b \in Seq(S) /\ Len(b) = Len(q) - n
  <2>1. Len(b) = (IF n + 1 <= Len(q) THEN Len(q) - (n + 1) + 1 ELSE 0) /\ b \in Seq(S)
    BY <1>4
  <2> HIDE DEF b
  <2> QED
    BY <1>1, <2>1
<1>6. ASSUME NEW i \in 1 .. Len(q) - n PROVE b[i] = q[n + i]
  <2>1. i \in 1 .. Len(q) - (n + 1) + 1 /\ (n + 1) + i - 1 = n + i
    BY <1>1
  <2>2. b[i] = q[(n + 1) + i - 1]
    BY <1>4, <2>1
  <2> QED
    BY <2>1, <2>2
<1> QED
  BY <1>5, <1>6 DEF Back

(* The first message of a stream is whole, and whole messages follow.      *)
LEMMA FirstMessage ==
  ASSUME NEW s \in Seq(Cell), Framed(s), s # <<>>
  PROVE  LET n == Size(s[1].cmd) IN
         /\ s[1].cmd \in Upward /\ s[1].part = 1 /\ s[1].arg \in Nat
         /\ n = (IF Long(s[1]) THEN 2 ELSE 1) /\ n <= Len(s)
         /\ Front(s, n) = Cells(s[1].cmd, s[1].arg)
         /\ Back(s, n) \in Seq(Cell) /\ Framed(Back(s, n))
<1> DEFINE n == Size(s[1].cmd)
           u == Back(s, n)
<1>1. /\ Len(s) \in Nat /\ Len(s) >= 1 /\ 1 \in 1 .. Len(s) /\ s[1] \in Cell
      /\ \A i \in 1 .. Len(s) : s[i] \in Cell
  BY EmptySeq, LenProperties, ElementOfSeq
<1>2. s[1].cmd \in Upward /\ s[1].part = 1 /\ s[1].arg \in Nat
  <2>1. /\ s[1].cmd \in Upward
        /\ s[1].part = 1 \/ s[1].part = 2
        /\ s[1].part = 2 => 1 > 1
    BY <1>1 DEF Framed
  <2>2. s[1].part # 2
    BY <2>1
  <2>3. s[1].arg \in Nat
    BY <1>1 DEF Cell
  <2> QED
    BY <2>1, <2>2, <2>3
<1>3. n = IF Long(s[1]) THEN 2 ELSE 1
  BY <1>2, Sizes DEF Long
<1> HIDE DEF n
<1>4. n \in Nat /\ n >= 1 /\ n <= Len(s) /\ (n = 2 => s[2] = [s[1] EXCEPT !.part = 2])
  <2>1. Long(s[1]) => 1 < Len(s) /\ s[1 + 1] = [s[1] EXCEPT !.part = 2]
    BY <1>1, <1>2 DEF Framed
  <2>2. 1 + 1 = 2
    OBVIOUS
  <2>3. Long(s[1]) => 1 < Len(s) /\ s[2] = [s[1] EXCEPT !.part = 2]
    BY <2>1, <2>2
  <2> QED
    BY <1>1, <1>3, <2>3
<1>5. Front(s, n) = Cells(s[1].cmd, s[1].arg)
  <2> DEFINE c == Cells(s[1].cmd, s[1].arg)
             f == Front(s, n)
  <2>1. /\ c \in Seq(Cell) /\ Len(c) = n
        /\ \A k \in 1 .. n : c[k] = [cmd |-> s[1].cmd, arg |-> s[1].arg, part |-> k]
    BY <1>2, CellsShape DEF n
  <2>2. f \in Seq(Cell) /\ Len(f) = n /\ \A k \in 1 .. n : f[k] = s[k]
    <3>1. \A k \in 1 .. n : s[k] \in Cell
      BY <1>1, <1>4
    <3> QED
      BY <1>4, <3>1, SubSeqProperties DEF Front
  <2>3. s[1] = [cmd |-> s[1].cmd, arg |-> s[1].arg, part |-> 1]
    BY <1>1, <1>2 DEF Cell
  <2>4. n = 2 => s[2] = [cmd |-> s[1].cmd, arg |-> s[1].arg, part |-> 2]
    BY <1>4, <2>3
  <2>5. \A k \in 1 .. n : f[k] = c[k]
    BY <1>3, <2>1, <2>2, <2>3, <2>4
  <2> HIDE DEF c, f
  <2>6. f = c
    BY <2>1, <2>2, <2>5, SeqEqual
  <2> QED
    BY <2>6 DEF c, f
<1>6. u \in Seq(Cell) /\ Len(u) = Len(s) - n /\ \A i \in 1 .. Len(s) - n : u[i] = s[n + i]
  <2>1. n \in 0 .. Len(s)
    BY <1>1, <1>4
  <2> QED
    BY <2>1, BackSeq DEF n
<1> HIDE DEF u
<1>7. Framed(u)
  <2> SUFFICES ASSUME NEW i \in 1 .. Len(u)
               PROVE  /\ u[i].cmd \in Upward
                      /\ u[i].part = 1 \/ (u[i].part = 2 /\ Long(u[i]))
                      /\ u[i].part = 2 => i > 1 /\ u[i - 1] = [u[i] EXCEPT !.part = 1]
                      /\ u[i].part = 1 /\ Long(u[i]) => i < Len(u) /\ u[i + 1] = [u[i] EXCEPT !.part = 2]
    BY DEF Framed
  <2> DEFINE k == n + i
  <2>1. k \in 1 .. Len(s) /\ k > 1 /\ u[i] = s[k] /\ s[k] \in Cell /\ k - 1 \in 1 .. Len(s)
    BY <1>1, <1>4, <1>6
  <2>2. /\ i > 1 => u[i - 1] = s[k - 1]
        /\ k < Len(s) => i < Len(u) /\ u[i + 1] = s[k + 1]
    <3>1. i \in Nat /\ i >= 1 /\ Len(s) \in Nat /\ n \in Nat /\ Len(u) = Len(s) - n /\ i <= Len(u)
      BY <1>1, <1>4, <1>6
    <3>2. i > 1 => i - 1 \in 1 .. Len(s) - n /\ n + (i - 1) = k - 1
      BY <3>1
    <3>3. k < Len(s) => i + 1 \in 1 .. Len(s) - n /\ n + (i + 1) = k + 1 /\ i < Len(u)
      BY <3>1
    <3> HIDE DEF k
    <3> QED
      BY <1>6, <3>2, <3>3
  <2>3. i = 1 => k = n + 1 /\ k - 1 = n
    BY <1>4
  <2> HIDE DEF k
  <2>4. ASSUME u[i].part = 2 PROVE i > 1
    <3> SUFFICES ASSUME i = 1 PROVE FALSE
      OBVIOUS
    <3>0. s[k].part = 2 /\ k - 1 = n
      BY <2>1, <2>3, <2>4
    <3>1. s[n] = [s[k] EXCEPT !.part = 1] /\ Long(s[k])
      <4>1. /\ s[k].part = 1 \/ (s[k].part = 2 /\ Long(s[k]))
            /\ s[k].part = 2 => k > 1 /\ s[k - 1] = [s[k] EXCEPT !.part = 1]
        BY <2>1 DEF Framed
      <4> QED
        BY <3>0, <4>1
    <3>2. s[n].part = 1 /\ Long(s[n])
      BY <2>1, <3>1 DEF Long, Cell
    <3> QED
      BY <1>1, <1>2, <1>3, <1>4, <3>2 DEF Cell
  <2> QED
    BY <2>1, <2>2, <2>4 DEF Framed
<1> QED
  BY <1>2, <1>3, <1>4, <1>5, <1>6, <1>7 DEF n, u

(* Taking n cells from the front of s and then reading on in t             *)
LEMMA CutFront ==
  ASSUME NEW s \in Seq(Cell), NEW t \in Seq(Cell), NEW n \in 0 .. Len(s)
  PROVE  /\ Front(s, n) \in Seq(Cell) /\ Back(s, n) \in Seq(Cell)
         /\ Len(Front(s, n)) = n /\ Len(Back(s, n)) = Len(s) - n
         /\ Back(s, n) \o t = Back(s \o t, n)
         /\ Front(s \o t, n) = Front(s, n)
<1>1. Len(s) \in Nat /\ Len(t) \in Nat /\ n \in Nat /\ n <= Len(s) /\ \A i \in 1 .. Len(s) : s[i] \in Cell
  BY LenProperties, ElementOfSeq
<1> DEFINE st == s \o t
<1>2. /\ st \in Seq(Cell) /\ Len(st) = Len(s) + Len(t)
      /\ \A i \in 1 .. Len(s) : st[i] = s[i]
      /\ \A i \in 1 .. Len(t) : st[Len(s) + i] = t[i]
      /\ \A i \in 1 .. Len(st) : st[i] \in Cell
  BY <1>1, ConcatProperties, ElementOfSeq
<1> HIDE DEF st
<1>3. /\ Front(s, n) \in Seq(Cell) /\ Len(Front(s, n)) = n
      /\ \A i \in 1 .. n : Front(s, n)[i] = s[i]
  <2>1. \A i \in 1 .. n : s[i] \in Cell
    BY <1>1
  <2> QED
    BY <1>1, <2>1, SubSeqProperties DEF Front
<1>4. /\ Front(st, n) \in Seq(Cell) /\ Len(Front(st, n)) = n
      /\ \A i \in 1 .. n : Front(st, n)[i] = st[i]
  <2>1. \A i \in 1 .. n : st[i] \in Cell
    BY <1>1, <1>2
  <2> QED
    BY <1>1, <2>1, SubSeqProperties DEF Front
<1>6. /\ Back(s, n) \in Seq(Cell) /\ Len(Back(s, n)) = Len(s) - n
      /\ \A i \in 1 .. Len(s) - n : Back(s, n)[i] = s[n + i]
  BY BackSeq
<1>7. /\ Back(st, n) \in Seq(Cell) /\ Len(Back(st, n)) = Len(st) - n
      /\ \A i \in 1 .. Len(st) - n : Back(st, n)[i] = st[n + i]
  <2>1. n \in 0 .. Len(st)
    BY <1>1, <1>2
  <2> QED
    BY <1>2, <2>1, BackSeq
<1>9. Back(s, n) \o t = Back(st, n)
  <2> DEFINE w == Back(s, n) \o t
             len == Len(s) - n
  <2>0. len \in Nat /\ Len(st) - n = len + Len(t)
    BY <1>1, <1>2
  <2>1. /\ w \in Seq(Cell) /\ Len(w) = len + Len(t)
        /\ \A i \in 1 .. len + Len(t) : w[i] = IF i <= len THEN Back(s, n)[i] ELSE t[i - len]
    <3> DEFINE b == Back(s, n)
    <3>1. b \in Seq(Cell) /\ Len(b) = len
      BY <1>6
    <3> HIDE DEF b, len
    <3>2. /\ b \o t \in Seq(Cell) /\ Len(b \o t) = Len(b) + Len(t)
          /\ \A i \in 1 .. Len(b) + Len(t) : (b \o t)[i] = IF i <= Len(b) THEN b[i] ELSE t[i - Len(b)]
      BY <3>1, ConcatProperties
    <3> QED
      BY <3>1, <3>2 DEF b
  <2> HIDE DEF w
  <2>2. ASSUME NEW i \in 1 .. len + Len(t) PROVE w[i] = Back(st, n)[i]
    <3>1. Back(st, n)[i] = st[n + i]
      BY <1>7, <2>0
    <3>2. CASE i <= len
      <4>1. i \in 1 .. Len(s) - n /\ n + i \in 1 .. Len(s)
        BY <1>1, <3>2
      <4> QED
        BY <1>2, <1>6, <2>1, <3>1, <3>2, <4>1
    <3>3. CASE ~(i <= len)
      <4>1. i - len \in 1 .. Len(t) /\ n + i = Len(s) + (i - len)
        BY <1>1, <3>3
      <4> QED
        BY <1>2, <2>1, <3>1, <3>3, <4>1
    <3> QED
      BY <3>2, <3>3
  <2> HIDE DEF len
  <2>3. w = Back(st, n)
    BY <1>7, <2>0, <2>1, <2>2, SeqEqual
  <2> QED
    BY <2>3 DEF w
<1>10. Front(st, n) = Front(s, n)
  <2>1. \A i \in 1 .. n : Front(st, n)[i] = Front(s, n)[i]
    BY <1>1, <1>2, <1>3, <1>4
  <2> QED
    BY <1>3, <1>4, <2>1, SeqEqual
<1> QED
  BY <1>3, <1>6, <1>9, <1>10 DEF st
-----------------------------------------------------------------------------
(* Types *)
Pipes == [open : BOOLEAN, up : Seq(Cell), dn : Seq(Cell)]
Process == [state : {"none", "run", "exiting", "zombie"}, conf : BOOLEAN, cca : BOOLEAN,
            rx : BOOLEAN, inbox : Seq(Cell), fatal : BOOLEAN]
Call == [op : {"none", "read", "start", "tx", "txstatus"}, exp : {None, "TX", "TXSTATUS"}, id : Nat]

Plumbing ==
  /\ pipes \in Pipes /\ Len(pipes.up) <= PipeCap /\ Len(pipes.dn) <= PipeCap
  /\ proc \in Process

Reader ==
  /\ call \in Call /\ last_expcmd \in {None, "TX", "TXSTATUS"}
  /\ buf \in Seq(Cell) /\ rsb \in Seq(Cell)
  /\ rsb # <<>> => Len(rsb) < Size(rsb[1].cmd)

Control ==
  /\ station \in {"up"} \cup Reasons
  /\ tmr \in {"off", "restart", "recheck"} /\ restartCnt \in 0 .. MAX_RESTARTS
  /\ count \in [reqs : Nat, sessions : Nat, crashes : Nat]
  /\ cca \in BOOLEAN

Types == Plumbing /\ Reader /\ Control

LEMMA TypesType == Types => TypeOK
BY DEF Types, Plumbing, Reader, Control, TypeOK, Pipes, Process, Call

(* The messages both sides send *)
LEMMA Messages ==
  /\ \A arg \in Nat : \A cmd \in Commands \cup Upward :
       Cells(cmd, arg) \in Seq(Cell) /\ Len(Cells(cmd, arg)) = Size(cmd)
  /\ \A withCca \in BOOLEAN :
       /\ ConfigCells(withCca) \in Seq(Cell)
       /\ Len(ConfigCells(withCca)) = ReadMax
       /\ \A k \in 1 .. ReadMax : ConfigCells(withCca)[k].cmd = "CONFIG"
<1>1. \A arg \in Nat : \A cmd \in Commands \cup Upward :
        Cells(cmd, arg) \in Seq(Cell) /\ Len(Cells(cmd, arg)) = Size(cmd)
  BY CellsShape
<1>2. ASSUME NEW withCca \in BOOLEAN
      PROVE  /\ ConfigCells(withCca) \in Seq(Cell)
             /\ Len(ConfigCells(withCca)) = ReadMax
             /\ \A k \in 1 .. ReadMax : ConfigCells(withCca)[k].cmd = "CONFIG"
  <2> DEFINE arg == IF withCca THEN 1 ELSE 0
  <2>1. arg \in Nat /\ "CONFIG" \in Commands \cup Upward
    BY DEF Commands
  <2>2. Size("CONFIG") = ReadMax
    BY DEF Size
  <2>3. ConfigCells(withCca) = Cells("CONFIG", arg)
    BY DEF ConfigCells
  <2> HIDE DEF arg
  <2>4. /\ Cells("CONFIG", arg) \in Seq(Cell) /\ Len(Cells("CONFIG", arg)) = Size("CONFIG")
        /\ \A k \in 1 .. Size("CONFIG") :
             Cells("CONFIG", arg)[k] = [cmd |-> "CONFIG", arg |-> arg, part |-> k]
    BY <2>1, CellsShape
  <2>5. ASSUME NEW k \in 1 .. ReadMax PROVE Cells("CONFIG", arg)[k].cmd = "CONFIG"
    <3>1. Cells("CONFIG", arg)[k] = [cmd |-> "CONFIG", arg |-> arg, part |-> k]
      BY <2>2, <2>4
    <3> QED
      BY <3>1
  <2> QED
    BY <2>2, <2>3, <2>4, <2>5
<1> QED
  BY <1>1, <1>2

(* pipe_write_data of the slave *)
LEMMA Sends ==
  ASSUME Plumbing, NEW cells \in Seq(Cell), pipes' = Send(cells)
  PROVE  /\ pipes' \in Pipes /\ Len(pipes'.up) <= PipeCap
         /\ pipes'.up = pipes.up \/ pipes'.up = pipes.up \o cells
         /\ pipes'.dn = pipes.dn
<1>1. pipes.up \in Seq(Cell) /\ pipes.up \o cells \in Seq(Cell)
      /\ Len(pipes.up \o cells) = Len(pipes.up) + Len(cells)
  BY ConcatProperties DEF Plumbing, Pipes
<1>2. CASE Room(pipes.up, cells)
  <2>1. pipes' = [pipes EXCEPT !.up = pipes.up \o cells]
    BY <1>2 DEF Send
  <2>2. Len(pipes.up \o cells) <= PipeCap
    BY <1>1, <1>2 DEF Room
  <2> QED
    BY <1>1, <2>1, <2>2 DEF Plumbing, Pipes
<1>3. CASE ~Room(pipes.up, cells)
  <2>1. pipes' = [pipes EXCEPT !.up = pipes.up]
    BY <1>3 DEF Send
  <2> QED
    BY <1>1, <2>1 DEF Plumbing, Pipes
<1> QED
  BY <1>2, <1>3

(* write_slave_pipe of the master *)
LEMMA Writes ==
  ASSUME Plumbing, NEW cells \in Seq(Cell), Written(cells)
  PROVE  /\ pipes' \in Pipes /\ Len(pipes'.dn) <= PipeCap
         /\ pipes'.up = pipes.up /\ pipes'.dn = pipes.dn \o cells
         /\ proc.state = "run"
<1>1. pipes.dn \in Seq(Cell) /\ pipes.dn \o cells \in Seq(Cell)
      /\ Len(pipes.dn \o cells) = Len(pipes.dn) + Len(cells)
  BY ConcatProperties DEF Plumbing, Pipes
<1>2. pipes' = [pipes EXCEPT !.dn = pipes.dn \o cells]
  BY DEF Written
<1> QED
  BY <1>1, <1>2 DEF Plumbing, Pipes, Written, Room

(* read(): at most ReadMax cells from the front of a pipe *)
LEMMA Reads ==
  ASSUME NEW s \in Seq(Cell), NEW n, n = Smaller(ReadMax, Len(s))
  PROVE  /\ n \in 0 .. Len(s) /\ (s # <<>> => n >= 1)
         /\ Front(s, n) \in Seq(Cell) /\ Back(s, n) \in Seq(Cell)
         /\ Len(Back(s, n)) <= Len(s)
         /\ Front(s, n) \o Back(s, n) = s
<1>1. Len(s) \in Nat /\ (s # <<>> => Len(s) >= 1)
  BY EmptySeq, LenProperties
<1>2. n \in 0 .. Len(s) /\ (s # <<>> => n >= 1)
  BY <1>1, Sizes DEF Smaller
<1>3. /\ Front(s, n) \in Seq(Cell)
      /\ Back(s, n) \in Seq(Cell) /\ Len(Back(s, n)) = Len(s) - n
  <2>1. n \in Int /\ \A i \in 1 .. n : s[i] \in Cell
    BY <1>1, <1>2, ElementOfSeq
  <2>2. SubSeq(s, 1, n) \in Seq(Cell)
    <3>1. 1 \in Int
      OBVIOUS
    <3> QED
      BY <2>1, <3>1, SubSeqProperties
  <2> QED
    BY <1>2, <2>2, BackSeq DEF Front
<1>4. Front(s, n) \o Back(s, n) = s
  <2>1. /\ 1 \in 1 .. Len(s) + 1 /\ n \in 1 - 1 .. Len(s) /\ Len(s) \in n .. Len(s)
    BY <1>1, <1>2
  <2>2. SubSeq(s, 1, n) \o SubSeq(s, n + 1, Len(s)) = SubSeq(s, 1, Len(s))
    BY <2>1, ConcatAdjacentSubSeq
  <2> QED
    BY <2>2, SubSeqFull DEF Front, Back
<1> QED
  BY <1>1, <1>2, <1>3, <1>4

LEMMA Regroup == \A r, s, t \in Seq(Cell) : (r \o s) \o t = r \o (s \o t)
BY ConcatAssociative

LEMMA SizeType ==
  ASSUME NEW c \in Cell
  PROVE  Size(c.cmd) \in Nat /\ Size(c.cmd) >= 1
<1>1. ReadMax \in Nat /\ ReadMax >= 2
  BY Sizes
<1> QED
  BY <1>1 DEF Size

(* Taking a message from the data that were read *)
LEMMA Takes ==
  ASSUME NEW s \in Seq(Cell), s # <<>>, Len(s) >= Size(s[1].cmd)
  PROVE  /\ s[1] \in Cell /\ Size(s[1].cmd) \in 1 .. Len(s)
         /\ Back(s, Size(s[1].cmd)) \in Seq(Cell)
<1> DEFINE n == Size(s[1].cmd)
<1>1. Len(s) \in Nat /\ Len(s) >= 1
  BY EmptySeq, LenProperties
<1>2. s[1] \in Cell
  BY <1>1, ElementOfSeq
<1>3. n \in Nat /\ n >= 1
  BY <1>2, SizeType
<1> HIDE DEF n
<1>4. n <= Len(s)
  BY DEF n
<1>5. n \in 0 .. Len(s)
  BY <1>1, <1>3, <1>4
<1>6. Back(s, n) \in Seq(Cell)
  BY <1>5, BackSeq
<1> QED
  BY <1>1, <1>2, <1>3, <1>4, <1>6 DEF n
(* What restart_slave may come to: "velocity" or a fatal end of the slave, *)
(* a kill, or a new process.                                               *)
LEMMA Restarts ==
  ASSUME RestartSlave, restartCnt \in 0 .. MAX_RESTARTS
  PROVE  /\ restartCnt' \in 0 .. MAX_RESTARTS
         /\ \/ station' \in {"velocity", "slave"} /\ UNCHANGED <<call, tmr, pipes, proc, bare>>
               /\ (tsync' = tsync \/ tsync' = FALSE)
            \/ Kill /\ Alive /\ tsync' = FALSE
            \/ Start /\ tsync' = FALSE
<1>1. CASE restartCnt + 1 > MAX_RESTARTS
  BY <1>1 DEF RestartSlave
<1>2. CASE ~(restartCnt + 1 > MAX_RESTARTS)
  <2>1. /\ restartCnt' = restartCnt + 1
        /\ tsync' = FALSE
        /\ CASE Alive -> Kill
             [] ~Alive /\ proc.fatal ->
                  station' = "slave" /\ UNCHANGED <<call, tmr, pipes, proc, late, overrun, bare>>
             [] OTHER -> Start
    BY <1>2 DEF RestartSlave
  <2>2. restartCnt' \in 0 .. MAX_RESTARTS
    BY <1>2, <2>1 DEF MAX_RESTARTS
  <2>3. CASE Alive
    BY <2>1, <2>2, <2>3
  <2>4. CASE ~Alive /\ proc.fatal
    BY <2>1, <2>2, <2>4
  <2>5. CASE ~Alive /\ ~proc.fatal
    BY <2>1, <2>2, <2>5
  <2> QED
    BY <2>3, <2>4, <2>5
<1> QED
  BY <1>1, <1>2

(* The request the slave serves *)
LEMMA Served ==
  ASSUME Plumbing, NEW cmds, SlaveGets(cmds)
  PROVE  /\ proc.inbox \in Seq(Cell) /\ Request \in Cell
         /\ Request = proc.inbox[1]
         /\ Size(Request.cmd) \in 1 .. Len(proc.inbox)
         /\ Back(proc.inbox, Size(Request.cmd)) \in Seq(Cell)
         /\ Next1(proc) = [proc EXCEPT !.inbox = Back(proc.inbox, Size(Request.cmd))]
         /\ Next1(proc) \in Process
<1>1. proc \in Process /\ proc.inbox \in Seq(Cell) /\ proc.inbox # <<>>
  BY DEF Plumbing, Process, SlaveGets
<1>2. Request = proc.inbox[1]
  BY DEF Request
<1>3. Len(proc.inbox) >= Size(proc.inbox[1].cmd)
  <2>1. ~(Len(proc.inbox) < Size(Request.cmd))
    BY DEF SlaveGets, Fragment
  <2>2. Len(proc.inbox) \in Nat /\ Len(proc.inbox) >= 1
    BY <1>1, EmptySeq
  <2>3. proc.inbox[1] \in Cell
    BY <1>1, <2>2, ElementOfSeq
  <2>4. Size(proc.inbox[1].cmd) \in Nat
    BY <2>3, SizeType
  <2> QED
    BY <1>2, <2>1, <2>2, <2>4
<1>4. /\ Request \in Cell /\ Size(Request.cmd) \in 1 .. Len(proc.inbox)
      /\ Back(proc.inbox, Size(Request.cmd)) \in Seq(Cell)
  BY <1>1, <1>2, <1>3, Takes
<1>5. Next1(proc) = [proc EXCEPT !.inbox = Back(proc.inbox, Size(Request.cmd))]
  BY DEF Next1, Request
<1>6. Next1(proc) \in Process
  BY <1>1, <1>4, <1>5 DEF Process
<1> QED
  BY <1>1, <1>2, <1>4, <1>5, <1>6

(* Steps of the slave: how they leave the pipes and the process *)
LEMMA SlaveTypes ==
  ASSUME Types, Slave
  PROVE  Types'
<1> USE DEF Types
<1>0. Reader' /\ station' = station /\ tmr' = tmr /\ restartCnt' = restartCnt /\ cca' = cca
  <2>1. UNCHANGED master
    BY DEF Slave, SlaveRead, SlaveConfig, SlaveTx, SlaveTxstatus, SlaveTimesync, SlaveStop,
           SlaveFragment, SlaveRx, SlaveDies, SlaveGone
  <2> QED
    BY <2>1 DEF Reader, master
<1>1. count' \in [reqs : Nat, sessions : Nat, crashes : Nat]
  BY DEF Control, Slave, SlaveRead, SlaveConfig, SlaveTx, SlaveTxstatus, SlaveTimesync, SlaveStop,
         SlaveFragment, SlaveRx, SlaveDies, SlaveGone
<1>2. Control'
  BY <1>0, <1>1 DEF Control
<1>3. ASSUME SlaveRead PROVE Plumbing'
  <2> DEFINE n == Smaller(ReadMax, Len(pipes.dn))
  <2>1. /\ proc' = [proc EXCEPT !.inbox = Front(pipes.dn, n)]
        /\ pipes' = [pipes EXCEPT !.dn = Back(pipes.dn, n)]
    BY <1>3 DEF SlaveRead
  <2>2. pipes.dn \in Seq(Cell)
    BY DEF Plumbing, Pipes
  <2>3. /\ Front(pipes.dn, n) \in Seq(Cell) /\ Back(pipes.dn, n) \in Seq(Cell)
        /\ Len(Back(pipes.dn, n)) <= Len(pipes.dn)
    BY <2>2, Reads
  <2>4. /\ Len(pipes.dn) \in Nat /\ Len(Back(pipes.dn, n)) \in Nat
        /\ Len(pipes.dn) <= PipeCap /\ PipeCap \in Nat
    BY <2>2, <2>3, LenProperties, PipeAssumption DEF Plumbing
  <2> HIDE DEF n
  <2>5. Len(Back(pipes.dn, n)) <= PipeCap
    BY <2>3, <2>4
  <2>6. /\ pipes' \in Pipes /\ pipes'.up = pipes.up
        /\ pipes'.dn = Back(pipes.dn, n) /\ Len(pipes.up) <= PipeCap
    BY <2>1, <2>3 DEF Plumbing, Pipes
  <2>7. proc' \in Process
    BY <2>1, <2>3 DEF Plumbing, Process
  <2> QED
    BY <2>5, <2>6, <2>7 DEF Plumbing
<1>4. ASSUME NEW cmds, SlaveGets(cmds)
      PROVE  proc \in Process /\ Request \in Cell /\ Next1(proc) \in Process
  BY <1>4, Served DEF Plumbing
<1>5. Cells("SYNCED", 0) \in Seq(Cell) /\ Cells("RX", 0) \in Seq(Cell)
  BY Messages DEF Upward
<1>6. ASSUME SlaveConfig PROVE Plumbing'
  <2>1. Next1(proc) \in Process /\ proc \in Process
    BY <1>4, <1>6 DEF SlaveConfig
  <2>2. CASE /\ proc' = [Next1(proc) EXCEPT !.conf = TRUE, !.cca = (Request.arg = 1), !.rx = TRUE]
             /\ pipes' = Send(Cells("SYNCED", 0))
    <3>1. proc' \in Process
      BY <2>1, <2>2 DEF Process
    <3>2. pipes' \in Pipes /\ Len(pipes'.up) <= PipeCap /\ pipes'.dn = pipes.dn
      BY <1>5, <2>2, Sends
    <3> QED
      BY <3>1, <3>2 DEF Plumbing
  <2>3. CASE /\ proc' = [proc EXCEPT !.state = "exiting", !.fatal = TRUE]
             /\ UNCHANGED pipes
    BY <2>1, <2>3 DEF Plumbing, Process
  <2> QED
    BY <1>6, <2>2, <2>3 DEF SlaveConfig
<1>7. ASSUME SlaveTx \/ SlaveTxstatus PROVE Plumbing'
  <2>1. /\ proc' = Next1(proc) /\ Next1(proc) \in Process /\ Request \in Cell
        /\ pipes' = Send(<<Request>>) \/ pipes' = pipes
    BY <1>4, <1>7 DEF SlaveTx, SlaveTxstatus
  <2>2. <<Request>> \in Seq(Cell)
    BY <2>1
  <2>3. CASE pipes' = Send(<<Request>>)
    <3>1. pipes' \in Pipes /\ Len(pipes'.up) <= PipeCap /\ pipes'.dn = pipes.dn
      BY <2>2, <2>3, Sends
    <3> QED
      BY <2>1, <3>1 DEF Plumbing
  <2>4. CASE pipes' = pipes
    BY <2>1, <2>4 DEF Plumbing
  <2> QED
    BY <2>1, <2>3, <2>4
<1>8. ASSUME SlaveTimesync PROVE Plumbing'
  <2>1. proc' = Next1(proc) /\ Next1(proc) \in Process /\ pipes' = Send(Cells("SYNCED", 0))
    BY <1>4, <1>8 DEF SlaveTimesync
  <2>2. pipes' \in Pipes /\ Len(pipes'.up) <= PipeCap /\ pipes'.dn = pipes.dn
    BY <1>5, <2>1, Sends
  <2> QED
    BY <2>1, <2>2 DEF Plumbing
<1>9. ASSUME SlaveStop PROVE Plumbing'
  <2>1. Next1(proc) \in Process /\ UNCHANGED pipes
    BY <1>4, <1>9 DEF SlaveStop
  <2>2. proc' = [Next1(proc) EXCEPT !.rx = (Request.cmd # "STOP" /\ Next1(proc).rx)]
    BY <1>9 DEF SlaveStop
  <2>3. (Request.cmd # "STOP" /\ Next1(proc).rx) \in BOOLEAN
    OBVIOUS
  <2>4. proc' \in Process
    BY <2>1, <2>2, <2>3 DEF Process
  <2> QED
    BY <2>1, <2>4 DEF Plumbing
<1>10. ASSUME SlaveRx PROVE Plumbing'
  <2>1. proc' = proc /\ pipes' = Send(Cells("RX", 0))
    BY <1>10 DEF SlaveRx
  <2>2. pipes' \in Pipes /\ Len(pipes'.up) <= PipeCap /\ pipes'.dn = pipes.dn
    BY <1>5, <2>1, Sends
  <2> QED
    BY <2>1, <2>2 DEF Plumbing
<1>11. ASSUME SlaveFragment \/ SlaveDies \/ SlaveGone PROVE Plumbing'
  <2>1. proc \in Process /\ UNCHANGED pipes
    BY <1>11 DEF Plumbing, SlaveFragment, SlaveDies, SlaveGone
  <2>2. proc' \in Process
    BY <1>11, <2>1 DEF Process, SlaveFragment, SlaveDies, SlaveGone
  <2> QED
    BY <2>1, <2>2 DEF Plumbing
<1> QED
  BY <1>0, <1>2, <1>3, <1>6, <1>7, <1>8, <1>9, <1>10, <1>11 DEF Slave
(* Steps of read_slave_pipe *)
LEMMA ReadingTypes ==
  ASSUME Types, Reading
  PROVE  Types'
<1> USE DEF Types
<1>1. /\ Data \in Seq(Cell) /\ rsb \in Seq(Cell) /\ buf \in Seq(Cell) /\ pipes.up \in Seq(Cell)
      /\ (buf # <<>> => Data # <<>>) /\ <<>> \in Seq(Cell)
  BY EmptySeq, ConcatProperties, ConcatEqualIffEmpty DEF Plumbing, Pipes, Reader, Data
<1>2. ASSUME buf # <<>>, Whole PROVE Back(Data, Size(Cmd)) \in Seq(Cell)
  <2>1. Len(Data) >= Size(Data[1].cmd) /\ Cmd = Data[1].cmd
    BY <1>2 DEF Whole, Cmd
  <2> QED
    BY <1>1, <1>2, <2>1, Takes
<1>3. call \in Call /\ last_expcmd \in {None, "TX", "TXSTATUS"}
  BY DEF Reader
<1>4. ASSUME ReadChunk PROVE Types'
  <2> DEFINE n == Smaller(ReadMax, Len(pipes.up))
  <2>1. /\ buf' = Front(pipes.up, n)
        /\ pipes' = [pipes EXCEPT !.up = Back(pipes.up, n)]
        /\ restartCnt' = 0
        /\ UNCHANGED <<station, call, rsb, last_expcmd, tmr, cca, proc, count>>
    BY <1>4 DEF ReadChunk
  <2>2. /\ Front(pipes.up, n) \in Seq(Cell) /\ Back(pipes.up, n) \in Seq(Cell)
        /\ Len(Back(pipes.up, n)) <= Len(pipes.up)
    BY <1>1, Reads
  <2>3. Len(Back(pipes.up, n)) <= PipeCap
    <3>1. /\ Len(pipes.up) \in Nat /\ Len(Back(pipes.up, n)) \in Nat
          /\ Len(pipes.up) <= PipeCap /\ PipeCap \in Nat
      BY <1>1, <2>2, LenProperties, PipeAssumption DEF Plumbing
    <3> HIDE DEF n
    <3> QED
      BY <2>2, <3>1
  <2> HIDE DEF n
  <2>4. /\ pipes' \in Pipes /\ pipes'.dn = pipes.dn
        /\ pipes'.up = Back(pipes.up, n) /\ Len(pipes.dn) <= PipeCap
    BY <2>1, <2>2 DEF Plumbing, Pipes
  <2>5. Plumbing'
    BY <2>1, <2>3, <2>4 DEF Plumbing
  <2>6. Reader'
    BY <2>1, <2>2 DEF Reader
  <2>7. Control'
    BY <2>1 DEF Control, MAX_RESTARTS
  <2> QED
    BY <2>5, <2>6, <2>7
<1>5. ASSUME Spill PROVE Types'
  <2>1. rsb' = Data /\ Len(Data) < Size(Data[1].cmd)
    <3>1. buf # <<>> /\ ~(Len(Data) >= Size(Data[1].cmd)) /\ rsb' = Data
      BY <1>5 DEF Spill, Whole, Cmd
    <3>2. Len(Data) \in Nat /\ Len(Data) >= 1
      BY <1>1, <3>1, EmptySeq
    <3>3. Data[1] \in Cell
      BY <1>1, <3>2, ElementOfSeq
    <3> QED
      BY <3>1, <3>2, <3>3, SizeType
  <2>2. Reader'
    BY <1>1, <1>5, <2>1 DEF Reader, Spill
  <2>3. Plumbing' /\ Control'
    BY <1>5 DEF Spill, Plumbing, Control
  <2> QED
    BY <2>2, <2>3
<1>6. ASSUME Answer PROVE Types'
  <2>1. call' = [call EXCEPT !.exp = None] /\ last_expcmd' = None /\ rsb' = <<>>
        /\ buf' = Back(Data, Size(Cmd))
    BY <1>6 DEF Answer, Consume
  <2>2. buf' \in Seq(Cell)
    BY <1>2, <1>6, <2>1 DEF Answer
  <2>3. call' \in Call
    BY <1>3, <2>1 DEF Call
  <2>4. Plumbing' /\ Control'
    BY <1>6 DEF Answer, Plumbing, Control
  <2> QED
    BY <1>1, <2>1, <2>2, <2>3, <2>4 DEF Reader
<1>7. ASSUME LateAnswer \/ News PROVE Types'
  <2>1. call' = call /\ last_expcmd' \in {None, last_expcmd} /\ rsb' = <<>>
        /\ buf' = Back(Data, Size(Cmd))
    BY <1>7 DEF LateAnswer, News, Consume
  <2>2. buf' \in Seq(Cell)
    BY <1>2, <1>7, <2>1 DEF LateAnswer, News
  <2>3. Plumbing' /\ Control'
    BY <1>7 DEF LateAnswer, News, Plumbing, Control
  <2> QED
    BY <1>1, <1>3, <2>1, <2>2, <2>3 DEF Reader
<1>8. ASSUME Unexpected PROVE Types'
  <2>1. /\ station' = "unexpected"
        /\ UNCHANGED <<call, buf, rsb, last_expcmd, tmr, restartCnt, cca, pipes, proc, count>>
    BY <1>8 DEF Unexpected, Fatal
  <2> QED
    BY <2>1 DEF Plumbing, Reader, Control, Reasons
<1>9. ASSUME GiveUp \/ ReadEof PROVE Types'
  <2>1. /\ call' = NoCall /\ tmr' \in {"recheck", "restart", tmr}
        /\ last_expcmd' \in {last_expcmd, call.exp}
        /\ UNCHANGED <<station, buf, rsb, restartCnt, cca, pipes, proc, count>>
    BY <1>9 DEF GiveUp, ReadEof, Return
  <2>2. NoCall \in Call /\ call.exp \in {None, "TX", "TXSTATUS"}
    BY <1>3 DEF NoCall, Call
  <2> QED
    BY <1>3, <2>1, <2>2 DEF Plumbing, Reader, Control
<1> QED
  BY <1>4, <1>5, <1>6, <1>7, <1>8, <1>9 DEF Reading
(* Steps of the master that do not read *)
LEMMA MasterTypes ==
  ASSUME Types, Master, ~Reading
  PROVE  Types'
<1> USE DEF Types
<1>1. /\ call \in Call /\ NoCall \in Call /\ Poll("read") \in Call /\ Poll("start") \in Call
      /\ cca \in BOOLEAN /\ restartCnt \in 0 .. MAX_RESTARTS /\ count.reqs + 1 \in Nat
  BY DEF Reader, Control, NoCall, Poll, Call
<1>2. ASSUME PollPipe PROVE Types'
  BY <1>1, <1>2 DEF PollPipe, Plumbing, Reader, Control
<1>3. ASSUME NEW nocca \in NoCca, Tx(nocca) PROVE Types'
  <2> DEFINE cells == Cells(IF nocca THEN "TX_NOCCA" ELSE "TX", count.reqs + 1)
  <2>1. /\ Written(cells)
        /\ count' = [count EXCEPT !.reqs = count.reqs + 1]
        /\ call' = IF cca THEN [op |-> "tx", exp |-> "TX", id |-> count.reqs + 1] ELSE NoCall
        /\ UNCHANGED <<station, buf, rsb, last_expcmd, tmr, restartCnt, cca, proc>>
    BY <1>3 DEF Tx
  <2>2. cells \in Seq(Cell)
    BY <1>1, Messages DEF Commands
  <2> HIDE DEF cells
  <2>3. pipes' \in Pipes /\ Len(pipes'.dn) <= PipeCap /\ pipes'.up = pipes.up
    BY <2>1, <2>2, Writes
  <2>4. Plumbing'
    BY <2>1, <2>3 DEF Plumbing
  <2>5. call' \in Call
    BY <1>1, <2>1 DEF Call
  <2>6. Control'
    BY <1>1, <2>1 DEF Control
  <2> QED
    BY <2>1, <2>4, <2>5, <2>6 DEF Reader
<1>4. ASSUME Txstatus PROVE Types'
  <2> DEFINE cells == Cells("TXSTATUS", count.reqs + 1)
  <2>1. /\ Written(cells)
        /\ count' = [count EXCEPT !.reqs = count.reqs + 1]
        /\ call' = [op |-> "txstatus", exp |-> "TXSTATUS", id |-> count.reqs + 1]
        /\ UNCHANGED <<station, buf, rsb, last_expcmd, tmr, restartCnt, cca, proc>>
    BY <1>4 DEF Txstatus
  <2>2. cells \in Seq(Cell)
    BY <1>1, Messages DEF Commands
  <2> HIDE DEF cells
  <2>3. pipes' \in Pipes /\ Len(pipes'.dn) <= PipeCap /\ pipes'.up = pipes.up
    BY <2>1, <2>2, Writes
  <2>4. Plumbing'
    BY <2>1, <2>3 DEF Plumbing
  <2>5. call' \in Call
    BY <1>1, <2>1 DEF Call
  <2>6. Control'
    BY <1>1, <2>1 DEF Control
  <2> QED
    BY <2>1, <2>4, <2>5, <2>6 DEF Reader
(* The requests nothing comes back for directly *)
<1>5. ASSUME NEW cells \in Seq(Cell), Written(cells) \/ UNCHANGED pipes, UNCHANGED proc
      PROVE  Plumbing'
  <2>1. CASE Written(cells)
    <3>1. pipes' \in Pipes /\ Len(pipes'.dn) <= PipeCap /\ pipes'.up = pipes.up
      BY <2>1, Writes
    <3> QED
      BY <1>5, <3>1 DEF Plumbing
  <2>2. CASE UNCHANGED pipes
    BY <1>5, <2>2 DEF Plumbing
  <2> QED
    BY <1>5, <2>1, <2>2
<1>6. /\ Cells("TXABORT", 0) \in Seq(Cell) /\ Cells("STOP", 0) \in Seq(Cell)
      /\ Cells("TIMESYNC", 0) \in Seq(Cell)
      /\ \A withCca \in BOOLEAN : ConfigCells(withCca) \in Seq(Cell)
  BY Messages DEF Commands
<1>7. ASSUME Txabort PROVE Types'
  <2>1. Plumbing'
    BY <1>5, <1>6, <1>7 DEF Txabort
  <2> QED
    BY <1>7, <2>1 DEF Txabort, master, Reader, Control
<1>8. ASSUME NEW withCca \in CcaRegions, Configure(withCca) PROVE Types'
  <2>1. withCca \in BOOLEAN /\ ConfigCells(withCca) \in Seq(Cell)
    BY <1>6, PipeAssumption
  <2>2. /\ Written(ConfigCells(withCca)) \/ UNCHANGED pipes
        /\ UNCHANGED proc
        /\ UNCHANGED <<call, buf, rsb, last_expcmd, tmr, restartCnt>>
        /\ station' \in {station, "config"} /\ cca' \in {cca, withCca}
        /\ count' = [count EXCEPT !.sessions = count.sessions + 1]
    BY <1>8 DEF Configure, RouterConfig, Fatal
  <2>3. Plumbing'
    BY <1>5, <2>1, <2>2
  <2>4. Control'
    BY <2>1, <2>2 DEF Control, Reasons
  <2> QED
    BY <2>2, <2>3, <2>4 DEF Reader
<1>12. ASSUME ConfigureFails \/ \E withCca \in CcaRegions : LeaveOut(withCca) PROVE Types'
  <2>1. /\ UNCHANGED <<station, call, buf, rsb, last_expcmd, tmr, restartCnt, pipes, proc>>
        /\ cca' \in BOOLEAN
        /\ count' = [count EXCEPT !.sessions = count.sessions + 1]
    BY <1>1, <1>12, PipeAssumption DEF ConfigureFails, LeaveOut, RouterConfig
  <2> QED
    BY <2>1 DEF Plumbing, Reader, Control
<1>9. ASSUME Stop \/ AskTimesync PROVE Types'
  <2>1. /\ \/ Written(Cells("STOP", 0)) \/ Written(Cells("TIMESYNC", 0)) \/ UNCHANGED pipes
        /\ UNCHANGED proc
        /\ UNCHANGED <<call, buf, rsb, last_expcmd, tmr, restartCnt, cca, count>>
        /\ station' \in {station, "request"}
    BY <1>9 DEF Stop, AskTimesync, Fatal
  <2>2. Plumbing'
    BY <1>5, <1>6, <2>1
  <2> QED
    BY <2>1, <2>2 DEF Reader, Control, Reasons
<1>10. ASSUME RestartSlave, UNCHANGED <<buf, rsb, last_expcmd, cca, count>> PROVE Types'
  <2>1. proc \in Process /\ Fresh \in Process /\ Closed \in Pipes /\ Opened \in Pipes
    BY EmptySeq DEF Plumbing, Process, Fresh, Closed, Opened, Pipes
  <2>2. /\ ConfigCells(cca) \in Seq(Cell) /\ Len(ConfigCells(cca)) = ReadMax
    BY <1>1, Messages
  <2>3. restartCnt' \in 0 .. MAX_RESTARTS
    BY <1>1, <1>10, Restarts
  <2>4. CASE station' \in {"velocity", "slave"} /\ UNCHANGED <<call, tmr, pipes, proc>>
    BY <1>10, <2>3, <2>4 DEF Plumbing, Reader, Control, Reasons
  <2>5. CASE Kill
    <3>1. pipes' = Closed /\ tmr' = "restart" /\ UNCHANGED <<station, call, proc>>
      BY <2>5 DEF Kill
    <3>2. Plumbing'
      BY <2>1, <3>1, PipeAssumption DEF Plumbing, Closed
    <3> QED
      BY <1>10, <2>3, <3>1, <3>2 DEF Reader, Control
  <2>6. CASE Start
    <3>1. /\ proc' = Fresh /\ call' = Poll("start") /\ tmr' = "off" /\ UNCHANGED station
          /\ pipes' = IF config THEN [Opened EXCEPT !.dn = ConfigCells(cca)] ELSE Opened
      BY <2>6 DEF Start
    <3>2. /\ pipes' \in Pipes /\ pipes'.up = <<>>
          /\ pipes'.dn = <<>> \/ pipes'.dn = ConfigCells(cca)
      BY <2>1, <2>2, <3>1 DEF Opened, Pipes
    <3>3. Plumbing'
      BY <2>1, <2>2, <3>1, <3>2, PipeAssumption DEF Plumbing
    <3> QED
      BY <1>1, <1>10, <2>3, <3>1, <3>3 DEF Reader, Control
  <2> QED
    BY <1>1, <1>10, <2>4, <2>5, <2>6, Restarts
<1>11. ASSUME Restart \/ Recheck PROVE Types'
  <2>1. CASE RestartSlave /\ UNCHANGED <<buf, rsb, last_expcmd, cca, count>>
    BY <1>10, <2>1
  <2>2. CASE Fatal("slave") /\ UNCHANGED count
    BY <2>2 DEF Fatal, Plumbing, Reader, Control, Reasons
  <2> QED
    BY <1>11, <2>1, <2>2 DEF Restart, Recheck
<1> QED
  BY <1>2, <1>3, <1>4, <1>7, <1>8, <1>9, <1>11, <1>12 DEF Master

LEMMA TypesInit == Init => Types
<1> SUFFICES ASSUME Init PROVE Types
  OBVIOUS
<1>1. <<>> \in Seq(Cell) /\ PipeCap \in Nat
  BY EmptySeq, PipeAssumption
<1>2. Plumbing
  <2>1. /\ pipes = [open |-> FALSE, up |-> <<>>, dn |-> <<>>]
        /\ proc = [[state |-> "run", conf |-> FALSE, cca |-> FALSE, rx |-> FALSE,
                    inbox |-> <<>>, fatal |-> FALSE] EXCEPT !.state = "none"]
    BY DEF Init, Closed, NoProc, Fresh
  <2>2. pipes \in Pipes /\ pipes.up = <<>> /\ pipes.dn = <<>>
    BY <1>1, <2>1 DEF Pipes
  <2>3. proc \in Process
    BY <1>1, <2>1 DEF Process
  <2> QED
    BY <1>1, <2>2, <2>3, EmptySeq DEF Plumbing
<1>3. Reader
  <2>1. call \in Call
    BY DEF Init, NoCall, Call
  <2> QED
    BY <1>1, <2>1 DEF Init, Reader
<1>4. Control
  <2>1. restartCnt \in 0 .. MAX_RESTARTS
    BY DEF Init, MAX_RESTARTS
  <2>2. count \in [reqs : Nat, sessions : Nat, crashes : Nat]
    BY DEF Init
  <2> QED
    BY <2>1, <2>2 DEF Init, Control
<1> QED
  BY <1>2, <1>3, <1>4 DEF Types

LEMMA TypesNext == Types /\ [Next]_vars => Types'
<1> SUFFICES ASSUME Types, [Next]_vars PROVE Types'
  OBVIOUS
<1>1. CASE Slave
  BY <1>1, SlaveTypes
<1>2. CASE Reading
  BY <1>2, ReadingTypes
<1>3. CASE Master /\ ~Reading
  BY <1>3, MasterTypes
<1>4. CASE UNCHANGED vars
  BY <1>4 DEF vars, master, history, Types, Plumbing, Reader, Control
<1> QED
  BY <1>1, <1>2, <1>3, <1>4 DEF Next

(* The pipes hold what they can hold, and the spill buffer never more than *)
(* the beginning of a message (the assertion of read_slave_pipe).          *)
THEOREM TypeCorrect == Spec => []TypeOK
<1>1. Init => Types
  BY TypesInit
<1>2. Types /\ [Next]_vars => Types'
  BY TypesNext
<1>3. Types => TypeOK
  BY TypesType
<1> QED
  BY <1>1, <1>2, <1>3, PTL DEF Spec
-----------------------------------------------------------------------------
(* What is on its way to the master *)
Stream == Data \o pipes.up

(* What is on its way to the slave: single cells, but for a CONFIG *)
Requested == proc.inbox \o pipes.dn
Single(s) == \A i \in 1 .. Len(s) : s[i].cmd # "CONFIG" => s[i].part = 1

Streaming ==
  /\ Framed(Stream)
  /\ ~garbled
  /\ call.op = "none" => call = NoCall /\ rsb = <<>> /\ buf = <<>>

LEMMA StreamType ==
  Types => /\ rsb \in Seq(Cell) /\ buf \in Seq(Cell) /\ Data \in Seq(Cell)
           /\ pipes.up \in Seq(Cell) /\ Stream \in Seq(Cell)
           /\ proc.inbox \in Seq(Cell) /\ pipes.dn \in Seq(Cell) /\ Requested \in Seq(Cell)
BY ConcatProperties DEF Types, Plumbing, Pipes, Process, Reader, Data, Stream, Requested

(* read_slave_pipe does not change the stream, or takes the first message. *)
LEMMA TakenMessage ==
  ASSUME Types, Streaming, buf # <<>>, Whole, Consume, UNCHANGED pipes
  PROVE  /\ Framed(Stream') /\ ~garbled'
         /\ \E n \in 0 .. Len(Stream) : Stream' = Back(Stream, n)
         /\ Stream # <<>> /\ Cmd = Stream[1].cmd /\ Arg = Stream[1].arg
         /\ Size(Cmd) \in 1 .. Len(Stream) /\ Stream' = Back(Stream, Size(Cmd))
<1> DEFINE n == Size(Cmd)
           up == pipes.up
<1>1. Data \in Seq(Cell) /\ Data # <<>> /\ up \in Seq(Cell) /\ Stream = Data \o up
  <2>1. rsb \in Seq(Cell) /\ buf \in Seq(Cell)
    BY StreamType
  <2> QED
    BY <2>1, StreamType, ConcatEqualIffEmpty DEF Data, Stream
<1>2. /\ Data[1] \in Cell /\ n \in 1 .. Len(Data) /\ Back(Data, n) \in Seq(Cell)
      /\ Cmd = Data[1].cmd /\ Arg = Data[1].arg
  BY <1>1, Takes DEF Whole, Cmd, Arg
<1>3. Len(Data) \in Nat /\ Len(up) \in Nat /\ Len(Data) >= 1 /\ n \in 0 .. Len(Data) /\ n \in Nat
  BY <1>1, <1>2, LenProperties, EmptySeq
<1>4. Stream[1] = Data[1] /\ Len(Stream) = Len(Data) + Len(up) /\ Stream \in Seq(Cell)
  BY <1>1, <1>3, ConcatProperties
<1>5. Stream # <<>>
  BY <1>3, <1>4, EmptySeq
<1>6. /\ Framed(Back(Stream, Size(Stream[1].cmd)))
      /\ Front(Stream, Size(Stream[1].cmd)) = Cells(Stream[1].cmd, Stream[1].arg)
  BY <1>4, <1>5, FirstMessage DEF Streaming
<1>7. Framed(Back(Stream, n)) /\ Front(Stream, n) = Cells(Cmd, Arg)
  BY <1>2, <1>4, <1>6
<1> HIDE DEF n
<1>8. Back(Data, n) \o up = Back(Data \o up, n) /\ Front(Data \o up, n) = Front(Data, n)
  <2>1. Data \in Seq(Cell) /\ up \in Seq(Cell) /\ n \in 0 .. Len(Data)
    BY <1>1, <1>3
  <2> QED
    BY ONLY <2>1, CutFront, ZenonT(60)
<1>9. Stream' = Back(Stream, n)
  <2>1. rsb' = <<>> /\ buf' = Back(Data, n) /\ pipes' = pipes
    BY DEF Consume, n
  <2>2. Data' = Back(Data, n)
    <3>1. Data' = <<>> \o Back(Data, n)
      BY <2>1 DEF Data
    <3> QED
      BY <1>2, <3>1, ConcatEmptySeq
  <2>3. Stream' = Back(Data, n) \o up
    BY <2>1, <2>2 DEF Stream
  <2> QED
    BY <1>1, <1>8, <2>3
<1>10. ~garbled'
  <2>1. Front(Data, n) = Cells(Cmd, Arg)
    BY <1>1, <1>7, <1>8
  <2>2. garbled' = (garbled \/ Front(Data, Size(Cmd)) # Cells(Cmd, Arg))
    BY DEF Consume
  <2> QED
    BY <2>1, <2>2 DEF Streaming, n
<1>11. n \in 0 .. Len(Stream) /\ n \in 1 .. Len(Stream)
  BY <1>2, <1>3, <1>4 DEF n
<1> QED
  BY <1>2, <1>4, <1>5, <1>7, <1>9, <1>10, <1>11 DEF n

(* When the pipe is empty nothing is left in the spill buffer: it held the *)
(* beginning of a message, the rest of which was on its way.               *)
LEMMA NothingLeft ==
  ASSUME Types, Streaming, buf = <<>>, pipes.up = <<>>
  PROVE  rsb = <<>>
<1>1. rsb \in Seq(Cell) /\ rsb \o <<>> = rsb
  BY StreamType, ConcatEmptySeq
<1>2. Stream = rsb
  BY <1>1 DEF Stream, Data
<1> SUFFICES ASSUME rsb # <<>> PROVE FALSE
  OBVIOUS
<1>3. Len(rsb) < Size(rsb[1].cmd)
  BY DEF Types, Reader
<1>4. Size(rsb[1].cmd) <= Len(rsb)
  BY <1>1, <1>2, FirstMessage DEF Streaming
<1>5. Len(rsb) \in Nat /\ Size(rsb[1].cmd) \in Nat
  <2>1. Len(rsb) \in Nat /\ Len(rsb) >= 1
    BY <1>1, EmptySeq
  <2>2. rsb[1] \in Cell
    BY <1>1, <2>1, ElementOfSeq
  <2> QED
    BY <2>1, <2>2, SizeType
<1> QED
  BY <1>3, <1>4, <1>5

LEMMA ReadingStream ==
  ASSUME Types, Streaming, Reading
  PROVE  /\ Streaming'
         /\ \E n \in 0 .. Len(Stream) : Stream' = Back(Stream, n)
         /\ tsync' => tsync \/ (Stream # <<>> /\ Stream[1].cmd = "SYNCED")
<1>1. /\ rsb \in Seq(Cell) /\ buf \in Seq(Cell) /\ Data \in Seq(Cell) /\ pipes.up \in Seq(Cell)
      /\ Stream \in Seq(Cell) /\ <<>> \in Seq(Cell)
  BY StreamType, EmptySeq
<1>2. ASSUME Stream' = Stream
      PROVE  Framed(Stream') /\ \E n \in 0 .. Len(Stream) : Stream' = Back(Stream, n)
  <2>1. Len(Stream) \in Nat /\ 0 \in 0 .. Len(Stream)
    BY <1>1, LenProperties
  <2>2. Back(Stream, 0) = Stream
    BY <1>1, SubSeqFull DEF Back
  <2> QED
    BY <1>2, <2>1, <2>2 DEF Streaming
<1>3. ASSUME ReadChunk
      PROVE  Stream' = Stream /\ ~garbled' /\ call'.op # "none" /\ tsync' = tsync
  <2> DEFINE n == Smaller(ReadMax, Len(pipes.up))
             f == Front(pipes.up, n)
             b == Back(pipes.up, n)
  <2>1. /\ buf = <<>> /\ buf' = f /\ pipes'.up = b /\ rsb' = rsb
        /\ garbled' = garbled /\ call' = call /\ call # NoCall /\ tsync' = tsync
    BY <1>3 DEF ReadChunk, history, Types, Plumbing, Pipes
  <2>2. f \in Seq(Cell) /\ b \in Seq(Cell) /\ f \o b = pipes.up
    BY <1>1, Reads
  <2> HIDE DEF f, b
  <2>3. Stream' = (rsb \o f) \o b
    BY <2>1 DEF Stream, Data
  <2>4. Stream' = rsb \o (f \o b)
    <3>1. (rsb \o f) \o b = rsb \o (f \o b)
      <4>1. rsb \in Seq(Cell) /\ f \in Seq(Cell) /\ b \in Seq(Cell)
        BY <1>1, <2>2
      <4> QED
        BY ONLY <4>1, Regroup
    <3> QED
      BY <2>3, <3>1
  <2>5. Stream = rsb \o pipes.up
    BY <1>1, <2>1, ConcatEmptySeq DEF Stream, Data
  <2> QED
    BY <2>1, <2>2, <2>4, <2>5 DEF Streaming
<1>4. ASSUME Spill
      PROVE  Stream' = Stream /\ ~garbled' /\ call'.op # "none" /\ tsync' = tsync
  <2>1. /\ rsb' = Data /\ buf' = <<>> /\ buf # <<>> /\ pipes' = pipes
        /\ garbled' = garbled /\ call' = call /\ tsync' = tsync
    BY <1>4 DEF Spill, history
  <2>2. Data \o <<>> = Data
    BY <1>1, ConcatEmptySeq
  <2>3. Stream' = Stream
    BY <2>1, <2>2 DEF Stream, Data
  <2> QED
    BY <2>1, <2>3 DEF Streaming
<1>5. ASSUME Answer \/ LateAnswer \/ News
      PROVE  /\ Framed(Stream') /\ ~garbled' /\ call'.op # "none"
             /\ \E n \in 0 .. Len(Stream) : Stream' = Back(Stream, n)
             /\ tsync' => tsync \/ (Stream # <<>> /\ Stream[1].cmd = "SYNCED")
  <2>1. /\ buf # <<>> /\ Whole /\ Consume /\ UNCHANGED pipes
        /\ call' = call \/ call' = [call EXCEPT !.exp = None]
    BY <1>5 DEF Answer, LateAnswer, News
  <2>0. tsync' => tsync \/ Cmd = "SYNCED"
    BY <1>5, Zenon DEF Answer, LateAnswer, News
  <2>2. call'.op # "none"
    <3>1. call.op # "none" /\ call \in Call
      BY <2>1 DEF Streaming, Types, Reader
    <3> QED
      BY <2>1, <3>1 DEF Call
  <2>3. /\ Framed(Stream') /\ ~garbled'
        /\ \E n \in 0 .. Len(Stream) : Stream' = Back(Stream, n)
        /\ Stream # <<>> /\ Cmd = Stream[1].cmd
    BY <2>1, TakenMessage
  <2> QED
    BY <2>0, <2>2, <2>3
<1>6. ASSUME Unexpected
      PROVE  Stream' = Stream /\ ~garbled' /\ call'.op # "none" /\ tsync' = tsync
  <2>1. /\ buf # <<>> /\ UNCHANGED <<buf, rsb, pipes, garbled, call, tsync>>
    BY <1>6 DEF Unexpected, Fatal, history
  <2> QED
    BY <2>1 DEF Streaming, Stream, Data
<1>7. ASSUME GiveUp \/ ReadEof
      PROVE  /\ Stream' = Stream /\ ~garbled' /\ tsync' = tsync
             /\ call' = NoCall /\ rsb' = <<>> /\ buf' = <<>>
  <2>1. /\ buf = <<>> /\ pipes.up = <<>> /\ call' = NoCall
        /\ UNCHANGED <<buf, rsb, pipes, garbled, tsync>>
    BY <1>7 DEF GiveUp, ReadEof, Return, history
  <2>2. rsb = <<>>
    BY <2>1, NothingLeft
  <2> QED
    BY <2>1, <2>2 DEF Streaming, Stream, Data
<1>8. CASE ReadChunk \/ Spill \/ Unexpected
  BY <1>2, <1>3, <1>4, <1>6, <1>8 DEF Streaming
<1>9. CASE Answer \/ LateAnswer \/ News
  BY <1>5, <1>9 DEF Streaming
<1>10. CASE GiveUp \/ ReadEof
  BY <1>2, <1>7, <1>10 DEF Streaming
<1> QED
  BY <1>8, <1>9, <1>10 DEF Reading
-----------------------------------------------------------------------------
(* Requests on their way: a CONFIG comes before all that needs a radio.    *)
Radio == Commands \ {"CONFIG", "STOP"}
HasConfig(s) == \E i \in 1 .. Len(s) : s[i].cmd = "CONFIG"
Prepared(s) == \A j \in 1 .. Len(s) :
                 s[j].cmd \in Radio => \E i \in 1 .. j - 1 : s[i].cmd = "CONFIG"

LEMMA JoinedRequests ==
  ASSUME NEW s \in Seq(Cell), NEW t \in Seq(Cell)
  PROVE  /\ Single(s) /\ Single(t) => Single(s \o t)
         /\ Single(s \o t) => Single(s)
         /\ HasConfig(s) \/ HasConfig(t) => HasConfig(s \o t)
         /\ Prepared(s \o t) => Prepared(s)
         /\ Prepared(s) /\ (HasConfig(s) \/ \A i \in 1 .. Len(t) : t[i].cmd \notin Radio)
            => Prepared(s \o t)
<1> DEFINE u == s \o t
<1>1. /\ Len(s) \in Nat /\ Len(t) \in Nat /\ Len(u) = Len(s) + Len(t)
      /\ \A i \in 1 .. Len(s) + Len(t) : u[i] = IF i <= Len(s) THEN s[i] ELSE t[i - Len(s)]
  BY ConcatProperties, LenProperties
<1> HIDE DEF u
<1>2. ASSUME NEW i \in 1 .. Len(s) PROVE i \in 1 .. Len(u) /\ u[i] = s[i]
  BY <1>1
<1>3. ASSUME NEW i \in 1 .. Len(t) PROVE Len(s) + i \in 1 .. Len(u) /\ u[Len(s) + i] = t[i]
  <2>1. /\ Len(s) + i \in 1 .. Len(s) + Len(t) /\ ~(Len(s) + i <= Len(s))
        /\ Len(s) + i - Len(s) = i
    BY <1>1
  <2> QED
    BY <1>1, <2>1
<1>4. ASSUME NEW i \in 1 .. Len(u)
      PROVE  \/ i \in 1 .. Len(s) /\ u[i] = s[i]
             \/ i > Len(s) /\ i - Len(s) \in 1 .. Len(t) /\ u[i] = t[i - Len(s)]
  BY <1>1
<1>5. Single(s) /\ Single(t) => Single(u)
  BY <1>4 DEF Single
<1>6. Single(u) => Single(s)
  BY <1>2 DEF Single
<1>7. HasConfig(s) \/ HasConfig(t) => HasConfig(u)
  BY <1>2, <1>3 DEF HasConfig
<1>8. ASSUME Prepared(u) PROVE Prepared(s)
  <2> SUFFICES ASSUME NEW j \in 1 .. Len(s), s[j].cmd \in Radio
               PROVE  \E i \in 1 .. j - 1 : s[i].cmd = "CONFIG"
    BY DEF Prepared
  <2>1. PICK i \in 1 .. j - 1 : u[i].cmd = "CONFIG"
    BY <1>2, <1>8 DEF Prepared
  <2>2. i \in 1 .. Len(s)
    BY <1>1
  <2> QED
    BY <1>2, <2>1, <2>2
<1>9. ASSUME Prepared(s), HasConfig(s) \/ \A i \in 1 .. Len(t) : t[i].cmd \notin Radio
      PROVE  Prepared(u)
  <2> SUFFICES ASSUME NEW j \in 1 .. Len(u), u[j].cmd \in Radio
               PROVE  \E i \in 1 .. j - 1 : u[i].cmd = "CONFIG"
    BY DEF Prepared
  <2>1. CASE j \in 1 .. Len(s)
    <3>1. PICK i \in 1 .. j - 1 : s[i].cmd = "CONFIG"
      BY <1>2, <1>9, <2>1 DEF Prepared
    <3>2. i \in 1 .. Len(s)
      BY <1>1, <2>1
    <3> QED
      BY <1>2, <3>1, <3>2
  <2>2. CASE j \notin 1 .. Len(s)
    <3>1. j > Len(s) /\ j - Len(s) \in 1 .. Len(t) /\ t[j - Len(s)].cmd \in Radio
      BY <1>4, <2>2
    <3>2. PICK i \in 1 .. Len(s) : s[i].cmd = "CONFIG"
      BY <1>9, <3>1 DEF HasConfig
    <3>3. i \in 1 .. j - 1 /\ u[i].cmd = "CONFIG"
      BY <1>1, <1>2, <3>1, <3>2
    <3> QED
      BY <3>3
  <2> QED
    BY <2>1, <2>2
<1> QED
  BY <1>5, <1>6, <1>7, <1>8, <1>9 DEF u

LEMMA ServedRequest ==
  ASSUME NEW s \in Seq(Cell), NEW n \in 0 .. Len(s)
  PROVE  /\ Single(s) => Single(Back(s, n))
         /\ n = 1 /\ s[1].cmd # "CONFIG" /\ HasConfig(s) => HasConfig(Back(s, n))
         /\ n = 1 /\ s[1].cmd # "CONFIG" /\ Prepared(s) => Prepared(Back(s, n))
<1> DEFINE b == Back(s, n)
<1>0. Len(s) \in Nat /\ n \in Nat /\ n <= Len(s)
  BY LenProperties
<1>1. /\ Len(s) \in Nat /\ n \in Nat /\ n <= Len(s) /\ Len(b) = Len(s) - n
      /\ \A i \in 1 .. Len(s) - n : b[i] = s[n + i]
  BY <1>0, BackSeq
<1> HIDE DEF b
<1>2. ASSUME NEW i \in 1 .. Len(b) PROVE n + i \in 1 .. Len(s) /\ b[i] = s[n + i]
  BY <1>1
<1>3. ASSUME NEW i \in n + 1 .. Len(s) PROVE i - n \in 1 .. Len(b) /\ b[i - n] = s[i]
  <2>1. i - n \in 1 .. Len(s) - n /\ n + (i - n) = i
    BY <1>1
  <2> QED
    BY <1>1, <2>1
<1>4. Single(s) => Single(b)
  BY <1>2 DEF Single
<1>5. ASSUME n = 1, s[1].cmd # "CONFIG", HasConfig(s) PROVE HasConfig(b)
  <2>1. PICK i \in 1 .. Len(s) : s[i].cmd = "CONFIG"
    BY <1>5 DEF HasConfig
  <2>2. i \in n + 1 .. Len(s)
    BY <1>1, <1>5, <2>1
  <2> QED
    BY <1>3, <2>1, <2>2 DEF HasConfig
<1>6. ASSUME n = 1, s[1].cmd # "CONFIG", Prepared(s) PROVE Prepared(b)
  <2> SUFFICES ASSUME NEW j \in 1 .. Len(b), b[j].cmd \in Radio
               PROVE  \E i \in 1 .. j - 1 : b[i].cmd = "CONFIG"
    BY DEF Prepared
  <2>1. PICK i \in 1 .. (n + j) - 1 : s[i].cmd = "CONFIG"
    BY <1>2, <1>6 DEF Prepared
  <2>2. i \in n + 1 .. Len(s) /\ i - n \in 1 .. j - 1
    <3>1. i # 1 /\ n + j \in 1 .. Len(s)
      BY <1>2, <1>6, <2>1
    <3> QED
      BY <1>1, <1>6, <3>1
  <2> QED
    BY <1>3, <2>1, <2>2
<1> QED
  BY <1>4, <1>5, <1>6 DEF b

(* No time sync is on its way to the master. *)
NoSynced(s) == \A i \in 1 .. Len(s) : s[i].cmd # "SYNCED"

LEMMA NoSyncedParts ==
  ASSUME NEW s \in Seq(Cell)
  PROVE  /\ \A t \in Seq(Cell) : NoSynced(s) /\ NoSynced(t) => NoSynced(s \o t)
         /\ \A n \in 0 .. Len(s) : NoSynced(s) => NoSynced(Back(s, n))
         /\ NoSynced(s) /\ s # <<>> => s[1].cmd # "SYNCED"
<1>1. ASSUME NEW t \in Seq(Cell), NoSynced(s), NoSynced(t) PROVE NoSynced(s \o t)
  <2> DEFINE u == s \o t
  <2>1. /\ Len(s) \in Nat /\ Len(t) \in Nat /\ Len(u) = Len(s) + Len(t)
        /\ \A i \in 1 .. Len(s) + Len(t) : u[i] = IF i <= Len(s) THEN s[i] ELSE t[i - Len(s)]
    BY ConcatProperties, LenProperties
  <2> HIDE DEF u
  <2>2. ASSUME NEW i \in 1 .. Len(u) PROVE u[i].cmd # "SYNCED"
    <3>1. \/ i \in 1 .. Len(s) /\ u[i] = s[i]
          \/ i - Len(s) \in 1 .. Len(t) /\ u[i] = t[i - Len(s)]
      BY <2>1
    <3> QED
      BY <1>1, <3>1 DEF NoSynced
  <2> QED
    BY <2>2 DEF NoSynced, u
<1>2. ASSUME NEW n \in 0 .. Len(s), NoSynced(s) PROVE NoSynced(Back(s, n))
  <2> DEFINE b == Back(s, n)
  <2>1. /\ Len(s) \in Nat /\ n \in Nat /\ Len(b) = Len(s) - n
        /\ \A i \in 1 .. Len(s) - n : b[i] = s[n + i]
    BY BackSeq, LenProperties
  <2> HIDE DEF b
  <2>2. ASSUME NEW i \in 1 .. Len(b) PROVE b[i].cmd # "SYNCED"
    <3>1. n + i \in 1 .. Len(s) /\ b[i] = s[n + i]
      BY <2>1
    <3> QED
      BY <1>2, <3>1 DEF NoSynced
  <2> QED
    BY <2>2 DEF NoSynced, b
<1>3. ASSUME NoSynced(s), s # <<>> PROVE s[1].cmd # "SYNCED"
  <2>1. Len(s) \in Nat /\ Len(s) >= 1
    BY <1>3, EmptySeq
  <2>2. 1 \in 1 .. Len(s)
    BY <2>1
  <2> QED
    BY <1>3, <2>2 DEF NoSynced
<1> QED
  BY <1>1, <1>2, <1>3
-----------------------------------------------------------------------------
Configuring ==
  /\ Single(Requested)
  /\ tmr = "restart" => proc.state # "run"
  /\ session /\ ~bare => config
  /\ ~proc.conf /\ ~bare =>
                   /\ ~tsync /\ NoSynced(Stream) /\ Prepared(Requested)
                   /\ proc.state = "run" /\ session => HasConfig(Requested)

IInv == Types /\ Streaming /\ Configuring

(* A message the slave sends joins the stream. *)
LEMMA SentMessage ==
  ASSUME Types, Streaming, NEW cells \in Seq(Cell), Framed(cells),
         pipes' = Send(cells), UNCHANGED <<master, history>>
  PROVE  /\ Streaming' /\ pipes'.dn = pipes.dn
         /\ NoSynced(Stream) /\ NoSynced(cells) => NoSynced(Stream')
<1>1. /\ pipes.up \in Seq(Cell) /\ Data \in Seq(Cell) /\ Stream \in Seq(Cell)
      /\ Stream = Data \o pipes.up
  BY StreamType DEF Stream
<1>2. /\ pipes'.up = pipes.up \/ pipes'.up = pipes.up \o cells
      /\ pipes'.dn = pipes.dn
  BY Sends DEF Types
<1>3. Stream' = Data \o pipes'.up /\ UNCHANGED <<call, rsb, buf, garbled>>
  BY DEF Stream, Data, master, history
<1>4. CASE pipes'.up = pipes.up
  BY <1>1, <1>2, <1>3, <1>4 DEF Streaming
<1>5. CASE pipes'.up = pipes.up \o cells
  <2>1. (Data \o pipes.up) \o cells = Data \o (pipes.up \o cells)
    <3>1. Data \in Seq(Cell) /\ pipes.up \in Seq(Cell) /\ cells \in Seq(Cell)
      BY <1>1
    <3> QED
      BY ONLY <3>1, Regroup
  <2>2. Stream' = Stream \o cells
    BY <1>1, <1>3, <1>5, <2>1
  <2>3. Framed(Stream \o cells)
    BY <1>1, JoinedFramed DEF Streaming
  <2>4. NoSynced(Stream) /\ NoSynced(cells) => NoSynced(Stream \o cells)
    BY <1>1, NoSyncedParts
  <2> QED
    BY <1>2, <1>3, <2>2, <2>3, <2>4 DEF Streaming
<1> QED
  BY <1>2, <1>4, <1>5

(* A request is served: it was the first one on its way. *)
LEMMA ServedFirst ==
  ASSUME Types, Configuring, SlaveGets(Commands \cap {Request.cmd}),
         proc'.inbox = Next1(proc).inbox, pipes'.dn = pipes.dn
  PROVE  /\ Request \in Cell /\ Single(Requested')
         /\ Requested[1] = Request /\ Size(Request.cmd) \in 1 .. Len(Requested)
         /\ Requested' = Back(Requested, Size(Request.cmd))
         /\ Request.cmd # "CONFIG" =>
              /\ Request.part = 1
              /\ ~proc.conf /\ ~bare =>
                   /\ Request.cmd \notin Radio /\ Prepared(Requested')
                   /\ HasConfig(Requested) => HasConfig(Requested')
<1> DEFINE n == Size(Request.cmd)
<1>1. /\ proc.inbox \in Seq(Cell) /\ Request \in Cell /\ Request = proc.inbox[1]
      /\ n \in 1 .. Len(proc.inbox) /\ Back(proc.inbox, n) \in Seq(Cell)
      /\ Next1(proc) = [proc EXCEPT !.inbox = Back(proc.inbox, n)]
      /\ proc \in Process
  BY Served DEF Types, Plumbing
<1>2. pipes.dn \in Seq(Cell) /\ Requested \in Seq(Cell)
  BY StreamType
<1>3. proc'.inbox = Back(proc.inbox, n)
  BY <1>1 DEF Process
<1>4. Request.cmd # "CONFIG" => n = 1
  <2>1. Request.cmd \in Commands
    BY DEF SlaveGets
  <2> QED
    BY <2>1, Sizes
<1> HIDE DEF n
<1>5. /\ Len(proc.inbox) \in Nat /\ Len(pipes.dn) \in Nat /\ n \in 1 .. Len(proc.inbox)
      /\ n \in 0 .. Len(proc.inbox) /\ 1 \in 1 .. Len(proc.inbox)
  BY <1>1, <1>2, LenProperties
<1>6. Len(Requested) = Len(proc.inbox) + Len(pipes.dn) /\ Requested[1] = Request
  <2> DEFINE p == proc.inbox
             d == pipes.dn
  <2>1. p \in Seq(Cell) /\ d \in Seq(Cell) /\ Len(p) \in Nat /\ Len(d) \in Nat /\ 1 \in 1 .. Len(p)
    BY <1>1, <1>2, <1>5
  <2> HIDE DEF p, d
  <2>2. /\ Len(p \o d) = Len(p) + Len(d)
        /\ \A i \in 1 .. Len(p) + Len(d) : (p \o d)[i] = IF i <= Len(p) THEN p[i] ELSE d[i - Len(p)]
    BY <2>1, ConcatProperties
  <2>3. 1 \in 1 .. Len(p) + Len(d) /\ 1 <= Len(p)
    BY <2>1
  <2>4. (p \o d)[1] = p[1]
    BY <2>2, <2>3
  <2> QED
    BY <1>1, <2>2, <2>4 DEF Requested, p, d
<1>7. Requested' = Back(Requested, n)
  <2>1. Back(proc.inbox, n) \o pipes.dn = Back(proc.inbox \o pipes.dn, n)
    <3>1. proc.inbox \in Seq(Cell) /\ pipes.dn \in Seq(Cell) /\ n \in 0 .. Len(proc.inbox)
      BY <1>1, <1>2, <1>5
    <3> QED
      BY ONLY <3>1, CutFront, ZenonT(60)
  <2> QED
    BY <1>3, <2>1 DEF Requested
<1>8. /\ n \in 0 .. Len(Requested) /\ 1 \in 1 .. Len(Requested)
      /\ n \in 1 .. Len(Requested)
  <2> DEFINE p == Len(proc.inbox)
             d == Len(pipes.dn)
             r == Len(Requested)
  <2>1. p \in Nat /\ d \in Nat /\ n \in 1 .. p /\ r = p + d
    BY <1>5, <1>6
  <2> HIDE DEF p, d, r
  <2>2. n \in 0 .. r /\ 1 \in 1 .. r /\ n \in 1 .. r
    BY <2>1
  <2> QED
    BY <2>2 DEF r
<1>9. Single(Requested')
  BY <1>2, <1>7, <1>8, ServedRequest DEF Configuring
<1>10. ASSUME Request.cmd # "CONFIG"
       PROVE  /\ Request.part = 1
              /\ ~proc.conf /\ ~bare =>
                   /\ Request.cmd \notin Radio /\ Prepared(Requested')
                   /\ HasConfig(Requested) => HasConfig(Requested')
  <2>1. Request.part = 1
    BY <1>6, <1>8, <1>10 DEF Configuring, Single
  <2>2. ASSUME ~proc.conf /\ ~bare PROVE Request.cmd \notin Radio
    <3>1. Prepared(Requested)
      BY <2>2 DEF Configuring
    <3>2. Requested[1].cmd \in Radio => \E i \in 1 .. 1 - 1 : Requested[i].cmd = "CONFIG"
      BY <1>8, <3>1 DEF Prepared
    <3>3. 1 .. 1 - 1 = {}
      OBVIOUS
    <3> QED
      BY <1>6, <3>2, <3>3
  <2>3. ASSUME ~proc.conf /\ ~bare
        PROVE  Prepared(Requested') /\ (HasConfig(Requested) => HasConfig(Requested'))
    BY <1>2, <1>4, <1>6, <1>7, <1>8, <1>10, <2>3, ServedRequest DEF Configuring
  <2> QED
    BY <2>1, <2>2, <2>3
<1> QED
  BY <1>1, <1>6, <1>7, <1>8, <1>9, <1>10 DEF n

LEMMA SlaveInv ==
  ASSUME IInv, Slave
  PROVE  Streaming' /\ Configuring'
<1> USE DEF IInv
<1>0. /\ UNCHANGED <<master, history>>
      /\ UNCHANGED <<call, rsb, buf, garbled, session, config, tmr, tsync, bare>>
  <2>1. UNCHANGED <<master, history>>
    BY DEF Slave, SlaveRead, SlaveConfig, SlaveTx, SlaveTxstatus, SlaveTimesync, SlaveStop,
           SlaveFragment, SlaveRx, SlaveDies, SlaveGone
  <2> QED
    BY <2>1 DEF master, history
<1>1. proc \in Process /\ pipes \in Pipes
  BY DEF Types, Plumbing
<1>2. /\ Cells("SYNCED", 0) \in Seq(Cell) /\ Framed(Cells("SYNCED", 0))
      /\ Cells("RX", 0) \in Seq(Cell) /\ Framed(Cells("RX", 0)) /\ NoSynced(Cells("RX", 0))
  <2>1. NoSynced(Cells("RX", 0))
    <3>1. /\ Len(Cells("RX", 0)) = Size("RX")
          /\ \A k \in 1 .. Size("RX") : Cells("RX", 0)[k] = [cmd |-> "RX", arg |-> 0, part |-> k]
      BY CellsShape DEF Upward
    <3>2. ASSUME NEW k \in 1 .. Size("RX") PROVE Cells("RX", 0)[k].cmd = "RX"
      <4>1. Cells("RX", 0)[k] = [cmd |-> "RX", arg |-> 0, part |-> k]
        BY <3>1
      <4> QED
        BY <4>1
    <3> QED
      BY <3>1, <3>2 DEF NoSynced
  <2> QED
    BY <2>1, Messages, CellsFramed DEF Upward
(* The requests and the stream as they were *)
<1>3. ASSUME Requested' = Requested, proc'.conf = proc.conf,
             proc'.state = "run" => proc.state = "run",
             NoSynced(Stream) => NoSynced(Stream')
      PROVE  Configuring'
  BY <1>0, <1>3 DEF Configuring
(* The same when a radio was needed or was set up *)
<1>4. ASSUME Single(Requested'), proc'.conf \/ bare, proc'.state = "run" => proc.state = "run"
      PROVE  Configuring'
  BY <1>0, <1>4 DEF Configuring
<1>5. ASSUME UNCHANGED pipes PROVE Streaming' /\ Stream' = Stream
  BY <1>0, <1>5 DEF Streaming, Stream, Data
<1>6. CASE SlaveRead
  <2> DEFINE n == Smaller(ReadMax, Len(pipes.dn))
             f == Front(pipes.dn, n)
             b == Back(pipes.dn, n)
  <2>1. /\ proc.inbox = <<>> /\ proc'.inbox = f /\ pipes'.dn = b /\ pipes'.up = pipes.up
        /\ proc'.conf = proc.conf /\ proc'.state = proc.state
    BY <1>1, <1>6 DEF SlaveRead, Process, Pipes
  <2>2. pipes.dn \in Seq(Cell) /\ f \o b = pipes.dn
    BY StreamType, Reads
  <2> HIDE DEF f, b
  <2>3. Requested' = Requested
    BY <2>1, <2>2, ConcatEmptySeq DEF Requested
  <2>4. Stream' = Stream
    BY <1>0, <2>1 DEF Stream, Data
  <2> QED
    BY <1>0, <1>3, <2>1, <2>3, <2>4 DEF Streaming
<1>7. CASE SlaveConfig
  <2>1. SlaveGets({"CONFIG"})
    BY <1>7 DEF SlaveConfig
  <2>2. SlaveGets(Commands \cap {Request.cmd}) /\ Next1(proc) \in Process
    BY <2>1, Served DEF SlaveGets, Commands, Types
  <2>3. CASE /\ proc' = [Next1(proc) EXCEPT !.conf = TRUE, !.cca = (Request.arg = 1), !.rx = TRUE]
             /\ pipes' = Send(Cells("SYNCED", 0))
    <3>1. proc'.conf /\ proc'.inbox = Next1(proc).inbox /\ proc'.state = Next1(proc).state
      BY <2>2, <2>3 DEF Process
    <3>2. Next1(proc).state = proc.state
      BY <1>1 DEF Next1, Process
    <3>3. Streaming' /\ pipes'.dn = pipes.dn
      BY <1>0, <1>2, <2>3, SentMessage
    <3>4. Single(Requested')
      BY <2>2, <3>1, <3>3, ServedFirst
    <3> QED
      BY <1>4, <3>1, <3>2, <3>3, <3>4
  <2>4. CASE proc' = [proc EXCEPT !.state = "exiting", !.fatal = TRUE] /\ UNCHANGED pipes
    <3>1. proc'.state = "exiting" /\ proc'.conf = proc.conf /\ proc'.inbox = proc.inbox
      BY <1>1, <2>4 DEF Process
    <3>2. Requested' = Requested
      BY <2>4, <3>1 DEF Requested
    <3> QED
      BY <1>3, <1>5, <2>4, <3>1, <3>2
  <2> QED
    BY <1>7, <2>3, <2>4 DEF SlaveConfig
(* The slave serves a request other than a CONFIG. *)
<1>8. ASSUME NEW cmds, SlaveGets(cmds), cmds \subseteq Commands \ {"CONFIG"},
             proc'.inbox = Next1(proc).inbox, pipes'.dn = pipes.dn
      PROVE  /\ Request \in Cell /\ Request.part = 1 /\ Request.cmd \in cmds
             /\ Single(Requested')
             /\ ~proc.conf /\ ~bare =>
                  /\ Request.cmd \notin Radio /\ Prepared(Requested')
                  /\ HasConfig(Requested) => HasConfig(Requested')
  <2>1. Request.cmd \in cmds /\ Request.cmd # "CONFIG" /\ SlaveGets(Commands \cap {Request.cmd})
    BY <1>8 DEF SlaveGets
  <2> QED
    BY <1>8, <2>1, ServedFirst
<1>9. Next1(proc).conf = proc.conf /\ Next1(proc).state = proc.state
  BY <1>1 DEF Next1, Process
<1>10. CASE SlaveTx \/ SlaveTxstatus
  <2> DEFINE cmds == {"TX", "TX_NOCCA", "TXSTATUS"}
  <2>1. /\ SlaveGets(cmds) /\ proc' = Next1(proc)
        /\ pipes' = Send(<<Request>>) \/ UNCHANGED pipes
    BY <1>10 DEF SlaveTx, SlaveTxstatus, SlaveGets
  <2>2. cmds \subseteq Commands \ {"CONFIG"} /\ cmds \subseteq Radio /\ cmds \subseteq Upward
        /\ \A c \in cmds : c \notin {"RX", "SYNCED"}
    BY DEF Commands, Radio, Upward
  <2> HIDE DEF cmds
  <2>3. Request \in Cell
    BY <2>1, Served DEF Types
  <2>4. pipes'.dn = pipes.dn
    <3>1. <<Request>> \in Seq(Cell)
      BY <2>3
    <3> QED
      BY <2>1, <3>1, Sends DEF Types
  <2>5. /\ Request.part = 1 /\ Request.cmd \in cmds /\ Single(Requested')
        /\ ~proc.conf /\ ~bare => Request.cmd \notin Radio
    BY <1>8, <2>1, <2>2, <2>4
  <2>6. <<Request>> \in Seq(Cell) /\ Framed(<<Request>>)
    BY <2>2, <2>3, <2>5, SingleFramed DEF Long
  <2>7. Streaming'
    BY <1>0, <1>5, <2>1, <2>6, SentMessage
  <2> QED
    BY <1>4, <1>9, <2>1, <2>2, <2>5, <2>7
<1>11. CASE SlaveTimesync
  <2>1. /\ SlaveGets({"TIMESYNC"}) /\ proc' = Next1(proc)
        /\ pipes' = Send(Cells("SYNCED", 0))
    BY <1>11 DEF SlaveTimesync
  <2>2. Streaming' /\ pipes'.dn = pipes.dn
    BY <1>0, <1>2, <2>1, SentMessage
  <2>3. {"TIMESYNC"} \subseteq Commands \ {"CONFIG"} /\ {"TIMESYNC"} \subseteq Radio
    BY DEF Commands, Radio
  <2>4. /\ Request.cmd \in {"TIMESYNC"} /\ Single(Requested')
        /\ ~proc.conf /\ ~bare => Request.cmd \notin Radio
    BY <1>8, <2>1, <2>2, <2>3
  <2> QED
    BY <1>4, <1>9, <2>1, <2>2, <2>3, <2>4
<1>12. CASE SlaveStop
  <2>1. /\ SlaveGets({"STOP", "TXABORT"}) /\ UNCHANGED pipes
        /\ proc' = [Next1(proc) EXCEPT !.rx = (Request.cmd # "STOP" /\ @)]
    BY <1>12 DEF SlaveStop
  <2>2. Next1(proc) \in Process
    BY <2>1, Served DEF Types
  <2>3. proc'.conf = proc.conf /\ proc'.state = proc.state /\ proc'.inbox = Next1(proc).inbox
    BY <1>9, <2>1, <2>2 DEF Process
  <2>4. {"STOP", "TXABORT"} \subseteq Commands \ {"CONFIG"}
    BY DEF Commands
  <2>5. /\ Single(Requested')
        /\ ~proc.conf /\ ~bare => Prepared(Requested') /\ (HasConfig(Requested) => HasConfig(Requested'))
    BY <1>8, <2>1, <2>3, <2>4
  <2>6. Streaming' /\ Stream' = Stream
    BY <1>5, <2>1
  <2> QED
    BY <1>0, <2>3, <2>5, <2>6 DEF Configuring
<1>13. CASE SlaveRx
  <2>1. proc' = proc /\ pipes' = Send(Cells("RX", 0))
    BY <1>13 DEF SlaveRx
  <2>2. Streaming' /\ pipes'.dn = pipes.dn /\ (NoSynced(Stream) => NoSynced(Stream'))
    BY <1>0, <1>2, <2>1, SentMessage
  <2>3. Requested' = Requested
    BY <2>1, <2>2 DEF Requested
  <2> QED
    BY <1>3, <2>1, <2>2, <2>3
<1>14. CASE SlaveFragment \/ SlaveDies \/ SlaveGone
  <2>1. /\ UNCHANGED pipes
        /\ proc'.state # "run" /\ proc'.conf = proc.conf /\ proc'.inbox = proc.inbox
    BY <1>1, <1>14 DEF SlaveFragment, SlaveDies, SlaveGone, Process
  <2>2. Requested' = Requested
    BY <2>1 DEF Requested
  <2> QED
    BY <1>3, <1>5, <2>1, <2>2
<1> QED
  BY <1>6, <1>7, <1>10, <1>11, <1>12, <1>13, <1>14 DEF Slave

LEMMA ReadingInv ==
  ASSUME IInv, Reading
  PROVE  Streaming' /\ Configuring'
<1> USE DEF IInv
<1>1. /\ Streaming'
      /\ \E n \in 0 .. Len(Stream) : Stream' = Back(Stream, n)
      /\ tsync' => tsync \/ (Stream # <<>> /\ Stream[1].cmd = "SYNCED")
  BY ReadingStream
<1>2. /\ UNCHANGED <<session, config, proc, bare>> /\ pipes'.dn = pipes.dn
      /\ tmr' = "restart" => tmr = "restart" \/ proc.state # "run"
  <2>1. pipes \in Pipes
    BY DEF Types, Plumbing
  <2> QED
    BY <2>1 DEF Reading, ReadChunk, Spill, Answer, LateAnswer, News, Unexpected, GiveUp, ReadEof,
                Fatal, Return, Pipes, history
<1>3. Requested' = Requested
  BY <1>2 DEF Requested
<1>4. Stream \in Seq(Cell)
  BY StreamType
<1>5. NoSynced(Stream) => NoSynced(Stream')
  BY <1>1, <1>4, NoSyncedParts
<1>6. NoSynced(Stream) => (tsync' => tsync)
  BY <1>1, <1>4, NoSyncedParts
<1> QED
  BY <1>1, <1>2, <1>3, <1>5, <1>6 DEF Configuring
(* write_slave_pipe puts a request behind the others. *)
LEMMA WrittenRequest ==
  ASSUME Types, Streaming, Configuring, NEW cells \in Seq(Cell), Single(cells), Written(cells),
         UNCHANGED <<proc, rsb, buf, garbled>>,
         ~proc.conf /\ ~bare =>
           HasConfig(Requested) \/ \A i \in 1 .. Len(cells) : cells[i].cmd \notin Radio
  PROVE  /\ Stream' = Stream /\ Framed(Stream') /\ ~garbled'
         /\ Single(Requested') /\ proc.state = "run"
         /\ ~proc.conf /\ ~bare => Prepared(Requested')
         /\ HasConfig(Requested) \/ HasConfig(cells) => HasConfig(Requested')
<1>1. pipes'.up = pipes.up /\ pipes'.dn = pipes.dn \o cells /\ proc.state = "run"
  BY Writes DEF Types
<1>2. /\ proc.inbox \in Seq(Cell) /\ pipes.dn \in Seq(Cell) /\ Requested \in Seq(Cell)
      /\ Requested = proc.inbox \o pipes.dn
  BY StreamType DEF Requested
<1>3. Requested' = Requested \o cells
  <2>1. (proc.inbox \o pipes.dn) \o cells = proc.inbox \o (pipes.dn \o cells)
    <3>1. proc.inbox \in Seq(Cell) /\ pipes.dn \in Seq(Cell) /\ cells \in Seq(Cell)
      BY <1>2
    <3> QED
      BY ONLY <3>1, Regroup
  <2>2. Requested' = proc.inbox \o (pipes.dn \o cells)
    BY <1>1 DEF Requested
  <2> QED
    BY <1>2, <2>1, <2>2
<1>4. /\ Single(Requested \o cells)
      /\ ~proc.conf /\ ~bare => Prepared(Requested \o cells)
      /\ HasConfig(Requested) \/ HasConfig(cells) => HasConfig(Requested \o cells)
  BY <1>2, JoinedRequests DEF Configuring
<1>5. Stream' = Stream
  BY <1>1 DEF Stream, Data
<1> QED
  BY <1>1, <1>3, <1>4, <1>5 DEF Streaming

LEMMA SingleCells ==
  ASSUME NEW cmd \in Commands \ {"CONFIG"}, NEW arg \in Nat
  PROVE  /\ Cells(cmd, arg) \in Seq(Cell) /\ Single(Cells(cmd, arg))
         /\ \A i \in 1 .. Len(Cells(cmd, arg)) : Cells(cmd, arg)[i].cmd = cmd
<1>1. Size(cmd) = 1
  BY Sizes
<1>2. /\ Cells(cmd, arg) \in Seq(Cell) /\ Len(Cells(cmd, arg)) = Size(cmd)
      /\ \A k \in 1 .. Size(cmd) : Cells(cmd, arg)[k] = [cmd |-> cmd, arg |-> arg, part |-> k]
  BY CellsShape
<1>3. ASSUME NEW i \in 1 .. Len(Cells(cmd, arg))
      PROVE  Cells(cmd, arg)[i].cmd = cmd /\ Cells(cmd, arg)[i].part = 1
  <2>1. i = 1 /\ Cells(cmd, arg)[i] = [cmd |-> cmd, arg |-> arg, part |-> i]
    BY <1>1, <1>2
  <2> QED
    BY <2>1
<1> QED
  BY <1>2, <1>3 DEF Single

LEMMA ConfigRequest ==
  ASSUME NEW withCca \in BOOLEAN
  PROVE  LET cells == ConfigCells(withCca) IN
         /\ cells \in Seq(Cell) /\ Single(cells) /\ HasConfig(cells) /\ Prepared(cells)
         /\ \A i \in 1 .. Len(cells) : cells[i].cmd \notin Radio
<1> DEFINE cells == ConfigCells(withCca)
<1>1. cells \in Seq(Cell) /\ Len(cells) = ReadMax /\ \A k \in 1 .. ReadMax : cells[k].cmd = "CONFIG"
  BY Messages
<1>2. ReadMax \in Nat /\ ReadMax >= 2 /\ 1 \in 1 .. ReadMax
  BY Sizes
<1> HIDE DEF cells
<1>3. \A i \in 1 .. Len(cells) : cells[i].cmd = "CONFIG" /\ cells[i].cmd \notin Radio
  BY <1>1 DEF Radio
<1>4. HasConfig(cells)
  BY <1>1, <1>2 DEF HasConfig
<1> QED
  BY <1>1, <1>3, <1>4 DEF Single, Prepared, cells

LEMMA MasterInv ==
  ASSUME IInv, Master, ~Reading
  PROVE  Streaming' /\ Configuring'
<1> USE DEF IInv
<1>1. /\ proc \in Process /\ pipes \in Pipes /\ call \in Call /\ cca \in BOOLEAN
      /\ count.reqs + 1 \in Nat
  BY DEF Types, Plumbing, Reader, Control
<1>2. Idle => rsb = <<>> /\ buf = <<>>
  BY DEF Idle, NoCall, Streaming
(* Nothing on its way changes. *)
<1>3. ASSUME UNCHANGED <<proc, pipes, rsb, buf, garbled, config, tmr, bare>>,
             session' => session, tsync' => tsync,
             UNCHANGED call \/ call'.op # "none"
      PROVE  Streaming' /\ Configuring'
  <2>1. Stream' = Stream /\ Requested' = Requested
    BY <1>3 DEF Stream, Data, Requested
  <2>2. Streaming'
    BY <1>3, <2>1 DEF Streaming
  <2>3. Configuring'
    BY <1>3, <2>1 DEF Configuring
  <2> QED
    BY <2>2, <2>3
(* A request is written. *)
<1>4. ASSUME NEW cmd \in Commands \ {"CONFIG"}, NEW arg \in Nat,
             Idle, Written(Cells(cmd, arg)),
             UNCHANGED <<proc, rsb, buf, garbled, config, tmr, bare>>,
             session' => session, tsync' => tsync, call'.op # "none" \/ call' = NoCall,
             session \/ proc.conf \/ bare \/ cmd = "STOP"
      PROVE  Streaming' /\ Configuring'
  <2> DEFINE cells == Cells(cmd, arg)
  <2>1. /\ cells \in Seq(Cell) /\ Single(cells)
        /\ cmd = "STOP" => \A i \in 1 .. Len(cells) : cells[i].cmd \notin Radio
    BY SingleCells DEF Radio
  <2>2. Written(cells)
    BY <1>4
  <2> HIDE DEF cells
  <2>3. proc.state = "run"
    BY <2>2 DEF Written
  <2>4. ~proc.conf /\ ~bare =>
          HasConfig(Requested) \/ \A i \in 1 .. Len(cells) : cells[i].cmd \notin Radio
    BY <1>4, <2>1, <2>3 DEF Configuring
  <2>5. /\ Stream' = Stream /\ Framed(Stream') /\ ~garbled'
        /\ Single(Requested')
        /\ ~proc.conf /\ ~bare => Prepared(Requested')
        /\ HasConfig(Requested) \/ HasConfig(cells) => HasConfig(Requested')
    BY <1>4, <2>1, <2>2, <2>4, WrittenRequest
  <2>6. Streaming'
    BY <1>2, <1>4, <2>5 DEF Streaming
  <2>7. Configuring'
    BY <1>4, <2>5 DEF Configuring
  <2> QED
    BY <2>6, <2>7
<1>5. CASE PollPipe
  <2>1. /\ UNCHANGED <<proc, pipes, rsb, buf, garbled, config, tmr, session, tsync, bare>>
        /\ call' = Poll("read")
    BY <1>5 DEF PollPipe, history
  <2>2. call'.op # "none"
    BY <2>1 DEF Poll, NoCall
  <2> QED
    BY <1>3, <2>1, <2>2
<1>6. ASSUME NEW nocca \in NoCca, Tx(nocca) PROVE Streaming' /\ Configuring'
  <2> DEFINE cmd == IF nocca THEN "TX_NOCCA" ELSE "TX"
  <2>1. /\ Idle /\ session /\ Written(Cells(cmd, count.reqs + 1))
        /\ UNCHANGED <<proc, rsb, buf, garbled, config, tmr, session, tsync, bare>>
        /\ call'.op # "none" \/ call' = NoCall
    BY <1>6 DEF Tx
  <2>2. cmd \in Commands \ {"CONFIG"}
    BY DEF Commands
  <2> HIDE DEF cmd
  <2> QED
    BY <1>1, <1>4, <2>1, <2>2
<1>7. CASE Txstatus
  <2>1. /\ Idle /\ session /\ Written(Cells("TXSTATUS", count.reqs + 1))
        /\ UNCHANGED <<proc, rsb, buf, garbled, config, tmr, session, tsync, bare>>
        /\ call'.op # "none"
    BY <1>7 DEF Txstatus
  <2> QED
    BY <1>1, <1>4, <2>1 DEF Commands
<1>8. CASE Txabort
  <2>1. /\ Idle /\ session /\ Written(Cells("TXABORT", 0))
        /\ UNCHANGED <<proc, rsb, buf, garbled, config, tmr, session, tsync, bare>>
        /\ call' = NoCall
    BY <1>8 DEF Txabort, master, history, Idle
  <2> QED
    BY <1>4, <2>1 DEF Commands
<1>9. ASSUME NEW withCca \in CcaRegions, Configure(withCca) PROVE Streaming' /\ Configuring'
  <2> DEFINE cells == ConfigCells(withCca)
  <2>1. withCca \in BOOLEAN
    BY PipeAssumption
  <2>2. CASE Writable(cells)
    <3>1. /\ Idle /\ Written(cells) /\ config' = TRUE /\ session' = TRUE
          /\ UNCHANGED <<call, proc, rsb, buf, garbled, tmr, tsync, bare>>
      BY <1>9, <2>2 DEF Configure, RouterConfig, history
    <3>2. /\ cells \in Seq(Cell) /\ Single(cells) /\ HasConfig(cells)
          /\ \A i \in 1 .. Len(cells) : cells[i].cmd \notin Radio
      BY <2>1, ConfigRequest
    <3> HIDE DEF cells
    <3>3. /\ Stream' = Stream /\ Framed(Stream') /\ ~garbled'
          /\ Single(Requested') /\ HasConfig(Requested')
          /\ ~proc.conf /\ ~bare => Prepared(Requested')
      BY <3>1, <3>2, WrittenRequest
    <3>4. Streaming'
      BY <3>1, <3>3 DEF Streaming
    <3>5. Configuring'
      BY <3>1, <3>3 DEF Configuring
    <3> QED
      BY <3>4, <3>5
  <2>3. CASE ~Writable(cells)
    BY <1>3, <1>9, <2>3 DEF Configure, RouterConfig, Fatal, history
  <2> QED
    BY <2>2, <2>3
<1>10. CASE Stop
  <2>1. /\ Idle /\ session' = FALSE /\ tsync' = FALSE
        /\ UNCHANGED <<call, proc, rsb, buf, garbled, config, tmr, bare>>
        /\ Written(Cells("STOP", 0)) \/ UNCHANGED pipes
    BY <1>10 DEF Stop, history
  <2>2. CASE Written(Cells("STOP", 0))
    BY <1>4, <2>1, <2>2 DEF Commands, Idle
  <2>3. CASE UNCHANGED pipes
    BY <1>3, <2>1, <2>3
  <2> QED
    BY <2>1, <2>2, <2>3
<1>11. CASE AskTimesync
  <2>1. Idle /\ (proc.conf \/ bare)
    BY <1>11 DEF AskTimesync, Configuring
  <2>2. CASE Writable(Cells("TIMESYNC", 0))
    <3>1. /\ Written(Cells("TIMESYNC", 0)) /\ tsync' = FALSE
          /\ UNCHANGED <<call, proc, rsb, buf, garbled, config, tmr, session, bare>>
      BY <1>11, <2>2 DEF AskTimesync, history
    <3> QED
      BY <1>4, <2>1, <3>1 DEF Commands, Idle
  <2>3. CASE ~Writable(Cells("TIMESYNC", 0))
    BY <1>3, <1>11, <2>3 DEF AskTimesync, Fatal, history
  <2> QED
    BY <2>2, <2>3
<1>15. ASSUME ConfigureFails \/ \E withCca \in CcaRegions : LeaveOut(withCca)
       PROVE  Streaming' /\ Configuring'
  <2>1. /\ UNCHANGED <<call, proc, pipes, rsb, buf, garbled, tmr, tsync>>
        /\ bare' \/ (~bare /\ config' /\ session' = session)
    BY <1>15 DEF ConfigureFails, LeaveOut
  <2>2. Stream' = Stream /\ Requested' = Requested
    BY <2>1 DEF Stream, Data, Requested
  <2> QED
    BY <2>1, <2>2 DEF Streaming, Configuring
<1>12. ASSUME Idle, RestartSlave, tmr = "restart" \/ ~Alive,
              UNCHANGED <<buf, rsb, config, cca, session, garbled>>
       PROVE  Streaming' /\ Configuring'
  <2>1. rsb = <<>> /\ buf = <<>> /\ proc.state # "run"
    BY <1>2, <1>12 DEF Alive, Configuring
  <2>2. CASE /\ UNCHANGED <<call, tmr, pipes, proc, bare>>
             /\ tsync' = tsync \/ tsync' = FALSE
    BY <1>3, <1>12, <2>2
  <2>3. Data' = <<>>
    <3>1. <<>> \o <<>> = <<>>
      BY EmptySeq, ConcatEmptySeq
    <3> QED
      BY <1>12, <2>1, <3>1 DEF Data
  <2>4. ASSUME pipes'.up = <<>>
        PROVE  Stream' = <<>> /\ Framed(Stream') /\ NoSynced(Stream')
    <3>1. <<>> \o <<>> = <<>> /\ Len(<<>>) = 0
      BY EmptySeq, ConcatEmptySeq
    <3>2. Stream' = <<>>
      BY <2>3, <2>4, <3>1 DEF Stream
    <3> QED
      BY <3>1, <3>2 DEF Framed, NoSynced
  <2>5. CASE Kill /\ tsync' = FALSE
    <3>1. /\ pipes' = Closed /\ proc' = proc /\ call' = call /\ bare' = bare
      BY <2>5 DEF Kill
    <3>2. pipes'.up = <<>> /\ pipes'.dn = <<>>
      BY <3>1 DEF Closed
    <3>3. Requested' = proc.inbox
      BY <3>1, <3>2, StreamType, ConcatEmptySeq DEF Requested
    <3>4. /\ Single(Requested) => Single(proc.inbox)
          /\ Prepared(Requested) => Prepared(proc.inbox)
      BY StreamType, JoinedRequests DEF Requested
    <3>5. Streaming'
      BY <1>12, <2>1, <2>4, <3>1, <3>2 DEF Streaming
    <3>6. Configuring'
      BY <1>12, <2>1, <2>4, <2>5, <3>1, <3>2, <3>3, <3>4 DEF Configuring
    <3> QED
      BY <3>5, <3>6
  <2>6. CASE Start /\ tsync' = FALSE
    <3>1. /\ proc' = Fresh /\ call' = Poll("start") /\ tmr' = "off" /\ bare' = (bare /\ ~config)
          /\ pipes' = IF config THEN [Opened EXCEPT !.dn = ConfigCells(cca)] ELSE Opened
      BY <2>6 DEF Start
    <3>2. /\ pipes'.up = <<>> /\ proc'.inbox = <<>> /\ call'.op # "none"
          /\ pipes'.dn = IF config THEN ConfigCells(cca) ELSE <<>>
      BY <3>1 DEF Opened, Fresh, Poll, NoCall
    <3>3. /\ Single(Requested') /\ Prepared(Requested')
          /\ config => HasConfig(Requested')
      <4>1. CASE config
        <5>1. /\ ConfigCells(cca) \in Seq(Cell) /\ Single(ConfigCells(cca))
              /\ HasConfig(ConfigCells(cca)) /\ Prepared(ConfigCells(cca))
          BY <1>1, ConfigRequest
        <5>2. Requested' = ConfigCells(cca)
          BY <3>2, <4>1, <5>1, ConcatEmptySeq DEF Requested
        <5> QED
          BY <5>1, <5>2
      <4>2. CASE ~config
        <5>1. <<>> \o <<>> = <<>> /\ Len(<<>>) = 0
          BY EmptySeq, ConcatEmptySeq
        <5>2. Requested' = <<>>
          BY <3>2, <4>2, <5>1 DEF Requested
        <5> QED
          BY <4>2, <5>1, <5>2 DEF Single, Prepared
      <4> QED
        BY <4>1, <4>2
    <3>4. Streaming'
      BY <1>12, <2>4, <3>2 DEF Streaming
    <3>5. Configuring'
      BY <1>12, <2>4, <2>6, <3>1, <3>2, <3>3 DEF Configuring
    <3> QED
      BY <3>4, <3>5
  <2>7. restartCnt \in 0 .. MAX_RESTARTS
    BY DEF Types, Control
  <2> QED
    BY <1>12, <2>2, <2>5, <2>6, <2>7, Restarts
<1>13. CASE Restart
  BY <1>12, <1>13 DEF Restart
<1>14. CASE Recheck
  <2>1. CASE RestartSlave /\ UNCHANGED <<buf, rsb, config, cca, session, garbled>>
    BY <1>12, <1>14, <2>1 DEF Recheck
  <2>2. CASE Fatal("slave")
    BY <1>3, <2>2 DEF Fatal, history
  <2> QED
    BY <1>14, <2>1, <2>2 DEF Recheck
<1> QED
  BY <1>5, <1>6, <1>7, <1>8, <1>9, <1>10, <1>11, <1>13, <1>14, <1>15 DEF Master

LEMMA Initially == Init => IInv
<1> SUFFICES ASSUME Init PROVE IInv
  OBVIOUS
<1>1. Types
  BY TypesInit
<1>2. <<>> \o <<>> = <<>> /\ Len(<<>>) = 0
  BY EmptySeq, ConcatEmptySeq
<1>3. /\ rsb = <<>> /\ buf = <<>> /\ pipes.up = <<>> /\ pipes.dn = <<>> /\ proc.inbox = <<>>
      /\ proc.state = "none"
  BY DEF Init, Closed, NoProc, Fresh
<1>4. Stream = <<>> /\ Requested = <<>>
  BY <1>2, <1>3 DEF Stream, Data, Requested
<1>5. Streaming
  BY <1>2, <1>3, <1>4 DEF Init, Streaming, Framed
<1>6. Configuring
  BY <1>2, <1>3, <1>4 DEF Init, Configuring, Single, Prepared, NoSynced
<1> QED
  BY <1>1, <1>5, <1>6 DEF IInv

LEMMA Inductive == IInv /\ [Next]_vars => IInv'
<1> SUFFICES ASSUME IInv, [Next]_vars PROVE IInv'
  OBVIOUS
<1>1. Types'
  BY TypesNext DEF IInv
<1>2. CASE Slave
  BY <1>1, <1>2, SlaveInv DEF IInv
<1>3. CASE Reading
  BY <1>1, <1>3, ReadingInv DEF IInv
<1>4. CASE Master /\ ~Reading
  BY <1>1, <1>4, MasterInv DEF IInv
<1>5. CASE UNCHANGED vars
  <2>1. UNCHANGED <<call, buf, rsb, pipes, proc, garbled, session, config, tmr, tsync, bare>>
    BY <1>5 DEF vars, master, history
  <2>2. Stream' = Stream /\ Requested' = Requested
    BY <2>1 DEF Stream, Data, Requested
  <2> QED
    BY <1>1, <2>1, <2>2 DEF IInv, Streaming, Configuring
<1> QED
  BY <1>2, <1>3, <1>4, <1>5 DEF Next

(* However read() cuts the stream, the master takes every message as a     *)
(* whole, and a procedure that is through with reading leaves nothing      *)
(* behind that the next one, or the next process, would be appended to.    *)
THEOREM MessagesWhole == Spec => []FramedRight
<1>1. IInv => FramedRight
  BY DEF IInv, Streaming, FramedRight, Idle, NoCall
<1> QED
  BY <1>1, Initially, Inductive, PTL DEF Spec

(* Whenever the slave is about to serve a request that needs the radio, it *)
(* has been set up: through connections that end and begin, slaves that    *)
(* die, and time syncs asked for by a timer of the session before; unless  *)
(* a ral_config failed or left the slave out, and no process was started   *)
(* with a configuration since.                                             *)
THEOREM RadioSetUp == Spec => []ConfiguredFirst
<1>1. IInv => ConfiguredFirst
  <2> SUFFICES ASSUME IInv, proc.inbox # <<>>, ~proc.conf, ~bare,
                      Head(proc.inbox).cmd \in Commands \ {"CONFIG", "STOP"}
               PROVE  FALSE
    BY DEF ConfiguredFirst
  <2>1. proc.inbox \in Seq(Cell) /\ pipes.dn \in Seq(Cell)
    BY StreamType DEF IInv
  <2>2. Prepared(proc.inbox)
    BY <2>1, JoinedRequests DEF IInv, Configuring, Requested
  <2>3. Len(proc.inbox) \in Nat /\ Len(proc.inbox) >= 1 /\ proc.inbox[1].cmd \in Radio
    BY <2>1, EmptySeq DEF Radio
  <2>4. 1 \in 1 .. Len(proc.inbox)
    BY <2>3
  <2>5. \E i \in 1 .. 1 - 1 : proc.inbox[i].cmd = "CONFIG"
    BY <2>2, <2>3, <2>4 DEF Prepared
  <2>6. 1 .. 1 - 1 = {}
    OBVIOUS
  <2> QED
    BY <2>5, <2>6
<1> QED
  BY <1>1, Initially, Inductive, PTL DEF Spec
-----------------------------------------------------------------------------
(* Requests with an answer, and their answers, carry the number of the     *)
(* request: it grows along a stream, and from the stream to the requests.  *)
Sync(c) == c.cmd \in {"TX", "TXSTATUS"}
Numbered(s, n) ==
  \A i \in 1 .. Len(s) :
    /\ s[i].cmd # "TX_NOCCA"
    /\ Sync(s[i]) => s[i].arg <= n
    /\ \A j \in 1 .. i - 1 : Sync(s[j]) /\ Sync(s[i]) => s[j].arg < s[i].arg
Before(s, t) ==
  \A i \in 1 .. Len(s) : \A j \in 1 .. Len(t) : Sync(s[i]) /\ Sync(t[j]) => s[i].arg < t[j].arg

(* A CONFIG is in one piece. *)
Blocks(q) ==
  \A i \in 1 .. Len(q) : q[i].cmd = "CONFIG" =>
    \A k \in 1 .. ReadMax : /\ i - q[i].part + k \in 1 .. Len(q)
                            /\ q[i - q[i].part + k] = [q[i] EXCEPT !.part = k]

(* Will the slave, which senses the channel now if c, do so when it serves *)
(* the i-th request? What it is asked for there comes back if it does.     *)
Unset(q, a, b) == \A k \in a .. b : q[k].cmd # "CONFIG"
Sensed(q, c, i) ==
  \/ c /\ Unset(q, 1, i - 1)
  \/ \E j \in 1 .. i - 1 : q[j].cmd = "CONFIG" /\ q[j].arg = 1 /\ Unset(q, j + 1, i - 1)
Asks(q, c, i) == q[i].cmd = "TXSTATUS" \/ (q[i].cmd = "TX" /\ Sensed(q, c, i))

LEMMA Joins ==
  ASSUME NEW s \in Seq(Cell), NEW t \in Seq(Cell)
  PROVE  /\ Len(s) \in Nat /\ Len(t) \in Nat /\ Len(s \o t) = Len(s) + Len(t)
         /\ \A i \in 1 .. Len(s) : i \in 1 .. Len(s \o t) /\ (s \o t)[i] = s[i]
         /\ \A i \in 1 .. Len(t) : Len(s) + i \in 1 .. Len(s \o t) /\ (s \o t)[Len(s) + i] = t[i]
         /\ \A i \in 1 .. Len(s \o t) :
              i \in 1 .. Len(s) \/ (i - Len(s) \in 1 .. Len(t) /\ i = Len(s) + (i - Len(s)))
<1> DEFINE u == s \o t
<1>1. /\ Len(s) \in Nat /\ Len(t) \in Nat /\ Len(u) = Len(s) + Len(t)
      /\ \A i \in 1 .. Len(s) : u[i] = s[i]
      /\ \A i \in 1 .. Len(t) : u[Len(s) + i] = t[i]
  BY ConcatProperties, LenProperties
<1> HIDE DEF u
<1>2. ASSUME NEW i \in 1 .. Len(s) PROVE i \in 1 .. Len(u) /\ u[i] = s[i]
  BY <1>1
<1>3. ASSUME NEW i \in 1 .. Len(t) PROVE Len(s) + i \in 1 .. Len(u) /\ u[Len(s) + i] = t[i]
  BY <1>1
<1>4. ASSUME NEW i \in 1 .. Len(u)
      PROVE  i \in 1 .. Len(s) \/ (i - Len(s) \in 1 .. Len(t) /\ i = Len(s) + (i - Len(s)))
  BY <1>1
<1> QED
  BY <1>1, <1>2, <1>3, <1>4 DEF u

LEMMA NumberedBack ==
  ASSUME NEW s \in Seq(Cell), NEW n \in 0 .. Len(s), NEW m \in Nat, Numbered(s, m)
  PROVE  Numbered(Back(s, n), m)
<1> DEFINE b == Back(s, n)
<1>0. Len(s) \in Nat /\ n \in Nat
  BY LenProperties
<1>1. /\ Len(s) \in Nat /\ n \in Nat /\ Len(b) = Len(s) - n
      /\ \A i \in 1 .. Len(s) - n : b[i] = s[n + i]
  BY <1>0, BackSeq
<1> HIDE DEF b
<1>2. ASSUME NEW i \in 1 .. Len(b) PROVE n + i \in 1 .. Len(s) /\ b[i] = s[n + i] /\ i \in Nat
  BY <1>1
<1>3. ASSUME NEW i \in 1 .. Len(b), NEW j \in 1 .. i - 1, Sync(b[j]), Sync(b[i])
      PROVE  b[j].arg < b[i].arg
  <2>1. j \in 1 .. Len(b) /\ n + j \in 1 .. (n + i) - 1
    BY <1>1
  <2>2. b[i] = s[n + i] /\ b[j] = s[n + j] /\ n + i \in 1 .. Len(s)
    BY <1>2, <2>1
  <2> QED
    BY <1>3, <2>1, <2>2 DEF Numbered
<1>4. ASSUME NEW i \in 1 .. Len(b) PROVE b[i].cmd # "TX_NOCCA" /\ (Sync(b[i]) => b[i].arg <= m)
  BY <1>2 DEF Numbered
<1> QED
  BY <1>3, <1>4 DEF Numbered, b

LEMMA BeforeBack ==
  ASSUME NEW s \in Seq(Cell), NEW t \in Seq(Cell), Before(s, t)
  PROVE  /\ \A n \in 0 .. Len(s) : Before(Back(s, n), t)
         /\ \A n \in 0 .. Len(t) : Before(s, Back(t, n))
<1>1. ASSUME NEW n \in 0 .. Len(s) PROVE Before(Back(s, n), t)
  <2> DEFINE b == Back(s, n)
  <2>0. Len(s) \in Nat /\ n \in Nat
    BY LenProperties
  <2>1. /\ Len(s) \in Nat /\ n \in Nat /\ Len(b) = Len(s) - n
        /\ \A i \in 1 .. Len(s) - n : b[i] = s[n + i]
    BY <2>0, BackSeq
  <2> HIDE DEF b
  <2>2. ASSUME NEW i \in 1 .. Len(b) PROVE n + i \in 1 .. Len(s) /\ b[i] = s[n + i]
    BY <2>1
  <2> QED
    BY <2>2 DEF Before, b
<1>2. ASSUME NEW n \in 0 .. Len(t) PROVE Before(s, Back(t, n))
  <2> DEFINE b == Back(t, n)
  <2>0. Len(t) \in Nat /\ n \in Nat
    BY LenProperties
  <2>1. /\ Len(t) \in Nat /\ n \in Nat /\ Len(b) = Len(t) - n
        /\ \A i \in 1 .. Len(t) - n : b[i] = t[n + i]
    BY <2>0, BackSeq
  <2> HIDE DEF b
  <2>2. ASSUME NEW i \in 1 .. Len(b) PROVE n + i \in 1 .. Len(t) /\ b[i] = t[n + i]
    BY <2>1
  <2> QED
    BY <2>2 DEF Before, b
<1> QED
  BY <1>1, <1>2

LEMMA NumberedJoin ==
  ASSUME NEW s \in Seq(Cell), NEW t \in Seq(Cell), NEW m \in Nat,
         Numbered(s, m), Numbered(t, m), Before(s, t)
  PROVE  Numbered(s \o t, m)
<1> DEFINE u == s \o t
<1>1. /\ Len(s) \in Nat /\ Len(t) \in Nat /\ Len(u) = Len(s) + Len(t)
      /\ \A i \in 1 .. Len(s) : u[i] = s[i]
      /\ \A i \in 1 .. Len(t) : u[Len(s) + i] = t[i]
      /\ \A i \in 1 .. Len(u) :
           i \in 1 .. Len(s) \/ (i - Len(s) \in 1 .. Len(t) /\ i = Len(s) + (i - Len(s)))
  BY Joins
<1> HIDE DEF u
<1>2. ASSUME NEW i \in 1 .. Len(u)
      PROVE  u[i].cmd # "TX_NOCCA" /\ (Sync(u[i]) => u[i].arg <= m)
  <2>1. CASE i \in 1 .. Len(s)
    BY <1>1, <2>1 DEF Numbered
  <2>2. CASE i - Len(s) \in 1 .. Len(t) /\ i = Len(s) + (i - Len(s))
    <3>1. u[i] = t[i - Len(s)]
      BY <1>1, <2>2
    <3> QED
      BY <2>2, <3>1 DEF Numbered
  <2> QED
    BY <1>1, <2>1, <2>2
<1>3. ASSUME NEW i \in 1 .. Len(u), NEW j \in 1 .. i - 1, Sync(u[j]), Sync(u[i])
      PROVE  u[j].arg < u[i].arg
  <2>0. j \in 1 .. Len(u) /\ j < i
    BY <1>1
  <2>1. CASE i \in 1 .. Len(s)
    <3>1. j \in 1 .. Len(s) /\ u[j] = s[j] /\ u[i] = s[i]
      BY <1>1, <2>1
    <3> QED
      BY <1>3, <2>1, <3>1 DEF Numbered
  <2>2. CASE i - Len(s) \in 1 .. Len(t) /\ i = Len(s) + (i - Len(s)) /\ j \in 1 .. Len(s)
    <3>1. u[i] = t[i - Len(s)] /\ u[j] = s[j]
      BY <1>1, <2>2
    <3> QED
      BY <1>3, <2>2, <3>1 DEF Before
  <2>3. CASE /\ i - Len(s) \in 1 .. Len(t) /\ i = Len(s) + (i - Len(s))
             /\ j - Len(s) \in 1 .. Len(t) /\ j = Len(s) + (j - Len(s))
    <3>1. u[i] = t[i - Len(s)] /\ u[j] = t[j - Len(s)]
      BY <1>1, <2>3
    <3>2. j - Len(s) \in 1 .. (i - Len(s)) - 1
      BY <1>1, <2>0, <2>3
    <3> QED
      BY <1>3, <2>3, <3>1, <3>2 DEF Numbered
  <2> QED
    BY <1>1, <2>0, <2>1, <2>2, <2>3
<1> QED
  BY <1>2, <1>3 DEF Numbered, u

LEMMA BeforeJoin ==
  ASSUME NEW s \in Seq(Cell), NEW t \in Seq(Cell), NEW r \in Seq(Cell)
  PROVE  /\ Before(s, r) /\ Before(t, r) => Before(s \o t, r)
         /\ Before(r, s) /\ Before(r, t) => Before(r, s \o t)
<1> DEFINE u == s \o t
<1>1. /\ Len(s) \in Nat /\ Len(t) \in Nat /\ Len(u) = Len(s) + Len(t)
      /\ \A i \in 1 .. Len(s) : u[i] = s[i]
      /\ \A i \in 1 .. Len(t) : u[Len(s) + i] = t[i]
      /\ \A i \in 1 .. Len(u) :
           i \in 1 .. Len(s) \/ (i - Len(s) \in 1 .. Len(t) /\ i = Len(s) + (i - Len(s)))
  BY Joins
<1> HIDE DEF u
<1>2. ASSUME NEW i \in 1 .. Len(u)
      PROVE  (\E k \in 1 .. Len(s) : u[i] = s[k]) \/ (\E k \in 1 .. Len(t) : u[i] = t[k])
  <2>1. CASE i \in 1 .. Len(s)
    BY <1>1, <2>1
  <2>2. CASE i - Len(s) \in 1 .. Len(t) /\ i = Len(s) + (i - Len(s))
    BY <1>1, <2>2
  <2> QED
    BY <1>1, <2>1, <2>2
<1>3. Before(s, r) /\ Before(t, r) => Before(u, r)
  BY <1>2 DEF Before
<1>4. Before(r, s) /\ Before(r, t) => Before(r, u)
  BY <1>2 DEF Before
<1> QED
  BY <1>3, <1>4 DEF u

LEMMA BlocksJoin ==
  ASSUME NEW s \in Seq(Cell), NEW t \in Seq(Cell), Blocks(s), Blocks(t)
  PROVE  Blocks(s \o t)
<1> DEFINE u == s \o t
<1>1. /\ Len(s) \in Nat /\ Len(t) \in Nat /\ Len(u) = Len(s) + Len(t)
      /\ \A i \in 1 .. Len(s) : i \in 1 .. Len(u) /\ u[i] = s[i]
      /\ \A i \in 1 .. Len(t) : Len(s) + i \in 1 .. Len(u) /\ u[Len(s) + i] = t[i]
      /\ \A i \in 1 .. Len(u) :
           i \in 1 .. Len(s) \/ (i - Len(s) \in 1 .. Len(t) /\ i = Len(s) + (i - Len(s)))
  BY Joins
<1>2. (\A i \in 1 .. Len(s) : s[i] \in Cell) /\ (\A i \in 1 .. Len(t) : t[i] \in Cell)
  BY ElementOfSeq
<1>3. ReadMax \in Nat
  BY Sizes
<1> HIDE DEF u
<1> SUFFICES ASSUME NEW i \in 1 .. Len(u), u[i].cmd = "CONFIG", NEW k \in 1 .. ReadMax
             PROVE  /\ i - u[i].part + k \in 1 .. Len(u)
                    /\ u[i - u[i].part + k] = [u[i] EXCEPT !.part = k]
  BY DEF Blocks, u
<1>4. CASE i \in 1 .. Len(s)
  <2>1. u[i] = s[i]
    BY <1>1, <1>4
  <2>2. /\ i - s[i].part + k \in 1 .. Len(s)
        /\ s[i - s[i].part + k] = [s[i] EXCEPT !.part = k]
    BY <1>4, <2>1 DEF Blocks
  <2> QED
    BY <1>1, <2>1, <2>2
<1>5. CASE i - Len(s) \in 1 .. Len(t) /\ i = Len(s) + (i - Len(s))
  <2> DEFINE h == i - Len(s)
  <2>1. h \in 1 .. Len(t) /\ u[i] = t[h] /\ i = Len(s) + h
    BY <1>1, <1>5
  <2> HIDE DEF h
  <2>2. /\ h - t[h].part + k \in 1 .. Len(t)
        /\ t[h - t[h].part + k] = [t[h] EXCEPT !.part = k]
    BY <2>1 DEF Blocks
  <2>3. t[h].part \in Nat
    BY <1>2, <1>3, <2>1, SMTT(30) DEF Cell
  <2>4. i - t[h].part + k = Len(s) + (h - t[h].part + k)
    BY <1>1, <1>3, <2>1, <2>3, SMTT(30)
  <2> QED
    BY <1>1, <2>1, <2>2, <2>4
<1> QED
  BY <1>1, <1>4, <1>5

(* The slave serves the first request: a CONFIG as a whole, or one cell. *)
LEMMA ServedBlock ==
  ASSUME NEW q \in Seq(Cell), Blocks(q), NEW n \in 1 .. Len(q),
         n = (IF q[1].cmd = "CONFIG" THEN ReadMax ELSE 1)
  PROVE  /\ Blocks(Back(q, n))
         /\ q[1].cmd = "CONFIG" => \A k \in 1 .. n : q[k].cmd = "CONFIG" /\ q[k].arg = q[1].arg
<1> DEFINE b == Back(q, n)
<1>0. Len(q) \in Nat /\ n \in Nat /\ n \in 0 .. Len(q) /\ 1 \in 1 .. Len(q)
  BY LenProperties
<1>1. Len(b) = Len(q) - n /\ \A i \in 1 .. Len(q) - n : b[i] = q[n + i]
  <2>1. q \in Seq(Cell) /\ n \in 0 .. Len(q)
    BY <1>0
  <2> QED
    BY ONLY <2>1, BackSeq
<1>2. ReadMax \in Nat /\ \A i \in 1 .. Len(q) : q[i] \in Cell
  BY Sizes, ElementOfSeq
<1> HIDE DEF b
<1>3. \A i \in 1 .. Len(q) : q[i].part \in 1 .. ReadMax
  BY <1>2 DEF Cell
<1>4. ASSUME q[1].cmd = "CONFIG", NEW k \in 1 .. n PROVE q[k] = [q[1] EXCEPT !.part = k]
  <2>1. n = ReadMax
    BY <1>4
  <2>2. 1 \in 1 .. ReadMax
    BY <1>0, <1>2, <2>1
  <2>3. 1 - q[1].part + 1 \in 1 .. Len(q)
    BY <1>0, <1>4, <2>2 DEF Blocks
  <2>4. q[1].part = 1
    <3>1. q[1].part \in Nat /\ q[1].part >= 1
      BY <1>0, <1>2, <1>3
    <3> QED
      BY <2>3, <3>1
  <2>5. q[1 - q[1].part + k] = [q[1] EXCEPT !.part = k]
    BY <1>0, <1>4, <2>1 DEF Blocks
  <2>6. 1 - 1 + k = k
    BY <1>0
  <2> QED
    BY <2>4, <2>5, <2>6
<1>5. ASSUME q[1].cmd = "CONFIG", NEW k \in 1 .. n
      PROVE  q[k].cmd = "CONFIG" /\ q[k].arg = q[1].arg /\ q[k].part = k
  <2>1. q[1] \in Cell /\ q[k] = [q[1] EXCEPT !.part = k]
    BY <1>0, <1>2, <1>4, <1>5
  <2> QED
    BY <1>5, <2>1 DEF Cell
(* The beginning of another CONFIG is not among what is served. *)
<1>6. ASSUME NEW j \in n + 1 .. Len(q), q[j].cmd = "CONFIG"
      PROVE  j - q[j].part >= n
  <2> DEFINE p == q[j].part
             f == j - p + 1
  <2>0. j \in 1 .. Len(q)
    BY <1>0
  <2>1. p \in 1 .. ReadMax /\ q[j] \in Cell
    BY <1>2, <1>3, <2>0
  <2>1a. 1 \in 1 .. ReadMax
    BY <1>2, <2>1
  <2>2. f \in 1 .. Len(q) /\ q[f] = [q[j] EXCEPT !.part = 1]
    BY <1>6, <2>0, <2>1a DEF Blocks
  <2>3. q[f].cmd = "CONFIG" /\ q[f].part = 1
    BY <1>6, <2>1, <2>2 DEF Cell
  <2> SUFFICES ASSUME ~(j - p >= n) PROVE FALSE
    OBVIOUS
  <2>4. f \in 1 .. n
    <3>1. j - p < n /\ f \in Nat /\ f >= 1 /\ p \in Nat /\ j \in Nat
      BY <1>0, <1>2, <2>0, <2>1, <2>2
    <3> QED
      BY <1>0, <3>1
  <2>5. CASE q[1].cmd = "CONFIG"
    <3>1. q[f].part = f
      BY <1>5, <2>4, <2>5
    <3>2. f = 1 /\ n = ReadMax
      BY <2>3, <2>5, <3>1
    <3>3. j = p /\ p <= ReadMax /\ p \in Nat
      BY <1>0, <1>2, <2>0, <2>1, <3>2
    <3> QED
      BY <1>0, <3>2, <3>3
  <2>6. CASE q[1].cmd # "CONFIG"
    <3>1. n = 1
      BY <2>6
    <3> HIDE DEF f
    <3>2. f = 1
      BY <2>4, <3>1
    <3> QED
      BY <2>3, <2>6, <3>2
  <2> QED
    BY <2>5, <2>6
<1>7. Blocks(b)
  <2> SUFFICES ASSUME NEW i \in 1 .. Len(b), b[i].cmd = "CONFIG", NEW k \in 1 .. ReadMax
               PROVE  /\ i - b[i].part + k \in 1 .. Len(b)
                      /\ b[i - b[i].part + k] = [b[i] EXCEPT !.part = k]
    BY DEF Blocks
  <2> DEFINE j == n + i
  <2>1. j \in n + 1 .. Len(q) /\ j \in 1 .. Len(q) /\ b[i] = q[j] /\ i = j - n
    BY <1>0, <1>1
  <2> HIDE DEF j
  <2>2. /\ j - q[j].part + k \in 1 .. Len(q)
        /\ q[j - q[j].part + k] = [q[j] EXCEPT !.part = k]
    BY <2>1 DEF Blocks
  <2>3. j - q[j].part >= n
    BY <1>6, <2>1
  <2>4. q[j].part \in Nat
    BY <1>2, <1>3, <2>1
  <2> DEFINE h == i - q[j].part + k
  <2>5. h \in 1 .. Len(q) - n /\ n + h = j - q[j].part + k
    <3> DEFINE p == q[j].part
               l == Len(q)
    <3>1. /\ p \in Nat /\ l \in Nat /\ n \in Nat /\ j \in Nat /\ k \in Nat /\ k >= 1
          /\ j - p + k <= l /\ j - p >= n /\ i = j - n
      BY <1>0, <1>2, <2>1, <2>2, <2>3, <2>4, SMTT(30)
    <3>2. h = i - p + k
      OBVIOUS
    <3> HIDE DEF p, l, h
    <3>3. h \in 1 .. l - n /\ n + h = j - p + k
      BY <3>1, <3>2
    <3> QED
      BY <3>3 DEF p, l
  <2> HIDE DEF h
  <2>6. b[h] = q[n + h] /\ h \in 1 .. Len(b)
    BY <1>1, <2>5
  <2> QED
    BY <2>1, <2>2, <2>5, <2>6 DEF h
<1> QED
  BY <1>5, <1>7 DEF b

LEMMA SensedServed ==
  ASSUME NEW q \in Seq(Cell), Blocks(q), NEW n \in 1 .. Len(q),
         n = (IF q[1].cmd = "CONFIG" THEN ReadMax ELSE 1),
         NEW c \in BOOLEAN, NEW d \in BOOLEAN,
         d = (IF q[1].cmd = "CONFIG" THEN q[1].arg = 1 ELSE c),
         NEW i \in 1 .. Len(q) - n + 1, Sensed(Back(q, n), d, i)
  PROVE  Sensed(q, c, n + i)
<1> DEFINE b == Back(q, n)
<1>0. Len(q) \in Nat /\ n \in Nat /\ n \in 0 .. Len(q) /\ n >= 1 /\ i \in Nat /\ i >= 1
  BY LenProperties
<1>1. Len(b) = Len(q) - n /\ \A k \in 1 .. Len(q) - n : b[k] = q[n + k]
  <2>1. q \in Seq(Cell) /\ n \in 0 .. Len(q)
    BY <1>0
  <2> QED
    BY ONLY <2>1, BackSeq
<1>2. q[1].cmd = "CONFIG" => \A k \in 1 .. n : q[k].cmd = "CONFIG" /\ q[k].arg = q[1].arg
  BY ServedBlock
<1> HIDE DEF b
<1>3. ASSUME NEW j \in Nat, Unset(b, j + 1, i - 1) PROVE Unset(q, n + j + 1, (n + i) - 1)
  <2> SUFFICES ASSUME NEW k \in n + j + 1 .. (n + i) - 1 PROVE q[k].cmd # "CONFIG"
    BY DEF Unset
  <2>1. k - n \in j + 1 .. i - 1 /\ k - n \in 1 .. Len(q) - n /\ n + (k - n) = k
    BY <1>0
  <2> QED
    BY <1>1, <1>3, <2>1 DEF Unset
<1>4. CASE \E j \in 1 .. i - 1 : b[j].cmd = "CONFIG" /\ b[j].arg = 1 /\ Unset(b, j + 1, i - 1)
  <2>1. PICK j \in 1 .. i - 1 : b[j].cmd = "CONFIG" /\ b[j].arg = 1 /\ Unset(b, j + 1, i - 1)
    BY <1>4
  <2>2. n + j \in 1 .. (n + i) - 1 /\ j \in 1 .. Len(q) - n /\ j \in Nat
    BY <1>0
  <2>3. q[n + j] = b[j] /\ Unset(q, (n + j) + 1, (n + i) - 1)
    BY <1>1, <1>3, <2>1, <2>2
  <2> QED
    BY <2>1, <2>2, <2>3 DEF Sensed
<1>5. CASE d /\ Unset(b, 1, i - 1)
  <2>1. Unset(q, n + 1, (n + i) - 1)
    <3>1. 0 + 1 = 1 /\ n + 0 + 1 = n + 1 /\ 0 \in Nat
      BY <1>0
    <3>2. Unset(b, 0 + 1, i - 1)
      BY <1>5, <3>1
    <3>3. Unset(q, n + 0 + 1, (n + i) - 1)
      BY <1>3, <3>1, <3>2
    <3> QED
      BY <3>1, <3>3
  <2>2. CASE q[1].cmd = "CONFIG"
    <3>1. n \in 1 .. n /\ n \in 1 .. (n + i) - 1
      BY <1>0
    <3>2. q[n].cmd = "CONFIG" /\ q[n].arg = 1
      BY <1>2, <1>5, <2>2, <3>1
    <3> QED
      BY <2>1, <3>1, <3>2 DEF Sensed
  <2>3. CASE q[1].cmd # "CONFIG"
    <3>1. n = 1 /\ c
      BY <1>5, <2>3
    <3>2. ASSUME NEW k \in 1 .. (n + i) - 1 PROVE q[k].cmd # "CONFIG"
      <4>1. k = 1 \/ k \in n + 1 .. (n + i) - 1
        BY <1>0, <3>1
      <4> QED
        BY <2>1, <2>3, <4>1 DEF Unset
    <3> QED
      BY <3>1, <3>2 DEF Sensed, Unset
  <2> QED
    BY <2>2, <2>3
<1> QED
  BY <1>4, <1>5 DEF Sensed, b

LEMMA SensedJoin ==
  ASSUME NEW q \in Seq(Cell), NEW t \in Seq(Cell), NEW c \in BOOLEAN
  PROVE  /\ \A i \in 1 .. Len(q) + 1 : Sensed(q \o t, c, i) => Sensed(q, c, i)
         /\ \A i \in 1 .. Len(q) + 1 : Sensed(q, c, i) => Sensed(q \o t, c, i)
         /\ t # <<>> /\ t[Len(t)].cmd = "CONFIG" /\ Sensed(q \o t, c, Len(q \o t) + 1)
              => t[Len(t)].arg = 1
         /\ Len(t) = 1 /\ t[1].cmd # "CONFIG" /\ Sensed(q \o t, c, Len(q \o t) + 1)
              => Sensed(q, c, Len(q) + 1)
<1> DEFINE u == q \o t
<1>1. /\ Len(q) \in Nat /\ Len(t) \in Nat /\ Len(u) = Len(q) + Len(t)
      /\ \A i \in 1 .. Len(q) : i \in 1 .. Len(u) /\ u[i] = q[i]
      /\ \A i \in 1 .. Len(t) : Len(q) + i \in 1 .. Len(u) /\ u[Len(q) + i] = t[i]
  BY Joins
<1> HIDE DEF u
<1>2. ASSUME NEW i \in 1 .. Len(q) + 1 PROVE Sensed(u, c, i) <=> Sensed(q, c, i)
  <2>1. ASSUME NEW k \in Nat PROVE Unset(u, k + 1, i - 1) <=> Unset(q, k + 1, i - 1)
    <3>1. \A h \in k + 1 .. i - 1 : u[h] = q[h]
      <4>1. \A h \in k + 1 .. i - 1 : h \in 1 .. Len(q)
        BY <1>1
      <4> QED
        BY <1>1, <4>1
    <3> QED
      BY <3>1 DEF Unset
  <2>2. Unset(u, 1, i - 1) <=> Unset(q, 1, i - 1)
    <3>1. 0 \in Nat /\ 0 + 1 = 1
      OBVIOUS
    <3>2. Unset(u, 0 + 1, i - 1) <=> Unset(q, 0 + 1, i - 1)
      BY <2>1, <3>1
    <3> QED
      BY <3>1, <3>2
  <2>3. \A j \in 1 .. i - 1 : u[j] = q[j] /\ j \in Nat
    <3>1. \A j \in 1 .. i - 1 : j \in 1 .. Len(q) /\ j \in Nat
      BY <1>1
    <3> QED
      BY <1>1, <3>1
  <2>4. ASSUME NEW j \in 1 .. i - 1
        PROVE  u[j] = q[j] /\ (Unset(u, j + 1, i - 1) <=> Unset(q, j + 1, i - 1))
    BY <2>1, <2>3
  <2> QED
    BY <2>2, <2>4 DEF Sensed
<1>3. ASSUME t # <<>>, t[Len(t)].cmd = "CONFIG", Sensed(u, c, Len(u) + 1)
      PROVE  t[Len(t)].arg = 1
  <2>1. Len(t) >= 1 /\ Len(t) \in 1 .. Len(t)
    BY <1>1, <1>3, EmptySeq
  <2>2. u[Len(u)] = t[Len(t)] /\ Len(u) \in 1 .. (Len(u) + 1) - 1
    BY <1>1, <2>1
  <2>3. ~Unset(u, 1, (Len(u) + 1) - 1)
    BY <1>3, <2>2 DEF Unset
  <2>4. PICK j \in 1 .. (Len(u) + 1) - 1 :
           u[j].cmd = "CONFIG" /\ u[j].arg = 1 /\ Unset(u, j + 1, (Len(u) + 1) - 1)
    BY <1>3, <2>3 DEF Sensed
  <2>5. j = Len(u)
    <3> SUFFICES ASSUME j # Len(u) PROVE FALSE
      OBVIOUS
    <3>1. Len(u) \in j + 1 .. (Len(u) + 1) - 1
      BY <1>1
    <3> QED
      BY <1>3, <2>2, <2>4, <3>1 DEF Unset
  <2> QED
    BY <2>2, <2>4, <2>5
<1>4. ASSUME Len(t) = 1, t[1].cmd # "CONFIG", Sensed(u, c, Len(u) + 1)
      PROVE  Sensed(q, c, Len(q) + 1)
  <2>1. Len(u) = Len(q) + 1 /\ u[Len(u)] = t[1] /\ 1 \in 1 .. Len(t) /\ Len(u) \in Nat
    BY <1>1, <1>4
  <2>2. ASSUME NEW j \in Nat, Unset(u, j + 1, (Len(u) + 1) - 1) PROVE Unset(u, j + 1, Len(u) - 1)
    <3>1. \A h \in j + 1 .. Len(u) - 1 : h \in j + 1 .. (Len(u) + 1) - 1
      BY <2>1
    <3> QED
      BY <2>2, <3>1 DEF Unset
  <2>3. Sensed(u, c, Len(u))
    <3>1. CASE c /\ Unset(u, 1, (Len(u) + 1) - 1)
      <4>1. \A h \in 1 .. Len(u) - 1 : h \in 1 .. (Len(u) + 1) - 1
        BY <2>1
      <4>2. Unset(u, 1, Len(u) - 1)
        BY <3>1, <4>1 DEF Unset
      <4> QED
        BY <3>1, <4>2 DEF Sensed
    <3>2. CASE \E j \in 1 .. (Len(u) + 1) - 1 :
                 u[j].cmd = "CONFIG" /\ u[j].arg = 1 /\ Unset(u, j + 1, (Len(u) + 1) - 1)
      <4>1. PICK j \in 1 .. (Len(u) + 1) - 1 :
               u[j].cmd = "CONFIG" /\ u[j].arg = 1 /\ Unset(u, j + 1, (Len(u) + 1) - 1)
        BY <3>2
      <4>2. j # Len(u)
        BY <1>4, <2>1, <4>1
      <4>3. j \in 1 .. Len(u) - 1 /\ j \in Nat
        BY <2>1, <4>2
      <4> QED
        BY <2>2, <4>1, <4>3 DEF Sensed
    <3> QED
      BY <1>4, <3>1, <3>2 DEF Sensed
  <2>4. Len(q) + 1 \in 1 .. Len(q) + 1
    BY <1>1
  <2> QED
    BY <1>2, <2>1, <2>3, <2>4
<1> QED
  BY <1>2, <1>3, <1>4 DEF u
-----------------------------------------------------------------------------
(* The messages that are not answers *)
Quiet(t) == \A i \in 1 .. Len(t) : t[i].cmd \notin {"TX", "TX_NOCCA", "TXSTATUS"}

LEMMA QuietFits ==
  ASSUME NEW t \in Seq(Cell), Quiet(t), NEW s \in Seq(Cell), NEW m \in Nat
  PROVE  Numbered(t, m) /\ Before(t, s) /\ Before(s, t)
<1>1. \A i \in 1 .. Len(t) : ~Sync(t[i]) /\ t[i].cmd # "TX_NOCCA"
  BY DEF Quiet, Sync
<1>2. \A i \in 1 .. Len(t) : \A j \in 1 .. i - 1 : Sync(t[j]) /\ Sync(t[i]) => t[j].arg < t[i].arg
  BY <1>1
<1> QED
  BY <1>1, <1>2 DEF Numbered, Before

LEMMA QuietCells ==
  /\ <<>> \in Seq(Cell) /\ Quiet(<<>>)
  /\ \A cmd \in (Commands \cup Upward) \ {"TX", "TX_NOCCA", "TXSTATUS"} : \A arg \in Nat :
       Cells(cmd, arg) \in Seq(Cell) /\ Quiet(Cells(cmd, arg))
<1>1. <<>> \in Seq(Cell) /\ Quiet(<<>>)
  BY EmptySeq DEF Quiet
<1>2. ASSUME NEW cmd \in (Commands \cup Upward) \ {"TX", "TX_NOCCA", "TXSTATUS"}, NEW arg \in Nat
      PROVE  Cells(cmd, arg) \in Seq(Cell) /\ Quiet(Cells(cmd, arg))
  <2>1. /\ Cells(cmd, arg) \in Seq(Cell) /\ Len(Cells(cmd, arg)) = Size(cmd)
        /\ \A k \in 1 .. Size(cmd) : Cells(cmd, arg)[k] = [cmd |-> cmd, arg |-> arg, part |-> k]
    BY CellsShape
  <2>2. ASSUME NEW k \in 1 .. Len(Cells(cmd, arg))
        PROVE  Cells(cmd, arg)[k].cmd \notin {"TX", "TX_NOCCA", "TXSTATUS"}
    <3>1. Cells(cmd, arg)[k] = [cmd |-> cmd, arg |-> arg, part |-> k]
      BY <2>1
    <3> QED
      BY <3>1
  <2> QED
    BY <2>1, <2>2 DEF Quiet
<1> QED
  BY <1>1, <1>2

LEMMA SentStream ==
  ASSUME Types, NEW cells \in Seq(Cell), pipes' = Send(cells), UNCHANGED <<rsb, buf>>
  PROVE  /\ Stream' = Stream \o cells \/ Stream' = Stream \o <<>>
         /\ pipes'.dn = pipes.dn
<1>1. /\ pipes.up \in Seq(Cell) /\ Data \in Seq(Cell) /\ Stream \in Seq(Cell)
      /\ Stream = Data \o pipes.up
  BY StreamType DEF Stream
<1>2. /\ pipes'.up = pipes.up \/ pipes'.up = pipes.up \o cells
      /\ pipes'.dn = pipes.dn
  BY Sends DEF Types
<1>3. Stream' = Data \o pipes'.up
  BY DEF Stream, Data
<1>4. CASE pipes'.up = pipes.up
  <2>1. Stream \o <<>> = Stream
    BY <1>1, ConcatEmptySeq
  <2> QED
    BY <1>1, <1>2, <1>3, <1>4, <2>1
<1>5. CASE pipes'.up = pipes.up \o cells
  <2>1. (Data \o pipes.up) \o cells = Data \o (pipes.up \o cells)
    <3>1. Data \in Seq(Cell) /\ pipes.up \in Seq(Cell) /\ cells \in Seq(Cell)
      BY <1>1
    <3> QED
      BY ONLY <3>1, Regroup
  <2> QED
    BY <1>1, <1>2, <1>3, <1>5, <2>1
<1> QED
  BY <1>2, <1>4, <1>5

(* What a step of the slave does to what is on its way: it ends, it sends  *)
(* or reads, or it serves the first request.                               *)
Ends == proc'.state # "run" /\ Stream' = Stream

Passes ==
  /\ Requested' = Requested /\ proc'.cca = proc.cca /\ proc'.state = "run"
  /\ \E cells \in Seq(Cell) : Quiet(cells) /\ Stream' = Stream \o cells

Serves ==
  LET n == Size(Request.cmd) IN
  /\ proc'.state = "run"
  /\ Request \in Cell /\ Requested[1] = Request
  /\ n \in 1 .. Len(Requested) /\ n = (IF Requested[1].cmd = "CONFIG" THEN ReadMax ELSE 1)
  /\ Requested' = Back(Requested, n)
  /\ proc'.cca = (IF Requested[1].cmd = "CONFIG" THEN Requested[1].arg = 1 ELSE proc.cca)
  /\ \E cells \in Seq(Cell) :
       /\ Stream' = Stream \o cells
       /\ \/ Quiet(cells)
          \/ /\ cells = <<Request>>
             /\ Request.cmd = "TXSTATUS" \/ (Request.cmd \in {"TX", "TX_NOCCA"} /\ proc.cca)

LEMMA SlaveFlow ==
  ASSUME IInv, Slave
  PROVE  /\ UNCHANGED <<station, call, last_expcmd, config, cca, late, overrun, wrong>>
         /\ count'.reqs = count.reqs
         /\ proc.state = "run" \/ Ends
         /\ Ends \/ Passes \/ Serves
<1> USE DEF IInv
<1>0. UNCHANGED <<station, call, last_expcmd, config, cca, late, overrun, wrong, rsb, buf>>
  <2>1. UNCHANGED <<master, history>>
    BY DEF Slave, SlaveRead, SlaveConfig, SlaveTx, SlaveTxstatus, SlaveTimesync, SlaveStop,
           SlaveFragment, SlaveRx, SlaveDies, SlaveGone
  <2> QED
    BY <2>1 DEF master, history
<1>1. count'.reqs = count.reqs
  <2>1. count \in [reqs : Nat, sessions : Nat, crashes : Nat]
    BY DEF Types, Control
  <2>2. count' = count \/ count' = [count EXCEPT !.crashes = @ + 1]
    BY DEF Slave, SlaveRead, SlaveConfig, SlaveTx, SlaveTxstatus, SlaveTimesync, SlaveStop,
           SlaveFragment, SlaveRx, SlaveDies, SlaveGone
  <2> QED
    BY <2>1, <2>2
<1>2. /\ proc \in Process /\ pipes \in Pipes /\ Stream \in Seq(Cell)
      /\ Stream \o <<>> = Stream
  BY StreamType, ConcatEmptySeq DEF Types, Plumbing
<1>3. /\ <<>> \in Seq(Cell) /\ Quiet(<<>>)
      /\ Cells("SYNCED", 0) \in Seq(Cell) /\ Quiet(Cells("SYNCED", 0))
      /\ Cells("RX", 0) \in Seq(Cell) /\ Quiet(Cells("RX", 0))
  BY QuietCells DEF Upward
<1>4. UNCHANGED pipes => Stream' = Stream /\ Stream' = Stream \o <<>>
  BY <1>0, <1>2 DEF Stream, Data
<1>5. CASE SlaveRead
  <2> DEFINE n == Smaller(ReadMax, Len(pipes.dn))
             f == Front(pipes.dn, n)
             b == Back(pipes.dn, n)
  <2>1. /\ proc.inbox = <<>> /\ proc'.inbox = f /\ pipes'.dn = b /\ pipes'.up = pipes.up
        /\ proc'.cca = proc.cca /\ proc'.state = "run" /\ proc.state = "run"
    BY <1>2, <1>5 DEF SlaveRead, Process, Pipes
  <2>2. pipes.dn \in Seq(Cell) /\ f \o b = pipes.dn
    BY StreamType, Reads
  <2> HIDE DEF f, b
  <2>3. Requested' = Requested
    BY <2>1, <2>2, ConcatEmptySeq DEF Requested
  <2>4. Stream' = Stream
    BY <1>0, <2>1 DEF Stream, Data
  <2>5. Stream' = Stream \o <<>>
    BY <1>2, <2>4
  <2> QED
    BY <1>0, <1>1, <1>3, <2>1, <2>3, <2>5 DEF Passes
<1>6. CASE SlaveRx
  <2>1. proc' = proc /\ proc.state = "run" /\ pipes' = Send(Cells("RX", 0))
    BY <1>6 DEF SlaveRx
  <2>2. /\ Stream' = Stream \o Cells("RX", 0) \/ Stream' = Stream \o <<>>
        /\ pipes'.dn = pipes.dn
    BY <1>0, <1>3, <2>1, SentStream
  <2>3. Requested' = Requested
    BY <2>1, <2>2 DEF Requested
  <2> QED
    BY <1>0, <1>1, <1>3, <2>1, <2>2, <2>3 DEF Passes
<1>7. CASE SlaveFragment \/ SlaveDies \/ SlaveGone
  <2>1. UNCHANGED pipes /\ proc'.state # "run"
    BY <1>2, <1>7 DEF SlaveFragment, SlaveDies, SlaveGone, Process
  <2> QED
    BY <1>0, <1>1, <1>4, <2>1 DEF Ends
(* A request is served. *)
<1>8. ASSUME NEW cmds, SlaveGets(cmds), cmds \subseteq Commands,
             proc'.inbox = Next1(proc).inbox, pipes'.dn = pipes.dn,
             proc'.state = Next1(proc).state,
             proc'.cca = (IF Request.cmd = "CONFIG" THEN Request.arg = 1 ELSE Next1(proc).cca),
             NEW cells \in Seq(Cell), Stream' = Stream \o cells,
             \/ Quiet(cells)
             \/ /\ cells = <<Request>>
                /\ Request.cmd = "TXSTATUS" \/ (Request.cmd \in {"TX", "TX_NOCCA"} /\ proc.cca)
      PROVE  Serves
  <2>1. Request.cmd \in cmds /\ SlaveGets(Commands \cap {Request.cmd}) /\ proc.state = "run"
    BY <1>8 DEF SlaveGets
  <2>2. /\ Request \in Cell /\ Requested[1] = Request
        /\ Size(Request.cmd) \in 1 .. Len(Requested)
        /\ Requested' = Back(Requested, Size(Request.cmd))
    BY <1>8, <2>1, ServedFirst
  <2>3. Size(Request.cmd) = (IF Request.cmd = "CONFIG" THEN ReadMax ELSE 1)
    BY <1>8, <2>1, Sizes
  <2>4. Next1(proc).cca = proc.cca /\ Next1(proc).state = proc.state
    BY <1>2 DEF Next1, Process
  <2> QED
    BY <1>8, <2>1, <2>2, <2>3, <2>4 DEF Serves
<1>9. CASE SlaveConfig
  <2>1. SlaveGets({"CONFIG"}) /\ proc.state = "run" /\ Request.cmd = "CONFIG"
    BY <1>9 DEF SlaveConfig, SlaveGets
  <2>2. Next1(proc) \in Process
    BY <2>1, Served DEF Types
  <2>3. CASE /\ proc' = [Next1(proc) EXCEPT !.conf = TRUE, !.cca = (Request.arg = 1), !.rx = TRUE]
             /\ pipes' = Send(Cells("SYNCED", 0))
    <3>1. /\ proc'.cca = (Request.arg = 1) /\ proc'.inbox = Next1(proc).inbox
          /\ proc'.state = Next1(proc).state
      BY <2>2, <2>3 DEF Process
    <3>2. /\ Stream' = Stream \o Cells("SYNCED", 0) \/ Stream' = Stream \o <<>>
          /\ pipes'.dn = pipes.dn
      BY <1>0, <1>3, <2>3, SentStream
    <3>3. {"CONFIG"} \subseteq Commands
      BY DEF Commands
    <3>4. Serves
      BY <1>3, <1>8, <2>1, <3>1, <3>2, <3>3
    <3> QED
      BY <1>0, <1>1, <2>1, <3>4
  <2>4. CASE proc' = [proc EXCEPT !.state = "exiting", !.fatal = TRUE] /\ UNCHANGED pipes
    <3>1. proc'.state # "run"
      BY <1>2, <2>4 DEF Process
    <3> QED
      BY <1>0, <1>1, <1>4, <2>4, <3>1 DEF Ends
  <2> QED
    BY <1>9, <2>3, <2>4 DEF SlaveConfig
<1>10. CASE SlaveTimesync
  <2>1. /\ SlaveGets({"TIMESYNC"}) /\ proc' = Next1(proc) /\ pipes' = Send(Cells("SYNCED", 0))
        /\ Request.cmd = "TIMESYNC" /\ proc.state = "run"
    BY <1>10 DEF SlaveTimesync, SlaveGets
  <2>2. /\ Stream' = Stream \o Cells("SYNCED", 0) \/ Stream' = Stream \o <<>>
        /\ pipes'.dn = pipes.dn
    BY <1>0, <1>3, <2>1, SentStream
  <2>3. {"TIMESYNC"} \subseteq Commands
    BY DEF Commands
  <2>4. Serves
    BY <1>3, <1>8, <2>1, <2>2, <2>3
  <2> QED
    BY <1>0, <1>1, <2>1, <2>4
<1>11. CASE SlaveStop
  <2>1. /\ SlaveGets({"STOP", "TXABORT"}) /\ UNCHANGED pipes
        /\ proc' = [Next1(proc) EXCEPT !.rx = (Request.cmd # "STOP" /\ @)]
        /\ Request.cmd \in {"STOP", "TXABORT"} /\ proc.state = "run"
    BY <1>11 DEF SlaveStop, SlaveGets
  <2>2. Next1(proc) \in Process
    BY <2>1, Served DEF Types
  <2>3. /\ proc'.cca = Next1(proc).cca /\ proc'.state = Next1(proc).state
        /\ proc'.inbox = Next1(proc).inbox
    BY <2>1, <2>2 DEF Process
  <2>4. {"STOP", "TXABORT"} \subseteq Commands
    BY DEF Commands
  <2>5. Request.cmd # "CONFIG" /\ Stream' = Stream \o <<>>
    BY <1>4, <2>1
  <2>6. Serves
    BY <1>3, <1>8, <2>1, <2>3, <2>4, <2>5
  <2> QED
    BY <1>0, <1>1, <2>1, <2>6
<1>12. CASE SlaveTx \/ SlaveTxstatus
  <2>1. /\ SlaveGets({"TX", "TX_NOCCA", "TXSTATUS"}) /\ proc' = Next1(proc)
        /\ Request.cmd \in {"TX", "TX_NOCCA", "TXSTATUS"} /\ proc.state = "run"
        /\ \/ /\ pipes' = Send(<<Request>>)
              /\ Request.cmd = "TXSTATUS" \/ (Request.cmd \in {"TX", "TX_NOCCA"} /\ proc.cca)
           \/ UNCHANGED pipes
    BY <1>12 DEF SlaveTx, SlaveTxstatus, SlaveGets
  <2>2. {"TX", "TX_NOCCA", "TXSTATUS"} \subseteq Commands
    BY DEF Commands
  <2>3. Request.cmd # "CONFIG"
    BY <2>1
  <2>4. CASE UNCHANGED pipes
    <3>1. Stream' = Stream \o <<>> /\ pipes'.dn = pipes.dn
      BY <1>4, <2>4
    <3>2. Serves
      BY <1>3, <1>8, <2>1, <2>2, <2>3, <3>1
    <3> QED
      BY <1>0, <1>1, <2>1, <3>2
  <2>5. CASE /\ pipes' = Send(<<Request>>)
             /\ Request.cmd = "TXSTATUS" \/ (Request.cmd \in {"TX", "TX_NOCCA"} /\ proc.cca)
    <3>1. Request \in Cell
      BY <2>1, Served DEF Types
    <3>2. <<Request>> \in Seq(Cell)
      BY <3>1
    <3>3. /\ Stream' = Stream \o <<Request>> \/ Stream' = Stream \o <<>>
          /\ pipes'.dn = pipes.dn
      BY <1>0, <2>5, <3>2, SentStream
    <3>4. ASSUME Stream' = Stream \o <<Request>> PROVE Serves
      BY <1>8, <2>1, <2>2, <2>3, <2>5, <3>2, <3>3, <3>4
    <3>5. ASSUME Stream' = Stream \o <<>> PROVE Serves
      BY <1>3, <1>8, <2>1, <2>2, <2>3, <3>3, <3>5
    <3> QED
      BY <1>0, <1>1, <2>1, <3>3, <3>4, <3>5
  <2> QED
    BY <2>1, <2>4, <2>5
<1> QED
  BY <1>5, <1>6, <1>7, <1>9, <1>10, <1>11, <1>12 DEF Slave
-----------------------------------------------------------------------------
(* An answer to the request that is waited for, or to an expired one *)
Due(c) == \/ c.cmd = call.exp /\ c.arg = call.id
          \/ c.cmd = last_expcmd /\ c.arg \in late

(* The numbers grow; a request that the slave is going to answer was made  *)
(* by a master that knew so, unless it left the slave out of a change.     *)
Serving ==
  /\ Numbered(Requested, count.reqs) /\ Before(Stream, Requested)
  /\ Blocks(Requested)
  /\ ~overrun /\ Sensed(Requested, proc.cca, Len(Requested) + 1) => cca

Ordered ==
  /\ Numbered(Stream, count.reqs)
  /\ proc.state = "run" => Serving

(* All answers that are on their way, or will be, are due.                 *)
Asked == \A i \in 1 .. Len(Requested) : Asks(Requested, proc.cca, i) => Due(Requested[i])
Awaited ==
  /\ LateIgnored
  /\ \A i \in 1 .. Len(Stream) : Sync(Stream[i]) => Due(Stream[i])
  /\ proc.state = "run" => Asked
  /\ \A x, y \in late : x = y
  /\ call.exp # None => call.id = count.reqs /\ (late # {} => last_expcmd # call.exp)

Answering == IInv /\ Ordered /\ (~overrun => Awaited)

LEMMA FirstCell ==
  ASSUME NEW q \in Seq(Cell), NEW m \in Nat, Numbered(q, m), NEW n \in 1 .. Len(q)
  PROVE  /\ <<q[1]>> \in Seq(Cell) /\ q[1].cmd # "TX_NOCCA"
         /\ Numbered(<<q[1]>>, m) /\ Before(<<q[1]>>, Back(q, n))
         /\ \A s \in Seq(Cell) : Before(s, q) => Before(s, <<q[1]>>)
<1> DEFINE b == Back(q, n)
           c == q[1]
<1>0. Len(q) \in Nat /\ n \in Nat /\ n \in 0 .. Len(q) /\ 1 \in 1 .. Len(q)
  BY LenProperties
<1>1. Len(b) = Len(q) - n /\ \A k \in 1 .. Len(q) - n : b[k] = q[n + k]
  BY <1>0, BackSeq
<1>2. c \in Cell
  BY <1>0, ElementOfSeq
<1> HIDE DEF b
<1>3. q[1].cmd # "TX_NOCCA" /\ (Sync(q[1]) => q[1].arg <= m)
  BY <1>0 DEF Numbered
<1> HIDE DEF c
<1>4. Len(<<c>>) = 1 /\ <<c>>[1] = c /\ <<c>> \in Seq(Cell)
  BY <1>2
<1>5. Numbered(<<c>>, m)
  <2>1. \A i \in 1 .. Len(<<c>>) : i = 1 /\ <<c>>[i] = c /\ 1 .. i - 1 = {}
    BY <1>4
  <2> QED
    BY <1>3, <2>1 DEF Numbered, c
<1>6. Before(<<c>>, b)
  <2> SUFFICES ASSUME NEW j \in 1 .. Len(b), Sync(c), Sync(b[j]) PROVE c.arg < b[j].arg
    <3>1. \A i \in 1 .. Len(<<c>>) : <<c>>[i] = c
      BY <1>4
    <3> QED
      BY <3>1 DEF Before
  <2>1. b[j] = q[n + j] /\ n + j \in 1 .. Len(q) /\ 1 \in 1 .. (n + j) - 1
    BY <1>0, <1>1
  <2> QED
    BY <2>1 DEF Numbered, c
<1>7. ASSUME NEW s \in Seq(Cell), Before(s, q) PROVE Before(s, <<c>>)
  <2>1. \A j \in 1 .. Len(<<c>>) : <<c>>[j] = q[1]
    BY <1>4 DEF c
  <2> QED
    BY <1>0, <1>7, <2>1 DEF Before
<1> QED
  BY <1>3, <1>4, <1>5, <1>6, <1>7 DEF b, c

LEMMA OrderedSlave ==
  ASSUME IInv, Slave, Ordered
  PROVE  Ordered'
<1> DEFINE S == Stream
           Q == Requested
           m == count.reqs
<1>1. /\ S \in Seq(Cell) /\ Q \in Seq(Cell) /\ m \in Nat /\ proc.cca \in BOOLEAN
      /\ proc'.cca \in BOOLEAN
  <2>1. Types /\ Types'
    BY SlaveTypes DEF IInv
  <2> QED
    BY <2>1, StreamType DEF Types, Control, Plumbing, Process
<1>2. /\ UNCHANGED <<cca, overrun>> /\ count'.reqs = m
      /\ proc.state = "run" \/ Ends
      /\ Ends \/ Passes \/ Serves
  BY SlaveFlow
<1>3. Numbered(S, m) /\ (proc.state = "run" => Serving)
  BY DEF Ordered
<1>4. CASE Ends
  BY <1>2, <1>3, <1>4 DEF Ends, Ordered
<1>5. CASE proc.state = "run" /\ Passes
  <2>1. PICK cells \in Seq(Cell) : Quiet(cells) /\ Stream' = S \o cells
    BY <1>5 DEF Passes
  <2>2. Q' = Q /\ proc'.cca = proc.cca
    BY <1>5 DEF Passes
  <2>3. /\ Numbered(Q, m) /\ Before(S, Q) /\ Blocks(Q)
        /\ ~overrun /\ Sensed(Q, proc.cca, Len(Q) + 1) => cca
    BY <1>3, <1>5 DEF Serving
  <2>4. /\ Numbered(cells, m) /\ Before(S, cells) /\ Before(cells, Q)
    BY <1>1, <2>1, QuietFits
  <2>5. Numbered(S \o cells, m)
    BY <1>1, <1>3, <2>4, NumberedJoin
  <2>6. Before(S \o cells, Q)
    BY <1>1, <2>3, <2>4, BeforeJoin
  <2>7. Serving'
    BY <1>2, <2>1, <2>2, <2>3, <2>6 DEF Serving
  <2> QED
    BY <1>2, <1>3, <2>1, <2>5, <2>7 DEF Ordered
<1>6. CASE proc.state = "run" /\ Serves
  <2> DEFINE n == Size(Request.cmd)
             c == Requested[1]
  <2>1. /\ n \in 1 .. Len(Q) /\ n = (IF Q[1].cmd = "CONFIG" THEN ReadMax ELSE 1)
        /\ c = Request /\ Q' = Back(Q, n)
        /\ proc'.cca = (IF Q[1].cmd = "CONFIG" THEN Q[1].arg = 1 ELSE proc.cca)
    BY <1>6 DEF Serves
  <2>2. PICK cells \in Seq(Cell) : Stream' = S \o cells /\ (Quiet(cells) \/ cells = <<c>>)
    BY <1>6 DEF Serves
  <2> HIDE DEF n
  <2>3. /\ Numbered(Q, m) /\ Before(S, Q) /\ Blocks(Q)
        /\ ~overrun /\ Sensed(Q, proc.cca, Len(Q) + 1) => cca
    BY <1>3, <1>6 DEF Serving
  <2>4. /\ Len(Q) \in Nat /\ n \in 0 .. Len(Q)
        /\ Back(Q, n) \in Seq(Cell) /\ Len(Back(Q, n)) = Len(Q) - n
    <3>1. Len(Q) \in Nat /\ n \in 0 .. Len(Q)
      BY <1>1, <2>1, LenProperties
    <3> QED
      BY <1>1, <3>1, BackSeq
  <2>5. /\ Numbered(<<c>>, m) /\ Before(<<c>>, Back(Q, n)) /\ Before(S, <<c>>)
    BY <1>1, <2>1, <2>3, FirstCell
  <2>6. /\ Numbered(cells, m) /\ Before(S, cells) /\ Before(cells, Back(Q, n))
    <3>1. CASE Quiet(cells)
      BY <1>1, <2>4, <3>1, QuietFits
    <3>2. CASE cells = <<c>>
      BY <2>5, <3>2
    <3> QED
      BY <2>2, <3>1, <3>2
  <2>7. Numbered(S \o cells, m)
    BY <1>1, <1>3, <2>6, NumberedJoin
  <2>8. Before(S, Back(Q, n))
    BY <1>1, <2>3, <2>4, BeforeBack
  <2>9. Before(S \o cells, Back(Q, n))
    BY <1>1, <2>4, <2>6, <2>8, BeforeJoin
  <2>10. Numbered(Back(Q, n), m)
    BY <1>1, <2>3, <2>4, NumberedBack
  <2>11. Blocks(Back(Q, n))
    BY <1>1, <2>1, <2>3, ServedBlock
  <2>12. ~overrun /\ Sensed(Back(Q, n), proc'.cca, Len(Back(Q, n)) + 1) => cca
    <3> DEFINE e == Len(Back(Q, n)) + 1
    <3>1. e \in 1 .. Len(Q) - n + 1 /\ n + e = Len(Q) + 1
      BY <2>4
    <3> HIDE DEF e
    <3>2. Sensed(Back(Q, n), proc'.cca, e) => Sensed(Q, proc.cca, n + e)
      BY <1>1, <2>1, <2>3, <3>1, SensedServed
    <3> QED
      BY <2>3, <3>1, <3>2 DEF e
  <2>13. Serving'
    BY <1>2, <2>1, <2>2, <2>9, <2>10, <2>11, <2>12 DEF Serving
  <2> QED
    BY <1>2, <1>3, <2>2, <2>7, <2>13 DEF Ordered
<1> QED
  BY <1>2, <1>4, <1>5, <1>6

LEMMA AwaitedSlave ==
  ASSUME IInv, Slave, Ordered, Awaited
  PROVE  Awaited'
<1> DEFINE S == Stream
           Q == Requested
           m == count.reqs
<1>1. /\ S \in Seq(Cell) /\ Q \in Seq(Cell) /\ m \in Nat /\ proc.cca \in BOOLEAN
      /\ proc'.cca \in BOOLEAN
  <2>1. Types /\ Types'
    BY SlaveTypes DEF IInv
  <2> QED
    BY <2>1, StreamType DEF Types, Control, Plumbing, Process
<1>2. /\ UNCHANGED <<station, call, last_expcmd, late, wrong>> /\ count'.reqs = m
      /\ proc.state = "run" \/ Ends
      /\ Ends \/ Passes \/ Serves
  BY SlaveFlow
<1>3. /\ \A c : Due(c)' <=> Due(c)
      /\ LateIgnored'
      /\ \A x, y \in late' : x = y
      /\ call'.exp # None => call'.id = count'.reqs /\ (late' # {} => last_expcmd' # call'.exp)
  <2>1. LateIgnored' = LateIgnored
    BY <1>2 DEF LateIgnored
  <2>2. \A c : Due(c)' <=> Due(c)
    BY <1>2 DEF Due
  <2> QED
    BY <1>2, <2>1, <2>2 DEF Awaited
<1>4. \A i \in 1 .. Len(S) : Sync(S[i]) => Due(S[i])
  BY DEF Awaited
<1>5. proc.state = "run" => \A i \in 1 .. Len(Q) : Asks(Q, proc.cca, i) => Due(Q[i])
  BY DEF Awaited, Asked
(* What is sent is due if it is an answer. *)
<1>6. ASSUME NEW cells \in Seq(Cell), Stream' = S \o cells,
             \A i \in 1 .. Len(cells) : Sync(cells[i]) => Due(cells[i])
      PROVE  \A i \in 1 .. Len(Stream') : Sync(Stream'[i]) => Due(Stream'[i])
  <2> DEFINE u == S \o cells
  <2>1. /\ \A i \in 1 .. Len(S) : u[i] = S[i]
        /\ \A i \in 1 .. Len(cells) : u[Len(S) + i] = cells[i]
        /\ \A i \in 1 .. Len(u) :
             i \in 1 .. Len(S) \/ (i - Len(S) \in 1 .. Len(cells) /\ i = Len(S) + (i - Len(S)))
    BY <1>1, Joins
  <2> HIDE DEF u
  <2> SUFFICES ASSUME NEW i \in 1 .. Len(u), Sync(u[i]) PROVE Due(u[i])
    BY <1>6 DEF u
  <2>2. CASE i \in 1 .. Len(S)
    BY <1>4, <2>1, <2>2
  <2>3. CASE i - Len(S) \in 1 .. Len(cells) /\ i = Len(S) + (i - Len(S))
    <3>1. u[i] = cells[i - Len(S)]
      BY <2>1, <2>3
    <3> QED
      BY <1>6, <2>3, <3>1
  <2> QED
    BY <2>1, <2>2, <2>3
<1>7. CASE Ends
  BY <1>3, <1>4, <1>7 DEF Ends, Awaited
<1>8. CASE proc.state = "run" /\ Passes
  <2>1. PICK cells \in Seq(Cell) : Quiet(cells) /\ Stream' = S \o cells
    BY <1>8 DEF Passes
  <2>2. Q' = Q /\ proc'.cca = proc.cca
    BY <1>8 DEF Passes
  <2>3. \A i \in 1 .. Len(Stream') : Sync(Stream'[i]) => Due(Stream'[i])
    BY <1>6, <2>1 DEF Quiet, Sync
  <2>4. Asked'
    BY <1>3, <1>5, <1>8, <2>2 DEF Asked
  <2> QED
    BY <1>3, <2>3, <2>4 DEF Awaited
<1>9. CASE proc.state = "run" /\ Serves
  <2> DEFINE n == Size(Request.cmd)
             c == Requested[1]
  <2>1. /\ n \in 1 .. Len(Q) /\ n = (IF Q[1].cmd = "CONFIG" THEN ReadMax ELSE 1)
        /\ c = Request /\ Q' = Back(Q, n)
        /\ proc'.cca = (IF Q[1].cmd = "CONFIG" THEN Q[1].arg = 1 ELSE proc.cca)
    BY <1>9 DEF Serves
  <2>2. PICK cells \in Seq(Cell) :
           /\ Stream' = S \o cells
           /\ \/ Quiet(cells)
              \/ /\ cells = <<c>>
                 /\ c.cmd = "TXSTATUS" \/ (c.cmd \in {"TX", "TX_NOCCA"} /\ proc.cca)
    BY <1>9 DEF Serves
  <2> HIDE DEF n
  <2>3. Numbered(Q, m) /\ Blocks(Q)
    BY <1>9 DEF Ordered, Serving
  <2>4. c.cmd # "TX_NOCCA"
    BY <1>1, <2>1, <2>3, FirstCell
  <2>5. Len(Q) \in Nat /\ n \in 0 .. Len(Q) /\ n \in Nat /\ 1 \in 1 .. Len(Q)
    BY <1>1, <2>1, LenProperties
  <2>6. ASSUME cells = <<c>>, c.cmd = "TXSTATUS" \/ (c.cmd \in {"TX", "TX_NOCCA"} /\ proc.cca)
        PROVE  Due(c)
    <3>1. c.cmd = "TXSTATUS" \/ (c.cmd = "TX" /\ proc.cca)
      BY <2>4, <2>6
    <3>2. Unset(Q, 1, 1 - 1)
      <4>1. 1 .. 1 - 1 = {}
        OBVIOUS
      <4> QED
        BY <4>1 DEF Unset
    <3>3. Asks(Q, proc.cca, 1)
      BY <3>1, <3>2 DEF Asks, Sensed
    <3> QED
      BY <1>5, <1>9, <2>5, <3>3
  <2>7. \A i \in 1 .. Len(cells) : Sync(cells[i]) => Due(cells[i])
    <3>1. CASE Quiet(cells)
      BY <3>1 DEF Quiet, Sync
    <3>2. CASE cells = <<c>> /\ (c.cmd = "TXSTATUS" \/ (c.cmd \in {"TX", "TX_NOCCA"} /\ proc.cca))
      <4>1. Due(c)
        BY <2>6, <3>2
      <4>2. \A i \in 1 .. Len(cells) : cells[i] = c
        BY <3>2
      <4> QED
        BY <4>1, <4>2
    <3> QED
      BY <2>2, <3>1, <3>2
  <2>8. \A i \in 1 .. Len(Stream') : Sync(Stream'[i]) => Due(Stream'[i])
    BY <1>6, <2>2, <2>7
  <2>9. Asked'
    <3> DEFINE b == Back(Q, n)
    <3>1. Len(b) = Len(Q) - n /\ \A k \in 1 .. Len(Q) - n : b[k] = Q[n + k]
      BY <1>1, <2>5, BackSeq
    <3>2. ASSUME NEW i \in 1 .. Len(b), Sensed(b, proc'.cca, i) PROVE Sensed(Q, proc.cca, n + i)
      <4>1. i \in 1 .. Len(Q) - n + 1
        BY <2>5, <3>1
      <4> QED
        BY <1>1, <2>1, <2>3, <3>2, <4>1, SensedServed
    <3> HIDE DEF b
    <3>3. ASSUME NEW i \in 1 .. Len(b), Asks(b, proc'.cca, i) PROVE Due(b[i])
      <4>1. b[i] = Q[n + i] /\ n + i \in 1 .. Len(Q)
        BY <2>5, <3>1
      <4>2. Asks(Q, proc.cca, n + i)
        BY <3>2, <3>3, <4>1 DEF Asks
      <4> QED
        BY <1>5, <1>9, <4>1, <4>2
    <3> QED
      BY <1>3, <2>1, <3>3 DEF Asked, b
  <2> QED
    BY <1>3, <2>8, <2>9 DEF Awaited
<1> QED
  BY <1>2, <1>7, <1>8, <1>9
-----------------------------------------------------------------------------
LEMMA FirstOnStream ==
  ASSUME Types, Streaming, buf # <<>>
  PROVE  /\ Stream # <<>> /\ 1 \in 1 .. Len(Stream) /\ Stream[1] \in Cell
         /\ Cmd = Stream[1].cmd /\ Arg = Stream[1].arg /\ Cmd \in Upward
<1>1. Data \in Seq(Cell) /\ Data # <<>> /\ pipes.up \in Seq(Cell)
  <2>1. rsb \in Seq(Cell) /\ buf \in Seq(Cell)
    BY StreamType
  <2> QED
    BY <2>1, StreamType, ConcatEqualIffEmpty DEF Data
<1>2. Len(Data) \in Nat /\ Len(Data) >= 1 /\ 1 \in 1 .. Len(Data)
  <2>1. Len(Data) \in Nat /\ Len(Data) >= 1
    BY <1>1, LenProperties, EmptySeq
  <2> QED
    BY <2>1
<1>3. 1 \in 1 .. Len(Stream) /\ Stream[1] = Data[1] /\ Stream \in Seq(Cell)
  BY <1>1, <1>2, Joins, StreamType, SMTT(30) DEF Stream
<1>4. Stream # <<>> /\ Stream[1] \in Cell
  BY <1>3, EmptySeq, ElementOfSeq
<1>5. Stream[1].cmd \in Upward
  BY <1>3, <1>4, FirstMessage DEF Streaming
<1> QED
  BY <1>3, <1>4, <1>5 DEF Cmd, Arg

LEMMA EmptyStream ==
  ASSUME Types, Streaming, buf = <<>>, pipes.up = <<>>
  PROVE  Stream = <<>>
<1>1. rsb = <<>>
  BY NothingLeft
<1>2. <<>> \o <<>> = <<>>
  BY EmptySeq, ConcatEmptySeq
<1> QED
  BY <1>1, <1>2 DEF Stream, Data

LEMMA OverrunStays ==
  ASSUME Master, overrun
  PROVE  overrun'
<1>1. CASE RestartSlave
  BY <1>1 DEF RestartSlave, Kill, Start
<1>2. CASE Reading
  BY <1>2 DEF Reading, ReadChunk, Spill, Answer, LateAnswer, News, Unexpected, GiveUp, ReadEof,
              Fatal, history
<1> QED
  BY <1>1, <1>2 DEF Master, PollPipe, Tx, Txstatus, Txabort, Configure, LeaveOut, ConfigureFails,
                    Stop, AskTimesync, Restart, Recheck, Fatal, history, master

(* What a step of read_slave_pipe leaves alone *)
LEMMA ReadingFrame ==
  ASSUME IInv, Reading
  PROVE  /\ UNCHANGED <<proc, cca, config, count>> /\ Requested' = Requested
         /\ \E n \in 0 .. Len(Stream) : Stream' = Back(Stream, n)
<1>1. UNCHANGED <<proc, cca, config, count>> /\ pipes'.dn = pipes.dn
  <2>1. pipes \in Pipes
    BY DEF IInv, Types, Plumbing
  <2> QED
    BY <2>1 DEF Reading, ReadChunk, Spill, Answer, LateAnswer, News, Unexpected, GiveUp, ReadEof,
                Fatal, Return, Pipes
<1>2. Requested' = Requested
  BY <1>1 DEF Requested
<1> QED
  BY <1>1, <1>2, ReadingStream DEF IInv

LEMMA OrderedReading ==
  ASSUME IInv, Reading, Ordered
  PROVE  Ordered'
<1>1. /\ UNCHANGED <<proc, cca, config, count>> /\ Requested' = Requested
      /\ \E n \in 0 .. Len(Stream) : Stream' = Back(Stream, n)
  BY ReadingFrame
<1>2. PICK n \in 0 .. Len(Stream) : Stream' = Back(Stream, n)
  BY <1>1
<1>3. Stream \in Seq(Cell) /\ Requested \in Seq(Cell) /\ count.reqs \in Nat
  BY StreamType DEF IInv, Types, Control
<1>4. Numbered(Stream', count'.reqs)
  BY <1>1, <1>2, <1>3, NumberedBack DEF Ordered
<1>5. ASSUME Serving PROVE Serving'
  <2>1. Before(Stream, Requested)
    BY <1>5 DEF Serving
  <2>2. Before(Stream', Requested)
    BY <1>2, <1>3, <2>1, BeforeBack
  <2> QED
    BY <1>1, <1>5, <2>2, OverrunStays DEF Serving, Master
<1> QED
  BY <1>1, <1>4, <1>5 DEF Ordered

(* Nothing else is due once the last request has been answered, or the one *)
(* that was late.                                                          *)
LEMMA Behind ==
  ASSUME IInv, Ordered, buf # <<>>, Whole, Consume, UNCHANGED pipes, Sync(Stream[1])
  PROVE  /\ \A i \in 1 .. Len(Stream') :
              /\ \E k \in 1 .. Len(Stream) : Stream'[i] = Stream[k]
              /\ Sync(Stream'[i]) => Arg < Stream'[i].arg /\ Stream'[i].arg <= count.reqs
         /\ proc.state = "run" => \A i \in 1 .. Len(Requested) :
              Sync(Requested[i]) => Arg < Requested[i].arg /\ Requested[i].arg <= count.reqs
         /\ Arg \in Nat
<1> DEFINE S == Stream
           n == Size(Cmd)
<1>1. /\ S \in Seq(Cell) /\ S # <<>> /\ S[1] \in Cell /\ 1 \in 1 .. Len(S)
      /\ Arg = S[1].arg
      /\ n \in 1 .. Len(S) /\ Stream' = Back(S, n)
  BY FirstOnStream, TakenMessage, StreamType DEF IInv
<1> HIDE DEF n
<1>2. Len(S) \in Nat /\ n \in 0 .. Len(S) /\ n \in Nat
  BY <1>1, LenProperties
<1>3. /\ Len(Stream') = Len(S) - n
      /\ \A i \in 1 .. Len(S) - n : Stream'[i] = S[n + i]
  BY <1>1, <1>2, BackSeq
<1>4. Numbered(S, count.reqs)
  BY DEF Ordered
<1>5. ASSUME NEW i \in 1 .. Len(Stream')
      PROVE  /\ \E k \in 1 .. Len(S) : Stream'[i] = S[k]
             /\ Sync(Stream'[i]) => Arg < Stream'[i].arg /\ Stream'[i].arg <= count.reqs
  <2>1. Stream'[i] = S[n + i] /\ n + i \in 1 .. Len(S) /\ 1 \in 1 .. (n + i) - 1
    BY <1>1, <1>2, <1>3
  <2>2. /\ Sync(S[n + i]) => S[n + i].arg <= count.reqs
        /\ Sync(S[1]) /\ Sync(S[n + i]) => S[1].arg < S[n + i].arg
    BY <1>4, <2>1 DEF Numbered
  <2> QED
    BY <1>1, <2>1, <2>2
<1>6. ASSUME proc.state = "run", NEW i \in 1 .. Len(Requested), Sync(Requested[i])
      PROVE  Arg < Requested[i].arg /\ Requested[i].arg <= count.reqs
  <2>1. Before(S, Requested) /\ Numbered(Requested, count.reqs)
    BY <1>6 DEF Ordered, Serving
  <2>2. Sync(S[1]) /\ Sync(Requested[i]) => S[1].arg < Requested[i].arg
    BY <1>1, <2>1 DEF Before
  <2>3. Sync(Requested[i]) => Requested[i].arg <= count.reqs
    BY <2>1 DEF Numbered
  <2> QED
    BY <1>1, <1>6, <2>2, <2>3
<1>7. Arg \in Nat
  BY <1>1 DEF Cell
<1> QED
  BY <1>5, <1>6, <1>7

LEMMA AwaitedReading ==
  ASSUME IInv, Reading, Ordered, ~overrun => Awaited, ~overrun'
  PROVE  Awaited'
<1> DEFINE S == Stream
           Q == Requested
           DueNow(c) == \/ c.cmd = call'.exp /\ c.arg = call'.id
                        \/ c.cmd = last_expcmd' /\ c.arg \in late'
<1>0. overrun' = overrun \/ (GiveUp /\ (overrun' = (overrun \/ (call.exp # None /\ late # {}))))
  BY DEF Reading, ReadChunk, Spill, Answer, LateAnswer, News, Unexpected, GiveUp, ReadEof, Fatal,
         history
<1>1. ~overrun /\ Awaited
  <2>1. ~overrun
    BY <1>0
  <2> QED
    BY <2>1
<1>2. /\ UNCHANGED <<proc, cca, config, count>> /\ Q' = Q
      /\ \E n \in 0 .. Len(S) : Stream' = Back(S, n)
  BY ReadingFrame
<1>3. /\ S \in Seq(Cell) /\ Q \in Seq(Cell) /\ count.reqs \in Nat
      /\ \A i \in 1 .. Len(S) : S[i] \in Cell
      /\ \A i \in 1 .. Len(Q) : Q[i] \in Cell
  <2>1. S \in Seq(Cell) /\ Q \in Seq(Cell) /\ count.reqs \in Nat
    BY StreamType DEF IInv, Types, Control
  <2> QED
    BY <2>1, ElementOfSeq
<1>4. /\ LateIgnored
      /\ \A i \in 1 .. Len(S) : Sync(S[i]) => Due(S[i])
      /\ \A x, y \in late : x = y
      /\ call.exp # None => call.id = count.reqs /\ (late # {} => last_expcmd # call.exp)
      /\ proc.state = "run" =>
           \A i \in 1 .. Len(Q) : Asks(Q, proc.cca, i) => Due(Q[i])
  BY <1>1 DEF Awaited, Asked
(* What is left of the stream was part of it. *)
<1>5. \A i \in 1 .. Len(Stream') : \E k \in 1 .. Len(S) : Stream'[i] = S[k]
  <2>1. PICK n \in 0 .. Len(S) : Stream' = Back(S, n)
    BY <1>2
  <2>2. Len(S) \in Nat /\ n \in Nat
    BY <1>3, LenProperties
  <2>3. Len(Stream') = Len(S) - n /\ \A i \in 1 .. Len(S) - n : Stream'[i] = S[n + i]
    BY <1>3, <2>1, BackSeq
  <2> SUFFICES ASSUME NEW i \in 1 .. Len(Stream') PROVE \E k \in 1 .. Len(S) : Stream'[i] = S[k]
    OBVIOUS
  <2>4. n + i \in 1 .. Len(S)
    BY <2>2, <2>3
  <2> QED
    BY <2>3, <2>4
<1> HIDE DEF DueNow
<1>16. ASSUME LateIgnored', \A x, y \in late' : x = y,
              \A i \in 1 .. Len(Stream') : Sync(Stream'[i]) => DueNow(Stream'[i]),
              proc.state = "run" => \A i \in 1 .. Len(Q) : Asks(Q, proc.cca, i) => DueNow(Q[i]),
              call'.exp # None => call'.id = count.reqs /\ (late' # {} => last_expcmd' # call'.exp)
       PROVE  Awaited'
  <2>1. \A i \in 1 .. Len(Stream') : Sync(Stream'[i]) => Due(Stream[i])'
    BY <1>16 DEF Due, DueNow
  <2>2. proc'.state = "run" => Asked'
    <3>1. \A i \in 1 .. Len(Requested') : Due(Requested[i])' <=> DueNow(Requested'[i])
      BY DEF Due, DueNow
    <3> QED
      BY <1>2, <1>16, <3>1 DEF Asked
  <2> QED
    BY <1>2, <1>16, <2>1, <2>2 DEF Awaited
<1>6. ASSUME UNCHANGED <<call, last_expcmd, late, wrong, station>> PROVE Awaited'
  <2>1. (\A c : DueNow(c) <=> Due(c)) /\ LateIgnored'
    BY <1>4, <1>6 DEF Due, DueNow, LateIgnored
  <2>2. \A i \in 1 .. Len(Stream') : Sync(Stream'[i]) => DueNow(Stream'[i])
    BY <1>4, <1>5, <2>1
  <2>3. proc.state = "run" => \A i \in 1 .. Len(Q) : Asks(Q, proc.cca, i) => DueNow(Q[i])
    BY <1>4, <2>1
  <2> QED
    BY <1>4, <1>6, <1>16, <2>1, <2>2, <2>3
<1>7. CASE ReadChunk \/ Spill \/ News
  BY <1>6, <1>7 DEF ReadChunk, Spill, News, history
(* The first message, an answer *)
<1>8. ASSUME buf # <<>>
      PROVE  /\ 1 \in 1 .. Len(S) /\ Cmd = S[1].cmd /\ Arg = S[1].arg /\ Cmd \in Upward
             /\ Cmd # "TX_NOCCA"
             /\ Sync(S[1]) => Due(S[1])
  <2>1. 1 \in 1 .. Len(S) /\ Cmd = S[1].cmd /\ Arg = S[1].arg /\ Cmd \in Upward
    BY <1>8, FirstOnStream DEF IInv
  <2>2. S[1].cmd # "TX_NOCCA"
    BY <2>1 DEF Ordered, Numbered
  <2> QED
    BY <1>4, <2>1, <2>2
<1>9. CASE Unexpected
  <2>1. buf # <<>> /\ ~Known
    BY <1>9 DEF Unexpected
  <2>2. Sync(S[1]) => Cmd \in {call.exp, last_expcmd}
    BY <1>8, <2>1 DEF Due
  <2>3. Cmd \notin {"SYNCED", "RX"} /\ Cmd # call.exp /\ Cmd # last_expcmd
    BY <2>1 DEF Known, Expected, Expired
  <2>4. Sync(S[1])
    BY <1>8, <2>1, <2>3 DEF Sync, Upward
  <2> QED
    BY <2>2, <2>3, <2>4
<1>10. call.exp \in {None, "TX", "TXSTATUS"} /\ last_expcmd \in {None, "TX", "TXSTATUS"} /\ call \in Call
  BY DEF IInv, Types, Reader, Call
<1>11. CASE Answer
  <2>1. /\ buf # <<>> /\ Cmd = call.exp /\ Whole /\ Consume /\ UNCHANGED pipes
        /\ call' = [call EXCEPT !.exp = None] /\ last_expcmd' = None /\ late' = late \ {Arg}
        /\ wrong' = (wrong \/ Arg # call.id) /\ station' = station
    BY <1>11 DEF Answer, Expected
  <2>2. Sync(S[1]) /\ call.exp # None
    BY <1>8, <1>10, <2>1 DEF Sync, Upward, None
  <2>3. Arg = call.id /\ Arg = count.reqs
    BY <1>4, <1>8, <2>1, <2>2 DEF Due
  <2>4. /\ \A i \in 1 .. Len(Stream') :
             Sync(Stream'[i]) => Arg < Stream'[i].arg /\ Stream'[i].arg <= count.reqs
        /\ proc.state = "run" => \A i \in 1 .. Len(Q) :
             Sync(Q[i]) => Arg < Q[i].arg /\ Q[i].arg <= count.reqs
        /\ \A i \in 1 .. Len(Stream') : \E k \in 1 .. Len(S) : Stream'[i] = S[k]
    BY <2>1, <2>2, Behind
  <2>5. \A i \in 1 .. Len(Stream') : ~Sync(Stream'[i])
    <3> SUFFICES ASSUME NEW i \in 1 .. Len(Stream'), Sync(Stream'[i]) PROVE FALSE
      OBVIOUS
    <3>1. PICK k \in 1 .. Len(S) : Stream'[i] = S[k]
      BY <2>4
    <3>2. Stream'[i].arg \in Nat
      BY <1>3, <3>1 DEF Cell
    <3>3. count.reqs < Stream'[i].arg /\ Stream'[i].arg <= count.reqs
      BY <2>3, <2>4
    <3> QED
      BY <1>3, <3>2, <3>3
  <2>6. proc.state = "run" => \A i \in 1 .. Len(Q) : ~Sync(Q[i])
    <3> SUFFICES ASSUME proc.state = "run", NEW i \in 1 .. Len(Q), Sync(Q[i]) PROVE FALSE
      OBVIOUS
    <3>2. Q[i].arg \in Nat
      BY <1>3 DEF Cell
    <3>3. count.reqs < Q[i].arg /\ Q[i].arg <= count.reqs
      BY <2>3, <2>4
    <3> QED
      BY <1>3, <3>2, <3>3
  <2>7. proc.state = "run" => \A i \in 1 .. Len(Q) : Asks(Q, proc.cca, i) => DueNow(Q[i])
    BY <2>6 DEF Asks, Sync
  <2>8. call'.exp = None
    BY <1>10, <2>1 DEF Call
  <2>9. LateIgnored'
    BY <1>4, <2>1, <2>3 DEF LateIgnored
  <2>10. \A x, y \in late' : x = y
    BY <1>4, <2>1
  <2> QED
    BY <1>16, <2>5, <2>7, <2>8, <2>9, <2>10
<1>12. CASE LateAnswer
  <2>1. /\ buf # <<>> /\ Cmd # call.exp /\ Cmd = last_expcmd
        /\ Whole /\ Consume /\ UNCHANGED pipes
        /\ last_expcmd' = None /\ late' = late \ {Arg}
        /\ UNCHANGED <<call, wrong, station>>
    BY <1>12 DEF LateAnswer, Expired
  <2>2. Sync(S[1])
    BY <1>8, <1>10, <2>1 DEF Sync, Upward, None
  <2>3. Arg \in late
    BY <1>8, <2>1, <2>2 DEF Due
  <2>4. \A x \in late : x = Arg
    BY <1>4, <2>3
  <2>5. late' = {}
    BY <2>1, <2>4
  <2>6. /\ \A i \in 1 .. Len(Stream') : Sync(Stream'[i]) => Arg < Stream'[i].arg
        /\ proc.state = "run" => \A i \in 1 .. Len(Q) : Sync(Q[i]) => Arg < Q[i].arg
        /\ Arg \in Nat
        /\ \A i \in 1 .. Len(Stream') : \E k \in 1 .. Len(S) : Stream'[i] = S[k]
    BY <2>1, <2>2, Behind
  <2>7. ASSUME NEW c \in Cell, Due(c), Arg < c.arg PROVE DueNow(c)
    <3>1. c.arg \in Nat /\ c.arg # Arg
      BY <2>6, <2>7 DEF Cell
    <3>2. c.arg \notin late
      BY <2>4, <3>1
    <3> QED
      BY <2>1, <2>7, <3>2 DEF Due, DueNow
  <2>8. ASSUME NEW i \in 1 .. Len(Stream'), Sync(Stream'[i]) PROVE DueNow(Stream'[i])
    <3>1. PICK k \in 1 .. Len(S) : Stream'[i] = S[k]
      BY <2>6
    <3>2. S[k] \in Cell /\ Due(S[k]) /\ Arg < S[k].arg
      BY <1>3, <1>4, <2>6, <2>8, <3>1
    <3> QED
      BY <2>7, <3>1, <3>2
  <2>9. ASSUME proc.state = "run", NEW i \in 1 .. Len(Q), Asks(Q, proc.cca, i) PROVE DueNow(Q[i])
    <3>1. Sync(Q[i])
      BY <2>9 DEF Asks, Sync
    <3>2. Q[i] \in Cell /\ Due(Q[i]) /\ Arg < Q[i].arg
      BY <1>3, <1>4, <2>6, <2>9, <3>1
    <3> QED
      BY <2>7, <3>2
  <2>11. LateIgnored'
    BY <1>4, <2>1 DEF LateIgnored
  <2> QED
    BY <1>4, <1>16, <2>1, <2>5, <2>8, <2>9, <2>11
(* The procedure returns: nothing is left on the stream. *)
<1>13. ASSUME GiveUp \/ ReadEof PROVE Len(Stream') = 0
  <2>1. buf = <<>> /\ pipes.up = <<>>
    BY <1>13 DEF GiveUp, ReadEof
  <2>2. S = <<>> /\ Len(<<>>) = 0
    BY <2>1, EmptyStream, EmptySeq DEF IInv
  <2>3. PICK n \in 0 .. Len(S) : Stream' = Back(S, n)
    BY <1>2
  <2>4. Len(Stream') = Len(S) - n
    BY <1>3, <2>3, BackSeq
  <2> QED
    BY <2>2, <2>3, <2>4
<1>14. CASE GiveUp
  <2>1. /\ last_expcmd' = (IF call.exp = None THEN last_expcmd ELSE call.exp)
        /\ late' = (IF call.exp = None THEN late ELSE late \cup {call.id})
        /\ ~(call.exp # None /\ late # {})
        /\ call' = NoCall /\ UNCHANGED <<wrong, station>>
    BY <1>14 DEF GiveUp, Return
  <2>2. call'.exp = None /\ LateIgnored'
    BY <1>4, <2>1 DEF NoCall, LateIgnored
  <2>3. \A x, y \in late' : x = y
    BY <1>4, <2>1
  <2>4. ASSUME NEW c \in Cell, c.cmd # None, Due(c) PROVE DueNow(c)
    <3>1. CASE call.exp = None
      BY <2>1, <2>4, <3>1 DEF Due, DueNow
    <3>2. CASE call.exp # None
      BY <2>1, <2>4, <3>2 DEF Due, DueNow
    <3> QED
      BY <3>1, <3>2
  <2>5. ASSUME proc.state = "run", NEW i \in 1 .. Len(Q), Asks(Q, proc.cca, i) PROVE DueNow(Q[i])
    <3>1. Q[i] \in Cell /\ Due(Q[i]) /\ Q[i].cmd # None
      BY <1>3, <1>4, <2>5 DEF Asks, None
    <3> QED
      BY <2>4, <3>1
  <2>6. \A i \in 1 .. Len(Stream') : Sync(Stream'[i]) => DueNow(Stream'[i])
    BY <1>13, <1>14
  <2> QED
    BY <1>16, <2>2, <2>3, <2>5, <2>6
<1>15. CASE ReadEof
  <2>1. call' = NoCall /\ proc.state # "run" /\ UNCHANGED <<last_expcmd, late, wrong, station>>
    BY <1>15 DEF ReadEof, Return, history
  <2>2. call'.exp = None /\ LateIgnored'
    BY <1>4, <2>1 DEF NoCall, LateIgnored
  <2>3. \A i \in 1 .. Len(Stream') : Sync(Stream'[i]) => DueNow(Stream'[i])
    BY <1>13, <1>15
  <2> QED
    BY <1>4, <1>16, <2>1, <2>2, <2>3
<1> QED
  BY <1>7, <1>9, <1>11, <1>12, <1>14, <1>15 DEF Reading
-----------------------------------------------------------------------------
(* Requests behind those on their way *)
LEMMA WrittenStream ==
  ASSUME Types, NEW cells \in Seq(Cell), Written(cells), UNCHANGED <<proc, rsb, buf>>
  PROVE  /\ Stream' = Stream /\ Requested' = Requested \o cells
         /\ proc.state = "run" /\ Stream \in Seq(Cell) /\ Requested \in Seq(Cell)
<1>1. pipes'.up = pipes.up /\ pipes'.dn = pipes.dn \o cells /\ proc.state = "run"
  BY Writes DEF Types
<1>2. /\ proc.inbox \in Seq(Cell) /\ pipes.dn \in Seq(Cell) /\ Requested \in Seq(Cell)
      /\ Stream \in Seq(Cell) /\ Requested = proc.inbox \o pipes.dn
  BY StreamType DEF Requested
<1>3. Requested' = Requested \o cells
  <2>1. (proc.inbox \o pipes.dn) \o cells = proc.inbox \o (pipes.dn \o cells)
    <3>1. proc.inbox \in Seq(Cell) /\ pipes.dn \in Seq(Cell) /\ cells \in Seq(Cell)
      BY <1>2
    <3> QED
      BY ONLY <3>1, Regroup
  <2>2. Requested' = proc.inbox \o (pipes.dn \o cells)
    BY <1>1 DEF Requested
  <2> QED
    BY <1>2, <2>1, <2>2
<1>4. Stream' = Stream
  BY <1>1 DEF Stream, Data
<1> QED
  BY <1>1, <1>2, <1>3, <1>4

LEMMA NumberedMore ==
  ASSUME NEW s \in Seq(Cell), NEW m \in Nat, NEW k \in Nat, m <= k, Numbered(s, m)
  PROVE  Numbered(s, k)
<1>1. ASSUME NEW i \in 1 .. Len(s), Sync(s[i]) PROVE s[i].arg <= k
  <2>1. s[i] \in Cell /\ s[i].arg <= m
    BY <1>1, ElementOfSeq DEF Numbered
  <2>2. s[i].arg \in Nat
    BY <2>1 DEF Cell
  <2> QED
    BY <2>1, <2>2
<1> QED
  BY <1>1 DEF Numbered

(* A new request with an answer *)
LEMMA NewRequest ==
  ASSUME NEW cmd \in {"TX", "TXSTATUS"}, NEW m \in Nat, NEW s \in Seq(Cell), Numbered(s, m)
  PROVE  LET cells == Cells(cmd, m + 1) IN
         /\ cells \in Seq(Cell) /\ Len(cells) = 1
         /\ cells[1] = [cmd |-> cmd, arg |-> m + 1, part |-> 1]
         /\ Numbered(cells, m + 1) /\ Before(s, cells) /\ Blocks(cells)
<1> DEFINE cells == Cells(cmd, m + 1)
<1>1. cmd \in Commands \cup Upward /\ m + 1 \in Nat /\ Size(cmd) = 1
  BY DEF Upward, Size
<1>2. /\ cells \in Seq(Cell) /\ Len(cells) = Size(cmd)
      /\ \A k \in 1 .. Size(cmd) : cells[k] = [cmd |-> cmd, arg |-> m + 1, part |-> k]
  BY <1>1, CellsShape
<1>3. 1 \in 1 .. Size(cmd)
  BY <1>1
<1>4. Len(cells) = 1 /\ cells[1] = [cmd |-> cmd, arg |-> m + 1, part |-> 1]
  BY <1>1, <1>2, <1>3
<1> HIDE DEF cells
<1>5. ASSUME NEW i \in 1 .. Len(cells)
      PROVE  /\ i = 1 /\ cells[i].cmd = cmd /\ cells[i].arg = m + 1
  <2>1. i = 1
    BY <1>4
  <2> QED
    BY <1>4, <2>1
<1>6. Numbered(cells, m + 1)
  <2> SUFFICES ASSUME NEW i \in 1 .. Len(cells)
               PROVE  /\ cells[i].cmd # "TX_NOCCA"
                      /\ cells[i].arg <= m + 1
                      /\ 1 .. i - 1 = {}
    BY DEF Numbered
  <2> QED
    BY <1>1, <1>5
<1>7. Before(s, cells)
  <2> SUFFICES ASSUME NEW i \in 1 .. Len(s), Sync(s[i]) PROVE s[i].arg < m + 1
    BY <1>5 DEF Before
  <2>1. s[i] \in Cell /\ s[i].arg <= m
    BY ElementOfSeq DEF Numbered
  <2>2. s[i].arg \in Nat
    BY <2>1 DEF Cell
  <2> QED
    BY <2>1, <2>2
<1>8. Blocks(cells)
  BY <1>5 DEF Blocks
<1> QED
  BY <1>2, <1>4, <1>6, <1>7, <1>8 DEF cells

LEMMA PlainRequest ==
  ASSUME NEW cmd \in {"TXABORT", "STOP", "TIMESYNC"}
  PROVE  LET cells == Cells(cmd, 0) IN
         /\ cells \in Seq(Cell) /\ Quiet(cells) /\ Blocks(cells)
         /\ Len(cells) = 1 /\ cells[1].cmd # "CONFIG"
<1> DEFINE cells == Cells(cmd, 0)
<1>1. cmd \in Commands \ {"CONFIG"} /\ 0 \in Nat
      /\ cmd \in (Commands \cup Upward) \ {"TX", "TX_NOCCA", "TXSTATUS"}
  BY DEF Commands
<1>2. Size(cmd) = 1
  BY <1>1, Sizes
<1>3. cells \in Seq(Cell) /\ Len(cells) = Size(cmd)
  BY <1>1, CellsShape
<1>4. Quiet(cells)
  BY <1>1, QuietCells
<1>5. \A i \in 1 .. Len(cells) : cells[i].cmd = cmd
  BY <1>1, SingleCells
<1>6. 1 \in 1 .. Len(cells)
  BY <1>2, <1>3
<1> QED
  BY <1>1, <1>2, <1>3, <1>4, <1>5, <1>6 DEF Blocks

LEMMA ConfigBlock ==
  ASSUME NEW withCca \in BOOLEAN
  PROVE  LET cells == ConfigCells(withCca) IN
         /\ cells \in Seq(Cell) /\ Quiet(cells) /\ Blocks(cells) /\ cells # <<>>
         /\ cells[Len(cells)].cmd = "CONFIG"
         /\ cells[Len(cells)].arg = 1 => withCca
<1> DEFINE cells == ConfigCells(withCca)
           arg == IF withCca THEN 1 ELSE 0
<1>1. arg \in Nat /\ "CONFIG" \in Commands /\ Size("CONFIG") = ReadMax /\ cells = Cells("CONFIG", arg)
  BY DEF Commands, Size, ConfigCells
<1>2. ReadMax \in Nat /\ ReadMax >= 2
  BY Sizes
<1>3. arg = 1 => withCca
  OBVIOUS
<1> HIDE DEF arg
<1>4. /\ cells \in Seq(Cell) /\ Len(cells) = ReadMax
      /\ \A k \in 1 .. ReadMax : cells[k] = [cmd |-> "CONFIG", arg |-> arg, part |-> k]
  BY <1>1, CellsShape
<1> HIDE DEF cells
<1>5. \A k \in 1 .. Len(cells) : cells[k].cmd = "CONFIG" /\ cells[k].arg = arg /\ cells[k].part = k
  BY <1>4
<1>6. Quiet(cells)
  BY <1>5 DEF Quiet
<1>7. Blocks(cells)
  <2> SUFFICES ASSUME NEW i \in 1 .. Len(cells), NEW k \in 1 .. ReadMax
               PROVE  /\ i - cells[i].part + k \in 1 .. Len(cells)
                      /\ cells[i - cells[i].part + k] = [cells[i] EXCEPT !.part = k]
    BY DEF Blocks
  <2>1. i - cells[i].part + k = k /\ k \in 1 .. Len(cells)
    BY <1>2, <1>4, <1>5
  <2>2. /\ cells[i] = [cmd |-> "CONFIG", arg |-> arg, part |-> i]
        /\ cells[k] = [cmd |-> "CONFIG", arg |-> arg, part |-> k]
    BY <1>4
  <2> QED
    BY <2>1, <2>2
<1>8. Len(cells) \in 1 .. Len(cells) /\ cells # <<>>
  BY <1>2, <1>4, EmptySeq
<1> QED
  BY <1>3, <1>4, <1>5, <1>6, <1>7, <1>8 DEF cells

(* What restart_slave does to what is on its way *)
LEMMA RestartFlow ==
  ASSUME IInv, Idle, RestartSlave, tmr = "restart" \/ ~Alive, UNCHANGED <<buf, rsb>>
  PROVE  \/ /\ station' \in {"velocity", "slave"}
            /\ Stream' = Stream /\ Requested' = Requested
            /\ UNCHANGED <<call, proc, late, overrun>>
         \/ /\ Stream' = <<>> /\ late' = {} /\ UNCHANGED <<station, overrun>>
            /\ \/ proc'.state # "run" /\ UNCHANGED call
               \/ /\ proc' = Fresh /\ call' = Poll("start")
                  /\ Requested' = IF config THEN ConfigCells(cca) ELSE <<>>
<1>1. proc.state # "run"
  BY DEF Alive, IInv, Configuring
<1>2. rsb = <<>> /\ buf = <<>>
  BY DEF Idle, NoCall, IInv, Streaming
<1>3. /\ <<>> \o <<>> = <<>> /\ <<>> \in Seq(Cell) /\ cca \in BOOLEAN
  BY EmptySeq, ConcatEmptySeq DEF IInv, Types, Control
<1>4. ASSUME pipes'.up = <<>> PROVE Stream' = <<>>
  BY <1>2, <1>3, <1>4 DEF Stream, Data
<1>5. ASSUME UNCHANGED <<pipes, proc>> PROVE Stream' = Stream /\ Requested' = Requested
  BY <1>5 DEF Stream, Data, Requested
<1>6. CASE Kill
  <2>1. pipes'.up = <<>> /\ late' = {} /\ UNCHANGED <<station, call, proc, overrun>>
    BY <1>6 DEF Kill, Closed
  <2> QED
    BY <1>1, <1>4, <2>1
<1>7. CASE Start
  <2>1. /\ proc' = Fresh /\ call' = Poll("start") /\ late' = {} /\ UNCHANGED <<station, overrun>>
        /\ pipes' = IF config THEN [Opened EXCEPT !.dn = ConfigCells(cca)] ELSE Opened
    BY <1>7 DEF Start
  <2>2. /\ pipes'.up = <<>> /\ proc'.inbox = <<>>
        /\ pipes'.dn = IF config THEN ConfigCells(cca) ELSE <<>>
    BY <2>1 DEF Opened, Fresh
  <2>3. Requested' = IF config THEN ConfigCells(cca) ELSE <<>>
    <3>1. ConfigCells(cca) \in Seq(Cell)
      BY <1>3, Messages
    <3>2. <<>> \o ConfigCells(cca) = ConfigCells(cca)
      BY <3>1, ConcatEmptySeq
    <3> QED
      BY <1>3, <2>2, <3>2 DEF Requested
  <2> QED
    BY <1>4, <2>1, <2>2, <2>3
<1>8. CASE restartCnt + 1 > MAX_RESTARTS
  <2>1. station' = "velocity" /\ UNCHANGED <<call, pipes, proc, late, overrun>>
    BY <1>8 DEF RestartSlave
  <2> QED
    BY <1>5, <2>1
<1>9. CASE ~(restartCnt + 1 > MAX_RESTARTS)
  <2>1. /\ tsync' = FALSE
        /\ CASE Alive -> Kill
             [] ~Alive /\ proc.fatal ->
                  station' = "slave" /\ UNCHANGED <<call, tmr, pipes, proc, late, overrun, bare>>
             [] OTHER -> Start
    BY <1>9 DEF RestartSlave
  <2>2. CASE Alive
    BY <1>6, <2>1, <2>2
  <2>3. CASE ~Alive /\ proc.fatal
    <3>1. station' = "slave" /\ UNCHANGED <<call, pipes, proc, late, overrun>>
      BY <2>1, <2>3
    <3> QED
      BY <1>5, <3>1
  <2>4. CASE ~Alive /\ ~proc.fatal
    BY <1>7, <2>1, <2>4
  <2> QED
    BY <2>2, <2>3, <2>4
<1> QED
  BY <1>8, <1>9

LEMMA OrderedMaster ==
  ASSUME TRUE \notin NoCca, IInv, Master, ~Reading, Ordered
  PROVE  Ordered'
<1> DEFINE S == Stream
           Q == Requested
           m == count.reqs
<1>1. /\ Types /\ S \in Seq(Cell) /\ Q \in Seq(Cell) /\ m \in Nat /\ m + 1 \in Nat
      /\ proc.cca \in BOOLEAN /\ cca \in BOOLEAN
      /\ count \in [reqs : Nat, sessions : Nat, crashes : Nat]
  BY StreamType DEF IInv, Types, Control, Plumbing, Process
<1>0. overrun => overrun'
  BY OverrunStays
<1>2. Numbered(S, m) /\ (proc.state = "run" => Serving)
  BY DEF Ordered
(* A request is written. *)
<1>3. ASSUME NEW cells \in Seq(Cell), Written(cells), UNCHANGED <<proc, rsb, buf>>,
             NEW k \in Nat, count'.reqs = k, m <= k,
             Numbered(cells, k), Before(S, cells), proc.state = "run" => Before(Q, cells),
             Blocks(cells),
             ~overrun' /\ Sensed(Q \o cells, proc.cca, Len(Q \o cells) + 1) => cca'
      PROVE  Ordered'
  <2>1. Stream' = S /\ Q' = Q \o cells /\ proc.state = "run"
    BY <1>1, <1>3, WrittenStream
  <2>2. Numbered(Q, m) /\ Before(S, Q) /\ Blocks(Q)
    BY <1>2, <2>1 DEF Serving
  <2>3. Numbered(S, k) /\ Numbered(Q, k)
    BY <1>1, <1>2, <1>3, <2>2, NumberedMore
  <2>4. Numbered(Q \o cells, k)
    BY <1>1, <1>3, <2>1, <2>3, NumberedJoin
  <2>5. Before(S, Q \o cells)
    BY <1>1, <1>3, <2>2, BeforeJoin
  <2>6. Blocks(Q \o cells)
    BY <1>1, <1>3, <2>2, BlocksJoin
  <2>7. Serving'
    BY <1>3, <2>1, <2>4, <2>5, <2>6 DEF Serving
  <2> QED
    BY <1>3, <2>1, <2>3, <2>7 DEF Ordered
(* ... by a single cell *)
<1>4. ASSUME NEW cells \in Seq(Cell), Written(cells), UNCHANGED <<proc, rsb, buf, cca>>,
             NEW k \in Nat, count'.reqs = k, m <= k,
             Numbered(cells, k), Before(S, cells), proc.state = "run" => Before(Q, cells),
             Blocks(cells), Len(cells) = 1, cells[1].cmd # "CONFIG"
      PROVE  Ordered'
  <2>1. proc.state = "run"
    BY <1>4 DEF Written
  <2>2. Sensed(Q \o cells, proc.cca, Len(Q \o cells) + 1) => Sensed(Q, proc.cca, Len(Q) + 1)
    BY <1>1, <1>4, SensedJoin
  <2>3. ~overrun' /\ Sensed(Q, proc.cca, Len(Q) + 1) => cca
    BY <1>0, <1>2, <2>1 DEF Serving
  <2> QED
    BY <1>3, <1>4, <2>2, <2>3
<1>5. ASSUME NEW cmd \in {"TX", "TXSTATUS"}, Written(Cells(cmd, m + 1)),
             UNCHANGED <<proc, rsb, buf, cca>>, count'.reqs = m + 1
      PROVE  Ordered'
  <2> DEFINE cells == Cells(cmd, m + 1)
  <2>1. /\ cells \in Seq(Cell) /\ Len(cells) = 1
        /\ cells[1] = [cmd |-> cmd, arg |-> m + 1, part |-> 1]
        /\ Numbered(cells, m + 1) /\ Before(S, cells) /\ Blocks(cells)
    BY <1>1, <1>2, NewRequest
  <2>2. proc.state = "run" => Before(Q, cells)
    <3>1. proc.state = "run" => Numbered(Q, m)
      BY <1>2 DEF Serving
    <3> QED
      BY <1>1, <3>1, NewRequest
  <2>3. Written(cells)
    BY <1>5
  <2> HIDE DEF cells
  <2>4. cells[1].cmd # "CONFIG" /\ m <= m + 1
    BY <1>1, <2>1
  <2> QED
    BY <1>1, <1>4, <1>5, <2>1, <2>2, <2>3, <2>4
<1>6. ASSUME NEW cmd \in {"TXABORT", "STOP", "TIMESYNC"}, Written(Cells(cmd, 0)),
             UNCHANGED <<proc, rsb, buf, cca, count>>
      PROVE  Ordered'
  <2> DEFINE cells == Cells(cmd, 0)
  <2>1. /\ cells \in Seq(Cell) /\ Quiet(cells) /\ Blocks(cells)
        /\ Len(cells) = 1 /\ cells[1].cmd # "CONFIG"
    BY PlainRequest
  <2>2. Written(cells)
    BY <1>6
  <2> HIDE DEF cells
  <2>3. Numbered(cells, m) /\ Before(S, cells) /\ Before(Q, cells)
    BY <1>1, <2>1, QuietFits
  <2>4. m <= m /\ count'.reqs = m
    BY <1>1, <1>6
  <2> QED
    BY <1>1, <1>4, <1>6, <2>1, <2>2, <2>3, <2>4
(* Nothing on its way changes, or all of it is gone. *)
<1>7. ASSUME Stream' = S, Q' = Q, UNCHANGED proc, cca' = cca \/ overrun', count'.reqs = m
      PROVE  Ordered'
  BY <1>0, <1>2, <1>7 DEF Ordered, Serving
<1>8. UNCHANGED <<proc, pipes, rsb, buf>> => Stream' = S /\ Q' = Q
  BY DEF Stream, Data, Requested
<1>9. CASE PollPipe
  BY <1>7, <1>8, <1>9 DEF PollPipe
<1>10. ASSUME NEW nocca \in NoCca, Tx(nocca) PROVE Ordered'
  <2>1. nocca = FALSE
    BY PipeAssumption
  <2>2. /\ Written(Cells("TX", m + 1))
        /\ count' = [count EXCEPT !.reqs = m + 1]
        /\ UNCHANGED <<proc, rsb, buf, cca>>
    BY <1>10, <2>1 DEF Tx
  <2>3. count'.reqs = m + 1
    BY <1>1, <2>2
  <2> QED
    BY <1>5, <2>2, <2>3
<1>11. CASE Txstatus
  <2>1. /\ Written(Cells("TXSTATUS", m + 1))
        /\ count' = [count EXCEPT !.reqs = m + 1]
        /\ UNCHANGED <<proc, rsb, buf, cca>>
    BY <1>11 DEF Txstatus
  <2>2. count'.reqs = m + 1
    BY <1>1, <2>1
  <2> QED
    BY <1>5, <2>1, <2>2
<1>12. CASE Txabort
  <2>1. Written(Cells("TXABORT", 0)) /\ UNCHANGED <<proc, rsb, buf, cca, count>>
    BY <1>12 DEF Txabort, master
  <2> QED
    BY <1>6, <2>1
<1>13. ASSUME NEW withCca \in CcaRegions, Configure(withCca) PROVE Ordered'
  <2> DEFINE cells == ConfigCells(withCca)
  <2>1. withCca \in BOOLEAN
    BY PipeAssumption
  <2>2. count'.reqs = m /\ m <= m
    <3>1. count' = [count EXCEPT !.sessions = @ + 1]
      BY <1>13 DEF Configure, RouterConfig
    <3> QED
      BY <1>1, <3>1
  <2>3. CASE Writable(cells)
    <3>1. /\ Written(cells) /\ cca' = withCca
          /\ UNCHANGED <<proc, rsb, buf>>
      BY <1>13, <2>3 DEF Configure, RouterConfig
    <3>2. /\ cells \in Seq(Cell) /\ Quiet(cells) /\ Blocks(cells) /\ cells # <<>>
          /\ cells[Len(cells)].cmd = "CONFIG"
          /\ cells[Len(cells)].arg = 1 => withCca
      BY <2>1, ConfigBlock
    <3> HIDE DEF cells
    <3>3. Numbered(cells, m) /\ Before(S, cells) /\ Before(Q, cells)
      BY <1>1, <3>2, QuietFits
    <3>4. Sensed(Q \o cells, proc.cca, Len(Q \o cells) + 1) => cca'
      BY <1>1, <3>1, <3>2, SensedJoin
    <3> QED
      BY <1>1, <1>3, <2>2, <3>1, <3>2, <3>3, <3>4
  <2>4. CASE ~Writable(cells)
    <3>1. UNCHANGED <<pipes, proc, rsb, buf, cca>>
      BY <1>13, <2>4 DEF Configure, Fatal
    <3> QED
      BY <1>7, <1>8, <2>2, <3>1
  <2> QED
    BY <2>3, <2>4
<1>19. CASE ConfigureFails \/ \E withCca \in CcaRegions : LeaveOut(withCca)
  <2>1. /\ UNCHANGED <<pipes, proc, rsb, buf>> /\ (cca' = cca \/ overrun')
        /\ count' = [count EXCEPT !.sessions = @ + 1]
    BY <1>19 DEF ConfigureFails, LeaveOut, RouterConfig
  <2> QED
    BY <1>1, <1>7, <1>8, <2>1
<1>14. CASE Stop
  <2>1. /\ UNCHANGED <<proc, rsb, buf, cca, count>>
        /\ Written(Cells("STOP", 0)) \/ UNCHANGED pipes
    BY <1>14 DEF Stop
  <2>2. CASE Written(Cells("STOP", 0))
    BY <1>6, <2>1, <2>2
  <2>3. CASE UNCHANGED pipes
    BY <1>7, <1>8, <2>1, <2>3
  <2> QED
    BY <2>1, <2>2, <2>3
<1>15. CASE AskTimesync
  <2>1. /\ UNCHANGED <<proc, rsb, buf, cca, count>>
        /\ Written(Cells("TIMESYNC", 0)) \/ UNCHANGED pipes
    BY <1>15 DEF AskTimesync, Fatal
  <2>2. CASE Written(Cells("TIMESYNC", 0))
    BY <1>6, <2>1, <2>2
  <2>3. CASE UNCHANGED pipes
    BY <1>7, <1>8, <2>1, <2>3
  <2> QED
    BY <2>1, <2>2, <2>3
<1>16. ASSUME Idle, RestartSlave, tmr = "restart" \/ ~Alive,
              UNCHANGED <<buf, rsb, config, cca, count>>
       PROVE  Ordered'
  <2>1. \/ Stream' = S /\ Q' = Q /\ UNCHANGED proc
        \/ /\ Stream' = <<>>
           /\ \/ proc'.state # "run"
              \/ proc' = Fresh /\ Q' = IF config THEN ConfigCells(cca) ELSE <<>>
    BY <1>16, RestartFlow
  <2>2. CASE Stream' = S /\ Q' = Q /\ UNCHANGED proc
    BY <1>7, <1>16, <2>2
  <2>3. <<>> \in Seq(Cell) /\ Quiet(<<>>) /\ Len(<<>>) = 0
    BY QuietCells, EmptySeq
  <2>4. Numbered(<<>>, m)
    BY <1>1, <2>3, QuietFits
  <2>5. CASE Stream' = <<>> /\ proc'.state # "run"
    BY <1>2, <1>16, <2>4, <2>5 DEF Ordered
  <2>6. CASE Stream' = <<>> /\ proc' = Fresh /\ Q' = IF config THEN ConfigCells(cca) ELSE <<>>
    <3>1. proc'.cca = FALSE
      BY <2>6 DEF Fresh
    <3>2. Q' \in Seq(Cell) /\ Quiet(Q') /\ Blocks(Q')
      <4>1. CASE config
        BY <1>1, <2>6, <4>1, ConfigBlock
      <4>2. CASE ~config
        BY <2>3, <2>6, <4>2 DEF Blocks
      <4> QED
        BY <4>1, <4>2
    <3>3. Numbered(Q', m) /\ Before(<<>>, Q')
      BY <1>1, <2>3, <3>2, QuietFits
    <3>4. Sensed(Q', FALSE, Len(Q') + 1) => cca
      <4>1. CASE config
        <5> DEFINE t == ConfigCells(cca)
        <5>1. /\ t \in Seq(Cell) /\ t # <<>> /\ t[Len(t)].cmd = "CONFIG"
              /\ t[Len(t)].arg = 1 => cca
          BY <1>1, ConfigBlock
        <5> HIDE DEF t
        <5>2. <<>> \o t = t /\ FALSE \in BOOLEAN
          BY <5>1, ConcatEmptySeq
        <5>3. Sensed(<<>> \o t, FALSE, Len(<<>> \o t) + 1) => t[Len(t)].arg = 1
          BY <2>3, <5>1, <5>2, SensedJoin
        <5>4. Q' = t
          BY <2>6, <4>1 DEF t
        <5> QED
          BY <5>1, <5>2, <5>3, <5>4
      <4>2. CASE ~config
        <5>1. Q' = <<>>
          BY <2>6, <4>2
        <5>2. 1 .. (0 + 1) - 1 = {}
          OBVIOUS
        <5> QED
          BY <2>3, <5>1, <5>2 DEF Sensed
      <4> QED
        BY <4>1, <4>2
    <3>5. Serving'
      BY <1>16, <2>6, <3>1, <3>2, <3>3, <3>4 DEF Serving
    <3> QED
      BY <1>2, <1>16, <2>4, <2>6, <3>5 DEF Ordered
  <2> QED
    BY <2>1, <2>2, <2>5, <2>6
<1>17. CASE Restart
  BY <1>16, <1>17 DEF Restart
<1>18. CASE Recheck
  <2>1. CASE RestartSlave /\ UNCHANGED <<buf, rsb, config, cca, count>>
    BY <1>16, <1>18, <2>1 DEF Recheck
  <2>2. CASE Fatal("slave") /\ UNCHANGED count
    <3>1. UNCHANGED <<pipes, proc, rsb, buf, cca, count>>
      BY <2>2 DEF Fatal
    <3> QED
      BY <1>7, <1>8, <3>1
  <2> QED
    BY <1>18, <2>1, <2>2 DEF Recheck
<1> QED
  BY <1>9, <1>10, <1>11, <1>12, <1>13, <1>14, <1>15, <1>17, <1>18, <1>19 DEF Master

LEMMA AwaitedMaster ==
  ASSUME TRUE \notin NoCca, IInv, Master, ~Reading, Ordered, ~overrun => Awaited, ~overrun'
  PROVE  Awaited'
<1> DEFINE S == Stream
           Q == Requested
           m == count.reqs
           DueNow(c) == \/ c.cmd = call'.exp /\ c.arg = call'.id
                        \/ c.cmd = last_expcmd' /\ c.arg \in late'
<1>0. ~overrun
  BY OverrunStays
<1>1. Awaited
  BY <1>0
<1>2. /\ Types /\ S \in Seq(Cell) /\ Q \in Seq(Cell) /\ m \in Nat /\ m + 1 \in Nat
      /\ proc.cca \in BOOLEAN /\ cca \in BOOLEAN
      /\ count \in [reqs : Nat, sessions : Nat, crashes : Nat]
      /\ call.exp \in {None, "TX", "TXSTATUS"}
  BY StreamType DEF IInv, Types, Control, Plumbing, Process, Reader, Call
<1>3. /\ LateIgnored
      /\ \A i \in 1 .. Len(S) : Sync(S[i]) => Due(S[i])
      /\ \A x, y \in late : x = y
      /\ proc.state = "run" =>
           \A i \in 1 .. Len(Q) : Asks(Q, proc.cca, i) => Due(Q[i])
  BY <1>1 DEF Awaited, Asked
<1>4. Idle
  BY DEF Master, PollPipe, Tx, Txstatus, Txabort, Configure, LeaveOut, ConfigureFails, RouterConfig,
         Stop, AskTimesync, Restart, Recheck
<1>5. call.exp = None
  BY <1>4 DEF Idle, NoCall
<1> HIDE DEF DueNow
(* What is due stays due when the next request is made. *)
<1>6. ASSUME UNCHANGED <<last_expcmd, late>>, NEW c, Sync(c), Due(c) PROVE DueNow(c)
  BY <1>5, <1>6 DEF Due, DueNow, Sync, None
<1>7. ASSUME Stream' = S, proc' = proc, station' = station \/ station' # "unexpected",
             UNCHANGED <<wrong, last_expcmd, late>>,
             call'.exp # None => call'.id = count'.reqs /\ (late' # {} => last_expcmd' # call'.exp),
             proc.state = "run" =>
               \A i \in 1 .. Len(Requested') : Asks(Requested', proc.cca, i) => DueNow(Requested'[i])
      PROVE  Awaited'
  <2>1. LateIgnored'
    BY <1>3, <1>7 DEF LateIgnored
  <2>2. \A i \in 1 .. Len(Stream') : Sync(Stream'[i]) => Due(Stream[i])'
    <3>1. \A i \in 1 .. Len(S) : Sync(S[i]) => DueNow(S[i])
      BY <1>3, <1>6, <1>7
    <3> QED
      BY <1>7, <3>1 DEF Due, DueNow
  <2>3. proc'.state = "run" => Asked'
    <3>1. \A i \in 1 .. Len(Requested') : Due(Requested[i])' <=> DueNow(Requested'[i])
      BY DEF Due, DueNow
    <3> QED
      BY <1>7, <3>1 DEF Asked
  <2> QED
    BY <1>3, <1>7, <2>1, <2>2, <2>3 DEF Awaited
(* Nothing on its way changes. *)
<1>8. ASSUME UNCHANGED <<pipes, proc, rsb, buf, wrong, last_expcmd, late>>,
             station' = station \/ station' # "unexpected", call'.exp = None
      PROVE  Awaited'
  <2>1. Stream' = S /\ Q' = Q
    BY <1>8 DEF Stream, Data, Requested
  <2>2. \A i \in 1 .. Len(Q) : Asks(Q, proc.cca, i) => Sync(Q[i])
    BY DEF Asks, Sync
  <2>3. proc.state = "run" => \A i \in 1 .. Len(Q') : Asks(Q', proc.cca, i) => DueNow(Q'[i])
    BY <1>3, <1>6, <1>8, <2>1, <2>2
  <2> QED
    BY <1>7, <1>8, <2>1, <2>3
(* A request is written; what it asks for is due. *)
<1>9. ASSUME NEW cells \in Seq(Cell), Written(cells),
             UNCHANGED <<proc, rsb, buf, wrong, last_expcmd, late, station>>,
             call'.exp # None => call'.id = count'.reqs /\ (late' # {} => last_expcmd' # call'.exp),
             \A i \in 1 .. Len(cells) : Asks(Q \o cells, proc.cca, Len(Q) + i) => DueNow(cells[i])
      PROVE  Awaited'
  <2> DEFINE u == Q \o cells
  <2>1. Stream' = S /\ Requested' = u /\ proc.state = "run"
    BY <1>2, <1>9, WrittenStream
  <2>2. /\ Len(Q) \in Nat
        /\ \A i \in 1 .. Len(Q) : u[i] = Q[i]
        /\ \A i \in 1 .. Len(cells) : u[Len(Q) + i] = cells[i]
        /\ \A i \in 1 .. Len(u) :
             i \in 1 .. Len(Q) \/ (i - Len(Q) \in 1 .. Len(cells) /\ i = Len(Q) + (i - Len(Q)))
    BY <1>2, Joins
  <2>3. \A i \in 1 .. Len(Q) + 1 : Sensed(u, proc.cca, i) => Sensed(Q, proc.cca, i)
    BY <1>2, SensedJoin
  <2> HIDE DEF u
  <2>4. ASSUME NEW i \in 1 .. Len(u), Asks(u, proc.cca, i) PROVE DueNow(u[i])
    <3>1. CASE i \in 1 .. Len(Q)
      <4>1. i \in 1 .. Len(Q) + 1
        BY <2>2, <3>1
      <4>2. Asks(Q, proc.cca, i) /\ u[i] = Q[i]
        BY <2>2, <2>3, <2>4, <3>1, <4>1 DEF Asks
      <4>3. Due(Q[i]) /\ Sync(Q[i])
        BY <1>3, <2>1, <3>1, <4>2 DEF Asks, Sync
      <4> QED
        BY <1>6, <1>9, <4>2, <4>3
    <3>2. CASE i - Len(Q) \in 1 .. Len(cells) /\ i = Len(Q) + (i - Len(Q))
      <4>1. u[i] = cells[i - Len(Q)]
        BY <2>2, <3>2
      <4>2. Asks(Q \o cells, proc.cca, Len(Q) + (i - Len(Q)))
        BY <2>4, <3>2 DEF u
      <4> QED
        BY <1>9, <3>2, <4>1, <4>2
    <3> QED
      BY <2>2, <3>1, <3>2
  <2> QED
    BY <1>7, <1>9, <2>1, <2>4
(* ... which is no request with an answer *)
<1>10. ASSUME NEW cells \in Seq(Cell), Quiet(cells), Written(cells), call'.exp = None,
              UNCHANGED <<proc, rsb, buf, wrong, last_expcmd, late, station>>
       PROVE  Awaited'
  <2>1. \A i \in 1 .. Len(cells) : (Q \o cells)[Len(Q) + i] = cells[i]
    BY <1>2, Joins
  <2>2. \A i \in 1 .. Len(cells) : ~Asks(Q \o cells, proc.cca, Len(Q) + i)
    BY <1>10, <2>1 DEF Asks, Quiet
  <2> QED
    BY <1>9, <1>10, <2>2
(* ... or one that is waited for, if the slave is going to answer *)
<1>11. ASSUME NEW cmd \in {"TX", "TXSTATUS"}, Written(Cells(cmd, m + 1)), count'.reqs = m + 1,
              UNCHANGED <<proc, rsb, buf, wrong, last_expcmd, late, station>>,
              \/ /\ call'.exp = cmd /\ call'.id = m + 1
                 /\ ~Overruns(cmd)
              \/ call'.exp = None /\ cmd = "TX" /\ ~cca
       PROVE  Awaited'
  <2> DEFINE cells == Cells(cmd, m + 1)
  <2>1. /\ cells \in Seq(Cell) /\ Len(cells) = 1
        /\ cells[1] = [cmd |-> cmd, arg |-> m + 1, part |-> 1]
    BY <1>2, NewRequest DEF Ordered
  <2>2. Written(cells)
    BY <1>11
  <2> HIDE DEF cells
  <2>3. proc.state = "run"
    BY <2>2 DEF Written
  <2>4. Sensed(Q, proc.cca, Len(Q) + 1) => cca
    BY <1>0, <2>3 DEF Ordered, Serving
  <2>5. Sensed(Q \o cells, proc.cca, Len(Q) + 1) => cca
    <3>1. Len(Q) \in Nat /\ Len(Q) + 1 \in 1 .. Len(Q) + 1
      BY <1>2, LenProperties
    <3> QED
      BY <1>2, <2>1, <2>4, <3>1, SensedJoin
  <2>6. ASSUME NEW i \in 1 .. Len(cells), Asks(Q \o cells, proc.cca, Len(Q) + i)
        PROVE  DueNow(cells[i])
    <3>0. i = 1
      BY <2>1
    <3>1. i = 1 /\ (Q \o cells)[Len(Q) + i] = cells[i]
      <4>1. Q \in Seq(Cell) /\ cells \in Seq(Cell)
        BY <1>2, <2>1
      <4>2. \A k \in 1 .. Len(cells) : (Q \o cells)[Len(Q) + k] = cells[k]
        BY <4>1, Joins
      <4> QED
        BY <3>0, <4>2
    <3>2. cells[i].cmd = cmd /\ cells[i].arg = m + 1
      BY <2>1, <3>1
    <3>3. cmd = "TX" => cca
      BY <2>5, <2>6, <3>1, <3>2 DEF Asks
    <3> QED
      BY <1>11, <3>2, <3>3 DEF DueNow
  <2>7. call'.exp # None => call'.id = count'.reqs /\ (late' # {} => last_expcmd' # call'.exp)
    BY <1>11 DEF Overruns
  <2> QED
    BY <1>9, <1>11, <2>1, <2>2, <2>6, <2>7
<1>12. CASE PollPipe
  <2>1. /\ UNCHANGED <<pipes, proc, rsb, buf, wrong, last_expcmd, late, station>>
        /\ call' = Poll("read")
    BY <1>12 DEF PollPipe, history
  <2>2. call'.exp = None
    BY <2>1 DEF Poll, NoCall
  <2> QED
    BY <1>8, <2>1, <2>2
<1>13. ASSUME NEW nocca \in NoCca, Tx(nocca) PROVE Awaited'
  <2>1. nocca = FALSE
    BY PipeAssumption
  <2>2. /\ Written(Cells("TX", m + 1))
        /\ count' = [count EXCEPT !.reqs = m + 1]
        /\ call' = IF cca THEN [op |-> "tx", exp |-> "TX", id |-> m + 1] ELSE NoCall
        /\ overrun' = (overrun \/ (cca /\ Overruns("TX")))
        /\ UNCHANGED <<proc, rsb, buf, wrong, last_expcmd, late, station>>
    BY <1>13, <2>1 DEF Tx
  <2>3. count'.reqs = m + 1
    BY <1>2, <2>2
  <2>4. CASE cca
    <3>1. call'.exp = "TX" /\ call'.id = m + 1 /\ ~Overruns("TX")
      BY <2>2, <2>4
    <3> QED
      BY <1>11, <2>2, <2>3, <3>1
  <2>5. CASE ~cca
    <3>1. call'.exp = None
      BY <2>2, <2>5 DEF NoCall
    <3> QED
      BY <1>11, <2>2, <2>3, <2>5, <3>1
  <2> QED
    BY <2>4, <2>5
<1>14. CASE Txstatus
  <2>1. /\ Written(Cells("TXSTATUS", m + 1))
        /\ count' = [count EXCEPT !.reqs = m + 1]
        /\ call' = [op |-> "txstatus", exp |-> "TXSTATUS", id |-> m + 1]
        /\ overrun' = (overrun \/ Overruns("TXSTATUS"))
        /\ UNCHANGED <<proc, rsb, buf, wrong, last_expcmd, late, station>>
    BY <1>14 DEF Txstatus
  <2>2. count'.reqs = m + 1 /\ call'.exp = "TXSTATUS" /\ call'.id = m + 1 /\ ~Overruns("TXSTATUS")
    BY <1>2, <2>1
  <2> QED
    BY <1>11, <2>1, <2>2
<1>15. ASSUME NEW cmd \in {"TXABORT", "STOP", "TIMESYNC"}, Written(Cells(cmd, 0)),
              UNCHANGED <<proc, rsb, buf, wrong, last_expcmd, late, station, call>>
       PROVE  Awaited'
  <2>1. Cells(cmd, 0) \in Seq(Cell) /\ Quiet(Cells(cmd, 0))
    BY PlainRequest
  <2> QED
    BY <1>5, <1>10, <1>15, <2>1
<1>16. CASE Txabort
  <2>1. /\ Written(Cells("TXABORT", 0))
        /\ UNCHANGED <<proc, rsb, buf, wrong, last_expcmd, late, station, call>>
    BY <1>16 DEF Txabort, master, history
  <2> QED
    BY <1>15, <2>1
<1>17. ASSUME NEW withCca \in CcaRegions, Configure(withCca) PROVE Awaited'
  <2> DEFINE cells == ConfigCells(withCca)
  <2>1. withCca \in BOOLEAN
    BY PipeAssumption
  <2>2. CASE Writable(cells)
    <3>1. /\ Written(cells)
          /\ UNCHANGED <<proc, rsb, buf, wrong, last_expcmd, late, station, call>>
      BY <1>17, <2>2 DEF Configure, RouterConfig, history
    <3>2. cells \in Seq(Cell) /\ Quiet(cells)
      BY <2>1, ConfigBlock
    <3> QED
      BY <1>5, <1>10, <3>1, <3>2
  <2>3. CASE ~Writable(cells)
    <3>1. /\ UNCHANGED <<pipes, proc, rsb, buf, wrong, last_expcmd, late, call>>
          /\ station' = "config"
      BY <1>17, <2>3 DEF Configure, RouterConfig, Fatal, history
    <3> QED
      BY <1>5, <1>8, <3>1
  <2> QED
    BY <2>2, <2>3
<1>23. CASE ConfigureFails \/ \E withCca \in CcaRegions : LeaveOut(withCca)
  <2>1. /\ UNCHANGED <<pipes, proc, rsb, buf, wrong, last_expcmd, late, station, call>>
        /\ count' = [count EXCEPT !.sessions = @ + 1]
    BY <1>23 DEF ConfigureFails, LeaveOut, RouterConfig
  <2> QED
    BY <1>5, <1>8, <2>1
<1>18. CASE Stop
  <2>1. /\ UNCHANGED <<proc, rsb, buf, wrong, last_expcmd, late, station, call>>
        /\ Written(Cells("STOP", 0)) \/ UNCHANGED pipes
    BY <1>18 DEF Stop, history
  <2>2. CASE Written(Cells("STOP", 0))
    BY <1>15, <2>1, <2>2
  <2>3. CASE UNCHANGED pipes
    BY <1>5, <1>8, <2>1, <2>3
  <2> QED
    BY <2>1, <2>2, <2>3
<1>19. CASE AskTimesync
  <2>1. CASE Writable(Cells("TIMESYNC", 0))
    <3>1. /\ Written(Cells("TIMESYNC", 0))
          /\ UNCHANGED <<proc, rsb, buf, wrong, last_expcmd, late, station, call>>
      BY <1>19, <2>1 DEF AskTimesync, history
    <3> QED
      BY <1>15, <3>1
  <2>2. CASE ~Writable(Cells("TIMESYNC", 0))
    <3>1. /\ UNCHANGED <<pipes, proc, rsb, buf, wrong, last_expcmd, late, call>>
          /\ station' = "request"
      BY <1>19, <2>2 DEF AskTimesync, Fatal, history
    <3> QED
      BY <1>5, <1>8, <3>1
  <2> QED
    BY <2>1, <2>2
<1>20. ASSUME RestartSlave, tmr = "restart" \/ ~Alive, UNCHANGED <<buf, rsb, last_expcmd, wrong>>
       PROVE  Awaited'
  <2>1. \/ /\ station' \in {"velocity", "slave"} /\ Stream' = S /\ Q' = Q
           /\ UNCHANGED <<call, proc, late>>
        \/ /\ Stream' = <<>> /\ late' = {} /\ UNCHANGED station
           /\ \/ proc'.state # "run" /\ UNCHANGED call
              \/ /\ proc' = Fresh /\ call' = Poll("start")
                 /\ Q' = IF config THEN ConfigCells(cca) ELSE <<>>
    BY <1>4, <1>20, RestartFlow
  <2>2. CASE /\ station' \in {"velocity", "slave"} /\ Stream' = S /\ Q' = Q
             /\ UNCHANGED <<call, proc, late>>
    <3>1. proc.state # "run"
      BY <1>20 DEF Alive, IInv, Configuring
    <3> QED
      BY <1>5, <1>7, <1>20, <2>2, <3>1
  <2>3. CASE /\ Stream' = <<>> /\ late' = {} /\ UNCHANGED station
             /\ \/ proc'.state # "run" /\ UNCHANGED call
                \/ /\ proc' = Fresh /\ call' = Poll("start")
                   /\ Q' = IF config THEN ConfigCells(cca) ELSE <<>>
    <3>1. Len(Stream') = 0 /\ 1 .. 0 = {}
      BY <2>3, EmptySeq
    <3>2. LateIgnored' /\ call'.exp = None
      BY <1>3, <1>5, <1>20, <2>3 DEF LateIgnored, Poll, NoCall
    <3>3. proc'.state = "run" => Asked'
      <4> SUFFICES ASSUME Q' = IF config THEN ConfigCells(cca) ELSE <<>> PROVE Asked'
        BY <2>3
      <4>1. Quiet(Q')
        BY <1>2, ConfigBlock, QuietCells
      <4> QED
        BY <4>1 DEF Asked, Asks, Quiet
    <3> QED
      BY <2>3, <3>1, <3>2, <3>3 DEF Awaited
  <2> QED
    BY <2>1, <2>2, <2>3
<1>21. CASE Restart
  BY <1>20, <1>21 DEF Restart
<1>22. CASE Recheck
  <2>1. CASE RestartSlave /\ UNCHANGED <<buf, rsb, last_expcmd, wrong>>
    BY <1>20, <1>22, <2>1 DEF Recheck
  <2>2. CASE Fatal("slave")
    <3>1. /\ UNCHANGED <<pipes, proc, rsb, buf, wrong, last_expcmd, late, call>>
          /\ station' = "slave"
      BY <2>2 DEF Fatal, history
    <3> QED
      BY <1>5, <1>8, <3>1
  <2> QED
    BY <1>22, <2>1, <2>2 DEF Recheck
<1> QED
  BY <1>12, <1>13, <1>14, <1>16, <1>17, <1>18, <1>19, <1>21, <1>22, <1>23 DEF Master

LEMMA AnsweringInit == Init => Answering
<1> SUFFICES ASSUME Init PROVE Answering
  OBVIOUS
<1>1. IInv
  BY Initially
<1>2. <<>> \o <<>> = <<>> /\ Len(<<>>) = 0 /\ 1 .. 0 = {}
  BY EmptySeq, ConcatEmptySeq
<1>3. /\ rsb = <<>> /\ buf = <<>> /\ pipes.up = <<>> /\ proc.state = "none"
      /\ call.exp = None /\ late = {} /\ station = "up" /\ ~wrong /\ ~cca
  BY DEF Init, Closed, NoProc, Fresh, NoCall
<1>4. Stream = <<>>
  BY <1>2, <1>3 DEF Stream, Data
<1>5. Ordered
  BY <1>2, <1>3, <1>4 DEF Ordered, Numbered
<1>6. Awaited
  BY <1>2, <1>3, <1>4 DEF Awaited, LateIgnored
<1> QED
  BY <1>1, <1>5, <1>6 DEF Answering

LEMMA AnsweringNext == TRUE \notin NoCca /\ Answering /\ [Next]_vars => Answering'
<1> SUFFICES ASSUME TRUE \notin NoCca, Answering, [Next]_vars PROVE Answering'
  OBVIOUS
<1>1. IInv /\ IInv' /\ Ordered /\ (~overrun => Awaited)
  BY Inductive DEF Answering
<1>2. CASE Slave
  <2>1. overrun' = overrun
    BY <1>1, <1>2, SlaveFlow
  <2>2. Ordered'
    BY <1>1, <1>2, OrderedSlave
  <2>3. ~overrun => Awaited'
    BY <1>1, <1>2, AwaitedSlave
  <2> QED
    BY <1>1, <2>1, <2>2, <2>3 DEF Answering
<1>3. CASE Reading
  <2>1. Ordered'
    BY <1>1, <1>3, OrderedReading
  <2>2. ~overrun' => Awaited'
    BY <1>1, <1>3, AwaitedReading
  <2> QED
    BY <1>1, <2>1, <2>2 DEF Answering
<1>4. CASE Master /\ ~Reading
  <2>1. Ordered'
    BY <1>1, <1>4, OrderedMaster
  <2>2. ~overrun' => Awaited'
    BY <1>1, <1>4, AwaitedMaster
  <2> QED
    BY <1>1, <2>1, <2>2 DEF Answering
<1>5. CASE UNCHANGED vars
  <2>1. UNCHANGED <<master, pipes, proc, count, history>>
    BY <1>5 DEF vars
  <2>2. UNCHANGED <<station, call, rsb, buf, last_expcmd, config, cca, late, overrun, wrong>>
    BY <2>1 DEF master, history
  <2>3. Stream' = Stream /\ Requested' = Requested
    BY <2>1, <2>2 DEF Stream, Data, Requested
  <2>4. Ordered'
    BY <1>1, <2>1, <2>2, <2>3 DEF Ordered, Serving
  <2>5. Awaited => Awaited'
    <3>1. \A c : Due(c)' <=> Due(c)
      BY <2>2 DEF Due
    <3>2. Asked' <=> Asked
      BY <2>1, <2>3, <3>1 DEF Asked
    <3> QED
      BY <2>1, <2>2, <2>3, <3>1, <3>2 DEF Awaited, LateIgnored
  <2> QED
    BY <1>1, <2>2, <2>4, <2>5 DEF Answering
<1> QED
  BY <1>2, <1>3, <1>4, <1>5 DEF Next

(* "responded to expired synchronous cmd: %d. Ignoring." (ral_master.c): a *)
(* late answer is neither taken for that of another request nor fatal, as  *)
(* long as the master does not give up on a second request, or make one of *)
(* the same kind, before it is there, and does not leave the slave out of  *)
(* a change of channel sensing; whatever else is on its way, and whichever *)
(* sessions with and without channel sensing follow each other.            *)
(* Only the setting "nocca" is left out: its answer is not waited for.     *)
THEOREM OneLate == TRUE \notin NoCca => (Spec => []OneLateIgnored)
<1> SUFFICES ASSUME TRUE \notin NoCca PROVE Spec => []OneLateIgnored
  OBVIOUS
<1>1. Init => Answering
  BY AnsweringInit
<1>2. Answering /\ [Next]_vars => Answering'
  BY AnsweringNext
<1>3. Answering => OneLateIgnored
  BY DEF Answering, Awaited, OneLateIgnored
<1> QED
  BY <1>1, <1>2, <1>3, PTL DEF Spec
=============================================================================
