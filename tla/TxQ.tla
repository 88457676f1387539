-------------------------------- MODULE TxQ --------------------------------
(***************************************************************************)
(* The transmit store of xq.c (TXQ): a pool of txjobs chained by index     *)
(* into one free list and one list per TX unit, and a byte area, txdata,   *)
(* that holds the frames of the committed jobs back to back.               *)
(*                                                                         *)
(* A link is a place that holds a job index: the head of a list or the     *)
(* next field of a job.  The code passes links around as txidx_t* and      *)
(* unlinks or inserts at them.  One job at a time is off every list: the   *)
(* one the (single threaded) s2e engine is working on.                     *)
(***************************************************************************)
EXTENDS Integers, Sequences, FiniteSets

CONSTANTS
  Units,        \* TX units; txunits[u].head starts the list of unit u
  MaxJobs,      \* MAX_TXJOBS
  MaxData,      \* MAX_TXDATA
  MaxLen,       \* longest frame in bytes (255, a u1_t)
  U2,           \* offsets are u2_t: the number of their values, 2^16
  Byte,         \* values of a byte, 0 among them
  Ascending     \* does memcpy copy overlapping areas upwards?

TXIDX_NIL == 255      \* not on any list
TXIDX_END == 254      \* end of a list
TXOFF_NIL == U2 - 1   \* job has no frame in txdata

ASSUME SizeAssumption ==
  /\ MaxJobs \in 1 .. 254
  /\ MaxData \in Nat
  /\ MaxLen \in 0 .. 255
  /\ U2 \in Nat
  /\ MaxData + MaxLen < TXOFF_NIL
ASSUME DomainAssumption ==
  /\ Units \cap {"free", "held"} = {}
  /\ 0 \in Byte
  /\ Ascending \in BOOLEAN

Jobs == 0 .. MaxJobs - 1
Addr == 0 .. MaxData - 1
Idx  == Jobs \cup {TXIDX_NIL, TXIDX_END}

VARIABLES
  next,         \* txjobs[].next
  off,          \* txjobs[].off
  len,          \* txjobs[].len
  txdata,       \* txdata[]
  freeJobs,     \* head of the free list
  txdataInUse,  \* txdata is free from here on
  head,         \* txunits[].head
  held,         \* the job off all lists, TXIDX_NIL if none
  home          \* history: the list each job is on ("free", "held" or a unit)

lists  == <<next, freeJobs, head, held, home>>
frames == <<off, len, txdata, txdataInUse>>
vars   == <<lists, frames>>

(* txq_ini and the reset of the unit heads in s2e_ini *)
Init ==
  /\ next = [j \in Jobs |-> IF j = MaxJobs - 1 THEN TXIDX_END ELSE j + 1]
  /\ off = [j \in Jobs |-> TXOFF_NIL]
  /\ len = [j \in Jobs |-> 0]
  /\ txdata = [a \in Addr |-> 0]
  /\ freeJobs = 0
  /\ txdataInUse = 0
  /\ head = [u \in Units |-> TXIDX_END]
  /\ held = TXIDX_NIL
  /\ home = [j \in Jobs |-> "free"]
-----------------------------------------------------------------------------
(* The frame is written behind the data in use. *)
Filled(f) ==
  [a \in Addr |-> IF a \in txdataInUse .. txdataInUse + Len(f) - 1
                  THEN f[a - txdataInUse + 1]
                  ELSE txdata[a]]

(* Fault: the room left is not reduced by the data in use. *)
FitsAnyway(f) == Len(f) <= MaxData

Fits(f) == Len(f) <= MaxData - txdataInUse

(* txq_reserveJob and txq_reserveData without txq_commitJob: the caller     *)
(* fills in the head of the free list and walks away from it.              *)
Abandon(f) ==
  /\ held = TXIDX_NIL
  /\ freeJobs # TXIDX_END
  /\ Fits(f)
  /\ len' = [len EXCEPT ![freeJobs] = Len(f)]
  /\ txdata' = Filled(f)
  /\ UNCHANGED <<off, txdataInUse, lists>>

(* txq_reserveJob, txq_reserveData, txq_commitJob *)
Commit(f) ==
  /\ held = TXIDX_NIL
  /\ freeJobs # TXIDX_END
  /\ Fits(f)
  /\ held' = freeJobs
  /\ freeJobs' = next[freeJobs]
  /\ next' = [next EXCEPT ![freeJobs] = TXIDX_NIL]
  /\ home' = [home EXCEPT ![freeJobs] = "held"]
  /\ off' = [off EXCEPT ![freeJobs] = txdataInUse]
  /\ len' = [len EXCEPT ![freeJobs] = Len(f)]
  /\ txdataInUse' = txdataInUse + Len(f)
  /\ txdata' = Filled(f)
  /\ UNCHANGED head

(* Insertion of the held job at a link of unit u: txq_insJob, which        *)
(* s2e_addTxjob spells out in place.                                       *)
InsAtHead(u) ==
  /\ held # TXIDX_NIL
  /\ next' = [next EXCEPT ![held] = head[u]]
  /\ head' = [head EXCEPT ![u] = held]
  /\ home' = [home EXCEPT ![held] = u]
  /\ held' = TXIDX_NIL
  /\ UNCHANGED <<freeJobs, frames>>

InsAfter(j) ==
  /\ held # TXIDX_NIL
  /\ home[j] \in Units
  /\ next' = [next EXCEPT ![held] = next[j], ![j] = held]
  /\ home' = [home EXCEPT ![held] = home[j]]
  /\ held' = TXIDX_NIL
  /\ UNCHANGED <<freeJobs, head, frames>>

(* Fault: the unlinked job keeps its link into the list. *)
UnqKeepsNext(u) ==
  /\ held = TXIDX_NIL
  /\ head[u] # TXIDX_END
  /\ held' = head[u]
  /\ head' = [head EXCEPT ![u] = next[head[u]]]
  /\ home' = [home EXCEPT ![head[u]] = "held"]
  /\ UNCHANGED <<next, freeJobs, frames>>

(* txq_unqJob at the head of unit u and at the next field of a queued job *)
UnqHead(u) ==
  /\ held = TXIDX_NIL
  /\ head[u] # TXIDX_END
  /\ held' = head[u]
  /\ head' = [head EXCEPT ![u] = next[head[u]]]
  /\ next' = [next EXCEPT ![head[u]] = TXIDX_NIL]
  /\ home' = [home EXCEPT ![head[u]] = "held"]
  /\ UNCHANGED <<freeJobs, frames>>

UnqAfter(j) ==
  /\ held = TXIDX_NIL
  /\ home[j] \in Units
  /\ next[j] # TXIDX_END
  /\ held' = next[j]
  /\ next' = [next EXCEPT ![j] = next[next[j]], ![next[j]] = TXIDX_NIL]
  /\ home' = [home EXCEPT ![next[j]] = "held"]
  /\ UNCHANGED <<freeJobs, head, frames>>
-----------------------------------------------------------------------------
U2Sub(a, b) == IF b <= a THEN a - b ELSE U2 + a - b

(* Fault: the last byte of the area is not moved. *)
CopiedShort(dst, src, n) ==
  [a \in Addr |-> IF a \in dst .. dst + n - 2 THEN txdata[a + src - dst] ELSE txdata[a]]

(* memcpy of the n bytes at src down to dst.  The areas overlap as soon as *)
(* n > src - dst, which C leaves undefined: an upward copy moves the bytes, *)
(* a downward copy (as some C libraries do) reads the bytes it overwrote.  *)
Copied(dst, src, n) ==
  LET gap == src - dst
      from(i) == IF Ascending \/ gap = 0 THEN i ELSE i + gap * ((n - 1 - i) \div gap)
  IN  [a \in Addr |-> IF a \in dst .. dst + n - 1
                      THEN txdata[src + from(a - dst)]
                      ELSE txdata[a]]

(* Fault: the frame right behind the one cut out is not shifted. *)
ShiftedBeyond(j, k) ==
  IF off[k] # TXOFF_NIL /\ off[j] + len[j] < off[k] THEN U2Sub(off[k], len[j]) ELSE off[k]

(* The offset of job k after the frame of job j was cut out. *)
Shifted(j, k) ==
  IF off[k] # TXOFF_NIL /\ off[j] <= off[k] THEN U2Sub(off[k], len[j]) ELSE off[k]

FrameEnd(j) == off[j] + len[j]

(* Fault: nothing is done for an empty frame, its offset stays. *)
FreeNoEmpty(j) ==
  IF off[j] = TXOFF_NIL \/ len[j] = 0
  THEN UNCHANGED frames
  ELSE /\ off' = [k \in Jobs |-> IF k = j THEN TXOFF_NIL ELSE Shifted(j, k)]
       /\ txdata' = IF FrameEnd(j) < txdataInUse
                    THEN Copied(off[j], FrameEnd(j), txdataInUse - FrameEnd(j))
                    ELSE txdata
       /\ txdataInUse' = txdataInUse - len[j]
       /\ len' = [len EXCEPT ![j] = 0]

(* txq_freeData *)
FreeData(j) ==
  IF off[j] = TXOFF_NIL
  THEN UNCHANGED frames
  ELSE /\ off' = [k \in Jobs |-> IF k = j THEN TXOFF_NIL ELSE Shifted(j, k)]
       /\ txdata' = IF FrameEnd(j) < txdataInUse
                    THEN Copied(off[j], FrameEnd(j), txdataInUse - FrameEnd(j))
                    ELSE txdata
       /\ txdataInUse' = txdataInUse - len[j]
       /\ len' = [len EXCEPT ![j] = 0]

(* txq_freeJob of the held job *)
FreeJob ==
  /\ held # TXIDX_NIL
  /\ FreeData(held)
  /\ next' = [next EXCEPT ![held] = freeJobs]
  /\ freeJobs' = held
  /\ home' = [home EXCEPT ![held] = "free"]
  /\ held' = TXIDX_NIL
  /\ UNCHANGED head

Frame == UNION {[1 .. n -> Byte] : n \in 0 .. MaxLen}

Next ==
  \/ \E f \in Frame : Abandon(f)
  \/ \E f \in Frame : Commit(f)
  \/ \E u \in Units : InsAtHead(u)
  \/ \E j \in Jobs : InsAfter(j)
  \/ \E u \in Units : UnqHead(u)
  \/ \E j \in Jobs : UnqAfter(j)
  \/ FreeJob

Spec == Init /\ [][Next]_vars
-----------------------------------------------------------------------------
(* Types of the fields of txq_t, with the widths of xq.h. *)
TypeOK ==
  /\ next \in [Jobs -> Idx]
  /\ off \in [Jobs -> 0 .. U2 - 1]
  /\ len \in [Jobs -> 0 .. MaxLen]
  /\ freeJobs \in Idx
  /\ txdataInUse \in 0 .. MaxData
  /\ head \in [Units -> Idx]
  /\ held \in Jobs \cup {TXIDX_NIL}
  /\ home \in [Jobs -> Units \cup {"free", "held"}]

(* Jobs that occupy bytes of txdata (an empty frame occupies none). *)
Filling == {j \in Jobs : off[j] # TXOFF_NIL /\ len[j] > 0}
Bytes(j) == off[j] .. FrameEnd(j) - 1

(* The frames of the jobs tile txdata up to txdataInUse: no two frames     *)
(* share a byte, none reaches beyond, and no byte in use is lost.          *)
DataTiled ==
  /\ \A j \in Filling : FrameEnd(j) <= txdataInUse
  /\ \A j, k \in Filling : j # k => FrameEnd(j) <= off[k] \/ FrameEnd(k) <= off[j]
  /\ \A a \in 0 .. txdataInUse - 1 : \E j \in Filling : a \in Bytes(j)

(* The links: list heads and next fields that name a job. *)
Chained(i, h) == i \in Jobs => home[i] = h

(* Lists never run into each other: a link of a list only ever names a job *)
(* of this list, and no job is named by two links.                         *)
ListsDisjoint ==
  /\ freeJobs # TXIDX_NIL /\ Chained(freeJobs, "free")
  /\ \A u \in Units : head[u] # TXIDX_NIL /\ Chained(head[u], u)
  /\ \A j \in Jobs : Chained(next[j], home[j])
  /\ \A j \in Jobs : (next[j] = TXIDX_NIL) <=> (home[j] = "held")
  /\ \A j \in Jobs : (home[j] = "held") <=> (j = held)
  /\ \A j \in Jobs : next[j] \in Jobs =>
       /\ next[j] # freeJobs
       /\ \A u \in Units : next[j] # head[u]
       /\ \A k \in Jobs : k # j => next[k] # next[j]

(* The asserts of xq.c: a job taken from the free list carries no frame. *)
FreeHasNoFrame == \A j \in Jobs : home[j] = "free" => off[j] = TXOFF_NIL

(* The jobs on the list that starts at link i with the next fields nx, in order. *)
Chain(i, nx) ==
  LET nth[n \in Nat] == IF n = 0 THEN i
                        ELSE LET p == nth[n - 1] IN IF p \in Jobs THEN nx[p] ELSE p
      size == Cardinality({n \in 0 .. MaxJobs : nth[n] \in Jobs})
  IN  [n \in 1 .. size |-> nth[n - 1]]

(* What a client sees of the store *)
FrameOf(j) == [n \in 1 .. len[j] |-> txdata[off[j] + n - 1]]

(* A frame stays as it was committed while its job is in use, whatever is  *)
(* committed or freed around it and wherever compaction moves it to.       *)
FramesPreserved ==
  [][\A j \in Jobs : home[j] # "free" /\ home'[j] # "free" => FrameOf(j)' = FrameOf(j)]_vars

Store == INSTANCE TxStore WITH
  Slots <- Jobs,
  NoJob <- TXIDX_NIL,
  free  <- {Chain(freeJobs, next)[n] : n \in DOMAIN Chain(freeJobs, next)},
  frame <- [j \in Jobs |-> IF home[j] = "free" THEN <<>> ELSE FrameOf(j)],
  queue <- [u \in Units |-> Chain(head[u], next)]

(* The store of xq.c keeps the promises of TxStore: in particular freeing  *)
(* one job (freeData, with its compaction) leaves the frame of every other *)
(* job as it was committed, and no job is lost from a list (the census of  *)
(* selftest_xq.c): what leaves the free list or a queue is in the hands of *)
(* the engine, and comes back.                                             *)
ImplementsStore == Store!Spec
=============================================================================
