------------------------------ MODULE TxStore ------------------------------
(***************************************************************************)
(* What the transmit store of the station promises to its only client, the *)
(* s2e message engine, whatever the layout of its memory: a bounded pool   *)
(* of transmit jobs, each carrying one frame that nobody disturbs until    *)
(* the job is released, and one ordered queue of jobs per TX unit.         *)
(* TxQ.tla describes the store of xq.c and implements this module.         *)
(***************************************************************************)
EXTENDS Naturals, Sequences

CONSTANTS
  Units,      \* the TX units (radio/antenna chains)
  Slots,      \* the jobs of the pool
  Byte,       \* the values of a byte of a frame
  NoJob       \* the engine holds no job

VARIABLES
  free,       \* the jobs not in use
  frame,      \* the frame each job carries
  queue,      \* queue[u]: the jobs waiting for TX unit u, in order
  held        \* the job the engine took out of the pool or out of a queue

vars == <<free, frame, queue, held>>

Front(s, k) == SubSeq(s, 1, k)
Back(s, k)  == SubSeq(s, k + 1, Len(s))

Init ==
  /\ free = Slots
  /\ frame = [j \in Slots |-> <<>>]
  /\ queue = [u \in Units |-> <<>>]
  /\ held  = NoJob

(* A free job takes in a frame and is handed to the engine. *)
Accept(j) ==
  /\ held = NoJob
  /\ free' = free \ {j}
  /\ frame'[j] \in Seq(Byte)
  /\ frame' = [frame EXCEPT ![j] = frame'[j]]
  /\ held' = j
  /\ UNCHANGED queue

(* The engine enters the job it holds after the first k jobs of a queue. *)
Enqueue(u, k) ==
  /\ held # NoJob
  /\ queue' = [queue EXCEPT ![u] = Front(@, k) \o <<held>> \o Back(@, k)]
  /\ held' = NoJob
  /\ UNCHANGED <<free, frame>>

(* The engine takes the job after the first k jobs out of a queue. *)
Dequeue(u, k) ==
  /\ held = NoJob
  /\ held' = queue[u][k + 1]
  /\ queue' = [queue EXCEPT ![u] = Front(@, k) \o Back(@, k + 1)]
  /\ UNCHANGED <<free, frame>>

(* The job the engine holds goes back to the pool, its frame is gone. *)
Release ==
  /\ held # NoJob
  /\ free' = free \cup {held}
  /\ frame' = [frame EXCEPT ![held] = <<>>]
  /\ held' = NoJob
  /\ UNCHANGED queue

Next ==
  \/ \E j \in free : Accept(j)
  \/ \E u \in Units : \E k \in 0 .. Len(queue[u]) : Enqueue(u, k)
  \/ \E u \in Units : \E k \in 0 .. Len(queue[u]) - 1 : Dequeue(u, k)
  \/ Release

Spec == Init /\ [][Next]_vars
=============================================================================
