------------------------------- MODULE RxFifo -------------------------------
(***************************************************************************)
(* What the receive store of the station promises to the radio layer and   *)
(* to the connection to the network server: frames leave in the order they *)
(* came in, a frame seen twice on neighbouring channels is kept once, in   *)
(* its clearer reception, and the store refuses a frame if and only if it  *)
(* is full.  RxQ.tla describes the store of xq.c and implements this module.  *)
(***************************************************************************)
EXTENDS Integers, Sequences, SequencesExt

CONSTANTS
  Frames,      \* received frames: [dr, data, sig]
  Full(_)      \* does a store with these frames refuse a new one?

VARIABLES
  fifo,        \* the frames not yet handed on
  out,         \* the frame handed on last, or None
  open         \* does the store take a frame?

None == [dr |-> -1, data |-> <<>>, sig |-> 0]

Mirror(f, g) == f.dr = g.dr /\ f.data = g.data

Init == fifo = <<>> /\ out = None /\ open = TRUE

(* A frame arrives: the first mirror of it that is waiting decides. *)
Receive(f) ==
  /\ open
  /\ LET mirror(g) == Mirror(f, g)
         i == SelectInSeq(fifo, mirror)
     IN  fifo' = IF i = 0 THEN Append(fifo, f)
                 ELSE IF f.sig > fifo[i].sig THEN Append(RemoveAt(fifo, i), f)
                 ELSE fifo
  /\ open' = ~Full(fifo')
  /\ UNCHANGED out

(* The oldest frame goes to the server or fails its checks. *)
HandOn ==
  /\ fifo # <<>>
  /\ fifo' = Tail(fifo)
  /\ out' \in {Head(fifo), out}
  /\ open' = ~Full(fifo')

Next == (\E f \in Frames : Receive(f)) \/ HandOn

Spec == Init /\ [][Next]_<<fifo, out, open>>
=============================================================================
