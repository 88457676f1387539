----------------------------- MODULE MCTxSched -----------------------------
(***************************************************************************)
(* Instances of the transmit scheduler.  One unit of time is 10 ms or so:  *)
(* a gap of one or two units between frames of two or three units.         *)
(***************************************************************************)
EXTENDS TxSched

CONSTANTS f1, f2

Frames == [c \in {f1, f2} |-> IF c = f1 THEN 2 ELSE 3]
Bands  == [c \in {f1, f2} |-> "centi"]
Rates  == [b \in {"centi"} |-> 3]
Both   == [u \in Units |-> Units \ {u}]
None   == [u \in Units |-> {}]

Jitter == {-1, 0, 1}

Ask(cls, rctx, lead, chnl, chnl2, prio, deveui) ==
  [cls |-> cls, rctx |-> rctx, lead |-> lead, chnl |-> chnl, chnl2 |-> chnl2,
   prio |-> prio, deveui |-> deveui]

(* Class A frames with both windows and with one, early and late *)
ClassA == {Ask("A", 0, 3, f1, f2, 5, TRUE), Ask("A", 0, 1, f1, f2, 0, TRUE),
           Ask("P", 1, 4, f2, NoChnl, 20, FALSE)}

(* Class C frames, answers and spontaneous ones, between ping slots *)
ClassC == {Ask("C", 0, 3, f1, f2, 5, TRUE), Ask("C", 0, 0, NoChnl, f2, 0, TRUE),
           Ask("P", 0, 5, f1, NoChnl, 0, FALSE)}

(* Class A and C frames on two units, with a ping slot in between *)
Mixed == {Ask("A", 0, 1, f1, f2, 5, TRUE), Ask("C", 0, 0, NoChnl, f2, 0, TRUE),
          Ask("P", 1, 4, f2, NoChnl, 20, FALSE)}
=============================================================================
