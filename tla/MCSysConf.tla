----------------------------- MODULE MCSysConf -----------------------------
(***************************************************************************)
(* Instances of the configuration files: one file stands for a credential. *)
(* The offers: a whole set for CUPS and a part of one for TC, the rest of  *)
(* it for TC alone, and none.                                              *)
(***************************************************************************)
EXTENDS SysConf

Offer(cups, tc) == [c \in Cats |-> IF c = "cups" THEN cups ELSE tc]
News == {Offer({"uri", "cred"}, {"uri"}), Offer({}, {"cred"}), Offer({}, {})}
=============================================================================
