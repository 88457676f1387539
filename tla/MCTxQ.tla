------------------------------- MODULE MCTxQ -------------------------------
(***************************************************************************)
(* Instances of the transmit store: a pool of three jobs for two TX units  *)
(* and three bytes of txdata, so that the pool and the area run full, a    *)
(* freed frame has frames above and below it, and frames of length 0, 1    *)
(* and 2 mix.                                                              *)
(***************************************************************************)
EXTENDS TxQ
=============================================================================
