------------------------------ MODULE MCWsConn ------------------------------
(***************************************************************************)
(* A send buffer for two or three frames with headers of both sizes.       *)
(***************************************************************************)
EXTENDS WsConn
=============================================================================
