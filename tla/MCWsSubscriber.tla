--------------------------- MODULE MCWsSubscriber ---------------------------
(* Model-checking instance of WsSubscriber. *)
EXTENDS WsSubscriber
=============================================================================
