------------------------- MODULE MCSessionLifecycle -------------------------
(* Model-checking instance of SessionLifecycle: two or three handlers race  *)
(* for one session.                                                         *)
EXTENDS SessionLifecycle
=============================================================================
