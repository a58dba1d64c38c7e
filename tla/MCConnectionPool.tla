-------------------------- MODULE MCConnectionPool --------------------------
(* Model-checking instance of ConnectionPool. *)
EXTENDS ConnectionPool
=============================================================================
