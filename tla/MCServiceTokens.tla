--------------------------- MODULE MCServiceTokens ---------------------------
(* Model-checking instance of ServiceTokens. *)
EXTENDS ServiceTokens
=============================================================================
