---------------------------- MODULE MCUniformRows ----------------------------
(* Model-checking instance of UniformRows. *)
EXTENDS UniformRows
=============================================================================
