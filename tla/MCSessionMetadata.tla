------------------------- MODULE MCSessionMetadata -------------------------
(* Model-checking instance of SessionMetadata. *)
EXTENDS SessionMetadata, TLC
Symmetry == Permutations(Handlers) \cup Permutations(Keys)
=============================================================================
