----------------------------- MODULE MCMetrics -----------------------------
(* Model-checking instance of Metrics. *)
EXTENDS Metrics
=============================================================================
