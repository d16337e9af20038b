--------------------------- MODULE MCAlertEvaluator ---------------------------
(* AlertEvaluator on small instances. *)
EXTENDS AlertEvaluator
=============================================================================
