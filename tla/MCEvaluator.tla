----------------------------- MODULE MCEvaluator -----------------------------
(* Evaluator with all requests on one stream. *)
EXTENDS Evaluator

MCStream == [r \in Requests |-> "a"]

=============================================================================
