-------------------------- MODULE MCClassification --------------------------
(* A small instance of Classification for TLC. *)
EXTENDS Classification
=============================================================================
