--------------------------- MODULE MCSessionPool ---------------------------
(* Small instances of SessionPool for TLC; liveness rules out symmetry. *)
EXTENDS SessionPool
=============================================================================
