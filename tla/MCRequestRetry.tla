--------------------------- MODULE MCRequestRetry ---------------------------
(* Small instances of RequestRetry for TLC; liveness rules out symmetry. *)
EXTENDS RequestRetry
=============================================================================
