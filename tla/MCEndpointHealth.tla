-------------------------- MODULE MCEndpointHealth --------------------------
(* Small instances of EndpointHealth for TLC; liveness rules out symmetry. *)
EXTENDS EndpointHealth
=============================================================================
