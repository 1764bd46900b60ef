------------------------- MODULE MCCooldownDuration -------------------------
(* CooldownDuration on a Duration of few bits, for TLC. *)
EXTENDS CooldownDuration
=============================================================================
