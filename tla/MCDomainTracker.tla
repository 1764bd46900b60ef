-------------------------- MODULE MCDomainTracker ---------------------------
(* Small instances of DomainTracker for TLC. *)
EXTENDS DomainTracker, TLC

TrackerSymmetry ==
  Permutations(Recorders) \cup Permutations(Readers) \cup Permutations(Entries)
=============================================================================
