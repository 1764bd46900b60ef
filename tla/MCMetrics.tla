----------------------------- MODULE MCMetrics ------------------------------
(* Small instances of Metrics for TLC. *)
EXTENDS Metrics, TLC

(* No penalty, and DefaultBlockPenalty.                                    *)
MCPenalties == {<<1, 1>>, <<1, 10>>}

WorkerSymmetry == Permutations(Workers)
=============================================================================
