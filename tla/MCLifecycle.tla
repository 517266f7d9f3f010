----------------------------- MODULE MCLifecycle -----------------------------
(***************************************************************************)
(* Lifecycle for TLC: functions and workers are model values, Mangle keeps *)
(* their names apart.                                                      *)
(***************************************************************************)
EXTENDS Lifecycle, TLC

DistinctNames == [f \in Functions |-> f]

Symmetry == Permutations(Workers) \cup Permutations(Functions)
=============================================================================
