---------------------------- MODULE MCSuspension ----------------------------
(* Suspension with one eviction executor alive at a time, or two.           *)
EXTENDS Suspension, TLC

Symmetry == Permutations(Fires) \cup Permutations(Evictors)
=============================================================================
