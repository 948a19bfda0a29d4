------------------------------ MODULE MCErrors ------------------------------
(***************************************************************************)
(* Errors on small instances: errors that wrap errors of other slabs, and  *)
(* slabs that are dropped, reclaimed and zeroed again.                     *)
(***************************************************************************)
EXTENDS Errors, TLC

Symmetry == Permutations(Goroutines) \union Permutations(SlabIds) \union Permutations(Sites)
============================================================================
