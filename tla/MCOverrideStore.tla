--------------------------- MODULE MCOverrideStore ---------------------------
(* TLC instances of OverrideStore. *)
EXTENDS OverrideStore, TLC

Symmetry == Permutations(Writers) \cup Permutations(Keys)
==============================================================================
