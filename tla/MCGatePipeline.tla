---------------------------- MODULE MCGatePipeline ----------------------------
(* TLC instances of GatePipeline. *)
EXTENDS GatePipeline, TLC

Symmetry == Permutations(Checks)

\* Unset (negative), under the floor, and over the default.
Cooldowns == {-1, 0, 3}
==============================================================================
