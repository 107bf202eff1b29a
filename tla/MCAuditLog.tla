------------------------------ MODULE MCAuditLog ------------------------------
(* TLC instances of AuditLog. *)
EXTENDS AuditLog, TLC

Symmetry == Permutations(Procs) \cup Permutations(Data)
==============================================================================
