----------------------------- MODULE MCAuditEdits -----------------------------
(* TLC instances of AuditEdits. *)
EXTENDS AuditEdits
==============================================================================
