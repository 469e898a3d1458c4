---------------------------- MODULE MCAuditIndex ----------------------------
(* Small instances of AuditIndex for TLC. *)
EXTENDS AuditIndex, TLC
=============================================================================
