---------------------------- MODULE MCAuditEdit ----------------------------
(* Instances of AuditEdit for TLC. *)
EXTENDS AuditEdit

CONSTANTS a, b

MCEvents == {a, b}
=============================================================================
