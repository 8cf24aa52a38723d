----------------------------- MODULE MCAuditLog -----------------------------
(* Instances of AuditLog for TLC. *)
EXTENDS AuditLog, TLC

CONSTANTS p1, p2, a, b

MCProcs == {p1, p2}
\* Exceptions in one process only, while nobody else appends.
Alone == {{p} : p \in MCProcs}
AnyWriters == SUBSET MCProcs
Never == {}
MCEvents == {a, b}
=============================================================================
