----------------------------- MODULE MCAuditLog -----------------------------
(***************************************************************************)
(* Small instances of the audit log for TLC.                               *)
(***************************************************************************)
EXTENDS AuditLog, TLC

CONSTANTS w1, w2

MCWriters == {w1, w2}
Symmetry == Permutations(MCWriters)
=============================================================================
