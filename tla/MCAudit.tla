-------------------------------- MODULE MCAudit -------------------------------
(* One export, in pages of two over at most five records: exports only read, *)
(* so they do not see each other.                                            *)
EXTENDS AuditTrail

CONSTANT x1
===============================================================================
