----------------------------- MODULE MCAuditLog -----------------------------
(***************************************************************************)
(* A small instance of the audit adapters.                                 *)
(***************************************************************************)
EXTENDS SubstrateAudit, TLC

OneOfEach == [b \in Budgets |-> 1]
=============================================================================
