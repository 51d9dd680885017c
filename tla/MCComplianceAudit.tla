-------------------------- MODULE MCComplianceAudit --------------------------
(* Compliance audits on small instances.                                   *)
EXTENDS ComplianceAudit, TLC

Symmetry == Permutations(Audits)
=============================================================================
