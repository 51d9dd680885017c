-------------------------- MODULE MCDocumentAccess --------------------------
(* Document access on small instances: two users and an administrator.     *)
EXTENDS DocumentAccess, TLC

Symmetry == Permutations(Requests) \cup Permutations(Docs)
=============================================================================
