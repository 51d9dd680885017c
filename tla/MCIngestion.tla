----------------------------- MODULE MCIngestion -----------------------------
(* Ingestion on small instances.                                           *)
EXTENDS Ingestion, TLC

Symmetry == Permutations(Requests)
=============================================================================
