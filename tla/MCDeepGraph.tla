----------------------------- MODULE MCDeepGraph -----------------------------
(* The deep-search graph on small instances, with the budgets of the code. *)
EXTENDS DeepGraph, TLC
=============================================================================
