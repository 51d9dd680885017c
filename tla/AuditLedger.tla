----------------------------- MODULE AuditLedger -----------------------------
(***************************************************************************)
(* What a compliance audit promises, seen from outside: a job that is      *)
(* accepted, maps its regulation once, answers the requirements of that    *)
(* map in order, one finding each, and is completed only when all of them  *)
(* are answered.  What has been answered is never lost, changed or         *)
(* answered again, whatever happens to the process that does the work.     *)
(* Module ComplianceAudit implements this specification.                   *)
(***************************************************************************)
EXTENDS Naturals, Sequences

CONSTANTS
  Audits,        \* audit ids
  Maps           \* what a regulation may ask for: sequences of requirements

VARIABLES
  phase,         \* where each audit is in its life
  plan,          \* the requirements it has to answer, in order
  answers        \* the requirements it has answered, in order

vars == <<phase, plan, answers>>

Init ==
  /\ phase = [a \in Audits |-> "none"]
  /\ plan = [a \in Audits |-> <<>>]
  /\ answers = [a \in Audits |-> <<>>]

Accept(a) ==
  /\ phase[a] = "none"
  /\ phase' = [phase EXCEPT ![a] = "active"]
  /\ UNCHANGED <<plan, answers>>

\* A plan, once it asks for anything, is final.
Map(a, m) ==
  /\ phase[a] = "active" /\ plan[a] = <<>>
  /\ plan' = [plan EXCEPT ![a] = m]
  /\ UNCHANGED <<phase, answers>>

Answer(a) ==
  LET n == Len(answers[a]) + 1 IN
  /\ phase[a] = "active" /\ n <= Len(plan[a])
  /\ answers' = [answers EXCEPT ![a] = Append(@, plan[a][n])]
  /\ UNCHANGED <<phase, plan>>

Complete(a) ==
  /\ phase[a] = "active" /\ answers[a] = plan[a]
  /\ phase' = [phase EXCEPT ![a] = "completed"]
  /\ UNCHANGED <<plan, answers>>

Abandon(a) ==
  /\ phase[a] = "active"
  /\ phase' = [phase EXCEPT ![a] = "failed"]
  /\ UNCHANGED <<plan, answers>>

Next ==
  \E a \in Audits :
    \/ Accept(a) \/ Answer(a) \/ Complete(a) \/ Abandon(a)
    \/ \E m \in Maps : Map(a, m)

Spec == Init /\ [][Next]_vars
=============================================================================
