--------------------------- MODULE DeepGraphProofs ---------------------------
(***************************************************************************)
(* Theorems about DeepGraph, for every corpus, evidence size and repair    *)
(* budget, with and without a reranker.                                    *)
(***************************************************************************)
EXTENDS DeepGraph, TLAPS

\* What a search can leave as evidence is a sequence of passages.
LEMMA ArrangementsAreSeqs ==
  ASSUME NEW S, NEW s \in Arrangements(S)
  PROVE  s \in Seq(S) /\ Len(s) \in Nat
BY DEF Arrangements

LEMMA FirstIsSeq ==
  ASSUME NEW S, NEW s \in Seq(S), NEW k \in Nat
  PROVE  First(s, k) \in Seq(S)
BY DEF First

LEMMA SearchFrame ==
  ASSUME Search
  PROVE  /\ Enter("search", "write")
         /\ UNCHANGED <<draft, drafts, claims, verified, budgets, outcome>>
BY DEF Search

LEMMA SearchEvidence ==
  ASSUME TypeOK, Search
  PROVE  evidence' \in Seq(Passages) /\ fresh' \subseteq Passages
<1>1. PICK found \in Arrangements(Passages \ PassagesOf(evidence)) :
        /\ fresh' = PassagesOf(found)
        /\ IF Reranking
             THEN evidence' \in {First(s, Keep) :
                    s \in {t \in Arrangements(PassagesOf(evidence \o found)) :
                             Len(t) = Len(evidence \o found)}}
             ELSE evidence' = First(evidence \o found, Keep)
  BY DEF Search
<1>2. found \in Seq(Passages)
  BY ArrangementsAreSeqs
<1>3. evidence \o found \in Seq(Passages)
  BY <1>2 DEF TypeOK
<1>4. PassagesOf(found) \subseteq Passages /\ PassagesOf(evidence \o found) \subseteq Passages
  BY <1>2, <1>3 DEF PassagesOf
<1>5. \A s \in Arrangements(PassagesOf(evidence \o found)) : s \in Seq(Passages)
  BY <1>4, ArrangementsAreSeqs
<1>6. Keep \in Nat
  BY ConstantsAssumption
<1> QED
  BY <1>1, <1>3, <1>4, <1>5, <1>6, FirstIsSeq

LEMMA RouteTargets ==
  ASSUME NEW c \in SUBSET Verdicts
  PROVE  /\ Route(c) \in {"search_repair", "write_repair", "replan", "deliver", "abstain"}
         /\ Route(c) = "search_repair" => searchRepairs < MaxSearchRepairs
         /\ Route(c) = "write_repair" => writeRepairs < MaxWriteRepairs
         /\ Route(c) = "replan" => ~(replans >= MaxReplans)
         /\ Route(c) = "deliver" =>
              /\ ~Searchable(c) /\ ~Rewritable(c)
              /\ Settled(c) \/ Exhausted \/ replans >= MaxReplans
BY DEF Route, Searchable, Rewritable, Settled, Exhausted

LEMMA GraphInvInit == Init => GraphInv
BY ConstantsAssumption
   DEF Init, GraphInv, TypeOK, Nodes, StepsInv, Spent, BudgetInv, DraftInv,
       DeliveredTogether, FlagsShipOnlyExhausted

LEMMA TypeStep == GraphInv /\ Next => TypeOK'
<1> SUFFICES ASSUME GraphInv, Next PROVE TypeOK'
  OBVIOUS
<1> USE ConstantsAssumption DEF GraphInv, TypeOK, Enter, Nodes, budgets
<1>1. CASE Plan
  BY <1>1 DEF Plan
<1>2. CASE Search
  BY <1>2, SearchEvidence, SearchFrame
<1>3. CASE Write
  BY <1>3 DEF Write
<1>4. CASE Verify
  BY <1>4, RouteTargets DEF Verify
<1>5. CASE BeforeSearchRepair
  BY <1>5 DEF BeforeSearchRepair, BudgetInv
<1>6. CASE BeforeWriteRepair
  BY <1>6 DEF BeforeWriteRepair, BudgetInv
<1>7. CASE BeforeReplan
  BY <1>7 DEF BeforeReplan, BudgetInv
<1>8. CASE Deliver
  BY <1>8 DEF Deliver
<1>9. CASE Abstain
  BY <1>9 DEF Abstain
<1>10. CASE Raise
  BY <1>10 DEF Raise
<1> QED
  BY <1>1, <1>2, <1>3, <1>4, <1>5, <1>6, <1>7, <1>8, <1>9, <1>10 DEF Next, Work

LEMMA GraphInvStep == GraphInv /\ [Next]_vars => GraphInv'
<1> SUFFICES ASSUME GraphInv, Next PROVE GraphInv'
  <2>1. ASSUME GraphInv, UNCHANGED vars PROVE GraphInv'
    <3>1. (TypeOK /\ BudgetInv /\ DraftInv /\ DeliveredTogether /\ FlagsShipOnlyExhausted)'
      BY <2>1 DEF GraphInv, TypeOK, BudgetInv, DraftInv, DeliveredTogether,
                  FlagsShipOnlyExhausted, vars, budgets
    <3>2. StepsInv'
      BY <2>1 DEF GraphInv, StepsInv, Spent, vars, budgets
    <3> QED
      BY <2>1, <3>1, <3>2 DEF GraphInv, vars
  <2> QED
    BY <2>1
<1>1. TypeOK'
  BY TypeStep
<1>2. (StepsInv /\ BudgetInv)'
  <2> USE DEF GraphInv, TypeOK, StepsInv, Spent, BudgetInv, Enter, budgets
  <2>1. CASE Plan \/ Search \/ Write
    <3>1. /\ \/ node = "plan" /\ node' = "search"
             \/ node = "search" /\ node' = "write"
             \/ node = "write" /\ node' = "verify"
          /\ steps' = steps + 1 /\ UNCHANGED budgets
      BY <2>1, SearchFrame DEF Plan, Write
    <3> QED
      BY <3>1
  <2>2. CASE Verify
    BY <2>2, RouteTargets, ConstantsAssumption DEF Verify
  <2>3. CASE BeforeSearchRepair
    BY <2>3 DEF BeforeSearchRepair
  <2>4. CASE BeforeWriteRepair
    BY <2>4 DEF BeforeWriteRepair
  <2>5. CASE BeforeReplan
    BY <2>5 DEF BeforeReplan
  <2>6. CASE Deliver \/ Abstain
    BY <2>6 DEF Deliver, Abstain
  <2>7. CASE Raise
    BY <2>7 DEF Raise
  <2> QED
    BY <2>1, <2>2, <2>3, <2>4, <2>5, <2>6, <2>7 DEF Next, Work
<1>3. DraftInv'
  BY RouteTargets
     DEF GraphInv, DraftInv, Next, Work, Plan, Search, Write, Verify, BeforeSearchRepair,
         BeforeWriteRepair, BeforeReplan, Deliver, Abstain, Raise, Enter, budgets
<1>4. outcome' # "none" => node' = "end"
  BY DEF GraphInv, Next, Work, Plan, Search, Write, Verify, BeforeSearchRepair,
         BeforeWriteRepair, BeforeReplan, Deliver, Abstain, Raise, Enter, budgets
<1>5. DeliveredTogether'
  BY DEF GraphInv, DraftInv, DeliveredTogether, Next, Work, Plan, Search, Write, Verify,
         BeforeSearchRepair, BeforeWriteRepair, BeforeReplan, Deliver, Abstain, Raise,
         Enter, budgets
<1>6. FlagsShipOnlyExhausted'
  <2>1. CASE Verify
    <3>1. PICK c \in SUBSET Verdicts : claims' = c /\ node' = Route(c)
      BY <2>1 DEF Verify, Enter
    <3>2. outcome' # "delivered" /\ UNCHANGED budgets
      BY <2>1 DEF Verify, Enter, GraphInv
    <3> QED
      BY <3>1, <3>2, RouteTargets, ConstantsAssumption
         DEF GraphInv, TypeOK, budgets, FlagsShipOnlyExhausted, Searchable, Rewritable,
             Settled, Exhausted
  <2>2. CASE Deliver
    BY <2>2 DEF GraphInv, FlagsShipOnlyExhausted, Deliver, Enter, budgets
  <2>3. CASE ~Verify /\ ~Deliver
    BY <2>3 DEF GraphInv, FlagsShipOnlyExhausted, Next, Work, Plan, Search, Write,
         BeforeSearchRepair, BeforeWriteRepair, BeforeReplan, Abstain, Raise, Enter
  <2> QED
    BY <2>1, <2>2, <2>3
<1> QED
  BY <1>1, <1>2, <1>3, <1>4, <1>5, <1>6 DEF GraphInv

LEMMA GraphInvCorrect == Spec => []GraphInv
BY GraphInvInit, GraphInvStep, PTL DEF Spec

\* The types hold: budgets are never overspent and a search leaves passages.
THEOREM GraphTypeCorrect == Spec => []TypeOK
<1>1. GraphInv => TypeOK
  BY DEF GraphInv
<1> QED
  BY <1>1, GraphInvCorrect, PTL

\* However the verdicts fall, a run stays within the longest one the budgets
\* allow, hence within any recursion limit that leaves room for it.
THEOREM WithinRecursionLimitCorrect == Spec => []WithinRecursionLimit
<1>1. GraphInv => WithinRecursionLimit
  BY ConstantsAssumption
     DEF GraphInv, TypeOK, StepsInv, Spent, LongestRun, WithinRecursionLimit
<1> QED
  BY <1>1, GraphInvCorrect, PTL

\* A delivered draft cites the delivered evidence and is the one verified.
THEOREM DeliveredTogetherCorrect == Spec => []DeliveredTogether
<1>1. GraphInv => DeliveredTogether
  BY DEF GraphInv
<1> QED
  BY <1>1, GraphInvCorrect, PTL

\* Flagged claims are shipped only when the repairs are exhausted.
THEOREM FlagsShipOnlyExhaustedCorrect == Spec => []FlagsShipOnlyExhausted
<1>1. GraphInv => FlagsShipOnlyExhausted
  BY DEF GraphInv
<1> QED
  BY <1>1, GraphInvCorrect, PTL
=============================================================================
