------------------------------ MODULE DeepGraph ------------------------------
(***************************************************************************)
(* The deep-search graph (agents/graph.py, agents/state.py): plan, search, *)
(* write, verify, and the repairs the verifier's verdicts route to.        *)
(*                                                                         *)
(* One action per node; a conditional edge is taken in the step of the     *)
(* node it leaves, as LangGraph takes it.  What a model answers is any set *)
(* of verdicts; what a search finds is any sequence of passages that are   *)
(* not in the evidence yet.  A draft is known by the evidence it was       *)
(* written from, because that is what its [n] citations count into.        *)
(***************************************************************************)
EXTENDS Naturals, Sequences, FiniteSets

CONSTANTS
  Passages,          \* the chunks the caller may retrieve
  Keep,              \* passages a search keeps (k=10, merged[:10])
  Reranking,         \* settings.reranker_provider is not "none"
  MaxSearchRepairs, MaxWriteRepairs, MaxReplans,   \* state.py
  RecursionLimit     \* LangGraph's limit on the nodes of one run

\* A first pass is plan, search, write, verify and a last node; a repair adds
\* its own node and what follows it.
LongestRun == 5 + 4 * MaxSearchRepairs + 3 * MaxWriteRepairs + 5 * MaxReplans

ASSUME ConstantsAssumption ==
  /\ IsFiniteSet(Passages)
  /\ Keep \in Nat \ {0}
  /\ Reranking \in BOOLEAN
  /\ MaxSearchRepairs \in Nat /\ MaxWriteRepairs \in Nat /\ MaxReplans \in Nat
  /\ RecursionLimit \in Nat /\ RecursionLimit >= LongestRun

VARIABLES
  node,           \* the node that runs next, "end" or "raised"
  steps,          \* nodes run so far
  evidence,       \* numbered as the writer cites it
  fresh,          \* what the last search found beyond the evidence it had
  draft,          \* the evidence the draft was written from
  drafts,         \* how many drafts have been written
  claims,         \* the verdicts of the verifier, {} when it returned none
  verified,       \* the draft those verdicts are about
  searchRepairs, writeRepairs, replans,
  outcome         \* "none" while the graph runs ("" in the code)

vars == <<node, steps, evidence, fresh, draft, drafts, claims, verified,
          searchRepairs, writeRepairs, replans, outcome>>
budgets == <<searchRepairs, writeRepairs, replans>>

Verdicts == {"supported", "misattributed", "unsupported", "unanswerable"}
Nodes == {"plan", "search", "write", "verify", "search_repair", "write_repair",
          "replan", "deliver", "abstain"}

PassagesOf(s) == {s[i] : i \in 1..Len(s)}

\* The sequences without repetition over a set.
Arrangements(S) ==
  UNION {{s \in [1..n -> S] : \A i, j \in 1..n : s[i] = s[j] => i = j} :
           n \in 0..Cardinality(S)}

First(s, k) == SubSeq(s, 1, IF Len(s) < k THEN Len(s) ELSE k)

Init ==
  /\ node = "plan" /\ steps = 0
  /\ evidence = <<>> /\ fresh = {}
  /\ draft = <<>> /\ drafts = 0
  /\ claims = {} /\ verified = 0
  /\ searchRepairs = 0 /\ writeRepairs = 0 /\ replans = 0
  /\ outcome = "none"

-----------------------------------------------------------------------------
(* Nodes.                                                                  *)

Enter(from, to) == node = from /\ node' = to /\ steps' = steps + 1

\* An unparseable plan is the question itself.
Plan ==
  /\ Enter("plan", "search")
  /\ UNCHANGED <<evidence, fresh, draft, drafts, claims, verified, budgets, outcome>>

\* Mutant: a repaired search goes back to the verifier with the old draft.
SearchKeepsDraft ==
  /\ Enter("search", IF drafts = 0 THEN "write" ELSE "verify")
  /\ \E found \in Arrangements(Passages \ PassagesOf(evidence)) :
       fresh' = PassagesOf(found) /\ evidence' = First(evidence \o found, Keep)
  /\ UNCHANGED <<draft, drafts, claims, verified, budgets, outcome>>

\* setdefault keeps what was there first; without a reranker so does the cut.
Search ==
  /\ Enter("search", "write")
  /\ \E found \in Arrangements(Passages \ PassagesOf(evidence)) :
       LET merged == evidence \o found IN
       /\ fresh' = PassagesOf(found)
       /\ IF Reranking
            THEN evidence' \in {First(s, Keep) : s \in {t \in Arrangements(PassagesOf(merged)) :
                                                          Len(t) = Len(merged)}}
            ELSE evidence' = First(merged, Keep)
  /\ UNCHANGED <<draft, drafts, claims, verified, budgets, outcome>>

Write ==
  /\ Enter("write", "verify")
  /\ draft' = evidence /\ drafts' = drafts + 1
  /\ UNCHANGED <<evidence, fresh, claims, verified, budgets, outcome>>

Searchable(c) == "unsupported" \in c /\ searchRepairs < MaxSearchRepairs
Rewritable(c) == "misattributed" \in c /\ writeRepairs < MaxWriteRepairs
Settled(c) == c \subseteq {"supported", "unanswerable"}
Exhausted == searchRepairs >= MaxSearchRepairs /\ writeRepairs >= MaxWriteRepairs

Route(c) ==
  CASE c = {"unanswerable"} -> "abstain"
    [] Searchable(c) -> "search_repair"
    [] Rewritable(c) /\ ~Searchable(c) -> "write_repair"
    [] Settled(c) /\ c # {"unanswerable"} -> "deliver"
    [] OTHER -> IF Exhausted \/ replans >= MaxReplans THEN "deliver" ELSE "replan"

\* No claim at all, also when the reply cannot be parsed, delivers the draft.
Verify ==
  \E c \in SUBSET Verdicts :
    /\ Enter("verify", Route(c))
    /\ claims' = c /\ verified' = drafts
    /\ UNCHANGED <<evidence, fresh, draft, drafts, budgets, outcome>>

BeforeSearchRepair ==
  /\ Enter("search_repair", "search")
  /\ searchRepairs' = searchRepairs + 1 /\ claims' = {}
  /\ UNCHANGED <<evidence, fresh, draft, drafts, verified, writeRepairs, replans, outcome>>

\* Mutant: a repair without its edge, which ends the run.
BeforeWriteRepairNoEdge ==
  /\ Enter("write_repair", "end")
  /\ writeRepairs' = writeRepairs + 1 /\ claims' = {}
  /\ UNCHANGED <<evidence, fresh, draft, drafts, verified, searchRepairs, replans, outcome>>

BeforeWriteRepair ==
  /\ Enter("write_repair", "write")
  /\ writeRepairs' = writeRepairs + 1 /\ claims' = {}
  /\ UNCHANGED <<evidence, fresh, draft, drafts, verified, searchRepairs, replans, outcome>>

\* Mutant: a new plan refills the repair budgets.
BeforeReplanRefills ==
  /\ Enter("replan", "plan")
  /\ replans' = replans + 1 /\ searchRepairs' = 0 /\ writeRepairs' = 0
  /\ claims' = {} /\ evidence' = <<>>
  /\ UNCHANGED <<fresh, draft, drafts, verified, outcome>>

BeforeReplan ==
  /\ Enter("replan", "plan")
  /\ replans' = replans + 1 /\ claims' = {} /\ evidence' = <<>>
  /\ UNCHANGED <<fresh, draft, drafts, verified, searchRepairs, writeRepairs, outcome>>

Deliver ==
  /\ Enter("deliver", "end")
  /\ outcome' = "delivered"
  /\ UNCHANGED <<evidence, fresh, draft, drafts, claims, verified, budgets>>

Abstain ==
  /\ Enter("abstain", "end")
  /\ outcome' = "abstained" /\ evidence' = <<>> /\ draft' = <<>>
  /\ UNCHANGED <<fresh, drafts, claims, verified, budgets>>

\* A provider, the embedder, the store or the reranker raises out of the graph.
Raise ==
  /\ node \in {"plan", "search", "write", "verify"}
  /\ node' = "raised"
  /\ UNCHANGED <<steps, evidence, fresh, draft, drafts, claims, verified, budgets, outcome>>

Work ==
  \/ Plan \/ Search \/ Write \/ Verify
  \/ BeforeSearchRepair \/ BeforeWriteRepair \/ BeforeReplan
  \/ Deliver \/ Abstain

Next == Work \/ Raise

Spec == Init /\ [][Next]_vars

\* The graph runs until it returns or raises: models and searches answer.
FairSpec == Spec /\ WF_vars(Work)

-----------------------------------------------------------------------------
(* Properties.                                                             *)

TypeOK ==
  /\ node \in Nodes \cup {"end", "raised"}
  /\ steps \in Nat /\ drafts \in Nat /\ verified \in Nat
  /\ evidence \in Seq(Passages) /\ draft \in Seq(Passages)
  /\ fresh \subseteq Passages
  /\ claims \subseteq Verdicts
  /\ searchRepairs \in 0..MaxSearchRepairs
  /\ writeRepairs \in 0..MaxWriteRepairs
  /\ replans \in 0..MaxReplans
  /\ outcome \in {"none", "delivered", "abstained"}

\* The bounded cycles fit in the library's limit: whatever the verdicts, a run
\* never dies of a GraphRecursionError.
WithinRecursionLimit == steps <= RecursionLimit

\* What is delivered is one thing: the draft was written from the very evidence
\* that is shown as its sources, in that order, and the last verdicts are about
\* that draft, not an earlier one.
DeliveredTogether ==
  outcome = "delivered" => draft = evidence /\ verified = drafts

\* "Everything supported, or repair budgets exhausted: ship what holds": a
\* flagged claim is shipped only when the repair its verdict asks for is spent
\* and so is every other way on.
FlagsShipOnlyExhausted ==
  node = "deliver" \/ outcome = "delivered" =>
    /\ "unsupported" \in claims => searchRepairs = MaxSearchRepairs
    /\ "misattributed" \in claims => writeRepairs = MaxWriteRepairs
    /\ claims \cap {"unsupported", "misattributed"} # {} =>
         \/ replans = MaxReplans
         \/ searchRepairs = MaxSearchRepairs /\ writeRepairs = MaxWriteRepairs

\* Every run raises or comes to an outcome; none just stops.
Concludes == <>(outcome # "none" \/ node = "raised")

\* state.py: "unsupported -> evidence missing: SEARCHER with a targeted query".
\* A search that found something new gives the writer something new.
SearchReachesWriter ==
  node = "write" /\ fresh # {} => fresh \cap PassagesOf(evidence) # {}

-----------------------------------------------------------------------------
(* The inductive invariant behind them: every node knows how many nodes    *)
(* the budgets already spent can account for.                              *)

Spent == 4 * searchRepairs + 3 * writeRepairs + 5 * replans

StepsInv ==
  /\ steps <= Spent + 5
  /\ node = "plan" => steps <= Spent
  /\ node = "search" => steps <= Spent + 1
  /\ node = "write" => steps <= Spent + 2
  /\ node = "verify" => steps <= Spent + 3
  /\ node \in {"search_repair", "write_repair", "replan", "deliver", "abstain"} =>
       steps <= Spent + 4

\* A repair runs only while its budget lasts.
BudgetInv ==
  /\ node = "search_repair" => searchRepairs < MaxSearchRepairs
  /\ node = "write_repair" => writeRepairs < MaxWriteRepairs
  /\ node = "replan" => replans < MaxReplans

DraftInv ==
  /\ node \in {"verify", "deliver"} => draft = evidence
  /\ node = "deliver" => verified = drafts

GraphInv ==
  /\ TypeOK
  /\ StepsInv
  /\ BudgetInv
  /\ DraftInv
  /\ outcome # "none" => node = "end"
  /\ DeliveredTogether
  /\ FlagsShipOnlyExhausted
=============================================================================
