------------------------------ MODULE MCServing ------------------------------
(* What a serving process does besides, each part explored while the others are idle. *)
EXTENDS Authentication, Readiness, Delegation, ConversationExport, TLC

VARIABLE explored

MCInit ==
  /\ explored \in {"authentication", "readiness", "delegation", "conversations", "exports"}
  /\ AuthInit /\ ReadyInit
  /\ IF explored = "delegation" THEN CallInit
     ELSE redaction = "none" /\ wire = "ollama" /\ exchange = NoCall
  /\ TableInit /\ ExportInit

\* Which turn is called first makes no difference: the lowest number is.
InOrder == \A q \in Questions : turn'[q].pc # "new" => \A p \in 1..q : turn'[p].pc # "new"

\* Topics and sources make no difference to an export: every turn has the same.
Alike ==
  \A i \in DOMAIN messages' :
    messages'[i].topic = (CHOOSE t \in Topics : TRUE) /\ messages'[i].sources = "empty"

MCNext ==
  /\ UNCHANGED explored
  /\ \/ explored = "authentication" /\ AuthNext /\ UNCHANGED <<readyVars, callVars, tableVars, exportVars>>
     \/ explored = "readiness" /\ ReadyNext /\ UNCHANGED <<authVars, callVars, tableVars, exportVars>>
     \/ explored = "delegation" /\ CallNext /\ UNCHANGED <<authVars, readyVars, tableVars, exportVars>>
     \/ explored = "conversations" /\ TableNext /\ InOrder
        /\ UNCHANGED <<authVars, readyVars, callVars, exportVars>>
     \/ explored = "exports" /\ ExportNext /\ InOrder /\ Alike /\ day' = day
        /\ UNCHANGED <<authVars, readyVars, callVars>>

MCSpec ==
  MCInit /\ [][MCNext]_<<explored, authVars, readyVars, callVars, tableVars, exportVars>>

Symmetry == Permutations(AuthRequests) \cup Permutations(Probes)

MCDeps == <<"database", "llm", "embeddings">>

\* An identifier the match before it would take so much of.
Seen(kind, taken) == [kind |-> kind, taken |-> taken, state |-> "plain"]

\* Texts with identifiers apart and one behind another, whole or cut by the one before.
MCTexts ==
  {{},
   {<<Seen("email", "none")>>, <<Seen("name", "none")>>, <<Seen("iban1", "none")>>},
   {<<Seen("iban", "none"), Seen("avs", "part")>>,
    <<Seen("phone+", "none"), Seen("phone0", "part")>>},
   {<<Seen("iban", "none"), Seen("avs", "whole"), Seen("phone00", "part"), Seen("phone0", "none")>>}}
=============================================================================
