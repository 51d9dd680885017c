------------------------- MODULE ConversationExport -------------------------
(***************************************************************************)
(* The export of a conversation (routes/chat.py, export_conversation): its *)
(* owner gets every message of it, and the audit log an entry, in one      *)
(* transaction, while turns go on in it and elsewhere.                     *)
(*                                                                         *)
(* Each statement sees what is committed when it runs (READ COMMITTED).    *)
(***************************************************************************)
EXTENDS Conversations

CONSTANTS
  Exports       \* requests

VARIABLES
  export,       \* the requests: pc, the conversation, the rows read; "due" is for the property
  trail         \* their entries in audit_log

exportVars == <<export, trail>>

ExportInit == export = [e \in Exports |-> [pc |-> "new"]] /\ trail = {}

\* The turns whose stream has come to its end.
Ended(q) == turn[q].pc \notin {"new", "lost"} /\ ~Open(q)

\* The conversation, by id and owner: one that does not exist and one of somebody else are 404.
SelectConversation(e) ==
  /\ export[e].pc = "new"
  /\ \E c \in Chats, own \in BOOLEAN :
       export' = [export EXCEPT ![e] =
                    IF own THEN [pc |-> "found", chat |-> c, rows |-> {},
                                 due |-> {q \in Questions : Ended(q) /\ turn[q].chat = c}]
                    ELSE [pc |-> "missing"]]
  /\ UNCHANGED <<trail, tableVars>>

\* Mutant: the failed answers are left out.
SelectClean(e) ==
  /\ export[e].pc = "found"
  /\ export' = [export EXCEPT
                  ![e].pc = "read",
                  ![e].rows = {i \in DOMAIN messages : messages[i].chat = export[e].chat
                                                        /\ ~messages[i].error}]
  /\ UNCHANGED <<trail, tableVars>>

SelectMessages(e) ==
  /\ export[e].pc = "found"
  /\ export' = [export EXCEPT
                  ![e].pc = "read",
                  ![e].rows = {i \in DOMAIN messages : messages[i].chat = export[e].chat}]
  /\ UNCHANGED <<trail, tableVars>>

\* The entry counts the messages; it commits before the document is built.
CommitExport(e) ==
  /\ export[e].pc = "read"
  /\ export' = [export EXCEPT ![e].pc = "committed"]
  /\ trail' = trail \cup {[export |-> e, messages |-> Cardinality(export[e].rows)]}
  /\ UNCHANGED tableVars

SendExport(e) ==
  /\ export[e].pc = "committed"
  /\ export' = [export EXCEPT ![e].pc = "sent"]
  /\ UNCHANGED <<trail, tableVars>>

\* A statement or the COMMIT is refused, or the process dies: the transaction is rolled back.
ExportFails(e) ==
  /\ export[e].pc \in {"found", "read"}
  /\ export' = [export EXCEPT ![e].pc = "failed"]
  /\ UNCHANGED <<trail, tableVars>>

\* What is committed does not reach the user: the process dies, the document cannot be
\* built, the client has left.
ExportIsLost(e) ==
  /\ export[e].pc = "committed"
  /\ export' = [export EXCEPT ![e].pc = "unsent"]
  /\ UNCHANGED <<trail, tableVars>>

ExportStep ==
  \E e \in Exports :
    \/ SelectConversation(e) \/ SelectMessages(e) \/ CommitExport(e) \/ SendExport(e)
    \/ ExportFails(e) \/ ExportIsLost(e)

ExportNext == ExportStep \/ (TableNext /\ UNCHANGED exportVars)

ExportSpec == TableInit /\ ExportInit /\ [][ExportNext]_<<tableVars, exportVars>>

-----------------------------------------------------------------------------
(* Correctness.                                                            *)

Entered == {"committed", "sent", "unsent"}

\* An export holds the question and the answer of every turn that was read to the end of its
\* stream before it was asked for, failed ones too ("nothing is held back", routes/chat.py:59-60),
\* and nothing of another conversation; it is in the audit log with its size, as is nothing
\* that was rolled back (audit.py:6-8).  The log may hold one that never reached its user.
ExportTellsAll ==
  /\ \A e \in Exports :
       export[e].pc = "sent" =>
         /\ \A q \in export[e].due, role \in {"user", "assistant"} :
              \E i \in export[e].rows : messages[i].turn = q /\ messages[i].role = role
         /\ \A i \in export[e].rows : messages[i].chat = export[e].chat
         /\ \E t \in trail : t.export = e
  /\ \A t \in trail :
       export[t.export].pc \in Entered /\ t.messages = Cardinality(export[t.export].rows)

=============================================================================
