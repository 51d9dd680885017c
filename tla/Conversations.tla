---------------------------- MODULE Conversations ----------------------------
(***************************************************************************)
(* The messages table and what the admin dashboard reads from it           *)
(* (routes/admin.py).  Turns of a conversation insert their question and,  *)
(* later, their answer (module ChatTurn models a turn in full); the        *)
(* dashboard lists the questions the corpus had nothing to say about.      *)
(*                                                                         *)
(* Rows are in the order of created_at, and name their turn (request_id).  *)
(* A text is its topic, what lower(btrim()) keeps of it, and the turn that *)
(* phrased it; snapshots of sources are empty or found.                    *)
(***************************************************************************)
EXTENDS Naturals, Sequences, FiniteSets

CONSTANTS
  Questions,    \* turns
  Topics,
  Chats,        \* conversations
  OneTab,       \* whether a conversation is continued only when its last stream has ended
  ListLimit,    \* LIMIT of the list
  WindowDays,   \* the window of the dashboard
  MaxDay        \* bound: the calendar

VARIABLES
  messages,     \* the table
  turn,         \* the turns: where they are, their conversation and topic
  day

tableVars == <<messages, turn, day>>

NoTurns == [q \in Questions |-> [pc |-> "new", open |-> FALSE]]

TableInit == messages = <<>> /\ turn = NoTurns /\ day = 0

\* What a turn inserts.
Row(q, chat, topic, role, sources, error) ==
  [turn |-> q, chat |-> chat, topic |-> topic, role |-> role, sources |-> sources,
   error |-> error, day |-> day]

Open(q) == turn[q].open

\* The question; sources takes its default.
InsertQuestion(q) ==
  /\ turn[q].pc = "new"
  /\ \E c \in Chats, t \in Topics :
       /\ OneTab => \A p \in Questions : Open(p) => turn[p].chat # c
       /\ messages' = Append(messages, Row(q, c, t, "user", "empty", FALSE))
       /\ turn' = [turn EXCEPT ![q] = [pc |-> "asked", open |-> TRUE, chat |-> c, topic |-> t]]
  /\ UNCHANGED day

\* The answer, on whatever path the turn ended.
InsertAnswer(q) ==
  /\ turn[q].pc = "asked"
  /\ \E sources \in {"empty", "found"}, error \in BOOLEAN :
       messages' = Append(messages, Row(q, turn[q].chat, turn[q].topic, "assistant", sources, error))
  /\ turn' = [turn EXCEPT ![q].pc = "answered"]
  /\ UNCHANGED day

\* Mutant: the stream ends before the answer is written.
EndOfAnyStream(q) ==
  /\ Open(q)
  /\ turn' = [turn EXCEPT ![q].open = FALSE]
  /\ UNCHANGED <<messages, day>>

\* The stream ends after the answer is written.
EndOfAnswer(q) ==
  /\ Open(q) /\ turn[q].pc = "answered"
  /\ turn' = [turn EXCEPT ![q].open = FALSE]
  /\ UNCHANGED <<messages, day>>

\* A refused row, or the end of the process: the question stays unanswered.
LoseAnswer(q) ==
  /\ turn[q].pc = "asked"
  /\ turn' = [turn EXCEPT ![q].pc = "lost", ![q].open = FALSE]
  /\ UNCHANGED <<messages, day>>

NextDay ==
  /\ day < MaxDay
  /\ day' = day + 1
  /\ UNCHANGED <<messages, turn>>

TableNext ==
  \/ \E q \in Questions :
       InsertQuestion(q) \/ InsertAnswer(q) \/ EndOfAnswer(q) \/ LoseAnswer(q)
  \/ NextDay

TableSpec == TableInit /\ [][TableNext]_tableVars

-----------------------------------------------------------------------------
(* The list of unanswered questions.                                       *)

\* The clean answers of the window that cite nothing.
Unsourced ==
  {i \in DOMAIN messages :
     /\ messages[i].role = "assistant" /\ messages[i].sources = "empty" /\ ~messages[i].error
     /\ messages[i].day + WindowDays >= day}

Last(rows) == CHOOSE i \in rows : \A j \in rows : j <= i

\* Mutant: the question too has to fall into the window.
QuestionsInWindow(i) ==
  {j \in 1..i : messages[j].role = "user" /\ messages[j].chat = messages[i].chat
                /\ messages[j].day + WindowDays >= day}

\* The user messages of the conversation up to an answer.
QuestionsUpTo(i) ==
  {j \in 1..i : messages[j].role = "user" /\ messages[j].chat = messages[i].chat}

\* The lateral join: the last of them, and no row when there is none.
Joined ==
  {<<i, Last(QuestionsUpTo(i))>> : i \in {k \in Unsourced : QuestionsUpTo(k) # {}}}

\* A list grouped by the topic of the question an answer is joined with: each
\* group is its most recent answer, whose question speaks for it, and its size;
\* the largest groups come first, then the latest.
Listed(pairs) ==
  LET Group(t) == {p[1] : p \in {r \in pairs : messages[r[2]].topic = t}}
      Rank(t) == <<Cardinality(Group(t)), Last(Group(t))>>
      Before(s, t) == \/ Rank(s)[1] > Rank(t)[1]
                      \/ Rank(s)[1] = Rank(t)[1] /\ Rank(s)[2] > Rank(t)[2]
      Held == {messages[p[2]].topic : p \in pairs}
      Kept == {t \in Held : Cardinality({s \in Held : Before(s, t)}) < ListLimit}
      Phrasing(t) == messages[(CHOOSE p \in pairs : p[1] = Last(Group(t)))[2]].turn
  IN {[question |-> Phrasing(t), occurrences |-> Cardinality(Group(t))] : t \in Kept}

Unanswered == Listed(Joined)

-----------------------------------------------------------------------------
(* Correctness.                                                            *)

\* The question an answer belongs to, by their request.
Produced ==
  {<<i, CHOOSE j \in DOMAIN messages :
          messages[j].role = "user" /\ messages[j].turn = messages[i].turn>> : i \in Unsourced}

\* "The lateral join walks back to the user question that produced it" (admin.py:73-74):
\* the list, joined by conversation and time, is the one joined by request, over turns that were
\* lost or failed, conversations side by side and a window that parts a question and its answer.
UnansweredIsByRequest == Unanswered = Listed(Produced)

=============================================================================
