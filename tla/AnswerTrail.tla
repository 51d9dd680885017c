----------------------------- MODULE AnswerTrail -----------------------------
(***************************************************************************)
(* What the chat service promises its auditors: the answer to a question   *)
(* is recorded once, the record holds everything the user was shown, the   *)
(* text as well as the sources, nothing is shown once it is written, and   *)
(* it never changes.  Module ChatTurn implements this specification.       *)
(***************************************************************************)
EXTENDS Naturals

CONSTANTS
  Turns,       \* questions
  NoRow        \* no record yet

Unshown == "none"
Snapshots == {"empty", "found"}   \* sources: an empty list, or what was found

VARIABLES
  asked,       \* the questions that were recorded
  shown,       \* what the user saw of each answer: its sources, its pieces of text
  record       \* the record of each answer

vars == <<asked, shown, record>>

Rows == [sources : Snapshots, pieces : Nat]
Blank == [sources |-> Unshown, pieces |-> 0]
Covers(r, s) == r.pieces >= s.pieces /\ s.sources \in {Unshown, r.sources}

Init ==
  /\ asked = {}
  /\ shown = [t \in Turns |-> Blank]
  /\ record = [t \in Turns |-> NoRow]

Ask(t) ==
  /\ t \notin asked
  /\ asked' = asked \cup {t}
  /\ UNCHANGED <<shown, record>>

ShowSources(t, s) ==
  /\ t \in asked /\ record[t] = NoRow /\ shown[t].sources = Unshown
  /\ shown' = [shown EXCEPT ![t].sources = s]
  /\ UNCHANGED <<asked, record>>

ShowPiece(t) ==
  /\ t \in asked /\ record[t] = NoRow
  /\ shown' = [shown EXCEPT ![t].pieces = @ + 1]
  /\ UNCHANGED <<asked, record>>

\* Any row that covers what was shown may be written.
Record(t) ==
  /\ t \in asked /\ record[t] = NoRow
  /\ record'[t] \in Rows /\ Covers(record'[t], shown[t])
  /\ record' = [record EXCEPT ![t] = record'[t]]
  /\ UNCHANGED <<asked, shown>>

Next ==
  \E t \in Turns :
    \/ Ask(t) \/ ShowPiece(t) \/ Record(t)
    \/ \E s \in Snapshots : ShowSources(t, s)

Spec == Init /\ [][Next]_vars
=============================================================================
