--------------------------- MODULE DocumentCatalog ---------------------------
(***************************************************************************)
(* What the ingestion pipeline promises, seen from outside: a catalog of   *)
(* documents, at most one live document per content, and a search index a  *)
(* document enters exactly when it becomes ready and leaves when it is     *)
(* removed.  A failed or unfinished ingestion is never searchable; a       *)
(* failed document may be processed again, a ready one may not.            *)
(* Module Ingestion implements this specification.                         *)
(***************************************************************************)
CONSTANTS
  Docs,        \* document ids, never used twice
  Content,     \* uploaded bytes, told apart by their SHA-256
  NoContent    \* content of an id that is not in use yet

VARIABLES
  state,       \* where each document is in its life
  body,        \* the content each document was registered with
  searchable   \* the documents retrieval can return

vars == <<state, body, searchable>>

Live(d) == state[d] \in {"processing", "ready", "failed"}

Init ==
  /\ state = [d \in Docs |-> "absent"]
  /\ body = [d \in Docs |-> NoContent]
  /\ searchable = {}

\* New bytes get a document of their own.
Register(d, c) ==
  /\ state[d] = "absent"
  /\ \A e \in Docs : Live(e) => body[e] # c
  /\ state' = [state EXCEPT ![d] = "processing"]
  /\ body' = [body EXCEPT ![d] = c]
  /\ UNCHANGED searchable

\* Becoming ready and becoming searchable are one step.
Publish(d) ==
  /\ state[d] = "processing"
  /\ state' = [state EXCEPT ![d] = "ready"]
  /\ searchable' = searchable \cup {d}
  /\ UNCHANGED body

\* One document fails, or a restart fails every unfinished one.
Fail(D) ==
  /\ \A d \in D : state[d] = "processing"
  /\ state' = [d \in Docs |-> IF d \in D THEN "failed" ELSE state[d]]
  /\ UNCHANGED <<body, searchable>>

\* The same bytes uploaded again restart a failed document.
Reclaim(d) ==
  /\ state[d] = "failed"
  /\ state' = [state EXCEPT ![d] = "processing"]
  /\ UNCHANGED <<body, searchable>>

Remove(d) ==
  /\ Live(d)
  /\ state' = [state EXCEPT ![d] = "deleted"]
  /\ searchable' = searchable \ {d}
  /\ UNCHANGED body

Next ==
  \/ \E d \in Docs, c \in Content : Register(d, c)
  \/ \E d \in Docs : Publish(d) \/ Reclaim(d) \/ Remove(d)
  \/ \E D \in SUBSET Docs : Fail(D)

Spec == Init /\ [][Next]_vars
=============================================================================
