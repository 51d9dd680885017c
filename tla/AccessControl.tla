--------------------------- MODULE AccessControl ---------------------------
(***************************************************************************)
(* What document access promises: every document has one owner for good;   *)
(* only its owner or an administrator changes who else may read it, and    *)
(* the change and its record are one step; the demo documents, which       *)
(* belong to the system, may also be published without a record; and a     *)
(* removed document keeps no reader and never gets a new one.              *)
(* Module DocumentAccess implements this specification.                    *)
(***************************************************************************)
CONSTANTS
  Docs,        \* document ids, never used twice
  Users,
  Admins,      \* the users who may manage every document
  System,      \* the owner of the demo documents
  Principals,  \* whom a document may be shared with
  Everyone,    \* one of them, who stands for all users
  NoOwner      \* owner of an id that is not in use yet

VARIABLES
  owner,       \* the owner of each document
  removed,     \* the documents that are gone
  readers,     \* who reads a document without owning it: <<document, principal>>
  acts         \* the record: <<user, "grant" or "revoke", document, principal>>

vars == <<owner, removed, readers, acts>>

Live(d) == owner[d] # NoOwner /\ d \notin removed
MayManage(u, d) == u \in Admins \/ owner[d] = u

Init ==
  /\ owner = [d \in Docs |-> NoOwner]
  /\ removed = {} /\ readers = {} /\ acts = {}

Create(o, d) ==
  /\ owner[d] = NoOwner
  /\ owner' = [owner EXCEPT ![d] = o]
  /\ UNCHANGED <<removed, readers, acts>>

Publish(d) ==
  /\ Live(d) /\ owner[d] = System
  /\ readers' = readers \cup {<<d, Everyone>>}
  /\ UNCHANGED <<owner, removed, acts>>

\* An act that finds nothing to change is recorded as well.
Record(u, op, d, p) ==
  /\ MayManage(u, d)
  /\ acts' = acts \cup {<<u, op, d, p>>}
  /\ UNCHANGED <<owner, removed>>

Share(u, d, p) ==
  /\ Record(u, "grant", d, p)
  /\ \/ Live(d) /\ readers' = readers \cup {<<d, p>>}
     \/ UNCHANGED readers

Unshare(u, d, p) ==
  /\ Record(u, "revoke", d, p)
  /\ readers' \in {readers, readers \ {<<d, p>>}}

Remove(d) ==
  /\ Live(d)
  /\ removed' = removed \cup {d}
  /\ readers' = {s \in readers : s[1] # d}
  /\ UNCHANGED <<owner, acts>>

Next ==
  \E d \in Docs :
    \/ Publish(d) \/ Remove(d)
    \/ \E o \in Users \cup {System} : Create(o, d)
    \/ \E u \in Users, p \in Principals : Share(u, d, p) \/ Unshare(u, d, p)

Spec == Init /\ [][Next]_vars
=============================================================================
