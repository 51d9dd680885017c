--------------------------- MODULE DocumentAccess ---------------------------
(***************************************************************************)
(* Who may do what with a document: the upload, permission and deletion    *)
(* routes (routes/documents.py) with the audit entries they write          *)
(* (audit.py), the visibility test of the dedupe and the demo seed         *)
(* (ingestion/service.py), and the boot that decides whether to seed       *)
(* (main.py).  How an upload is registered and processed is module         *)
(* Ingestion; here it is one step.                                         *)
(*                                                                         *)
(* A route checks the owner on one connection and acts on another one, in  *)
(* a READ COMMITTED transaction.  What an open transaction has written is  *)
(* its pc: others do not see it, and wait for its locks, while it may be   *)
(* waiting for theirs.  An audit entry is named by the request that wrote  *)
(* it, as each request writes one at most.                                 *)
(***************************************************************************)
EXTENDS Naturals, FiniteSets

CONSTANTS
  Docs,         \* document ids; gen_random_uuid() never repeats one
  Users,        \* authenticated users
  Admins,       \* those with the admin role
  System,       \* the owner of the demo corpus
  Principals,   \* whom a document may be shared with
  Everyone,     \* the '*' principal, one of them
  NoOwner,
  NoDoc,
  Nobody,
  Requests,     \* requests to the document routes
  DemoFiles,    \* supported files in the demo directory
  MaxFaults     \* bound: process crashes and statements the database refuses

ASSUME ConstantsAssumption ==
  /\ Admins \subseteq Users
  /\ System \notin Users
  /\ NoOwner \notin Users \cup {System}
  /\ Everyone \in Principals
  /\ NoDoc \notin Docs /\ Nobody \notin Principals
  /\ DemoFiles \in Nat /\ MaxFaults \in Nat

VARIABLES
  phase,        \* of the process: "down", "seeding" in its lifespan, "up" and serving
  seed,         \* the seed: files left to ingest, document ingested and not yet shared
  owner,        \* documents.owner_id
  removed,      \* the documents whose row was deleted
  shared,       \* document_permissions: pairs <<document, principal>>
  trail,        \* audit_log: the requests that have an entry
  req,          \* the requests
  faults

process == <<phase, seed>>
tables == <<owner, removed, shared, trail>>
vars == <<phase, seed, owner, removed, shared, trail, req, faults>>

Owners == Users \cup {System}

Ops == {"none", "upload", "grant", "revoke", "delete"}
Open == {"inserted", "kept", "erased", "missed"}   \* grants and revocations to be committed
Working == {"match", "write", "key", "purge", "cascade", "log"} \cup Open
Ended == {"done", "refused", "error", "lost"}

RequestRecord ==
  [pc : {"new"} \cup Working \cup Ended,
   op : Ops,
   user : Users \cup {Nobody},
   doc : Docs \cup {NoDoc},
   who : Principals \cup {Nobody},   \* of a cascade, the row it is at
   rows : SUBSET Principals]         \* the rows a cascade has deleted

Idle ==
  [pc |-> "new", op |-> "none", user |-> Nobody, doc |-> NoDoc, who |-> Nobody, rows |-> {}]
NoSeed == [left |-> 0, doc |-> NoDoc]

Live(d) == owner[d] # NoOwner /\ d \notin removed
MayManage(u, d) == u \in Admins \/ owner[d] = u
VisibleTo(d, u) == Live(d) /\ (owner[d] = u \/ <<d, u>> \in shared \/ <<d, Everyone>> \in shared)

-----------------------------------------------------------------------------
(* Locks.  A lock is what it is on, the row <<d>> of a document or the     *)
(* permission <<d, p>>, and what for.  Nothing is unlocked before the end  *)
(* of a transaction.                                                       *)

Document(r) == <<req[r].doc>>
Permission(r) == <<req[r].doc, req[r].who>>

\* Mutant: the table of permissions does not refer to the documents.
HoldsNoDocument(r) ==
  CASE req[r].pc \in {"key", "inserted"} -> {<<Permission(r), "insert">>}
    [] req[r].pc = "erased" -> {<<Permission(r), "delete">>}
    [] req[r].pc = "cascade" ->
         {<<Document(r), "remove">>} \cup {<<<<req[r].doc, p>>, "delete">> : p \in req[r].rows}
    [] OTHER -> {}

\* What a transaction has locked.  The foreign key of a new permission keeps its
\* document ("keep"); the deletion of a document has its row, then one permission
\* after the other.
Holds(r) ==
  CASE req[r].pc = "key" -> {<<Permission(r), "insert">>}
    [] req[r].pc = "inserted" -> {<<Permission(r), "insert">>, <<Document(r), "keep">>}
    [] req[r].pc = "erased" -> {<<Permission(r), "delete">>}
    [] req[r].pc = "cascade" ->
         {<<Document(r), "remove">>} \cup {<<<<req[r].doc, p>>, "delete">> : p \in req[r].rows}
    [] OTHER -> {}

\* Mutant: a revocation stamps its document before it commits.
WantsDocumentLast(r) ==
  CASE req[r].pc = "write" /\ req[r].op = "grant" -> {<<Permission(r), "insert">>}
    [] req[r].pc = "write" /\ req[r].op = "revoke" -> {<<Permission(r), "delete">>}
    [] req[r].pc \in {"key", "erased"} -> {<<Document(r), "keep">>}
    [] req[r].pc = "purge" -> {<<Document(r), "remove">>}
    [] req[r].pc = "cascade" /\ req[r].who # Nobody -> {<<Permission(r), "delete">>}
    [] OTHER -> {}

\* What the next statement of a request, or its next trigger, has to lock.
Wants(r) ==
  CASE req[r].pc = "write" /\ req[r].op = "grant" -> {<<Permission(r), "insert">>}
    [] req[r].pc = "write" /\ req[r].op = "revoke" -> {<<Permission(r), "delete">>}
    [] req[r].pc = "key" -> {<<Document(r), "keep">>}
    [] req[r].pc = "purge" -> {<<Document(r), "remove">>}
    [] req[r].pc = "cascade" /\ req[r].who # Nobody -> {<<Permission(r), "delete">>}
    [] OTHER -> {}

\* Which lock held makes which lock wanted wait.  INSERT ... ON CONFLICT DO NOTHING
\* waits for any open change of its key; DELETE does not see an open INSERT.
Conflicts ==
  {<<"insert", "insert">>, <<"delete", "insert">>, <<"delete", "delete">>,
   <<"keep", "remove">>, <<"remove", "keep">>, <<"remove", "remove">>}

Blocks(held, wanted) == held[1] = wanted[1] /\ <<held[2], wanted[2]>> \in Conflicts

WaitsFor(r) ==
  {q \in Requests \ {r} : \E held \in Holds(q), wanted \in Wants(r) : Blocks(held, wanted)}

Init ==
  /\ phase = "down"
  /\ seed = NoSeed
  /\ owner = [d \in Docs |-> NoOwner]
  /\ removed = {} /\ shared = {} /\ trail = {}
  /\ req = [r \in Requests |-> Idle]
  /\ faults = 0

-----------------------------------------------------------------------------
(* The boot and the demo seed.                                             *)

Boot ==
  /\ phase = "down"
  /\ IF \A d \in Docs : ~Live(d)
       THEN phase' = "seeding" /\ seed' = [left |-> DemoFiles, doc |-> NoDoc]
       ELSE phase' = "up" /\ seed' = NoSeed
  /\ UNCHANGED <<tables, req, faults>>

\* A file whose bytes are registered already is answered with that document,
\* which "system" must be able to see.
SeedIngest ==
  /\ phase = "seeding" /\ seed.left > 0 /\ seed.doc = NoDoc
  /\ \E d \in Docs :
       /\ seed' = [seed EXCEPT !.doc = d]
       /\ \/ owner[d] = NoOwner /\ owner' = [owner EXCEPT ![d] = System]
          \/ VisibleTo(d, System) /\ UNCHANGED owner
  /\ UNCHANGED <<phase, removed, shared, trail, req, faults>>

SeedGrant ==
  /\ seed.doc # NoDoc
  /\ shared' = shared \cup {<<seed.doc, Everyone>>}
  /\ seed' = [left |-> seed.left - 1, doc |-> NoDoc]
  /\ UNCHANGED <<phase, owner, removed, trail, req, faults>>

SeedEnds ==
  /\ phase = "seeding" /\ seed = NoSeed
  /\ phase' = "up"
  /\ UNCHANGED <<seed, tables, req, faults>>

-----------------------------------------------------------------------------
(* Requests.  One that ends without an entry leaves nothing behind.        *)

GoTo(r, pc) == req' = [req EXCEPT ![r].pc = pc]
End(r, pc) == req' = [req EXCEPT ![r] = [Idle EXCEPT !.pc = pc]]
Begin(r, pc, op, u, d, p) ==
  req' = [req EXCEPT ![r] =
            [pc |-> pc, op |-> op, user |-> u, doc |-> d, who |-> p, rows |-> {}]]

UploadRegister(r, u, d) ==
  /\ phase = "up" /\ req[r].pc = "new" /\ owner[d] = NoOwner
  /\ owner' = [owner EXCEPT ![d] = u]
  /\ Begin(r, "log", "upload", u, d, Nobody)
  /\ UNCHANGED <<process, removed, shared, trail, faults>>

\* The bytes are those of a document that exists.
UploadMatch(r, u, d) ==
  /\ phase = "up" /\ req[r].pc = "new" /\ Live(d)
  /\ Begin(r, "match", "upload", u, d, Nobody)
  /\ UNCHANGED <<process, tables, faults>>

UploadCheckVisible(r) ==
  /\ req[r].pc = "match"
  /\ IF VisibleTo(req[r].doc, req[r].user) THEN GoTo(r, "log") ELSE End(r, "refused")
  /\ UNCHANGED <<process, tables, faults>>

\* Mutant: everyone who is signed in manages every document.
RequireAnyone(r, op, u, d, p) ==
  /\ phase = "up" /\ req[r].pc = "new"
  /\ IF Live(d)
       THEN Begin(r, IF op = "delete" THEN "purge" ELSE "write", op, u, d, p)
       ELSE End(r, "refused")
  /\ UNCHANGED <<process, tables, faults>>

RequireOwnerOrAdmin(r, op, u, d, p) ==
  /\ phase = "up" /\ req[r].pc = "new"
  /\ IF Live(d) /\ MayManage(u, d)
       THEN Begin(r, IF op = "delete" THEN "purge" ELSE "write", op, u, d, p)
       ELSE End(r, "refused")
  /\ UNCHANGED <<process, tables, faults>>

Manage(r, u, d) ==
  \/ RequireOwnerOrAdmin(r, "delete", u, d, Nobody)
  \/ \E op \in {"grant", "revoke"}, p \in Principals : RequireOwnerOrAdmin(r, op, u, d, p)

\* INSERT ... ON CONFLICT DO NOTHING: the key first.
Grant(r) ==
  /\ req[r].pc = "write" /\ req[r].op = "grant"
  /\ GoTo(r, IF Permission(r) \in shared THEN "kept" ELSE "key")
  /\ UNCHANGED <<process, tables, faults>>

\* The foreign key of the new row: a document that is gone is refused.
CheckDocument(r) ==
  /\ req[r].pc = "key"
  /\ IF req[r].doc \in removed THEN End(r, "error") ELSE GoTo(r, "inserted")
  /\ UNCHANGED <<process, tables, faults>>

Revoke(r) ==
  /\ req[r].pc = "write" /\ req[r].op = "revoke"
  /\ GoTo(r, IF Permission(r) \in shared THEN "erased" ELSE "missed")
  /\ UNCHANGED <<process, tables, faults>>

\* Mutant: a revocation is not recorded.
CommitSharingUnlogged(r) ==
  LET row == <<req[r].doc, req[r].who>> IN
  /\ req[r].pc \in Open
  /\ shared' = CASE req[r].pc = "inserted" -> shared \cup {row}
                 [] req[r].pc = "erased" -> shared \ {row}
                 [] OTHER -> shared
  /\ trail' = IF req[r].op = "grant" THEN trail \cup {r} ELSE trail
  /\ GoTo(r, "done")
  /\ UNCHANGED <<process, owner, removed, faults>>

\* The entry and the change commit together.
CommitSharing(r) ==
  LET row == <<req[r].doc, req[r].who>> IN
  /\ req[r].pc \in Open
  /\ shared' = CASE req[r].pc = "inserted" -> shared \cup {row}
                 [] req[r].pc = "erased" -> shared \ {row}
                 [] OTHER -> shared
  /\ trail' = trail \cup {r}
  /\ GoTo(r, "done")
  /\ UNCHANGED <<process, owner, removed, faults>>

\* The permissions a cascade has still to delete: any of them is next.
NextRow(d, rows) ==
  LET left == {p \in Principals \ rows : <<d, p>> \in shared}
  IN  IF left = {} THEN {Nobody} ELSE left

\* The store's DELETE has the document's row; it may be gone by now.
LockDocument(r) ==
  LET d == req[r].doc IN
  /\ req[r].pc = "purge"
  /\ IF d \in removed THEN GoTo(r, "log")
     ELSE \E p \in NextRow(d, {}) :
            req' = [req EXCEPT ![r].pc = "cascade", ![r].who = p]
  /\ UNCHANGED <<process, tables, faults>>

\* ON DELETE CASCADE, one permission; a revocation it waited for leaves none.
DeleteRow(r) ==
  LET d == req[r].doc
      rows == IF Permission(r) \in shared THEN req[r].rows \cup {req[r].who} ELSE req[r].rows
  IN
  /\ req[r].pc = "cascade" /\ req[r].who # Nobody
  /\ \E p \in NextRow(d, rows) : req' = [req EXCEPT ![r].who = p, ![r].rows = rows]
  /\ UNCHANGED <<process, tables, faults>>

CommitPurge(r) ==
  LET d == req[r].doc IN
  /\ req[r].pc = "cascade" /\ req[r].who = Nobody
  /\ removed' = removed \cup {d}
  /\ shared' = {s \in shared : s[1] # d}
  /\ req' = [req EXCEPT ![r].pc = "log", ![r].rows = {}]
  /\ UNCHANGED <<process, owner, trail, faults>>

\* The second transaction of an upload or a deletion.
WriteEntry(r) ==
  /\ req[r].pc = "log"
  /\ trail' = trail \cup {r}
  /\ GoTo(r, "done")
  /\ UNCHANGED <<process, owner, removed, shared, faults>>

-----------------------------------------------------------------------------
(* Failures.  A transaction that does not commit leaves no change.         *)

DbFault(r) ==
  /\ faults < MaxFaults /\ req[r].pc \in Working
  /\ faults' = faults + 1
  /\ End(r, "error")
  /\ UNCHANGED <<process, tables>>

Crash ==
  /\ faults < MaxFaults /\ phase # "down"
  /\ faults' = faults + 1
  /\ phase' = "down" /\ seed' = NoSeed
  /\ req' = [r \in Requests |->
       IF req[r].pc \in Working THEN [Idle EXCEPT !.pc = "lost"] ELSE req[r]]
  /\ UNCHANGED tables

Step(r) ==
  /\ WaitsFor(r) = {}
  /\ \/ UploadCheckVisible(r) \/ Grant(r) \/ CheckDocument(r) \/ Revoke(r) \/ CommitSharing(r)
     \/ LockDocument(r) \/ DeleteRow(r) \/ CommitPurge(r) \/ WriteEntry(r)

Next ==
  \/ Boot \/ SeedIngest \/ SeedGrant \/ SeedEnds \/ Crash
  \/ \E r \in Requests : Step(r) \/ DbFault(r)
  \/ \E r \in Requests, u \in Users, d \in Docs :
       UploadRegister(r, u, d) \/ UploadMatch(r, u, d) \/ Manage(r, u, d)

Spec == Init /\ [][Next]_vars

-----------------------------------------------------------------------------
(* Properties.                                                             *)

TypeOK ==
  /\ phase \in {"down", "seeding", "up"}
  /\ seed \in [left : Nat, doc : Docs \cup {NoDoc}]
  /\ owner \in [Docs -> Owners \cup {NoOwner}]
  /\ removed \subseteq Docs
  /\ shared \subseteq Docs \X Principals
  /\ trail \subseteq Requests
  /\ req \in [Requests -> RequestRecord]
  /\ faults \in 0..MaxFaults

\* The log holds an entry of this change by someone who may make it.
Logged(op, d, p) ==
  \E r \in trail :
    /\ req[r].op = op /\ req[r].doc = d /\ req[r].who = p
    /\ MayManage(req[r].user, d)

\* A document that is gone is shared with nobody, also when a grant was checked
\* before the deletion and inserts its row around it.
GoneIsUnshared == \A s \in shared : Live(s[1])

\* Every permission is explained by the log, whatever grants, revocations,
\* deletions and failures were interleaved: one that exists was granted by the
\* owner or an administrator, or by the seed on a document of its own, and one
\* that was granted and does not exist was revoked or went with its document.
SharingIsAccounted ==
  \A d \in Docs, p \in Principals :
    IF <<d, p>> \in shared
      THEN Logged("grant", d, p) \/ (owner[d] = System /\ p = Everyone)
      ELSE Logged("grant", d, p) => Logged("revoke", d, p) \/ d \in removed

\* A deletion locks its document and then the permissions, a grant its permission and then
\* the document, and each waits with what it has: in no set of requests does everyone wait for
\* one of the set, so the database never has to break a deadlock (documents.py:55-64, 182;
\* pgvector.py:345).
NoWaitCycle ==
  \A circle \in (SUBSET Requests) \ {{}} : \E r \in circle : WaitsFor(r) \cap circle = {}

\* "The demo corpus exists to be searched by whoever signs in": when the process
\* serves, every document it seeded is shared with everyone, unless revoked.
DemoIsShared ==
  phase = "up" =>
    \A d \in Docs :
      Live(d) /\ owner[d] = System =>
        <<d, Everyone>> \in shared \/ Logged("revoke", d, Everyone)

\* The grants and revocations in the log, each by the user who made it.
Acts ==
  LET Act(r) == <<req[r].user, req[r].op, req[r].doc, req[r].who>>
  IN  {Act(r) : r \in {q \in trail : req[q].op \in {"grant", "revoke"}}}

Access == INSTANCE AccessControl WITH readers <- shared, acts <- Acts

\* The routes and the seed implement the abstract access control: a change of
\* sharing and its entry are one step, of someone who may make it.
AccessSpec == Access!Spec
=============================================================================
