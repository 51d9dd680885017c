------------------------ MODULE DocumentAccessProofs ------------------------
(***************************************************************************)
(* Theorems about module DocumentAccess: types, no permission on a deleted *)
(* document, every permission explained by the log, no circle of waiting   *)
(* transactions, and the refinement of AccessControl.  All follow from     *)
(* AccessInv, which says what each open transaction may rely on until it   *)
(* commits.                                                                *)
(***************************************************************************)
EXTENDS DocumentAccess, TLAPS

\* An entry is that of a request that is over; nothing is served before boot.
Logs == \A r \in trail : req[r].pc = "done"
Quiet == phase # "up" => \A r \in Requests : req[r].pc \notin Working

\* The seed runs alone, on documents of its own.
Seeds ==
  /\ seed.doc # NoDoc => phase = "seeding" /\ seed.left > 0 /\ Live(seed.doc)
  /\ phase = "seeding" => \A d \in Docs : Live(d) => owner[d] = System

RemovedWereOwned == \A d \in removed : owner[d] # NoOwner

\* What a request has checked or locked stays true until it acts on it.
Relies(x) ==
  /\ x.pc = "inserted" => x.doc \notin removed
  /\ x.pc = "kept" =>
       <<x.doc, x.who>> \in shared \/ x.doc \in removed \/ Logged("revoke", x.doc, x.who)
  /\ x.pc = "erased" => <<x.doc, x.who>> \in shared
  /\ x.pc = "cascade" =>
       /\ x.doc \notin removed
       /\ \A p \in x.rows : <<x.doc, p>> \in shared
       /\ x.who = Nobody => \A p \in Principals : <<x.doc, p>> \in shared => p \in x.rows

RecOK(x) ==
  /\ x.op \in {"grant", "revoke", "delete"} =>
       x.user \in Users /\ x.doc \in Docs /\ owner[x.doc] # NoOwner /\ MayManage(x.user, x.doc)
  /\ x.op \in {"grant", "revoke"} => x.who \in Principals
  /\ x.pc = "match" => x.op = "upload"
  /\ x.pc = "write" => x.op \in {"grant", "revoke"}
  /\ x.pc \in {"purge", "cascade"} => x.op = "delete"
  /\ x.pc = "purge" => x.rows = {}
  /\ x.pc = "log" => x.op \in {"upload", "delete"}
  /\ x.pc \in {"key", "inserted", "kept"} => x.op = "grant"
  /\ x.pc \in {"erased", "missed"} => x.op = "revoke"
  /\ Relies(x)

RequestsOK == \A r \in Requests : RecOK(req[r])

\* Two open transactions on one document: one deletes a permission at a time, and
\* nobody else deletes the document or adds a permission while a cascade runs.
Apart(x, y) ==
  x.doc = y.doc =>
    /\ x.pc = "erased" /\ y.pc = "erased" => x.who # y.who
    /\ x.pc = "cascade" => y.pc \notin {"inserted", "cascade"}
    /\ x.pc = "cascade" /\ y.pc = "erased" => y.who \notin x.rows

Exclusive == \A q, r \in Requests : q # r => Apart(req[q], req[r])

\* The inductive invariant.
AccessInv ==
  /\ TypeOK /\ Logs /\ Quiet /\ Seeds /\ RemovedWereOwned
  /\ RequestsOK /\ Exclusive /\ GoneIsUnshared /\ SharingIsAccounted

\* What no step takes back: an owner, and an entry.
OwnersStay == \A d \in Docs : owner[d] # NoOwner => owner'[d] = owner[d]
EntriesStay == trail \subseteq trail' /\ \A r \in trail : req'[r] = req[r]

-----------------------------------------------------------------------------
(* What a step that keeps the entries preserves.                           *)

\* A change that was logged stays logged.
LEMMA LoggedStays ==
  ASSUME TypeOK, RequestsOK, OwnersStay, EntriesStay,
         NEW op \in {"grant", "revoke"}, NEW d \in Docs, NEW p \in Principals,
         Logged(op, d, p)
  PROVE  Logged(op, d, p)'
<1>1. PICK r \in trail : req[r].op = op /\ req[r].doc = d /\ req[r].who = p
                         /\ MayManage(req[r].user, d)
  BY DEF Logged
<1>2. r \in Requests /\ r \in trail' /\ req'[r] = req[r]
  BY <1>1 DEF TypeOK, EntriesStay
<1>3. owner[d] # NoOwner
  BY <1>1, <1>2 DEF RequestsOK, RecOK
<1>4. MayManage(req[r].user, d)'
  BY <1>1, <1>2, <1>3 DEF MayManage, OwnersStay
<1> QED
  BY <1>1, <1>2, <1>4 DEF Logged

\* Without a new entry nothing new is logged.
LEMMA NothingNewLogged ==
  ASSUME TypeOK, RequestsOK, OwnersStay, trail' = trail, EntriesStay,
         NEW op \in {"grant", "revoke"}, NEW d \in Docs, NEW p \in Principals,
         Logged(op, d, p)'
  PROVE  Logged(op, d, p)
<1>1. PICK r \in trail : req[r].op = op /\ req[r].doc = d /\ req[r].who = p
                         /\ MayManage(req[r].user, d)'
  BY DEF Logged, EntriesStay
<1>2. r \in Requests /\ req'[r] = req[r]
  BY <1>1 DEF TypeOK, EntriesStay
<1>3. owner[d] # NoOwner
  BY <1>1, <1>2 DEF RequestsOK, RecOK
<1>4. MayManage(req[r].user, d)
  BY <1>1, <1>2, <1>3 DEF MayManage, OwnersStay
<1> QED
  BY <1>1, <1>4 DEF Logged

\* A request that does not move keeps what it relies on, when the rows it has
\* locked are left alone.
LEMMA OthersKeep ==
  ASSUME TypeOK, RequestsOK, OwnersStay, EntriesStay,
         NEW r \in Requests, req'[r] = req[r], Relies(req[r])'
  PROVE  RecOK(req[r])'
<1>1. RecOK(req[r])
  BY DEF RequestsOK
<1>2. req[r].op \in {"grant", "revoke", "delete"} =>
        owner'[req[r].doc] # NoOwner /\ MayManage(req[r].user, req[r].doc)'
  BY <1>1 DEF RecOK, MayManage, OwnersStay
<1> QED
  BY <1>1, <1>2 DEF RecOK

\* A request that moves on and leaves the tables alone.
LEMMA RequestMoves ==
  ASSUME AccessInv, NEW r \in Requests, NEW x \in RequestRecord,
         req' = [req EXCEPT ![r] = x], req[r].pc # "done",
         UNCHANGED <<process, tables>>, faults' \in 0..MaxFaults,
         x.pc \in Working => phase = "up",
         RecOK(x),
         \A q \in Requests \ {r} : Apart(x, req[q]) /\ Apart(req[q], x)
  PROVE  AccessInv'
<1>1. /\ \A q \in Requests : req'[q] = IF q = r THEN x ELSE req[q]
      /\ UNCHANGED <<phase, seed, owner, removed, shared, trail>>
  BY DEF AccessInv, TypeOK, process, tables
<1>2. r \notin trail /\ EntriesStay /\ OwnersStay
  BY <1>1 DEF AccessInv, TypeOK, Logs, EntriesStay, OwnersStay
<1>3. TypeOK'
  BY <1>1 DEF AccessInv, TypeOK
<1>4. Logs' /\ Quiet' /\ Seeds' /\ RemovedWereOwned' /\ GoneIsUnshared'
  <2>1. Logs'
    BY <1>1, <1>2 DEF AccessInv, TypeOK, Logs
  <2>2. Quiet'
    BY <1>1 DEF AccessInv, Quiet
  <2>3. Seeds' /\ RemovedWereOwned' /\ GoneIsUnshared'
    BY <1>1 DEF AccessInv, Seeds, RemovedWereOwned, GoneIsUnshared, Live
  <2> QED
    BY <2>1, <2>2, <2>3
<1>5. \A op, d, p : Logged(op, d, p)' <=> Logged(op, d, p)
  BY <1>1, <1>2 DEF Logged, MayManage, EntriesStay
<1>6. RequestsOK'
  BY <1>1, <1>5 DEF AccessInv, RequestsOK, RecOK, Relies, MayManage
<1>7. Exclusive'
  BY <1>1 DEF AccessInv, Exclusive
<1>8. SharingIsAccounted'
  BY <1>1, <1>5 DEF AccessInv, SharingIsAccounted
<1> QED
  BY <1>3, <1>4, <1>6, <1>7, <1>8 DEF AccessInv

-----------------------------------------------------------------------------
(* One lemma per action.                                                   *)

LEMMA InitOK == Init => AccessInv
<1> SUFFICES ASSUME Init PROVE AccessInv
  OBVIOUS
<1>1. Idle \in RequestRecord /\ \A r \in Requests : req[r] = Idle
  BY DEF Init, Idle, RequestRecord, Ops
<1>2. TypeOK
  BY <1>1, ConstantsAssumption DEF Init, TypeOK, NoSeed, Owners
<1>3. Logs /\ Quiet /\ Seeds /\ RemovedWereOwned /\ Exclusive /\ GoneIsUnshared
  BY <1>1 DEF Init, Idle, NoSeed, Logs, Quiet, Seeds, RemovedWereOwned, Exclusive, Apart,
              GoneIsUnshared, Working, Open, Live
<1>4. RequestsOK
  BY <1>1 DEF RequestsOK, RecOK, Relies, Idle
<1>5. SharingIsAccounted
  BY DEF Init, SharingIsAccounted, Logged
<1> QED
  BY <1>2, <1>3, <1>4, <1>5 DEF AccessInv

\* The steps that only the process takes, all tables and requests unchanged.
LEMMA ProcessMoves ==
  ASSUME AccessInv, UNCHANGED <<tables, req, faults>>, TypeOK', Seeds',
         phase' # "up" => phase # "up"
  PROVE  AccessInv'
<1>1. UNCHANGED <<owner, removed, shared, trail, req, faults>>
  BY DEF tables
<1>2. \A op, d, p : Logged(op, d, p)' <=> Logged(op, d, p)
  BY <1>1 DEF Logged, MayManage
<1>3. Logs' /\ Quiet' /\ RemovedWereOwned' /\ Exclusive' /\ GoneIsUnshared'
  BY <1>1 DEF AccessInv, Logs, Quiet, RemovedWereOwned, Exclusive, GoneIsUnshared, Live
<1>4. RequestsOK' /\ SharingIsAccounted'
  BY <1>1, <1>2 DEF AccessInv, RequestsOK, RecOK, Relies, MayManage, SharingIsAccounted
<1> QED
  BY <1>3, <1>4 DEF AccessInv

LEMMA BootKeeps == AccessInv /\ Boot => AccessInv'
<1> SUFFICES ASSUME AccessInv, Boot PROVE AccessInv'
  OBVIOUS
<1>1. TypeOK'
  BY ConstantsAssumption DEF AccessInv, TypeOK, Boot, NoSeed, tables
<1>2. Seeds'
  BY DEF Boot, NoSeed, Seeds, Live, tables
<1> QED
  BY <1>1, <1>2, ProcessMoves DEF Boot

LEMMA SeedEndsKeeps == AccessInv /\ SeedEnds => AccessInv'
<1> SUFFICES ASSUME AccessInv, SeedEnds PROVE AccessInv'
  OBVIOUS
<1>1. TypeOK' /\ Seeds'
  BY DEF AccessInv, TypeOK, SeedEnds, NoSeed, Seeds, Live, tables
<1> QED
  BY <1>1, ProcessMoves DEF SeedEnds

LEMMA SeedIngestKeeps == AccessInv /\ SeedIngest => AccessInv'
<1> SUFFICES ASSUME AccessInv, SeedIngest PROVE AccessInv'
  OBVIOUS
<1>1. PICK d \in Docs :
        /\ seed' = [seed EXCEPT !.doc = d]
        /\ \/ owner[d] = NoOwner /\ owner' = [owner EXCEPT ![d] = System]
           \/ VisibleTo(d, System) /\ UNCHANGED owner
  BY DEF SeedIngest
<1>2. /\ phase = "seeding" /\ seed.left > 0
      /\ UNCHANGED <<phase, removed, shared, trail, req, faults>>
  BY DEF SeedIngest
<1>3. OwnersStay /\ EntriesStay
  BY <1>1, <1>2 DEF AccessInv, TypeOK, OwnersStay, EntriesStay
<1>4. TypeOK'
  BY <1>1, <1>2 DEF AccessInv, TypeOK, Owners
<1>5. Seeds' /\ RemovedWereOwned' /\ GoneIsUnshared'
  BY <1>1, <1>2, ConstantsAssumption
  DEF AccessInv, TypeOK, Seeds, RemovedWereOwned, GoneIsUnshared, Live, VisibleTo
<1>6. Logs' /\ Quiet' /\ Exclusive'
  BY <1>2 DEF AccessInv, Logs, Quiet, Exclusive
<1>7. RequestsOK'
  BY <1>2, <1>3, OthersKeep DEF AccessInv, RequestsOK, Relies, Quiet, Working, Open
<1>8. SharingIsAccounted'
  <2> SUFFICES ASSUME NEW e \in Docs, NEW p \in Principals
               PROVE  IF <<e, p>> \in shared'
                        THEN Logged("grant", e, p)' \/ (owner'[e] = System /\ p = Everyone)
                        ELSE Logged("grant", e, p)' => Logged("revoke", e, p)' \/ e \in removed'
    BY DEF SharingIsAccounted
  <2>1. CASE <<e, p>> \in shared
    BY <2>1, <1>2, <1>3, LoggedStays
    DEF AccessInv, SharingIsAccounted, GoneIsUnshared, Live, OwnersStay
  <2>2. CASE <<e, p>> \notin shared
    BY <2>2, <1>2, <1>3, LoggedStays, NothingNewLogged DEF AccessInv, SharingIsAccounted
  <2> QED
    BY <2>1, <2>2
<1> QED
  BY <1>4, <1>5, <1>6, <1>7, <1>8 DEF AccessInv

LEMMA SeedGrantKeeps == AccessInv /\ SeedGrant => AccessInv'
<1> SUFFICES ASSUME AccessInv, SeedGrant PROVE AccessInv'
  OBVIOUS
<1>1. /\ seed.doc \in Docs /\ Live(seed.doc) /\ owner[seed.doc] = System
      /\ phase = "seeding" /\ seed.left > 0
  BY DEF AccessInv, TypeOK, Seeds, SeedGrant
<1>2. /\ shared' = shared \cup {<<seed.doc, Everyone>>}
      /\ seed' = [left |-> seed.left - 1, doc |-> NoDoc]
      /\ UNCHANGED <<phase, owner, removed, trail, req, faults>>
  BY DEF SeedGrant
<1>3. OwnersStay /\ EntriesStay
  BY <1>2 DEF OwnersStay, EntriesStay
<1>4. TypeOK'
  BY <1>1, <1>2, ConstantsAssumption DEF AccessInv, TypeOK
<1>5. Seeds' /\ RemovedWereOwned' /\ GoneIsUnshared'
  BY <1>1, <1>2 DEF AccessInv, Seeds, RemovedWereOwned, GoneIsUnshared, Live
<1>6. Logs' /\ Quiet' /\ Exclusive'
  BY <1>2 DEF AccessInv, Logs, Quiet, Exclusive
<1>7. RequestsOK'
  BY <1>1, <1>2, <1>3, OthersKeep DEF AccessInv, RequestsOK, Relies, Quiet, Working, Open
<1>8. \A op, d, p : Logged(op, d, p)' <=> Logged(op, d, p)
  BY <1>2 DEF Logged, MayManage
<1>9. SharingIsAccounted'
  BY <1>1, <1>2, <1>8 DEF AccessInv, SharingIsAccounted
<1> QED
  BY <1>4, <1>5, <1>6, <1>7, <1>9 DEF AccessInv

LEMMA CrashKeeps == AccessInv /\ Crash => AccessInv'
<1> SUFFICES ASSUME AccessInv, Crash PROVE AccessInv'
  OBVIOUS
<1> DEFINE Lost == [Idle EXCEPT !.pc = "lost"]
<1>1. /\ \A r \in Requests : req'[r] = IF req[r].pc \in Working THEN Lost ELSE req[r]
      /\ UNCHANGED <<owner, removed, shared, trail>>
      /\ phase' = "down" /\ seed' = NoSeed
  BY DEF Crash, tables
<1>2. Lost \in RequestRecord /\ Lost.pc = "lost" /\ Lost.op = "none"
  BY DEF Idle, RequestRecord, Ops, Ended
<1> HIDE DEF Lost
<1>3. OwnersStay /\ EntriesStay
  BY <1>1 DEF AccessInv, TypeOK, Logs, OwnersStay, EntriesStay, Working, Open
<1>4. TypeOK'
  <2>1. faults' \in 0..MaxFaults
    BY ConstantsAssumption DEF Crash, AccessInv, TypeOK
  <2>2. req' \in [Requests -> RequestRecord]
    BY <1>2 DEF Crash, AccessInv, TypeOK, Lost
  <2> QED
    BY <1>1, <2>1, <2>2 DEF AccessInv, TypeOK, NoSeed
<1>5. Seeds' /\ RemovedWereOwned' /\ GoneIsUnshared'
  BY <1>1 DEF AccessInv, Seeds, RemovedWereOwned, GoneIsUnshared, Live, NoSeed
<1>6. Logs' /\ Quiet' /\ Exclusive'
  BY <1>1, <1>2, <1>3
  DEF AccessInv, TypeOK, Logs, Quiet, Exclusive, Apart, EntriesStay, Working, Open
<1>7. \A op, d, p : Logged(op, d, p)' <=> Logged(op, d, p)
  BY <1>1, <1>3 DEF Logged, MayManage, EntriesStay
<1>8. RequestsOK'
  BY <1>1, <1>2, <1>7 DEF AccessInv, RequestsOK, RecOK, Relies, MayManage
<1>9. SharingIsAccounted'
  BY <1>1, <1>7 DEF AccessInv, SharingIsAccounted
<1> QED
  BY <1>4, <1>5, <1>6, <1>8, <1>9 DEF AccessInv

-----------------------------------------------------------------------------
(* Steps of a request that leave the tables alone.                         *)

\* A request with no lock on a permission or a deletion is apart from the others.
LEMMA Unlocked ==
  ASSUME NEW x \in RequestRecord, NEW y \in RequestRecord,
         x.pc \notin {"inserted", "erased", "cascade"}
  PROVE  Apart(x, y) /\ Apart(y, x)
<1> QED
  BY DEF Apart

\* What the locks of the others do to a request that goes on: one that has its
\* lock waits for nobody.
LEMMA Unblocked ==
  ASSUME NEW r \in Requests, WaitsFor(r) = {}, NEW q \in Requests \ {r},
         NEW held \in Holds(q), NEW wanted \in Wants(r)
  PROVE  ~Blocks(held, wanted)
<1> QED
  BY DEF WaitsFor

LEMMA UploadMatchKeeps ==
  ASSUME AccessInv, NEW r \in Requests, NEW u \in Users, NEW d \in Docs, UploadMatch(r, u, d)
  PROVE  AccessInv'
<1> DEFINE x == [pc |-> "match", op |-> "upload", user |-> u, doc |-> d, who |-> Nobody,
                rows |-> {}]
<1>1. x \in RequestRecord /\ RecOK(x)
  BY DEF RequestRecord, Working, Ops, RecOK, Relies
<1>2. x.pc = "match" /\ req' = [req EXCEPT ![r] = x]
  BY DEF UploadMatch, Begin
<1> HIDE DEF x
<1> QED
  BY <1>1, <1>2, RequestMoves, Unlocked DEF UploadMatch, AccessInv, TypeOK

LEMMA RequireOwnerOrAdminKeeps ==
  ASSUME AccessInv, NEW r \in Requests, NEW op \in {"grant", "revoke", "delete"},
         NEW u \in Users, NEW d \in Docs, NEW p \in Principals \cup {Nobody},
         op # "delete" => p \in Principals,
         RequireOwnerOrAdmin(r, op, u, d, p)
  PROVE  AccessInv'
<1>1. CASE Live(d) /\ MayManage(u, d)
  <2> DEFINE x == [pc |-> IF op = "delete" THEN "purge" ELSE "write",
                   op |-> op, user |-> u, doc |-> d, who |-> p, rows |-> {}]
  <2>1. x \in RequestRecord /\ x.pc \in {"purge", "write"}
    BY DEF RequestRecord, Working, Ops
  <2>2. RecOK(x)
    BY <1>1, <2>1 DEF RecOK, Relies, Live
  <2>3. req' = [req EXCEPT ![r] = x]
    BY <1>1 DEF RequireOwnerOrAdmin, Begin
  <2> HIDE DEF x
  <2> QED
    BY <2>1, <2>2, <2>3, RequestMoves, Unlocked DEF RequireOwnerOrAdmin, AccessInv, TypeOK
<1>2. CASE ~(Live(d) /\ MayManage(u, d))
  <2> DEFINE x == [Idle EXCEPT !.pc = "refused"]
  <2>1. x \in RequestRecord /\ x.pc = "refused" /\ RecOK(x)
    BY DEF Idle, RequestRecord, Ended, Ops, RecOK, Relies
  <2>2. req' = [req EXCEPT ![r] = x]
    BY <1>2 DEF RequireOwnerOrAdmin, End
  <2> HIDE DEF x
  <2> QED
    BY <2>1, <2>2, RequestMoves, Unlocked DEF RequireOwnerOrAdmin, AccessInv, TypeOK, Working, Open
<1> QED
  BY <1>1, <1>2

\* A request that is refused or fails.
LEMMA EndKeeps ==
  ASSUME AccessInv, NEW r \in Requests, NEW pc \in {"refused", "error"}, End(r, pc),
         req[r].pc \in Working, UNCHANGED <<process, tables>>, faults' \in 0..MaxFaults
  PROVE  AccessInv'
<1> DEFINE x == [Idle EXCEPT !.pc = pc]
<1>1. x \in RequestRecord /\ x.pc = pc /\ RecOK(x)
  BY DEF Idle, RequestRecord, Ended, Ops, RecOK, Relies
<1>2. req' = [req EXCEPT ![r] = x]
  BY DEF End
<1> HIDE DEF x
<1> QED
  BY <1>1, <1>2, RequestMoves, Unlocked DEF AccessInv, TypeOK, Working, Open

LEMMA DbFaultKeeps ==
  ASSUME AccessInv, NEW r \in Requests, DbFault(r)
  PROVE  AccessInv'
<1>1. faults' \in 0..MaxFaults
  BY ConstantsAssumption DEF DbFault, AccessInv, TypeOK
<1> QED
  BY <1>1, EndKeeps DEF DbFault

LEMMA UploadCheckVisibleKeeps ==
  ASSUME AccessInv, NEW r \in Requests, UploadCheckVisible(r)
  PROVE  AccessInv'
<1>1. CASE VisibleTo(req[r].doc, req[r].user)
  <2> DEFINE x == [req[r] EXCEPT !.pc = "log"]
  <2>1. req[r] \in RequestRecord /\ RecOK(req[r]) /\ req[r].pc = "match" /\ phase = "up"
    BY DEF AccessInv, TypeOK, RequestsOK, UploadCheckVisible, Quiet, Working
  <2>2. x \in RequestRecord /\ x.pc = "log" /\ RecOK(x)
    BY <2>1 DEF RequestRecord, Working, RecOK, Relies
  <2>3. req' = [req EXCEPT ![r] = x]
    BY <1>1 DEF UploadCheckVisible, GoTo, AccessInv, TypeOK
  <2> HIDE DEF x
  <2> QED
    BY <2>1, <2>2, <2>3, RequestMoves, Unlocked DEF UploadCheckVisible, AccessInv, TypeOK
<1>2. CASE ~VisibleTo(req[r].doc, req[r].user)
  BY <1>2, EndKeeps DEF UploadCheckVisible, Working, AccessInv, TypeOK
<1> QED
  BY <1>1, <1>2

LEMMA GrantKeeps ==
  ASSUME AccessInv, NEW r \in Requests, Grant(r)
  PROVE  AccessInv'
<1> DEFINE pc == IF Permission(r) \in shared THEN "kept" ELSE "key"
           x == [req[r] EXCEPT !.pc = pc]
<1>1. req[r] \in RequestRecord /\ RecOK(req[r]) /\ req[r].pc = "write" /\ phase = "up"
  BY DEF AccessInv, TypeOK, RequestsOK, Grant, Quiet, Working
<1>2. x \in RequestRecord /\ x.pc = pc /\ x.doc = req[r].doc /\ x.who = req[r].who
      /\ x.op = "grant" /\ x.user = req[r].user
  BY <1>1 DEF RequestRecord, Working, Open, Grant
<1>3. RecOK(x)
  BY <1>1, <1>2 DEF RecOK, Relies, Permission
<1>4. req' = [req EXCEPT ![r] = x]
  BY DEF Grant, GoTo, AccessInv, TypeOK
<1>5. pc \in {"kept", "key"}
  OBVIOUS
<1> HIDE DEF x, pc
<1> QED
  BY <1>1, <1>2, <1>3, <1>4, <1>5, RequestMoves, Unlocked DEF Grant, AccessInv, TypeOK

LEMMA CheckDocumentKeeps ==
  ASSUME AccessInv, NEW r \in Requests, CheckDocument(r), WaitsFor(r) = {}
  PROVE  AccessInv'
<1>1. CASE req[r].doc \in removed
  BY <1>1, EndKeeps DEF CheckDocument, Working, AccessInv, TypeOK
<1>2. CASE req[r].doc \notin removed
  <2> DEFINE x == [req[r] EXCEPT !.pc = "inserted"]
  <2>1. req[r] \in RequestRecord /\ RecOK(req[r]) /\ req[r].pc = "key" /\ phase = "up"
    BY DEF AccessInv, TypeOK, RequestsOK, CheckDocument, Quiet, Working
  <2>2. x \in RequestRecord /\ x.pc = "inserted" /\ x.doc = req[r].doc /\ x.who = req[r].who
        /\ x.op = "grant" /\ x.user = req[r].user
    BY <2>1 DEF RequestRecord, Working, Open, RecOK
  <2>3. RecOK(x)
    BY <1>2, <2>1, <2>2 DEF RecOK, Relies
  <2>4. req' = [req EXCEPT ![r] = x]
    BY <1>2 DEF CheckDocument, GoTo, AccessInv, TypeOK
  <2>5. ASSUME NEW q \in Requests \ {r}, req[q].pc = "cascade" PROVE req[q].doc # x.doc
    <3>1. <<Document(q), "remove">> \in Holds(q) /\ <<Document(r), "keep">> \in Wants(r)
      BY <2>1, <2>5 DEF Holds, Wants
    <3>2. ~Blocks(<<Document(q), "remove">>, <<Document(r), "keep">>)
      BY <3>1, Unblocked
    <3> QED
      BY <2>2, <3>2 DEF Blocks, Conflicts, Document
  <2>6. \A q \in Requests \ {r} : Apart(x, req[q]) /\ Apart(req[q], x)
    BY <2>2, <2>5 DEF Apart
  <2> HIDE DEF x
  <2> QED
    BY <2>1, <2>2, <2>3, <2>4, <2>6, RequestMoves DEF CheckDocument, AccessInv, TypeOK
<1> QED
  BY <1>1, <1>2

LEMMA RevokeKeeps ==
  ASSUME AccessInv, NEW r \in Requests, Revoke(r), WaitsFor(r) = {}
  PROVE  AccessInv'
<1> DEFINE pc == IF Permission(r) \in shared THEN "erased" ELSE "missed"
           x == [req[r] EXCEPT !.pc = pc]
<1>1. req[r] \in RequestRecord /\ RecOK(req[r]) /\ req[r].pc = "write" /\ phase = "up"
      /\ req[r].op = "revoke"
  BY DEF AccessInv, TypeOK, RequestsOK, Revoke, Quiet, Working
<1>2. x \in RequestRecord /\ x.pc = pc /\ x.doc = req[r].doc /\ x.who = req[r].who
      /\ x.op = "revoke" /\ x.user = req[r].user
  BY <1>1 DEF RequestRecord, Working, Open
<1>3. RecOK(x)
  BY <1>1, <1>2 DEF RecOK, Relies, Permission
<1>4. req' = [req EXCEPT ![r] = x]
  BY DEF Revoke, GoTo, AccessInv, TypeOK
<1>5. pc \in {"erased", "missed"} /\ (pc = "erased" => Permission(r) \in shared)
  OBVIOUS
<1> HIDE DEF pc
<1>6. ASSUME NEW q \in Requests \ {r}, req[q].doc = x.doc
      PROVE  /\ req[q].pc = "erased" => req[q].who # x.who
             /\ req[q].pc = "cascade" => x.who \notin req[q].rows
  <2>1. <<Permission(r), "delete">> \in Wants(r)
    BY <1>1 DEF Wants
  <2>2. <<Permission(r), "delete">> \notin Holds(q)
    BY <2>1, Unblocked DEF Blocks, Conflicts
  <2> QED
    BY <1>2, <1>6, <2>2 DEF Holds, Permission
<1>7. \A q \in Requests \ {r} : Apart(x, req[q]) /\ Apart(req[q], x)
  BY <1>2, <1>5, <1>6 DEF Apart
<1> HIDE DEF x
<1> QED
  BY <1>1, <1>2, <1>3, <1>4, <1>5, <1>7, RequestMoves DEF Revoke, AccessInv, TypeOK

\* The permissions a cascade goes through.
LEMMA NextRowIsLeft ==
  ASSUME NEW d, NEW rows, NEW p \in NextRow(d, rows)
  PROVE  /\ p \in Principals \cup {Nobody}
         /\ p = Nobody => \A q \in Principals : <<d, q>> \in shared => q \in rows
<1> QED
  BY ConstantsAssumption DEF NextRow

LEMMA LockDocumentKeeps ==
  ASSUME AccessInv, NEW r \in Requests, LockDocument(r), WaitsFor(r) = {}
  PROVE  AccessInv'
<1> DEFINE d == req[r].doc
<1>1. req[r] \in RequestRecord /\ RecOK(req[r]) /\ req[r].pc = "purge" /\ phase = "up"
      /\ req[r].op = "delete" /\ req[r].rows = {}
  BY DEF AccessInv, TypeOK, RequestsOK, RecOK, LockDocument, Quiet, Working
<1>2. CASE d \in removed
  <2> DEFINE x == [req[r] EXCEPT !.pc = "log"]
  <2>1. x \in RequestRecord /\ x.pc = "log" /\ RecOK(x)
    BY <1>1 DEF RequestRecord, Working, RecOK, Relies
  <2>2. req' = [req EXCEPT ![r] = x]
    BY <1>2 DEF LockDocument, GoTo, AccessInv, TypeOK
  <2> HIDE DEF x
  <2> QED
    BY <1>1, <2>1, <2>2, RequestMoves, Unlocked DEF LockDocument, AccessInv, TypeOK
<1>3. CASE d \notin removed
  <2>1. PICK p \in NextRow(d, {}) : req' = [req EXCEPT ![r].pc = "cascade", ![r].who = p]
    BY <1>3 DEF LockDocument
  <2> DEFINE x == [req[r] EXCEPT !.pc = "cascade", !.who = p]
  <2>2. x \in RequestRecord /\ x.pc = "cascade" /\ x.doc = d /\ x.who = p /\ x.rows = {}
        /\ x.op = "delete" /\ x.user = req[r].user
    BY <1>1, NextRowIsLeft DEF RequestRecord, Working
  <2>3. RecOK(x)
    BY <1>1, <1>3, <2>2, NextRowIsLeft DEF RecOK, Relies
  <2>4. req' = [req EXCEPT ![r] = x]
    BY <1>1, <2>1 DEF AccessInv, TypeOK, RequestRecord
  <2>5. ASSUME NEW q \in Requests \ {r}, req[q].doc = d
        PROVE  req[q].pc \notin {"inserted", "cascade"}
    <3>1. <<Document(r), "remove">> \in Wants(r)
      BY <1>1 DEF Wants
    <3>2. <<Document(r), "keep">> \notin Holds(q) /\ <<Document(r), "remove">> \notin Holds(q)
      BY <3>1, Unblocked DEF Blocks, Conflicts
    <3> QED
      BY <2>5, <3>2 DEF Holds, Document
  <2>6. \A q \in Requests \ {r} : Apart(x, req[q]) /\ Apart(req[q], x)
    BY <2>2, <2>5 DEF Apart
  <2> HIDE DEF x
  <2> QED
    BY <1>1, <2>2, <2>3, <2>4, <2>6, RequestMoves DEF LockDocument, AccessInv, TypeOK
<1> QED
  BY <1>2, <1>3

LEMMA DeleteRowKeeps ==
  ASSUME AccessInv, NEW r \in Requests, DeleteRow(r), WaitsFor(r) = {}
  PROVE  AccessInv'
<1> DEFINE d == req[r].doc
           rows == IF Permission(r) \in shared THEN req[r].rows \cup {req[r].who} ELSE req[r].rows
<1>1. req[r] \in RequestRecord /\ RecOK(req[r]) /\ req[r].pc = "cascade" /\ phase = "up"
      /\ req[r].op = "delete" /\ req[r].who \in Principals /\ d \notin removed
  BY DEF AccessInv, TypeOK, RequestsOK, RecOK, Relies, RequestRecord, DeleteRow, Quiet, Working
<1>2. PICK p \in NextRow(d, rows) : req' = [req EXCEPT ![r].who = p, ![r].rows = rows]
  BY DEF DeleteRow
<1> DEFINE x == [req[r] EXCEPT !.who = p, !.rows = rows]
<1>3. rows \subseteq Principals
      /\ rows \subseteq req[r].rows \cup {req[r].who}
      /\ \A w \in rows : <<d, w>> \in shared
  BY <1>1 DEF RequestRecord, RecOK, Relies, Permission
<1> HIDE DEF rows
<1>4. x \in RequestRecord /\ x.pc = "cascade" /\ x.doc = d /\ x.who = p /\ x.rows = rows
      /\ x.op = "delete" /\ x.user = req[r].user
  BY <1>1, <1>3, NextRowIsLeft DEF RequestRecord
<1>5. RecOK(x)
  <2>1. p = Nobody => \A w \in Principals : <<d, w>> \in shared => w \in rows
    BY NextRowIsLeft
  <2>2. Relies(x)
    BY <1>1, <1>3, <1>4, <2>1 DEF Relies
  <2> QED
    BY <1>1, <1>4, <2>2 DEF RecOK
<1>6. req' = [req EXCEPT ![r] = x]
  BY <1>1, <1>2 DEF AccessInv, TypeOK, RequestRecord
<1>7. ASSUME NEW q \in Requests \ {r}, req[q].doc = d
      PROVE  /\ req[q].pc \notin {"inserted", "cascade"}
             /\ req[q].pc = "erased" => req[q].who \notin rows
  <2>1. Apart(req[r], req[q])
    BY DEF AccessInv, Exclusive
  <2>2. <<Permission(r), "delete">> \in Wants(r)
    BY <1>1, ConstantsAssumption DEF Wants
  <2>3. <<Permission(r), "delete">> \notin Holds(q)
    BY <2>2, Unblocked DEF Blocks, Conflicts
  <2>4. req[q].pc = "erased" => req[q].who # req[r].who
    BY <1>7, <2>3 DEF Holds, Permission
  <2> QED
    BY <1>1, <1>3, <1>7, <2>1, <2>4 DEF Apart
<1>8. \A q \in Requests \ {r} : Apart(x, req[q]) /\ Apart(req[q], x)
  BY <1>4, <1>7 DEF Apart
<1> HIDE DEF x
<1> QED
  BY <1>1, <1>4, <1>5, <1>6, <1>8, RequestMoves DEF DeleteRow, AccessInv, TypeOK

-----------------------------------------------------------------------------
(* Steps of a request that write.                                          *)

LEMMA UploadRegisterKeeps ==
  ASSUME AccessInv, NEW r \in Requests, NEW u \in Users, NEW d \in Docs,
         UploadRegister(r, u, d)
  PROVE  AccessInv'
<1> DEFINE x == [pc |-> "log", op |-> "upload", user |-> u, doc |-> d, who |-> Nobody,
                rows |-> {}]
<1>1. x \in RequestRecord /\ x.pc = "log" /\ x.op = "upload"
  BY DEF RequestRecord, Working, Ops
<1>2. /\ phase = "up" /\ req[r].pc = "new" /\ owner[d] = NoOwner
      /\ owner' = [owner EXCEPT ![d] = u] /\ req' = [req EXCEPT ![r] = x]
      /\ UNCHANGED <<phase, seed, removed, shared, trail, faults>>
  BY DEF UploadRegister, Begin, process
<1> HIDE DEF x
<1>3. TypeOK'
  BY <1>1, <1>2 DEF AccessInv, TypeOK, Owners
<1>4. \A q \in Requests : req'[q] = IF q = r THEN x ELSE req[q]
  BY <1>2 DEF AccessInv, TypeOK
<1>5. OwnersStay /\ EntriesStay
  BY <1>2, <1>4 DEF AccessInv, TypeOK, Logs, OwnersStay, EntriesStay
<1>6. Logs' /\ Quiet' /\ Exclusive'
  BY <1>1, <1>2, <1>4, <1>5 DEF AccessInv, TypeOK, Logs, Quiet, Exclusive, Apart, EntriesStay
<1>7. Seeds' /\ RemovedWereOwned' /\ GoneIsUnshared'
  BY <1>2, ConstantsAssumption
  DEF AccessInv, TypeOK, Seeds, RemovedWereOwned, GoneIsUnshared, Live
<1>8. RequestsOK'
  <2> SUFFICES ASSUME NEW q \in Requests PROVE RecOK(req[q])'
    BY DEF RequestsOK
  <2>1. CASE q = r
    BY <2>1, <1>1, <1>4 DEF RecOK, Relies
  <2>2. CASE q # r
    <3>1. RecOK(req[q]) /\ req[q] \in RequestRecord /\ req'[q] = req[q]
      BY <2>2, <1>4 DEF AccessInv, RequestsOK, TypeOK
    <3>2. req[q].pc = "kept" => req[q].doc \in Docs /\ req[q].who \in Principals
      BY <3>1 DEF RecOK
    <3>3. req[q].pc = "kept" =>
            \/ <<req[q].doc, req[q].who>> \in shared
            \/ req[q].doc \in removed
            \/ Logged("revoke", req[q].doc, req[q].who)'
      BY <3>1, <3>2, <1>5, LoggedStays DEF RecOK, Relies, AccessInv
    <3>4. Relies(req[q])'
      BY <3>1, <3>3, <1>2 DEF RecOK, Relies
    <3> QED
      BY <3>1, <3>4, <1>5, OthersKeep DEF AccessInv
  <2> QED
    BY <2>1, <2>2
<1>9. SharingIsAccounted'
  <2> SUFFICES ASSUME NEW e \in Docs, NEW p \in Principals
               PROVE  IF <<e, p>> \in shared'
                        THEN Logged("grant", e, p)' \/ (owner'[e] = System /\ p = Everyone)
                        ELSE Logged("grant", e, p)' => Logged("revoke", e, p)' \/ e \in removed'
    BY DEF SharingIsAccounted
  <2>1. CASE <<e, p>> \in shared
    BY <2>1, <1>2, <1>5, LoggedStays
    DEF AccessInv, SharingIsAccounted, GoneIsUnshared, Live, OwnersStay
  <2>2. CASE <<e, p>> \notin shared
    BY <2>2, <1>2, <1>5, LoggedStays, NothingNewLogged DEF AccessInv, SharingIsAccounted
  <2> QED
    BY <2>1, <2>2
<1> QED
  BY <1>3, <1>6, <1>7, <1>8, <1>9 DEF AccessInv

LEMMA WriteEntryKeeps ==
  ASSUME AccessInv, NEW r \in Requests, WriteEntry(r)
  PROVE  AccessInv'
<1> DEFINE x == [req[r] EXCEPT !.pc = "done"]
<1>1. req[r] \in RequestRecord /\ RecOK(req[r]) /\ req[r].pc = "log"
  BY DEF AccessInv, TypeOK, RequestsOK, WriteEntry
<1>2. x \in RequestRecord /\ x.pc = "done" /\ x.op = req[r].op /\ x.doc = req[r].doc
      /\ x.who = req[r].who /\ x.user = req[r].user
  BY <1>1 DEF RequestRecord, Ended
<1>3. x.op \in {"upload", "delete"}
  BY <1>1, <1>2 DEF RecOK
<1>4. /\ req' = [req EXCEPT ![r] = x] /\ trail' = trail \cup {r}
      /\ UNCHANGED <<phase, seed, owner, removed, shared, faults>>
  BY DEF WriteEntry, GoTo, AccessInv, TypeOK, process
<1> HIDE DEF x
<1>5. TypeOK'
  BY <1>2, <1>4 DEF AccessInv, TypeOK
<1>6. \A q \in Requests : req'[q] = IF q = r THEN x ELSE req[q]
  BY <1>4 DEF AccessInv, TypeOK
<1>7. r \notin trail /\ OwnersStay /\ EntriesStay
  BY <1>1, <1>4, <1>6 DEF AccessInv, TypeOK, Logs, OwnersStay, EntriesStay
<1>8. \A op \in {"grant", "revoke"} : \A d, p : Logged(op, d, p)' <=> Logged(op, d, p)
  BY <1>3, <1>4, <1>6, <1>7 DEF Logged, MayManage, EntriesStay
<1>9. Logs' /\ Quiet' /\ Exclusive'
  BY <1>2, <1>4, <1>6, <1>7
  DEF AccessInv, TypeOK, Logs, Quiet, Exclusive, Apart, EntriesStay, Working, Open
<1>10. Seeds' /\ RemovedWereOwned' /\ GoneIsUnshared'
  BY <1>4 DEF AccessInv, Seeds, RemovedWereOwned, GoneIsUnshared, Live
<1>11. RequestsOK'
  BY <1>1, <1>2, <1>4, <1>6, <1>8 DEF AccessInv, RequestsOK, RecOK, Relies, MayManage
<1>12. SharingIsAccounted'
  BY <1>4, <1>8 DEF AccessInv, SharingIsAccounted
<1> QED
  BY <1>5, <1>9, <1>10, <1>11, <1>12 DEF AccessInv

LEMMA CommitPurgeKeeps ==
  ASSUME AccessInv, NEW r \in Requests, CommitPurge(r)
  PROVE  AccessInv'
<1> DEFINE d == req[r].doc
           x == [req[r] EXCEPT !.pc = "log", !.rows = {}]
<1>1. /\ req[r] \in RequestRecord /\ RecOK(req[r]) /\ req[r].pc = "cascade" /\ phase = "up"
      /\ req[r].op = "delete" /\ d \in Docs /\ owner[d] # NoOwner
      /\ \A p \in Principals : <<d, p>> \in shared => p \in req[r].rows
  BY DEF AccessInv, TypeOK, RequestsOK, CommitPurge, Quiet, Working, RecOK, Relies
<1>2. x \in RequestRecord /\ x.pc = "log" /\ x.op = "delete" /\ x.doc = d
      /\ x.who = req[r].who /\ x.user = req[r].user
  BY <1>1 DEF RequestRecord, Working
<1>3. /\ req' = [req EXCEPT ![r] = x]
      /\ removed' = removed \cup {d} /\ shared' = {s \in shared : s[1] # d}
      /\ UNCHANGED <<phase, seed, owner, trail, faults>>
  BY DEF CommitPurge, AccessInv, TypeOK, process
<1> HIDE DEF x
<1>4. TypeOK'
  BY <1>1, <1>2, <1>3 DEF AccessInv, TypeOK
<1>5. \A q \in Requests : req'[q] = IF q = r THEN x ELSE req[q]
  BY <1>3 DEF AccessInv, TypeOK
<1>6. OwnersStay /\ EntriesStay
  BY <1>1, <1>3, <1>5 DEF AccessInv, TypeOK, Logs, OwnersStay, EntriesStay
<1>7. \A op, e, p : Logged(op, e, p)' <=> Logged(op, e, p)
  BY <1>3, <1>6 DEF Logged, MayManage, EntriesStay
<1>8. Logs' /\ Quiet' /\ Exclusive'
  BY <1>1, <1>2, <1>3, <1>5, <1>6
  DEF AccessInv, TypeOK, Logs, Quiet, Exclusive, Apart, EntriesStay
<1>9. Seeds' /\ RemovedWereOwned' /\ GoneIsUnshared'
  BY <1>1, <1>3 DEF AccessInv, Seeds, RemovedWereOwned, GoneIsUnshared, Live
<1>10. RequestsOK'
  <2> SUFFICES ASSUME NEW q \in Requests PROVE RecOK(req[q])'
    BY DEF RequestsOK
  <2>1. CASE q = r
    BY <2>1, <1>1, <1>2, <1>3, <1>5 DEF RecOK, Relies, MayManage
  <2>2. CASE q # r
    <3>1. RecOK(req[q]) /\ req'[q] = req[q]
      BY <2>2, <1>5 DEF AccessInv, RequestsOK
    <3>2. req[q].doc = d => req[q].pc \notin {"inserted", "cascade", "erased"}
      <4>1. Apart(req[r], req[q])
        BY <2>2 DEF AccessInv, Exclusive
      <4>2. req[q].pc = "erased" =>
              req[q].who \in Principals /\ <<req[q].doc, req[q].who>> \in shared
        BY <3>1 DEF RecOK, Relies
      <4> QED
        BY <1>1, <4>1, <4>2 DEF Apart
    <3>3. Relies(req[q])'
      BY <3>1, <3>2, <1>3, <1>7 DEF RecOK, Relies
    <3> QED
      BY <3>1, <3>3, <1>6, OthersKeep DEF AccessInv
  <2> QED
    BY <2>1, <2>2
<1>11. SharingIsAccounted'
  BY <1>3, <1>7 DEF AccessInv, SharingIsAccounted
<1> QED
  BY <1>4, <1>8, <1>9, <1>10, <1>11 DEF AccessInv

LEMMA CommitSharingKeeps ==
  ASSUME AccessInv, NEW r \in Requests, CommitSharing(r)
  PROVE  AccessInv'
<1> DEFINE op == req[r].op  d == req[r].doc  p == req[r].who
           x == [req[r] EXCEPT !.pc = "done"]
<1>1. /\ req[r] \in RequestRecord /\ RecOK(req[r]) /\ req[r].pc \in Open /\ phase = "up"
      /\ op \in {"grant", "revoke"}
  BY DEF AccessInv, TypeOK, RequestsOK, CommitSharing, Quiet, Working, RecOK, Open
<1>2. d \in Docs /\ p \in Principals /\ owner[d] # NoOwner /\ MayManage(req[r].user, d)
  BY <1>1 DEF RecOK
<1>3. x \in RequestRecord /\ x.pc = "done" /\ x.op = op /\ x.doc = d /\ x.who = p
      /\ x.user = req[r].user
  BY <1>1 DEF RequestRecord, Ended
<1>4. /\ req' = [req EXCEPT ![r] = x] /\ trail' = trail \cup {r}
      /\ UNCHANGED <<phase, seed, owner, removed, faults>>
      /\ req[r].pc = "inserted" => shared' = shared \cup {<<d, p>>}
      /\ req[r].pc = "erased" => shared' = shared \ {<<d, p>>}
      /\ req[r].pc \in {"kept", "missed"} => shared' = shared
  BY DEF CommitSharing, GoTo, AccessInv, TypeOK, process
<1> HIDE DEF x
<1>5. TypeOK'
  <2>1. shared' \subseteq Docs \X Principals
    BY <1>1, <1>2, <1>4 DEF AccessInv, TypeOK, Open
  <2> QED
    BY <2>1, <1>3, <1>4 DEF AccessInv, TypeOK
<1>6. \A q \in Requests : req'[q] = IF q = r THEN x ELSE req[q]
  BY <1>4 DEF AccessInv, TypeOK
<1>7. r \notin trail /\ OwnersStay /\ EntriesStay
  BY <1>1, <1>4, <1>6 DEF AccessInv, TypeOK, Logs, OwnersStay, EntriesStay, Open
<1>8. \A o, e, w : Logged(o, e, w)' <=> Logged(o, e, w) \/ (o = op /\ e = d /\ w = p)
  BY <1>2, <1>3, <1>4, <1>6, <1>7 DEF AccessInv, TypeOK, Logged, MayManage, EntriesStay
<1>9. Logs' /\ Quiet' /\ Exclusive'
  BY <1>1, <1>3, <1>4, <1>6, <1>7
  DEF AccessInv, TypeOK, Logs, Quiet, Exclusive, Apart, EntriesStay
<1>10. Seeds' /\ RemovedWereOwned'
  BY <1>4 DEF AccessInv, Seeds, RemovedWereOwned, Live
<1>11. GoneIsUnshared'
  BY <1>1, <1>2, <1>4 DEF AccessInv, GoneIsUnshared, RecOK, Relies, Live, Open
<1>12. RequestsOK'
  <2> SUFFICES ASSUME NEW q \in Requests PROVE RecOK(req[q])'
    BY DEF RequestsOK
  <2>1. CASE q = r
    BY <2>1, <1>1, <1>2, <1>3, <1>4, <1>6 DEF RecOK, Relies, MayManage
  <2>2. CASE q # r
    <3>1. RecOK(req[q]) /\ req'[q] = req[q]
      BY <2>2, <1>6 DEF AccessInv, RequestsOK
    <3>2. Apart(req[q], req[r]) /\ Apart(req[r], req[q])
      BY <2>2 DEF AccessInv, Exclusive
    <3>3. req[q].pc = "erased" => <<req[q].doc, req[q].who>> \in shared'
      BY <3>1, <3>2, <1>1, <1>4 DEF RecOK, Relies, Apart, Open
    <3>4. req[q].pc = "kept" =>
            \/ <<req[q].doc, req[q].who>> \in shared'
            \/ req[q].doc \in removed'
            \/ Logged("revoke", req[q].doc, req[q].who)'
      BY <3>1, <1>1, <1>4, <1>8 DEF RecOK, Relies, Open
    <3>5. req[q].pc = "cascade" => \A w \in req[q].rows : <<req[q].doc, w>> \in shared'
      BY <3>1, <3>2, <1>1, <1>4 DEF RecOK, Relies, Apart, Open
    <3>6. req[q].pc = "cascade" /\ req[q].who = Nobody =>
            \A w \in Principals : <<req[q].doc, w>> \in shared' => w \in req[q].rows
      BY <3>1, <3>2, <1>1, <1>4 DEF RecOK, Relies, Apart, Open
    <3>7. Relies(req[q])'
      BY <3>1, <3>3, <3>4, <3>5, <3>6, <1>4 DEF RecOK, Relies
    <3> QED
      BY <3>1, <3>7, <1>7, OthersKeep DEF AccessInv
  <2> QED
    BY <2>1, <2>2
<1>13. SharingIsAccounted'
  <2> SUFFICES ASSUME NEW e \in Docs, NEW w \in Principals
               PROVE  IF <<e, w>> \in shared'
                        THEN Logged("grant", e, w)' \/ (owner'[e] = System /\ w = Everyone)
                        ELSE Logged("grant", e, w)' => Logged("revoke", e, w)' \/ e \in removed'
    BY DEF SharingIsAccounted
  <2>1. CASE e = d /\ w = p
    BY <2>1, <1>1, <1>2, <1>4, <1>8 DEF AccessInv, SharingIsAccounted, RecOK, Relies, Open
  <2>2. CASE ~(e = d /\ w = p)
    BY <2>2, <1>1, <1>4, <1>8 DEF AccessInv, SharingIsAccounted, Open
  <2> QED
    BY <2>1, <2>2
<1> QED
  BY <1>5, <1>9, <1>10, <1>11, <1>12, <1>13 DEF AccessInv

-----------------------------------------------------------------------------
(* The invariant and what follows from it.                                 *)

LEMMA NextKeeps == AccessInv /\ [Next]_vars => AccessInv'
<1> SUFFICES ASSUME AccessInv, [Next]_vars PROVE AccessInv'
  OBVIOUS
<1>1. CASE Boot \/ SeedIngest \/ SeedGrant \/ SeedEnds \/ Crash
  BY <1>1, BootKeeps, SeedIngestKeeps, SeedGrantKeeps, SeedEndsKeeps, CrashKeeps
<1>2. ASSUME NEW r \in Requests, Step(r) PROVE AccessInv'
  BY <1>2, UploadCheckVisibleKeeps, GrantKeeps, CheckDocumentKeeps, RevokeKeeps,
     CommitSharingKeeps, LockDocumentKeeps, DeleteRowKeeps, CommitPurgeKeeps, WriteEntryKeeps
  DEF Step
<1>3. ASSUME NEW r \in Requests, DbFault(r) PROVE AccessInv'
  BY <1>3, DbFaultKeeps
<1>4. ASSUME NEW r \in Requests, NEW u \in Users, NEW d \in Docs,
             UploadRegister(r, u, d) \/ UploadMatch(r, u, d) \/ Manage(r, u, d)
      PROVE  AccessInv'
  <2>1. CASE UploadRegister(r, u, d) \/ UploadMatch(r, u, d)
    BY <2>1, UploadRegisterKeeps, UploadMatchKeeps
  <2>2. CASE Manage(r, u, d)
    BY <2>2, RequireOwnerOrAdminKeeps DEF Manage
  <2> QED
    BY <1>4, <2>1, <2>2
<1>5. CASE UNCHANGED vars
  <2>1. UNCHANGED <<tables, req, faults, phase, seed>>
    BY <1>5 DEF vars, tables
  <2>2. TypeOK' /\ Seeds'
    BY <2>1 DEF AccessInv, TypeOK, Seeds, Live, tables
  <2> QED
    BY <2>1, <2>2, ProcessMoves
<1> QED
  BY <1>1, <1>2, <1>3, <1>4, <1>5 DEF Next

THEOREM AccessInvariant == Spec => []AccessInv
<1> QED
  BY InitOK, NextKeeps, PTL DEF Spec

\* The type invariant of document access.
THEOREM AccessTypeCorrect == Spec => []TypeOK
<1>1. AccessInv => TypeOK
  BY DEF AccessInv
<1> QED
  BY <1>1, AccessInvariant, PTL

\* A deleted document is shared with nobody, whatever grant raced its deletion.
THEOREM GoneIsUnsharedCorrect == Spec => []GoneIsUnshared
<1>1. AccessInv => GoneIsUnshared
  BY DEF AccessInv
<1> QED
  BY <1>1, AccessInvariant, PTL

\* The audit log explains every permission that exists and every one that is gone.
THEOREM SharingIsAccountedCorrect == Spec => []SharingIsAccounted
<1>1. AccessInv => SharingIsAccounted
  BY DEF AccessInv
<1> QED
  BY <1>1, AccessInvariant, PTL

\* Who waits for a permission in a cascade, waits for an open revocation; whose grant
\* waits for its document, waits for a cascade; the others that wait have locked nothing.
LEMMA SomeoneCanStep == AccessInv => NoWaitCycle
<1> SUFFICES ASSUME AccessInv, NEW circle \in (SUBSET Requests) \ {{}},
                    \A r \in circle : WaitsFor(r) \cap circle # {}
             PROVE  FALSE
  BY DEF NoWaitCycle
<1>1. \A r \in circle : Wants(r) # {} /\
        \E q \in circle \ {r} : \E held \in Holds(q), wanted \in Wants(r) : Blocks(held, wanted)
  BY DEF WaitsFor
<1>2. \A r \in circle : req[r].pc \in {"write", "key", "purge", "cascade"}
  BY <1>1 DEF Wants
<1>3. ASSUME NEW r \in circle PROVE req[r].pc # "cascade"
  <2> SUFFICES ASSUME req[r].pc = "cascade" PROVE FALSE
    OBVIOUS
  <2>1. PICK q \in circle \ {r} : \E held \in Holds(q), wanted \in Wants(r) : Blocks(held, wanted)
    BY <1>1
  <2>2. Wants(r) \subseteq {<<Permission(r), "delete">>}
    BY DEF Wants
  <2>3. <<Permission(r), "delete">> \in Holds(q)
    <3>1. PICK held \in Holds(q) : Blocks(held, <<Permission(r), "delete">>)
      BY <2>1, <2>2
    <3>2. held[1] = Permission(r) /\ held[2] = "delete"
      BY <3>1 DEF Blocks, Conflicts
    <3>3. held = <<held[1], held[2]>>
      BY <1>2, <3>1 DEF Holds
    <3> QED
      BY <3>1, <3>2, <3>3
  <2>4. req[q].pc = "cascade" /\ req[q].doc = req[r].doc
    BY <1>2, <2>3 DEF Holds, Permission, Document
  <2>5. Apart(req[r], req[q])
    BY DEF AccessInv, Exclusive
  <2> QED
    BY <2>4, <2>5 DEF Apart
<1>4. ASSUME NEW r \in circle PROVE req[r].pc # "key"
  <2> SUFFICES ASSUME req[r].pc = "key" PROVE FALSE
    OBVIOUS
  <2>1. PICK q \in circle \ {r} : \E held \in Holds(q), wanted \in Wants(r) : Blocks(held, wanted)
    BY <1>1
  <2>2. PICK held \in Holds(q) : Blocks(held, <<Document(r), "keep">>)
    BY <2>1 DEF Wants
  <2>3. held[2] = "remove"
    BY <2>2 DEF Blocks, Conflicts
  <2> QED
    BY <1>2, <1>3, <2>2, <2>3 DEF Holds
<1>5. PICK r \in circle : r \in Requests
  <2>1. circle # {}
    OBVIOUS
  <2> QED
    BY <2>1
<1>6. PICK q \in circle : Holds(q) # {}
  BY <1>1, <1>5
<1> QED
  BY <1>2, <1>3, <1>4, <1>6 DEF Holds

\* Grants, revocations and deletions never wait for each other in a circle, although a
\* deletion waits with its document locked and a grant with its permission.
THEOREM NoWaitCycleCorrect == Spec => []NoWaitCycle
<1> QED
  BY SomeoneCanStep, AccessInvariant, PTL

-----------------------------------------------------------------------------
(* The refinement.                                                         *)

LEMMA AccessStutters ==
  ASSUME TypeOK, EntriesStay, UNCHANGED <<owner, removed, shared, trail>>
  PROVE  UNCHANGED Access!vars
<1>1. Acts' = Acts
  BY DEF Acts, EntriesStay
<1> QED
  BY <1>1 DEF Access!vars

LEMMA AccessInit == Init => Access!Init
  BY DEF Init, Access!Init, Acts

\* A step that is not over with any request keeps the entries.
LEMMA EntriesKept ==
  ASSUME AccessInv, NEW r \in Requests, req[r].pc # "done",
         \A q \in Requests \ {r} : req'[q] = req[q], trail \subseteq trail'
  PROVE  EntriesStay
  BY DEF AccessInv, TypeOK, Logs, EntriesStay

LEMMA AccessSeedIngest == AccessInv /\ SeedIngest => [Access!Next]_(Access!vars)
<1> SUFFICES ASSUME AccessInv, SeedIngest PROVE [Access!Next]_(Access!vars)
  OBVIOUS
<1>1. PICK d \in Docs :
        \/ owner[d] = NoOwner /\ owner' = [owner EXCEPT ![d] = System]
        \/ VisibleTo(d, System) /\ UNCHANGED owner
  BY DEF SeedIngest
<1>2. EntriesStay /\ UNCHANGED <<removed, shared, trail>>
  BY DEF SeedIngest, EntriesStay
<1>3. Acts' = Acts
  BY <1>2 DEF Acts, EntriesStay
<1>4. CASE UNCHANGED owner
  BY <1>2, <1>4, AccessStutters DEF AccessInv
<1>5. CASE owner[d] = NoOwner /\ owner' = [owner EXCEPT ![d] = System]
  <2>1. Access!Create(System, d)
    BY <1>2, <1>3, <1>5 DEF Access!Create
  <2> QED
    BY <2>1 DEF Access!Next
<1> QED
  BY <1>1, <1>4, <1>5

LEMMA AccessSeedGrant == AccessInv /\ SeedGrant => [Access!Next]_(Access!vars)
<1> SUFFICES ASSUME AccessInv, SeedGrant PROVE [Access!Next]_(Access!vars)
  OBVIOUS
<1>1. /\ seed.doc \in Docs /\ Live(seed.doc) /\ owner[seed.doc] = System
      /\ shared' = shared \cup {<<seed.doc, Everyone>>}
      /\ UNCHANGED <<owner, removed, trail, req>>
  BY DEF AccessInv, TypeOK, Seeds, SeedGrant
<1>2. Acts' = Acts
  BY <1>1 DEF Acts
<1>3. Access!Publish(seed.doc)
  BY <1>1, <1>2 DEF Access!Publish, Access!Live, Live
<1> QED
  BY <1>1, <1>3 DEF Access!Next

LEMMA AccessCrash == AccessInv /\ Crash => UNCHANGED Access!vars
<1> SUFFICES ASSUME AccessInv, Crash PROVE UNCHANGED Access!vars
  OBVIOUS
<1>1. EntriesStay /\ UNCHANGED <<owner, removed, shared, trail>>
  BY DEF Crash, tables, AccessInv, TypeOK, Logs, EntriesStay, Working, Open
<1> QED
  BY <1>1, AccessStutters DEF AccessInv

LEMMA AccessUploadRegister ==
  ASSUME AccessInv, NEW r \in Requests, NEW u \in Users, NEW d \in Docs,
         UploadRegister(r, u, d)
  PROVE  Access!Create(u, d)
<1>1. EntriesStay /\ trail' = trail
  BY EntriesKept DEF UploadRegister, Begin, AccessInv, TypeOK
<1>2. Acts' = Acts
  BY <1>1 DEF Acts, EntriesStay
<1> QED
  BY <1>2 DEF UploadRegister, Access!Create

\* Steps that change one request and no table.
LEMMA AccessReadOnly ==
  ASSUME AccessInv, NEW r \in Requests,
         \/ UploadCheckVisible(r) \/ Grant(r) \/ CheckDocument(r) \/ Revoke(r)
         \/ LockDocument(r) \/ DeleteRow(r) \/ DbFault(r)
         \/ \E u \in Users, d \in Docs : UploadMatch(r, u, d) \/ Manage(r, u, d)
  PROVE  UNCHANGED Access!vars
<1>1. req[r].pc # "done" /\ UNCHANGED <<owner, removed, shared, trail>>
  BY DEF UploadCheckVisible, Grant, CheckDocument, Revoke, LockDocument, DeleteRow, DbFault,
         UploadMatch, Manage, RequireOwnerOrAdmin, tables, Working, Open
<1>2. \A q \in Requests \ {r} : req'[q] = req[q]
  BY DEF UploadCheckVisible, Grant, CheckDocument, Revoke, LockDocument, DeleteRow, DbFault,
         UploadMatch, Manage, RequireOwnerOrAdmin, Begin, End, GoTo, AccessInv, TypeOK
<1>3. EntriesStay
  BY <1>1, <1>2, EntriesKept
<1> QED
  BY <1>1, <1>3, AccessStutters DEF AccessInv

LEMMA AccessWriteEntry ==
  ASSUME AccessInv, NEW r \in Requests, WriteEntry(r)
  PROVE  UNCHANGED Access!vars
<1>1. req[r].pc = "log" /\ req[r].op \in {"upload", "delete"}
  BY DEF WriteEntry, AccessInv, RequestsOK, RecOK
<1>2. /\ trail' = trail \cup {r} /\ req'[r].op = req[r].op
      /\ UNCHANGED <<owner, removed, shared>>
      /\ \A q \in Requests \ {r} : req'[q] = req[q]
  BY DEF WriteEntry, GoTo, AccessInv, TypeOK, RequestRecord
<1>3. EntriesStay
  BY <1>1, <1>2, EntriesKept
<1>4. Acts' = Acts
  BY <1>1, <1>2, <1>3 DEF Acts, EntriesStay
<1> QED
  BY <1>2, <1>4 DEF Access!vars

LEMMA AccessPurge ==
  ASSUME AccessInv, NEW r \in Requests, CommitPurge(r)
  PROVE  Access!Next
<1> DEFINE d == req[r].doc
<1>1. d \in Docs /\ owner[d] # NoOwner /\ d \notin removed
  BY DEF CommitPurge, AccessInv, RequestsOK, RecOK, Relies
<1>2. /\ removed' = removed \cup {d} /\ shared' = {s \in shared : s[1] # d}
      /\ UNCHANGED <<owner, trail>> /\ req[r].pc = "cascade"
      /\ \A q \in Requests \ {r} : req'[q] = req[q]
  BY DEF CommitPurge, AccessInv, TypeOK
<1>3. EntriesStay
  BY <1>2, EntriesKept
<1>4. Acts' = Acts
  BY <1>2, <1>3 DEF Acts, EntriesStay
<1>5. Access!Remove(d)
  BY <1>1, <1>2, <1>4 DEF Access!Remove, Access!Live
<1> QED
  BY <1>5, <1>1 DEF Access!Next

LEMMA AccessCommitSharing ==
  ASSUME AccessInv, NEW r \in Requests, CommitSharing(r)
  PROVE  Access!Next
<1> DEFINE op == req[r].op  d == req[r].doc  p == req[r].who  u == req[r].user
<1>1. /\ RecOK(req[r]) /\ req[r].pc \in Open /\ op \in {"grant", "revoke"}
      /\ u \in Users /\ d \in Docs /\ p \in Principals
      /\ owner[d] # NoOwner /\ MayManage(u, d)
  BY DEF CommitSharing, AccessInv, RequestsOK, RecOK, Open
<1>2. /\ trail' = trail \cup {r} /\ UNCHANGED <<owner, removed>>
      /\ req'[r].op = op /\ req'[r].doc = d /\ req'[r].who = p /\ req'[r].user = u
      /\ \A q \in Requests \ {r} : req'[q] = req[q]
  BY DEF CommitSharing, GoTo, AccessInv, TypeOK, RequestRecord
<1>3. EntriesStay /\ r \notin trail
  BY <1>1, <1>2, EntriesKept DEF Open, AccessInv, Logs
<1>4. Acts' = Acts \cup {<<u, op, d, p>>}
  BY <1>1, <1>2, <1>3 DEF Acts, EntriesStay
<1>5. Access!Record(u, op, d, p)
  BY <1>1, <1>2, <1>4 DEF Access!Record, Access!MayManage, MayManage
<1>6. CASE op = "grant"
  <2>1. \/ Access!Live(d) /\ shared' = shared \cup {<<d, p>>}
        \/ UNCHANGED shared
    BY <1>1, <1>6 DEF CommitSharing, RecOK, Relies, Open, Access!Live
  <2>2. Access!Share(u, d, p)
    BY <1>5, <1>6, <2>1 DEF Access!Share
  <2> QED
    BY <2>2, <1>1 DEF Access!Next
<1>7. CASE op = "revoke"
  <2>1. shared' \in {shared, shared \ {<<d, p>>}}
    BY <1>1, <1>7 DEF CommitSharing, RecOK, Relies, Open
  <2>2. Access!Unshare(u, d, p)
    BY <1>5, <1>7, <2>1 DEF Access!Unshare
  <2> QED
    BY <2>2, <1>1 DEF Access!Next
<1> QED
  BY <1>1, <1>6, <1>7

LEMMA AccessNext == AccessInv /\ [Next]_vars => [Access!Next]_(Access!vars)
<1> SUFFICES ASSUME AccessInv, [Next]_vars PROVE [Access!Next]_(Access!vars)
  OBVIOUS
<1>1. CASE Boot \/ SeedEnds \/ UNCHANGED vars
  <2>1. EntriesStay /\ UNCHANGED <<owner, removed, shared, trail>>
    BY <1>1 DEF Boot, SeedEnds, vars, tables, EntriesStay
  <2> QED
    BY <2>1, AccessStutters DEF AccessInv
<1>2. CASE SeedIngest \/ SeedGrant \/ Crash
  BY <1>2, AccessSeedIngest, AccessSeedGrant, AccessCrash
<1>3. ASSUME NEW r \in Requests, Step(r) \/ DbFault(r)
      PROVE  [Access!Next]_(Access!vars)
  BY <1>3, AccessReadOnly, AccessWriteEntry, AccessPurge, AccessCommitSharing DEF Step
<1>4. ASSUME NEW r \in Requests, NEW u \in Users, NEW d \in Docs,
             UploadRegister(r, u, d) \/ UploadMatch(r, u, d) \/ Manage(r, u, d)
      PROVE  [Access!Next]_(Access!vars)
  <2>1. CASE UploadRegister(r, u, d)
    BY <2>1, AccessUploadRegister DEF Access!Next
  <2>2. CASE UploadMatch(r, u, d) \/ Manage(r, u, d)
    BY <2>2, AccessReadOnly
  <2> QED
    BY <1>4, <2>1, <2>2
<1> QED
  BY <1>1, <1>2, <1>3, <1>4 DEF Next

\* The routes and the seed implement the abstract access control: only an owner
\* or an administrator changes sharing, in one step with the entry that says so.
THEOREM AccessImplementsControl == Spec => AccessSpec
<1> QED
  BY AccessInit, AccessNext, AccessInvariant, PTL DEF AccessSpec, Access!Spec, Spec
=============================================================================
