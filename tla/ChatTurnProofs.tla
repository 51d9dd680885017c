--------------------------- MODULE ChatTurnProofs ---------------------------
(***************************************************************************)
(* Theorems about ChatTurn, for every number of turns, steps, pieces and   *)
(* faults, and for any choice of openers and deep searches.                *)
(***************************************************************************)
EXTENDS ChatTurn, TLAPS

LEMMA PCs ==
  /\ Streaming = {"graph", "write"} /\ AtYield = {"yield", "sent"}
  /\ Busy = {"resolve", "ask", "search", "persist", "graph", "write", "yield", "sent"}
  /\ Live = {"graph", "write", "yield", "sent", "persist"}
  /\ Asking = {"new", "resolve", "ask", "search"}
  /\ Ended = {"over", "failed", "refused", "lost"}
BY DEF Streaming, AtYield, Busy, Live, Asking, Ended

\* The locals of a generator, and what its client has been shown.
LEMMA Fields ==
  ASSUME TypeOK, NEW t \in Turns
  PROVE  /\ gen[t] \in GenRecord /\ gen[t].pc \in {"new"} \cup Busy \cup Ended
         /\ gen[t].ev \in Events /\ gen[t].acc \in Nat /\ gen[t].sources \in Snapshots
         /\ gen[t].draft \in Nat \cup {NoDraft} /\ gen[t].code \in Codes
         /\ client[t] \in ClientRecord /\ client[t].pieces \in Nat
         /\ client[t].pc \in {"idle", "reading", "gone", "closed", "broken"}
         /\ client[t].sources \in {"none"} \cup Snapshots
         /\ client[t].end \in {"none", "done", "error"}
         /\ graph[t] \in GraphRecord /\ graph[t].unread \in Nat /\ faults \in Nat
BY DEF TypeOK, GenRecord, ClientRecord, GraphRecord

\* A generator without locals.
LEMMA NoLocalsType ==
  ASSUME NEW pc \in {"new"} \cup Busy \cup Ended
  PROVE  /\ NoLocals(pc) \in GenRecord /\ NoLocals(pc).pc = pc /\ NoLocals(pc).ev = "none"
         /\ NoLocals(pc).acc = 0 /\ NoLocals(pc).code = "none"
BY DEF NoLocals, GenRecord, Events, Snapshots, Codes, NoDraft

\* The event a generator yields, and the other locals it sets with it.
LEMMA Yields ==
  ASSUME TypeOK, NEW t \in Turns, NEW ev \in Events
  PROVE  /\ Turn(t, ev) \in GenRecord /\ Turn(t, ev).pc = "yield" /\ Turn(t, ev).ev = ev
         /\ Turn(t, ev).acc = gen[t].acc /\ Turn(t, ev).sources = gen[t].sources
         /\ Turn(t, ev).draft = gen[t].draft /\ Turn(t, ev).code = gen[t].code
BY PCs, Fields DEF Turn, GenRecord

\* Nothing is owed once the event of a turn is sent.
LEMMA OwedBy ==
  ASSUME NEW g
  PROVE  /\ Owed(g) \in {0, 1}
         /\ g.pc # "yield" \/ g.ev # "delta" => Owed(g) = 0
         /\ g.pc = "yield" /\ g.ev = "delta" => Owed(g) = 1
BY DEF Owed

\* A generator takes a step, pointwise.
LEMMA GenBecomes ==
  ASSUME TypeOK, NEW t \in Turns, NEW g \in GenRecord, gen' = [gen EXCEPT ![t] = g]
  PROVE  /\ gen' \in [Turns -> GenRecord] /\ gen'[t] = g
         /\ \A b \in Turns : b # t => gen'[b] = gen[b]
BY DEF TypeOK

LEMMA ClientBecomes ==
  ASSUME TypeOK, NEW t \in Turns, NEW c \in ClientRecord, client' = [client EXCEPT ![t] = c]
  PROVE  /\ client' \in [Turns -> ClientRecord] /\ client'[t] = c
         /\ \A b \in Turns : b # t => client'[b] = client[b]
BY DEF TypeOK

\* A step of one turn, once its conversation is resolved, keeps the invariant
\* when it keeps the parts that are about this turn.
TurnOK(t) == ShownOK(t) /\ EndOK(t) /\ RowOK(t) /\ PhaseOK(t)
Unresolved == {"new", "resolve", "refused", "lost"}

LEMMA Untouched ==
  ASSUME NEW b \in Turns, TurnOK(b), gen'[b] = gen[b], client'[b] = client[b],
         row'[b] = row[b], b \in asked => b \in asked'
  PROVE  TurnOK(b)'
BY DEF TurnOK, ShownOK, EndOK, RowOK, PhaseOK

LEMMA TurnStep ==
  ASSUME TurnInv, NEW t \in Turns, TypeOK', TurnOK(t)',
         conv' = conv, settled' = settled, history' = history, asked \subseteq asked',
         \A b \in Turns : b # t => gen'[b] = gen[b] /\ client'[b] = client[b] /\ row'[b] = row[b],
         client[t].pc = "closed" => client'[t].pc = "closed",
         gen[t].pc \in Unresolved => gen'[t].pc \in Unresolved
  PROVE  TurnInv'
<1>1. \A b \in Turns : b # t => TurnOK(b)'
  BY Untouched DEF TurnInv, TurnOK
<1>2. \A r \in Turns : client[r].pc = "closed" => client'[r].pc = "closed"
  OBVIOUS
<1>3. \A b \in Turns : gen[b].pc \in Unresolved => gen'[b].pc \in Unresolved
  OBVIOUS
<1>4. ASSUME NEW b \in Turns PROVE SettledOK(b)'
  <2>1. settled[b] \subseteq Turns
    BY DEF TurnInv, TypeOK
  <2>2. SettledOK(b)
    BY DEF TurnInv
  <2> QED
    BY <1>2, <1>3, <2>1, <2>2 DEF SettledOK, Unresolved
<1> QED
  BY <1>1, <1>4 DEF TurnInv, TurnOK

-----------------------------------------------------------------------------
(* The steps of a generator.                                               *)

\* The generator alone takes the step.
LEMMA GenStep ==
  ASSUME TurnInv, NEW t \in Turns, NEW g \in GenRecord, gen' = [gen EXCEPT ![t] = g],
         graph' \in [Turns -> GraphRecord], asked' \in SUBSET Turns, asked \subseteq asked',
         UNCHANGED <<conv, settled, history, row, client, faults>>,
         TurnOK(t)', gen[t].pc \in Unresolved => g.pc \in Unresolved
  PROVE  TurnInv'
<1>1. /\ gen' \in [Turns -> GenRecord] /\ gen'[t] = g
      /\ \A b \in Turns : b # t => gen'[b] = gen[b]
  BY GenBecomes DEF TurnInv
<1>2. TypeOK'
  BY <1>1 DEF TurnInv, TypeOK
<1> QED
  BY <1>1, <1>2, TurnStep

LEMMA InsertUserMessageInv ==
  ASSUME TurnInv, NEW t \in Turns, InsertUserMessage(t)
  PROVE  TurnInv'
<1>1. PICK g \in GenRecord :
        /\ gen' = [gen EXCEPT ![t] = g]
        /\ g.acc = gen[t].acc /\ g.code = gen[t].code
        /\ (g.pc = "yield" /\ g.ev = "start") \/ g.pc = "search"
  <2>1. CASE t \in Deep
    BY <2>1, Yields DEF TurnInv, InsertUserMessage, SetGen, Events
  <2>2. CASE t \notin Deep
    <3>1. [gen[t] EXCEPT !.pc = "search"] \in GenRecord
      BY Fields, PCs DEF TurnInv, GenRecord
    <3> QED
      BY <2>2, <3>1, Fields DEF TurnInv, InsertUserMessage, SetGen, GenRecord
  <2> QED
    BY <2>1, <2>2
<1>2. /\ gen'[t] = g /\ gen[t].pc = "ask" /\ asked' = asked \cup {t}
      /\ UNCHANGED <<conv, settled, history, graph, row, client, faults>>
  BY <1>1, GenBecomes DEF TurnInv, InsertUserMessage, request
<1>3. TurnOK(t)'
  BY <1>1, <1>2, OwedBy, PCs, Fields
     DEF TurnInv, TurnOK, ShownOK, EndOK, RowOK, PhaseOK
<1>4. asked' \in SUBSET Turns /\ graph' \in [Turns -> GraphRecord]
  BY <1>2 DEF TurnInv, TypeOK
<1> QED
  BY <1>1, <1>2, <1>3, <1>4, GenStep DEF Unresolved

LEMMA SearchInv ==
  ASSUME TurnInv, NEW t \in Turns, Search(t)
  PROVE  TurnInv'
<1>1. PICK g \in GenRecord :
        /\ gen' = [gen EXCEPT ![t] = g]
        /\ g.acc = gen[t].acc /\ g.code = gen[t].code
        /\ g.pc = "yield" /\ g.ev = "start"
  <2>1. PICK y \in GenRecord :
          /\ y = Turn(t, "start") /\ y.acc = gen[t].acc /\ y.code = gen[t].code
          /\ y.pc = "yield" /\ y.ev = "start"
    BY Yields DEF TurnInv, Events
  <2>2. PICK x \in Snapshots : gen' = [gen EXCEPT ![t] = [y EXCEPT !.sources = x]]
    BY <2>1 DEF Search, SetGen
  <2>4. [y EXCEPT !.sources = x] \in GenRecord
    BY <2>1, <2>2 DEF GenRecord
  <2> QED
    BY <2>1, <2>2, <2>4 DEF GenRecord
<1>2. /\ gen'[t] = g /\ gen[t].pc = "search"
      /\ UNCHANGED <<conv, settled, asked, history, graph, row, client, faults>>
  BY <1>1, GenBecomes DEF TurnInv, Search, request
<1>3. TurnOK(t)'
  BY <1>1, <1>2, OwedBy, PCs, Fields
     DEF TurnInv, TurnOK, ShownOK, EndOK, RowOK, PhaseOK
<1>4. asked' \in SUBSET Turns /\ graph' \in [Turns -> GraphRecord]
  BY <1>2 DEF TurnInv, TypeOK
<1> QED
  BY <1>1, <1>2, <1>3, <1>4, GenStep DEF Unresolved

LEMMA RaiseInv ==
  ASSUME TurnInv, NEW t \in Turns, Raise(t)
  PROVE  TurnInv'
<1>1. PICK g \in GenRecord :
        /\ gen' = [gen EXCEPT ![t] = g]
        /\ g.acc = gen[t].acc /\ g.code = "failed" /\ g.sources = gen[t].sources
        /\ g.pc = "yield" /\ g.ev = "error"
  <2>1. PICK y \in GenRecord :
          /\ y = Turn(t, "error") /\ y.acc = gen[t].acc /\ y.sources = gen[t].sources
          /\ y.pc = "yield" /\ y.ev = "error"
    BY Yields DEF TurnInv, Events
  <2>2. gen' = [gen EXCEPT ![t] = [y EXCEPT !.code = "failed"]]
    BY <2>1 DEF Raise, SetGen
  <2>3. "failed" \in Codes
    BY DEF Codes
  <2>4. [y EXCEPT !.code = "failed"] \in GenRecord
    BY <2>1, <2>2, <2>3 DEF GenRecord
  <2> QED
    BY <2>1, <2>2, <2>3, <2>4 DEF GenRecord
<1>2. /\ gen'[t] = g /\ gen[t].pc \in {"search", "write"}
      /\ UNCHANGED <<conv, settled, asked, history, graph, row, client, faults>>
  BY <1>1, GenBecomes DEF TurnInv, Raise, request
<1>3. TurnOK(t)'
  BY <1>1, <1>2, OwedBy, PCs, Fields
     DEF TurnInv, TurnOK, ShownOK, EndOK, RowOK, PhaseOK, Cites
<1>4. asked' \in SUBSET Turns /\ graph' \in [Turns -> GraphRecord]
  BY <1>2 DEF TurnInv, TypeOK
<1> QED
  BY <1>1, <1>2, <1>3, <1>4, GenStep DEF Unresolved

\* The next slice of a draft is accumulated before it is owed.
LEMMA NextSliceType ==
  ASSUME NEW g \in GenRecord, g.draft # NoDraft
  PROVE  /\ NextSlice(g) \in GenRecord /\ NextSlice(g).pc = "yield"
         /\ NextSlice(g).code = g.code /\ NextSlice(g).sources = g.sources
         /\ \/ NextSlice(g).ev = "delta" /\ NextSlice(g).acc = g.acc + 1
            \/ NextSlice(g).ev = "done" /\ NextSlice(g).acc = g.acc
<1>1. g.acc + 1 \in Nat
  BY DEF GenRecord
<1>2. CASE g.acc < g.draft
  <2>1. NextSlice(g) = [g EXCEPT !.pc = "yield", !.ev = "delta", !.acc = g.acc + 1]
    BY <1>2 DEF NextSlice
  <2> QED
    BY <1>1, <2>1, PCs DEF GenRecord, Events
<1>3. CASE ~(g.acc < g.draft)
  <2>1. NextSlice(g) = [g EXCEPT !.pc = "yield", !.ev = "done"]
    BY <1>3 DEF NextSlice
  <2> QED
    BY <2>1, PCs DEF GenRecord, Events
<1> QED
  BY <1>2, <1>3

\* Where a generator goes on.
LEMMA ResumedType ==
  ASSUME NEW g \in GenRecord, NEW deep \in BOOLEAN, g.ev # "none", g.ev = "step" => deep
  PROVE  /\ Resumed(g, deep) \in GenRecord
         /\ Resumed(g, deep).code = g.code /\ Resumed(g, deep).sources = g.sources
         /\ \/ /\ g.ev \in {"start", "step"} /\ Resumed(g, deep).acc = g.acc
               /\ \/ Resumed(g, deep).pc = "yield" /\ Resumed(g, deep).ev = "sources"
                  \/ Resumed(g, deep).pc = "graph"
            \/ /\ g.ev \in {"sources", "delta"}
               /\ \/ Resumed(g, deep).pc = "write" /\ Resumed(g, deep).acc = g.acc
                  \/ Resumed(g, deep).pc = "yield" /\ Resumed(g, deep).ev = "delta"
                       /\ Resumed(g, deep).acc = g.acc + 1
                  \/ Resumed(g, deep).pc = "yield" /\ Resumed(g, deep).ev = "done"
                       /\ Resumed(g, deep).acc = g.acc
            \/ /\ g.ev \in {"done", "error"} /\ Resumed(g, deep).pc = "persist"
               /\ Resumed(g, deep).acc = g.acc
<1>1. CASE g.ev = "start" /\ ~deep
  <2>1. Resumed(g, deep) = [g EXCEPT !.pc = "yield", !.ev = "sources"]
    BY <1>1 DEF Resumed
  <2> QED
    BY <1>1, <2>1, PCs DEF GenRecord, Events
<1>2. CASE g.ev \in {"start", "step"} /\ deep
  <2>1. Resumed(g, deep) = [g EXCEPT !.pc = "graph", !.ev = "none"]
    BY <1>2 DEF Resumed
  <2> QED
    BY <1>2, <2>1, PCs DEF GenRecord, Events
<1>3. CASE g.ev \in {"sources", "delta"} /\ g.draft = NoDraft
  <2>1. Resumed(g, deep) = [g EXCEPT !.pc = "write", !.ev = "none"]
    BY <1>3 DEF Resumed
  <2> QED
    BY <1>3, <2>1, PCs DEF GenRecord, Events
<1>4. CASE g.ev \in {"sources", "delta"} /\ g.draft # NoDraft
  <2>1. Resumed(g, deep) = NextSlice(g)
    BY <1>4 DEF Resumed
  <2> QED
    BY <1>4, <2>1, NextSliceType
<1>5. CASE g.ev \in {"done", "error"}
  <2>1. Resumed(g, deep) = [g EXCEPT !.pc = "persist", !.ev = "none"]
    BY <1>5 DEF Resumed
  <2> QED
    BY <1>5, <2>1, PCs DEF GenRecord, Events
<1> QED
  BY <1>1, <1>2, <1>3, <1>4, <1>5 DEF GenRecord, Events

LEMMA PullInv ==
  ASSUME TurnInv, NEW t \in Turns, Pull(t)
  PROVE  TurnInv'
<1> DEFINE g == Resumed(gen[t], t \in Deep)
<1>1. /\ gen[t].pc = "sent" /\ gen' = [gen EXCEPT ![t] = g]
      /\ UNCHANGED <<conv, settled, asked, history, row, client, faults>>
  BY DEF Pull, SetGen, request
<1>2. gen[t] \in GenRecord /\ gen[t].ev # "none" /\ (gen[t].ev = "step" => t \in Deep)
  BY <1>1, Fields, PCs DEF TurnInv, EndOK
<1>3. PICK h \in GenRecord :
        /\ h = g /\ h.code = gen[t].code /\ h.sources = gen[t].sources
        /\ \/ /\ gen[t].ev \in {"start", "step"} /\ h.acc = gen[t].acc
              /\ (h.pc = "yield" /\ h.ev = "sources") \/ h.pc = "graph"
           \/ /\ gen[t].ev \in {"sources", "delta"}
              /\ \/ h.pc = "write" /\ h.acc = gen[t].acc
                 \/ h.pc = "yield" /\ h.ev = "delta" /\ h.acc = gen[t].acc + 1
                 \/ h.pc = "yield" /\ h.ev = "done" /\ h.acc = gen[t].acc
           \/ gen[t].ev \in {"done", "error"} /\ h.pc = "persist" /\ h.acc = gen[t].acc
  <2>1. (t \in Deep) \in BOOLEAN
    OBVIOUS
  <2> HIDE DEF g
  <2>2. g = Resumed(gen[t], t \in Deep)
    BY DEF g
  <2> QED
    BY <1>2, <2>1, <2>2, ResumedType
<1>4. gen'[t] = h
  BY <1>1, <1>3, GenBecomes DEF TurnInv
<1> HIDE DEF g
<1>5. TurnOK(t)'
  <2>1. Owed(gen[t]) = 0
    BY <1>1, OwedBy
  <2>2. ShownOK(t)'
    BY <1>1, <1>3, <1>4, <2>1, OwedBy, PCs, Fields DEF TurnInv, ShownOK, Cites
  <2>3. EndOK(t)'
    <3>1. /\ gen[t].code = IF gen[t].ev = "error" THEN "failed" ELSE "none"
          /\ client[t].end # "none" => client[t].end = gen[t].ev
          /\ gen[t].ev \in {"done", "error"} /\ client[t].pc = "reading" => client[t].end = gen[t].ev
      BY <1>1, PCs DEF TurnInv, EndOK
    <3>2. h.pc = "graph" => t \in Deep
      BY <1>2, <1>3, PCs DEF Resumed, NextSlice, g
    <3>3. gen[t].ev \notin {"done", "error"} => client[t].end = "none" /\ gen[t].code = "none"
      BY <3>1, Fields DEF TurnInv
    <3>4. CASE gen[t].ev \notin {"done", "error"}
      BY <1>1, <1>3, <1>4, <3>2, <3>3, <3>4, PCs DEF EndOK
    <3>5. CASE gen[t].ev \in {"done", "error"}
      BY <1>1, <1>3, <1>4, <3>1, <3>5, PCs DEF EndOK
    <3> QED
      BY <3>4, <3>5
  <2>4. RowOK(t)' /\ PhaseOK(t)'
    BY <1>1, <1>3, <1>4, PCs, Fields DEF TurnInv, RowOK, PhaseOK
  <2> QED
    BY <2>2, <2>3, <2>4 DEF TurnOK
<1>6. asked' \in SUBSET Turns /\ graph' \in [Turns -> GraphRecord]
  BY <1>1 DEF TurnInv, TypeOK, Pull, GraphRecord
<1> QED
  BY <1>1, <1>3, <1>5, <1>6, GenStep DEF Unresolved

LEMMA WriteInv ==
  ASSUME TurnInv, NEW t \in Turns, Write(t)
  PROVE  TurnInv'
<1>1. PICK g \in GenRecord :
        /\ gen' = [gen EXCEPT ![t] = g]
        /\ g.code = gen[t].code /\ g.sources = gen[t].sources /\ g.pc = "yield"
        /\ \/ g.ev = "delta" /\ g.acc = gen[t].acc + 1
           \/ g.ev = "done" /\ g.acc = gen[t].acc
  <2>1. CASE gen' = [gen EXCEPT ![t] = Turn(t, "done")]
    BY <2>1, Yields DEF TurnInv, Events
  <2>2. CASE gen' = [gen EXCEPT ![t] = [Turn(t, "delta") EXCEPT !.acc = gen[t].acc + 1]]
    <3>1. gen[t].acc + 1 \in Nat
      BY Fields DEF TurnInv
    <3>2. PICK y \in GenRecord :
            /\ y = Turn(t, "delta") /\ y.code = gen[t].code /\ y.sources = gen[t].sources
            /\ y.pc = "yield" /\ y.ev = "delta"
      BY Yields DEF TurnInv, Events
    <3>3. [y EXCEPT !.acc = gen[t].acc + 1] \in GenRecord
      BY <3>1, <3>2 DEF GenRecord
    <3> QED
      BY <2>2, <3>1, <3>2, <3>3 DEF GenRecord
  <2>3. "delta" \in Events
    BY DEF Events
  <2>4. Turn(t, "delta").acc = gen[t].acc
    BY <2>3, Yields DEF TurnInv
  <2> QED
    BY <2>1, <2>2, <2>4 DEF Write, SetGen
<1>2. /\ gen'[t] = g /\ gen[t].pc = "write"
      /\ UNCHANGED <<conv, settled, asked, history, graph, row, client, faults>>
  BY <1>1, GenBecomes DEF TurnInv, Write, request
<1>3. TurnOK(t)'
  BY <1>1, <1>2, OwedBy, PCs, Fields
     DEF TurnInv, TurnOK, ShownOK, EndOK, RowOK, PhaseOK, Cites
<1>4. asked' \in SUBSET Turns /\ graph' \in [Turns -> GraphRecord]
  BY <1>2 DEF TurnInv, TypeOK
<1> QED
  BY <1>1, <1>2, <1>3, <1>4, GenStep DEF Unresolved

LEMMA ReadStepInv ==
  ASSUME TurnInv, NEW t \in Turns, ReadStep(t)
  PROVE  TurnInv'
<1>1. PICK g \in GenRecord :
        /\ gen' = [gen EXCEPT ![t] = g]
        /\ g.code = gen[t].code /\ g.sources = gen[t].sources /\ g.acc = gen[t].acc
        /\ g.pc = "yield" /\ g.ev = "step"
  BY Yields DEF TurnInv, ReadStep, SetGen, Events
<1>2. /\ gen'[t] = g /\ gen[t].pc = "graph"
      /\ UNCHANGED <<conv, settled, asked, history, row, client, faults>>
  BY <1>1, GenBecomes DEF TurnInv, ReadStep, request
<1>3. t \in Deep
  BY <1>2, PCs DEF TurnInv, EndOK
<1>4. TurnOK(t)'
  BY <1>1, <1>2, <1>3, OwedBy, PCs, Fields
     DEF TurnInv, TurnOK, ShownOK, EndOK, RowOK, PhaseOK, Cites
<1>5. asked' \in SUBSET Turns /\ graph' \in [Turns -> GraphRecord]
  <2>1. graph[t].unread - 1 \in Nat
    BY Fields DEF TurnInv, ReadStep
  <2> QED
    BY <1>2, <2>1 DEF TurnInv, TypeOK, ReadStep, GraphRecord
<1> QED
  BY <1>1, <1>2, <1>4, <1>5, GenStep DEF Unresolved

LEMMA ReadResultInv ==
  ASSUME TurnInv, NEW t \in Turns, ReadResult(t)
  PROVE  TurnInv'
<1>1. /\ gen[t].pc = "graph"
      /\ UNCHANGED <<conv, settled, asked, history, row, client, faults>>
  BY DEF ReadResult, request
<1>2. /\ gen[t].code = "none" /\ client[t].end = "none"
      /\ client[t].sources = "none" /\ gen[t] \in GenRecord
  BY <1>1, Fields, PCs DEF TurnInv, EndOK, ShownOK, Cites
<1>3. PICK y \in GenRecord :
        y = Turn(t, "error") /\ y.acc = gen[t].acc /\ y.pc = "yield" /\ y.ev = "error"
  BY Yields DEF TurnInv, Events
<1>4. PICK z \in GenRecord :
        /\ z = Turn(t, "sources") /\ z.acc = gen[t].acc /\ z.pc = "yield" /\ z.ev = "sources"
        /\ z.code = "none"
  BY <1>2, Yields DEF TurnInv, Events
<1>5. ASSUME NEW g \in GenRecord, gen' = [gen EXCEPT ![t] = g],
             g.acc = gen[t].acc, g.pc = "yield",
             \/ g.ev = "error" /\ g.code = "failed"
             \/ g.ev = "sources" /\ g.code = "none"
      PROVE  TurnInv'
  <2>1. gen'[t] = g
    BY <1>5, GenBecomes DEF TurnInv
  <2>2. TurnOK(t)'
    BY <1>1, <1>2, <1>5, <2>1, OwedBy, PCs, Fields
       DEF TurnInv, TurnOK, ShownOK, EndOK, RowOK, PhaseOK, Cites
  <2>3. NoGraph \in GraphRecord
    BY DEF NoGraph, GraphRecord
  <2>4. asked' \in SUBSET Turns /\ graph' \in [Turns -> GraphRecord]
    BY <1>1, <2>3 DEF TurnInv, TypeOK, ReadResult
  <2> QED
    BY <1>1, <1>5, <2>2, <2>4, GenStep DEF Unresolved
<1>6. CASE gen' = [gen EXCEPT ![t] = [y EXCEPT !.code = "failed"]]
  <2>1. [y EXCEPT !.code = "failed"] \in GenRecord
    BY <1>3 DEF GenRecord, Codes
  <2>2. PICK g \in GenRecord : g = [y EXCEPT !.code = "failed"]
    BY <2>1
  <2>3. g.acc = gen[t].acc /\ g.pc = "yield" /\ g.ev = "error" /\ g.code = "failed"
    BY <1>3, <2>2 DEF GenRecord
  <2> QED
    BY <1>5, <1>6, <2>2, <2>3
<1>7. CASE gen' = [gen EXCEPT ![t] = z]
  BY <1>4, <1>5, <1>7
<1>8. ASSUME NEW x \in Snapshots, NEW n \in 0..MaxPieces,
             gen' = [gen EXCEPT ![t] = [z EXCEPT !.sources = x, !.draft = n]]
      PROVE  TurnInv'
  <2>1. n \in Nat
    BY ConstantsAssumption
  <2>2. [z EXCEPT !.sources = x, !.draft = n] \in GenRecord
    BY <1>4, <2>1 DEF GenRecord
  <2>3. PICK g \in GenRecord : g = [z EXCEPT !.sources = x, !.draft = n]
    BY <2>2
  <2>4. g.acc = gen[t].acc /\ g.pc = "yield" /\ g.ev = "sources" /\ g.code = "none"
    BY <1>4, <2>3 DEF GenRecord
  <2> QED
    BY <1>5, <1>8, <2>3, <2>4
<1> QED
  BY <1>3, <1>4, <1>6, <1>7, <1>8 DEF ReadResult, SetGen

LEMMA DisconnectInv ==
  ASSUME TurnInv, NEW t \in Turns, Disconnect(t)
  PROVE  TurnInv'
<1>1. /\ gen[t].pc \in Streaming \cup AtYield /\ client[t].pc = "gone"
      /\ UNCHANGED <<conv, settled, asked, history, row, client, faults>>
  BY DEF Disconnect, request
<1> DEFINE c == IF gen[t].ev \in {"done", "error"} THEN gen[t].code ELSE "client_disconnect"
<1>2. c \in Codes /\ gen[t] \in GenRecord
  BY Fields DEF TurnInv, Codes
<1>3. [gen[t] EXCEPT !.pc = "persist", !.ev = "none", !.code = c] \in GenRecord
  BY <1>2, PCs DEF GenRecord, Events
<1>4. PICK g \in GenRecord : g = [gen[t] EXCEPT !.pc = "persist", !.ev = "none", !.code = c]
  BY <1>3
<1>5. gen' = [gen EXCEPT ![t] = g]
  BY <1>4 DEF Disconnect, SetGen
<1>6. /\ g.pc = "persist" /\ g.code = c /\ g.acc = gen[t].acc /\ g.sources = gen[t].sources
  BY <1>2, <1>4 DEF GenRecord
<1>7. gen'[t] = g
  BY <1>5, GenBecomes DEF TurnInv
<1>8. TurnOK(t)'
  <2>1. ShownOK(t)'
    BY <1>1, <1>6, <1>7, OwedBy, PCs, Fields DEF TurnInv, ShownOK, Cites
  <2>2. EndOK(t)'
    <3>1. CASE gen[t].pc \in Streaming
      BY <1>1, <1>6, <1>7, <3>1, PCs DEF TurnInv, EndOK
    <3>2. CASE gen[t].pc \in AtYield
      BY <1>1, <1>6, <1>7, <3>2, PCs DEF TurnInv, EndOK
    <3> QED
      BY <1>1, <3>1, <3>2
  <2>3. RowOK(t)' /\ PhaseOK(t)'
    BY <1>1, <1>6, <1>7, PCs, Fields DEF TurnInv, RowOK, PhaseOK
  <2> QED
    BY <2>1, <2>2, <2>3 DEF TurnOK
<1>9. asked' \in SUBSET Turns /\ graph' \in [Turns -> GraphRecord]
  <2>1. NoGraph \in GraphRecord
    BY DEF NoGraph, GraphRecord
  <2> QED
    BY <1>1, <2>1 DEF TurnInv, TypeOK, Disconnect
<1> QED
  BY <1>1, <1>5, <1>6, <1>8, <1>9, GenStep, PCs DEF Unresolved

LEMMA PersistInv ==
  ASSUME TurnInv, NEW t \in Turns, Persist(t)
  PROVE  TurnInv'
<1>1. /\ gen[t].pc = "persist"
      /\ UNCHANGED <<conv, settled, asked, history, graph, client, faults>>
  BY DEF Persist, request
<1>2. PICK g \in GenRecord : g = NoLocals("over") /\ g.pc = "over"
  BY NoLocalsType, PCs
<1>3. /\ gen' \in [Turns -> GenRecord] /\ gen'[t] = g
      /\ \A b \in Turns : b # t => gen'[b] = gen[b]
  BY <1>2, GenBecomes DEF TurnInv, Persist, SetGen
<1>4. PICK r \in RowRecord :
        /\ row' = [row EXCEPT ![t] = r]
        /\ r.sources = gen[t].sources /\ r.pieces = gen[t].acc /\ r.code = gen[t].code
  <2>1. [sources |-> gen[t].sources, pieces |-> gen[t].acc, code |-> gen[t].code] \in RowRecord
    BY Fields DEF TurnInv, RowRecord
  <2> QED
    BY <2>1 DEF Persist
<1>5. /\ row' \in [Turns -> RowRecord \cup {NoRow}] /\ row'[t] = r
      /\ \A b \in Turns : b # t => row'[b] = row[b]
  BY <1>4 DEF TurnInv, TypeOK
<1>6. r # NoRow
  BY NoRowAssumption
<1>7. TypeOK'
  BY <1>1, <1>3, <1>5 DEF TurnInv, TypeOK
<1>8. TurnOK(t)'
  <2>1. /\ client[t].pieces <= gen[t].acc
        /\ client[t].pc = "reading" => client[t].pieces = gen[t].acc
        /\ client[t].sources \in {"none", gen[t].sources}
    BY <1>1, OwedBy, PCs, Fields DEF TurnInv, ShownOK
  <2>2. client[t].pc # "closed"
    BY <1>1 DEF TurnInv, PhaseOK
  <2>3. ShownOK(t)' /\ EndOK(t)' /\ PhaseOK(t)'
    BY <1>1, <1>2, <1>3, PCs DEF TurnInv, ShownOK, EndOK, PhaseOK
  <2>4. RowOK(t)'
    BY <1>1, <1>2, <1>3, <1>4, <1>5, <1>6, <2>1, <2>2 DEF TurnInv, EndOK, RowOK
  <2> QED
    BY <2>3, <2>4 DEF TurnOK
<1> QED
  BY <1>1, <1>2, <1>3, <1>5, <1>7, <1>8, TurnStep DEF Unresolved

-----------------------------------------------------------------------------
(* The steps that change what a client does or was shown.                  *)

LEMMA SendInv ==
  ASSUME TurnInv, NEW t \in Turns, Send(t)
  PROVE  TurnInv'
<1>1. /\ gen[t].pc = "yield" /\ gen' = [gen EXCEPT ![t].pc = "sent"]
      /\ UNCHANGED <<conv, settled, asked, history, graph, row, faults>>
  BY DEF Send, GoTo, request
<1>2. /\ gen' \in [Turns -> GenRecord] /\ gen'[t].pc = "sent"
      /\ gen'[t].ev = gen[t].ev /\ gen'[t].acc = gen[t].acc
      /\ gen'[t].sources = gen[t].sources /\ gen'[t].code = gen[t].code
      /\ \A b \in Turns : b # t => gen'[b] = gen[b]
  BY <1>1, PCs DEF TurnInv, TypeOK, GenRecord
<1>3. /\ client' \in [Turns -> ClientRecord] /\ client'[t].pc = client[t].pc
      /\ \A b \in Turns : b # t => client'[b] = client[b]
      /\ client[t].pc # "reading" => client'[t] = client[t]
      /\ client[t].pc = "reading" =>
           /\ client'[t].sources = IF gen[t].ev = "sources" THEN gen[t].sources ELSE client[t].sources
           /\ client'[t].pieces = IF gen[t].ev = "delta" THEN client[t].pieces + 1 ELSE client[t].pieces
           /\ client'[t].end = IF gen[t].ev \in {"done", "error"} THEN gen[t].ev ELSE client[t].end
  <2> DEFINE c == IF client[t].pc = "reading" THEN Shown(client[t], gen[t]) ELSE client[t]
  <2>1. client[t] \in ClientRecord /\ gen[t].sources \in Snapshots /\ client[t].pieces \in Nat
    BY Fields DEF TurnInv
  <2>2. /\ c \in ClientRecord /\ c.pc = client[t].pc
        /\ client[t].pc # "reading" => c = client[t]
        /\ client[t].pc = "reading" =>
             /\ c.sources = IF gen[t].ev = "sources" THEN gen[t].sources ELSE client[t].sources
             /\ c.pieces = IF gen[t].ev = "delta" THEN client[t].pieces + 1 ELSE client[t].pieces
             /\ c.end = IF gen[t].ev \in {"done", "error"} THEN gen[t].ev ELSE client[t].end
    BY <2>1 DEF Shown, ClientRecord
  <2>3. client' = [client EXCEPT ![t] = c]
    BY DEF Send, TurnInv, TypeOK
  <2> HIDE DEF c
  <2> QED
    BY <2>2, <2>3, ClientBecomes DEF TurnInv
<1>4. TypeOK'
  BY <1>1, <1>2, <1>3 DEF TurnInv, TypeOK
<1>5. TurnOK(t)'
  <2>1. ShownOK(t)'
    <3>1. /\ client[t].pieces + Owed(gen[t]) <= gen[t].acc
          /\ client[t].pc = "reading" => client[t].pieces + Owed(gen[t]) = gen[t].acc
          /\ client[t].sources \in {"none", gen[t].sources}
          /\ Cites(gen[t]) => client[t].sources = "none"
      BY <1>1, PCs DEF TurnInv, ShownOK
    <3>2. Owed(gen'[t]) = 0
      BY <1>2, OwedBy
    <3>3. /\ client'[t].pieces <= gen[t].acc
          /\ client'[t].pc = "reading" => client'[t].pieces = gen[t].acc
      <4>1. CASE gen[t].ev = "delta"
        BY <1>1, <1>3, <3>1, <4>1, OwedBy, Fields DEF TurnInv
      <4>2. CASE gen[t].ev # "delta"
        BY <1>1, <1>3, <3>1, <4>2, OwedBy, Fields DEF TurnInv
      <4> QED
        BY <4>1, <4>2
    <3>4. /\ client'[t].sources \in {"none", gen[t].sources}
          /\ gen[t].ev \in {"start", "step"} => client'[t].sources = "none"
      BY <1>1, <1>3, <3>1, PCs DEF Cites
    <3>5. Cites(gen[t])' => gen[t].ev \in {"start", "step"}
      BY <1>2 DEF Cites
    <3>6. client'[t].pieces + 0 = client'[t].pieces
      BY <1>3 DEF ClientRecord
    <3> QED
      BY <1>2, <3>2, <3>3, <3>4, <3>5, <3>6, PCs DEF ShownOK
  <2>2. EndOK(t)'
    BY <1>1, <1>2, <1>3, PCs, Fields DEF TurnInv, EndOK
  <2>3. RowOK(t)' /\ PhaseOK(t)'
    BY <1>1, <1>2, <1>3, PCs, Fields DEF TurnInv, RowOK, PhaseOK
  <2> QED
    BY <2>1, <2>2, <2>3 DEF TurnOK
<1> QED
  BY <1>1, <1>2, <1>3, <1>4, <1>5, TurnStep DEF Unresolved

\* A client that leaves, or whose stream ends or breaks, has seen what it saw.
LEMMA ClientGoes ==
  ASSUME TypeOK, NEW t \in Turns, NEW p \in {"gone", "closed", "broken"},
         client' = [client EXCEPT ![t].pc = p]
  PROVE  /\ client' \in [Turns -> ClientRecord] /\ client'[t].pc = p
         /\ client'[t].sources = client[t].sources /\ client'[t].pieces = client[t].pieces
         /\ client'[t].end = client[t].end
         /\ \A b \in Turns : b # t => client'[b] = client[b]
<1> DEFINE c == [client[t] EXCEPT !.pc = p]
<1>1. /\ c \in ClientRecord /\ c.pc = p /\ c.sources = client[t].sources
      /\ c.pieces = client[t].pieces /\ c.end = client[t].end
  BY Fields DEF ClientRecord
<1>2. client' = [client EXCEPT ![t] = c]
  BY DEF TypeOK
<1> HIDE DEF c
<1> QED
  BY <1>1, <1>2, ClientBecomes

LEMMA LeaveInv ==
  ASSUME TurnInv, NEW t \in Turns, Leave(t)
  PROVE  TurnInv'
<1>1. /\ client[t].pc = "reading" /\ client' = [client EXCEPT ![t].pc = "gone"]
      /\ UNCHANGED <<conv, settled, asked, history, gen, graph, row, faults>>
  BY DEF Leave, request
<1>2. /\ client' \in [Turns -> ClientRecord] /\ client'[t].pc = "gone"
      /\ client'[t].sources = client[t].sources /\ client'[t].pieces = client[t].pieces
      /\ client'[t].end = client[t].end
      /\ \A b \in Turns : b # t => client'[b] = client[b]
  BY <1>1, ClientGoes DEF TurnInv
<1>3. TypeOK'
  BY <1>1, <1>2 DEF TurnInv, TypeOK
<1>4. TurnOK(t)'
  BY <1>1, <1>2, PCs DEF TurnInv, TurnOK, ShownOK, EndOK, RowOK, PhaseOK
<1> QED
  BY <1>1, <1>2, <1>3, <1>4, TurnStep

LEMMA EndOfStreamInv ==
  ASSUME TurnInv, NEW t \in Turns, EndOfStream(t)
  PROVE  TurnInv'
<1>1. /\ client[t].pc = "reading" /\ gen[t].pc = "over" /\ client' = [client EXCEPT ![t].pc = "closed"]
      /\ UNCHANGED <<conv, settled, asked, history, gen, graph, row, faults>>
  BY DEF EndOfStream, request
<1>2. /\ client' \in [Turns -> ClientRecord] /\ client'[t].pc = "closed"
      /\ client'[t].sources = client[t].sources /\ client'[t].pieces = client[t].pieces
      /\ client'[t].end = client[t].end
      /\ \A b \in Turns : b # t => client'[b] = client[b]
  BY <1>1, ClientGoes DEF TurnInv
<1>3. TypeOK'
  BY <1>1, <1>2 DEF TurnInv, TypeOK
<1>4. TurnOK(t)'
  BY <1>1, <1>2, PCs DEF TurnInv, TurnOK, ShownOK, EndOK, RowOK, PhaseOK
<1> QED
  BY <1>1, <1>2, <1>3, <1>4, TurnStep

\* A turn that fails leaves no row, whoever was reading it.
LEMMA BreaksInv ==
  ASSUME TurnInv, NEW t \in Turns, NEW g \in GenRecord, gen' = [gen EXCEPT ![t] = g],
         g.pc \in {"refused", "failed"}, g.pc = "failed" => gen[t].pc \notin Unresolved,
         gen[t].pc \in Busy, faults' \in Nat,
         client' = [client EXCEPT ![t].pc = IF @ = "reading" THEN "broken" ELSE @],
         UNCHANGED <<conv, settled, asked, history, graph, row>>
  PROVE  TurnInv'
<1>1. /\ gen' \in [Turns -> GenRecord] /\ gen'[t] = g
      /\ \A b \in Turns : b # t => gen'[b] = gen[b]
  BY GenBecomes DEF TurnInv
<1>2. /\ client[t].pc \notin {"idle", "closed"} /\ row[t] = NoRow
  BY PCs DEF TurnInv, PhaseOK, RowOK
<1>3. client[t].pc \in {"reading", "gone", "broken"}
  BY <1>2, Fields DEF TurnInv
<1>4. /\ client' \in [Turns -> ClientRecord] /\ client'[t].pc \in {"gone", "broken"}
      /\ \A b \in Turns : b # t => client'[b] = client[b]
  <2>1. PICK p \in {"gone", "broken"} : client' = [client EXCEPT ![t].pc = p]
    BY <1>3 DEF TurnInv, TypeOK, ClientRecord
  <2> QED
    BY <2>1, ClientGoes DEF TurnInv
<1>5. TypeOK'
  BY <1>1, <1>4 DEF TurnInv, TypeOK
<1>6. TurnOK(t)'
  BY <1>1, <1>2, <1>4, PCs DEF TurnInv, TurnOK, ShownOK, EndOK, RowOK, PhaseOK
<1> QED
  BY <1>1, <1>2, <1>4, <1>5, <1>6, TurnStep DEF Unresolved

LEMMA PostRefusedInv ==
  ASSUME TurnInv, NEW t \in Turns, PostRefused(t)
  PROVE  TurnInv'
<1>1. /\ gen[t].pc \in {"resolve", "ask"} /\ faults' \in Nat
      /\ UNCHANGED <<conv, settled, asked, history, graph, row>>
      /\ client' = [client EXCEPT ![t].pc = IF @ = "reading" THEN "broken" ELSE @]
  BY DEF PostRefused, Refuse, Fault, request, TurnInv, TypeOK
<1>2. [gen[t] EXCEPT !.pc = "refused"] \in GenRecord
  BY Fields, PCs DEF TurnInv, GenRecord
<1>3. PICK g \in GenRecord : g = [gen[t] EXCEPT !.pc = "refused"]
  BY <1>2
<1>4. gen' = [gen EXCEPT ![t] = g] /\ g.pc = "refused"
  BY <1>3, Fields DEF PostRefused, Refuse, GoTo, TurnInv, TypeOK, GenRecord
<1> QED
  BY <1>1, <1>4, BreaksInv, PCs

LEMMA PersistFailsInv ==
  ASSUME TurnInv, NEW t \in Turns, PersistFails(t)
  PROVE  TurnInv'
<1>1. /\ gen[t].pc = "persist" /\ faults' \in Nat
      /\ UNCHANGED <<conv, settled, asked, history, graph, row>>
      /\ client' = [client EXCEPT ![t].pc = IF @ = "reading" THEN "broken" ELSE @]
  BY DEF PersistFails, Fault, request, TurnInv, TypeOK
<1>2. PICK g \in GenRecord : g = NoLocals("failed") /\ g.pc = "failed"
  BY NoLocalsType, PCs
<1>3. gen' = [gen EXCEPT ![t] = g]
  BY <1>2 DEF PersistFails, SetGen
<1> QED
  BY <1>1, <1>2, <1>3, BreaksInv, PCs DEF Unresolved

-----------------------------------------------------------------------------
(* The steps that give a turn its conversation and its history, and the    *)
(* crash.                                                                  *)

LEMMA PostInv ==
  ASSUME TurnInv, NEW t \in Turns, NEW s \in Turns \cup {NoTurn}, Post(t, s)
  PROVE  TurnInv'
<1> DEFINE c == IF s \in {t, NoTurn} THEN s ELSE conv[s]
           d == {r \in Turns : conv[r] = c /\ client[r].pc = "closed"}
<1>1. /\ client[t].pc = "idle" /\ conv' = [conv EXCEPT ![t] = c]
      /\ settled' = [settled EXCEPT ![t] = d]
      /\ client' = [client EXCEPT ![t].pc = "reading"]
      /\ gen' = [gen EXCEPT ![t].pc = "resolve"]
      /\ UNCHANGED <<asked, history, graph, row, faults>>
  BY DEF Post, GoTo
<1>2. c \in Turns \cup {NoTurn}
  BY DEF TurnInv, TypeOK
<1>3. gen[t].pc = "new"
  BY <1>1 DEF TurnInv, PhaseOK
<1>4. /\ gen' \in [Turns -> GenRecord] /\ gen'[t].pc = "resolve"
      /\ gen'[t].acc = gen[t].acc /\ gen'[t].code = gen[t].code
      /\ \A b \in Turns : b # t => gen'[b] = gen[b]
  BY <1>1, PCs DEF TurnInv, TypeOK, GenRecord
<1>5. /\ client' \in [Turns -> ClientRecord] /\ client'[t].pc = "reading"
      /\ client'[t].sources = client[t].sources /\ client'[t].pieces = client[t].pieces
      /\ client'[t].end = client[t].end
      /\ \A b \in Turns : b # t => client'[b] = client[b]
  <2> DEFINE e == [client[t] EXCEPT !.pc = "reading"]
  <2>1. /\ e \in ClientRecord /\ e.pc = "reading" /\ e.sources = client[t].sources
        /\ e.pieces = client[t].pieces /\ e.end = client[t].end
    BY Fields DEF TurnInv, ClientRecord
  <2>2. client' = [client EXCEPT ![t] = e]
    BY <1>1 DEF TurnInv, TypeOK
  <2> HIDE DEF e
  <2> QED
    BY <2>1, <2>2, ClientBecomes DEF TurnInv
<1>6. TypeOK'
  <2>1. conv' \in [Turns -> Turns \cup {NoTurn}] /\ settled' \in [Turns -> SUBSET Turns]
    BY <1>1, <1>2 DEF TurnInv, TypeOK
  <2> QED
    BY <1>1, <1>4, <1>5, <2>1 DEF TurnInv, TypeOK
<1>7. TurnOK(t)'
  BY <1>1, <1>3, <1>4, <1>5, PCs DEF TurnInv, TurnOK, ShownOK, EndOK, RowOK, PhaseOK
<1>8. ASSUME NEW b \in Turns, b # t PROVE TurnOK(b)'
  BY <1>1, <1>4, <1>5, <1>8, Untouched DEF TurnInv, TurnOK
<1>9. ASSUME NEW b \in Turns PROVE SettledOK(b)'
  <2>1. \A r \in Turns : client[r].pc = "closed" =>
          r # t /\ conv'[r] = conv[r] /\ client'[r] = client[r]
    BY <1>1, <1>5 DEF TurnInv, TypeOK
  <2>2. CASE b = t
    <3>1. settled'[t] = d /\ conv'[t] = c
      BY <1>1, <1>2 DEF TurnInv, TypeOK
    <3> QED
      BY <1>4, <2>1, <2>2, <3>1 DEF SettledOK
  <2>3. CASE b # t
    <3>1. settled'[b] = settled[b] /\ conv'[b] = conv[b] /\ gen'[b] = gen[b] /\ history'[b] = history[b]
      BY <1>1, <1>4, <2>3 DEF TurnInv, TypeOK
    <3>2. SettledOK(b) /\ settled[b] \subseteq Turns
      BY DEF TurnInv, TypeOK
    <3> QED
      BY <2>1, <3>1, <3>2 DEF SettledOK
  <2> QED
    BY <2>2, <2>3
<1> QED
  BY <1>6, <1>7, <1>8, <1>9 DEF TurnInv, TurnOK

LEMMA ResolveConversationInv ==
  ASSUME TurnInv, NEW t \in Turns, ResolveConversation(t)
  PROVE  TurnInv'
<1> DEFINE h == {r \in Turns : conv[r] = conv[t] /\ row[r] # NoRow}
<1>1. /\ gen[t].pc = "resolve" /\ history' = [history EXCEPT ![t] = h]
      /\ gen' = [gen EXCEPT ![t].pc = "ask"]
      /\ UNCHANGED <<conv, settled, asked, graph, row, client, faults>>
  BY DEF ResolveConversation, GoTo, request
<1>2. /\ gen' \in [Turns -> GenRecord] /\ gen'[t].pc = "ask"
      /\ gen'[t].acc = gen[t].acc /\ gen'[t].code = gen[t].code
      /\ \A b \in Turns : b # t => gen'[b] = gen[b]
  <2> DEFINE g == [gen[t] EXCEPT !.pc = "ask"]
  <2>1. g \in GenRecord /\ g.pc = "ask" /\ g.acc = gen[t].acc /\ g.code = gen[t].code
    BY Fields, PCs DEF TurnInv, GenRecord
  <2>2. gen' = [gen EXCEPT ![t] = g]
    BY <1>1 DEF TurnInv, TypeOK
  <2> HIDE DEF g
  <2> QED
    BY <2>1, <2>2, GenBecomes DEF TurnInv
<1>3. history' \in [Turns -> SUBSET Turns] /\ history'[t] = h
      /\ \A b \in Turns : b # t => history'[b] = history[b]
  BY <1>1 DEF TurnInv, TypeOK
<1>4. TypeOK'
  BY <1>1, <1>2, <1>3 DEF TurnInv, TypeOK
<1>5. TurnOK(t)'
  BY <1>1, <1>2, PCs DEF TurnInv, TurnOK, ShownOK, EndOK, RowOK, PhaseOK
<1>6. ASSUME NEW b \in Turns, b # t PROVE TurnOK(b)'
  BY <1>1, <1>2, <1>6, Untouched DEF TurnInv, TurnOK
<1>7. \A r \in Turns : client[r].pc = "closed" => row[r] # NoRow
  BY DEF TurnInv, PhaseOK, RowOK
<1>8. settled[t] \subseteq h
  BY <1>7 DEF TurnInv, TypeOK, SettledOK
<1>9. ASSUME NEW b \in Turns PROVE SettledOK(b)'
  BY <1>1, <1>2, <1>3, <1>8 DEF TurnInv, SettledOK
<1> QED
  BY <1>4, <1>5, <1>6, <1>9 DEF TurnInv, TurnOK

LEMMA RestartInv ==
  ASSUME TurnInv, Restart
  PROVE  TurnInv'
<1>1. UNCHANGED <<conv, settled, asked, history, row>> /\ faults' \in Nat
  BY DEF Restart, Fault, request, TurnInv, TypeOK
<1>2. \A b \in Turns :
        /\ gen[b].pc \in Busy => gen'[b] = NoLocals("lost")
        /\ gen[b].pc \notin Busy => gen'[b] = gen[b]
  BY DEF Restart
<1>3. NoLocals("lost") \in GenRecord /\ NoLocals("lost").pc = "lost"
  BY NoLocalsType, PCs
<1>4. gen' \in [Turns -> GenRecord]
  BY <1>3 DEF Restart, TurnInv, TypeOK
<1>5. /\ client' \in [Turns -> ClientRecord]
      /\ \A b \in Turns :
           /\ client'[b].pc = IF client[b].pc = "reading" THEN "broken" ELSE client[b].pc
           /\ client'[b].sources = client[b].sources /\ client'[b].pieces = client[b].pieces
           /\ client'[b].end = client[b].end
  <2>1. ASSUME NEW b \in Turns
        PROVE  LET c == IF client[b].pc = "reading" THEN [client[b] EXCEPT !.pc = "broken"]
                                                     ELSE client[b]
               IN  /\ c \in ClientRecord
                   /\ c.pc = IF client[b].pc = "reading" THEN "broken" ELSE client[b].pc
                   /\ c.sources = client[b].sources /\ c.pieces = client[b].pieces
                   /\ c.end = client[b].end
    BY Fields DEF TurnInv, ClientRecord
  <2> QED
    BY <2>1 DEF Restart
<1>6. TypeOK'
  <2>1. NoGraph \in GraphRecord
    BY DEF NoGraph, GraphRecord
  <2> QED
    BY <1>1, <1>4, <1>5, <2>1 DEF Restart, TurnInv, TypeOK
<1>7. ASSUME NEW b \in Turns PROVE TurnOK(b)'
  <2>1. CASE gen[b].pc \in Busy
    <3>1. gen'[b].pc = "lost"
      BY <1>2, <1>3, <2>1
    <3>2. row[b] = NoRow /\ client[b].pc \notin {"idle", "closed"}
      BY <2>1, PCs DEF TurnInv, RowOK, PhaseOK
    <3> QED
      BY <1>1, <1>5, <3>1, <3>2, PCs DEF TurnOK, ShownOK, EndOK, RowOK, PhaseOK
  <2>2. CASE gen[b].pc \notin Busy
    BY <1>1, <1>2, <1>5, <2>2, PCs, Fields DEF TurnInv, TurnOK, ShownOK, EndOK, RowOK, PhaseOK
  <2> QED
    BY <2>1, <2>2
<1>8. ASSUME NEW b \in Turns PROVE SettledOK(b)'
  <2>1. SettledOK(b) /\ settled[b] \subseteq Turns
    BY DEF TurnInv, TypeOK
  <2>2. gen'[b].pc = "lost" \/ gen'[b] = gen[b]
    BY <1>2, <1>3
  <2> QED
    BY <1>1, <1>5, <2>1, <2>2 DEF SettledOK
<1> QED
  BY <1>6, <1>7, <1>8 DEF TurnInv, TurnOK

LEMMA GraphInv ==
  ASSUME TurnInv, NEW t \in Turns, GraphStep(t) \/ GraphEnds(t)
  PROVE  TurnInv'
<1>1. UNCHANGED <<conv, settled, asked, history, gen, row, client, faults>>
  BY DEF GraphStep, GraphEnds, request
<1>2. graph' \in [Turns -> GraphRecord]
  <2>1. CASE GraphStep(t)
    <3>1. graph[t].unread + 1 \in Nat
      BY Fields DEF TurnInv
    <3> QED
      BY <2>1, <3>1 DEF GraphStep, TurnInv, TypeOK, GraphRecord
  <2>2. CASE GraphEnds(t)
    BY <2>2 DEF GraphEnds, TurnInv, TypeOK, GraphRecord
  <2> QED
    BY <2>1, <2>2
<1>3. TypeOK'
  BY <1>1, <1>2 DEF TurnInv, TypeOK
<1>4. TurnOK(t)'
  BY <1>1, Untouched DEF TurnInv, TurnOK
<1> QED
  BY <1>1, <1>3, <1>4, TurnStep

-----------------------------------------------------------------------------
(* The theorems.                                                           *)

LEMMA InitInv == Init => TurnInv
<1> SUFFICES ASSUME Init PROVE TurnInv
  OBVIOUS
<1>1. NoLocals("new") \in GenRecord /\ NoLocals("new").pc = "new"
      /\ NoLocals("new").acc = 0 /\ NoLocals("new").code = "none"
  BY NoLocalsType
<1>2. NoGraph \in GraphRecord
  BY DEF NoGraph, GraphRecord
<1>3. TypeOK
  BY <1>1, <1>2 DEF Init, TypeOK, ClientRecord
<1>4. ASSUME NEW t \in Turns PROVE TurnOK(t) /\ SettledOK(t)
  BY <1>1, PCs DEF Init, TurnOK, ShownOK, EndOK, RowOK, PhaseOK, SettledOK
<1> QED
  BY <1>3, <1>4 DEF TurnInv, TurnOK

LEMMA NextInv == TurnInv /\ [Next]_vars => TurnInv'
<1> SUFFICES ASSUME TurnInv, [Next]_vars PROVE TurnInv'
  OBVIOUS
<1>1. CASE UNCHANGED vars
  BY <1>1 DEF vars, TurnInv, TypeOK, ShownOK, EndOK, RowOK, PhaseOK, SettledOK
<1>2. ASSUME NEW t \in Turns, NEW s \in Turns \cup {NoTurn}, Post(t, s) PROVE TurnInv'
  BY <1>2, PostInv
<1>3. ASSUME NEW t \in Turns, Serve(t) PROVE TurnInv'
  BY <1>3, ResolveConversationInv, InsertUserMessageInv, SearchInv, RaiseInv, SendInv, PullInv,
     WriteInv, ReadStepInv, ReadResultInv, DisconnectInv, PersistInv DEF Serve
<1>4. ASSUME NEW t \in Turns, PostRefused(t) \/ PersistFails(t) PROVE TurnInv'
  BY <1>4, PostRefusedInv, PersistFailsInv
<1>5. ASSUME NEW t \in Turns, GraphStep(t) \/ GraphEnds(t) PROVE TurnInv'
  BY <1>5, GraphInv
<1>6. ASSUME NEW t \in Turns, Leave(t) \/ EndOfStream(t) PROVE TurnInv'
  BY <1>6, LeaveInv, EndOfStreamInv
<1>7. CASE Restart
  BY <1>7, RestartInv
<1> QED
  BY <1>1, <1>2, <1>3, <1>4, <1>5, <1>6, <1>7 DEF Next

\* The invariant of the turns.
THEOREM TurnInvCorrect == Spec => []TurnInv
BY InitInv, NextInv, PTL DEF Spec

THEOREM TurnTypes == Spec => []TypeOK
<1>1. TurnInv => TypeOK
  BY DEF TurnInv
<1> QED
  BY <1>1, TurnInvCorrect, PTL

\* "You can always reconstruct what the system showed": every row of an answer
\* holds the sources and at least the text that was sent.
THEOREM ShownIsRecorded == Spec => []RecordCoversShown
<1>1. TurnInv => RecordCoversShown
  BY DEF TurnInv, RowOK, RecordCoversShown
<1> QED
  BY <1>1, TurnInvCorrect, PTL

\* The error code of a row agrees with the end its client saw.
THEOREM CodeIsTrue == Spec => []CodeTellsEnd
<1>1. TurnInv => CodeTellsEnd
  BY DEF TurnInv, RowOK, CodeTellsEnd
<1> QED
  BY <1>1, TurnInvCorrect, PTL

\* An answer read to its end is in the history of every later question.
THEOREM HistoryIsComplete == Spec => []NextTurnSeesAnswer
<1>1. TurnInv => NextTurnSeesAnswer
  BY DEF TurnInv, SettledOK, NextTurnSeesAnswer
<1> QED
  BY <1>1, TurnInvCorrect, PTL

-----------------------------------------------------------------------------
(* The turns implement the trail of answers.                               *)

LEMMA TrailInit == Init => Trail!Init
<1> SUFFICES ASSUME Init PROVE Trail!Init
  OBVIOUS
<1>1. asked = {}
  BY DEF Init
<1>2. \A t \in Turns : client[t].sources = "none" /\ client[t].pieces = 0 /\ row[t] = NoRow
  BY DEF Init
<1>3. [t \in Turns |-> [sources |-> client[t].sources, pieces |-> client[t].pieces]]
        = [t \in Turns |-> Trail!Blank]
  BY <1>2 DEF Trail!Blank, Trail!Unshown
<1>4. [t \in Turns |-> IF row[t] = NoRow THEN NoRow
                       ELSE [sources |-> row[t].sources, pieces |-> row[t].pieces]]
        = [t \in Turns |-> NoRow]
  BY <1>2
<1> QED
  BY <1>1, <1>3, <1>4 DEF Trail!Init

\* A step that shows nothing and records nothing.
LEMMA TrailStutter ==
  ASSUME UNCHANGED <<asked, row>>,
         \A b \in Turns : client'[b].sources = client[b].sources /\ client'[b].pieces = client[b].pieces
  PROVE  UNCHANGED Trail!vars
<1>1. [t \in Turns |-> [sources |-> client[t].sources, pieces |-> client[t].pieces]]'
        = [t \in Turns |-> [sources |-> client[t].sources, pieces |-> client[t].pieces]]
  OBVIOUS
<1>2. [t \in Turns |-> IF row[t] = NoRow THEN NoRow
                       ELSE [sources |-> row[t].sources, pieces |-> row[t].pieces]]'
        = [t \in Turns |-> IF row[t] = NoRow THEN NoRow
                           ELSE [sources |-> row[t].sources, pieces |-> row[t].pieces]]
  OBVIOUS
<1> QED
  BY <1>1, <1>2 DEF Trail!vars

LEMMA TrailStep == TurnInv /\ [Next]_vars => [Trail!Next]_(Trail!vars)
<1> SUFFICES ASSUME TurnInv, [Next]_vars PROVE [Trail!Next]_(Trail!vars)
  OBVIOUS
<1>1. CASE UNCHANGED <<asked, row, client>>
  BY <1>1, TrailStutter
<1>2. ASSUME NEW t \in Turns, InsertUserMessage(t) PROVE [Trail!Next]_(Trail!vars)
  <2>1. asked' = asked \cup {t} /\ UNCHANGED <<row, client>>
    BY <1>2 DEF InsertUserMessage
  <2>2. CASE t \in asked
    BY <2>1, <2>2, TrailStutter
  <2>3. CASE t \notin asked
    <3>1. Trail!Ask(t)
      BY <2>1, <2>3 DEF Trail!Ask
    <3> QED
      BY <3>1 DEF Trail!Next
  <2> QED
    BY <2>2, <2>3
<1>3. ASSUME NEW t \in Turns, Send(t) PROVE [Trail!Next]_(Trail!vars)
  <2>1. /\ gen[t].pc = "yield" /\ UNCHANGED <<asked, row>>
        /\ client' = [client EXCEPT ![t] = IF @.pc = "reading" THEN Shown(@, gen[t]) ELSE @]
    BY <1>3 DEF Send
  <2>2. t \in asked /\ row[t] = NoRow /\ (gen[t].ev = "sources" => client[t].sources = "none")
    BY <2>1, PCs DEF TurnInv, PhaseOK, RowOK, ShownOK, Cites
  <2>3. \A b \in Turns : b # t => client'[b] = client[b]
    BY <2>1 DEF TurnInv, TypeOK
  <2>4. client'[t] = IF client[t].pc = "reading" THEN Shown(client[t], gen[t]) ELSE client[t]
    BY <2>1 DEF TurnInv, TypeOK
  <2>5. client[t] \in ClientRecord /\ gen[t].sources \in Snapshots /\ client[t].pieces \in Nat
    BY Fields DEF TurnInv
  <2>6. CASE client[t].pc # "reading" \/ gen[t].ev \notin {"sources", "delta"}
    <3>1. client'[t].sources = client[t].sources /\ client'[t].pieces = client[t].pieces
      BY <2>4, <2>5, <2>6 DEF Shown, ClientRecord
    <3> QED
      BY <2>1, <2>3, <3>1, TrailStutter
  <2>7. CASE client[t].pc = "reading" /\ gen[t].ev = "sources"
    <3>1. client'[t].sources = gen[t].sources /\ client'[t].pieces = client[t].pieces
      BY <2>4, <2>5, <2>7 DEF Shown, ClientRecord
    <3>2. PICK x \in Snapshots : x = gen[t].sources
      BY <2>5
    <3>3. [b \in Turns |-> [sources |-> client[b].sources, pieces |-> client[b].pieces]]'
            = [[b \in Turns |-> [sources |-> client[b].sources, pieces |-> client[b].pieces]]
                 EXCEPT ![t].sources = x]
      BY <2>3, <3>1, <3>2
    <3>4. Trail!ShowSources(t, x)
      BY <2>1, <2>2, <2>7, <3>3 DEF Trail!ShowSources, Trail!Unshown
    <3>5. x \in Trail!Snapshots
      BY <3>2 DEF Trail!Snapshots, Snapshots
    <3> QED
      BY <3>4, <3>5 DEF Trail!Next
  <2>8. CASE client[t].pc = "reading" /\ gen[t].ev = "delta"
    <3>1. client'[t].sources = client[t].sources /\ client'[t].pieces = client[t].pieces + 1
      BY <2>4, <2>5, <2>8 DEF Shown, ClientRecord
    <3>2. Trail!ShowPiece(t)
      BY <2>1, <2>2, <2>3, <3>1 DEF Trail!ShowPiece
    <3> QED
      BY <3>2 DEF Trail!Next
  <2> QED
    BY <2>6, <2>7, <2>8
<1>4. ASSUME NEW t \in Turns, Persist(t) PROVE [Trail!Next]_(Trail!vars)
  <2>1. /\ gen[t].pc = "persist" /\ UNCHANGED <<asked, client>>
        /\ row' = [row EXCEPT ![t] = [sources |-> gen[t].sources, pieces |-> gen[t].acc,
                                      code |-> gen[t].code]]
    BY <1>4 DEF Persist
  <2>2. t \in asked /\ row[t] = NoRow
    BY <2>1, PCs DEF TurnInv, PhaseOK, RowOK
  <2>3. client[t].pieces <= gen[t].acc /\ client[t].sources \in {"none", gen[t].sources}
    BY <2>1, OwedBy, PCs, Fields DEF TurnInv, ShownOK
  <2>4. PICK r \in RowRecord :
          /\ r.sources = gen[t].sources /\ r.pieces = gen[t].acc
          /\ row'[t] = r /\ \A b \in Turns : b # t => row'[b] = row[b]
    <3>1. [sources |-> gen[t].sources, pieces |-> gen[t].acc, code |-> gen[t].code] \in RowRecord
      BY Fields DEF TurnInv, RowRecord
    <3> QED
      BY <2>1, <3>1 DEF TurnInv, TypeOK
  <2>5. r # NoRow
    BY NoRowAssumption
  <2>6. [sources |-> r.sources, pieces |-> r.pieces] \in Trail!Rows
    BY <2>4 DEF Trail!Rows, Trail!Snapshots, RowRecord, Snapshots
  <2>7. Trail!Covers([sources |-> r.sources, pieces |-> r.pieces],
                     [sources |-> client[t].sources, pieces |-> client[t].pieces])
    BY <2>3, <2>4, Fields DEF TurnInv, Trail!Covers, Trail!Unshown
  <2>8. Trail!Record(t)
    BY <2>1, <2>2, <2>4, <2>5, <2>6, <2>7 DEF Trail!Record
  <2> QED
    BY <2>8 DEF Trail!Next
<1>5. ASSUME NEW t \in Turns, NEW s \in Turns \cup {NoTurn}, Post(t, s)
      PROVE  UNCHANGED Trail!vars
  <2>1. UNCHANGED <<asked, row>> /\ client' = [client EXCEPT ![t].pc = "reading"]
    BY <1>5 DEF Post
  <2>2. \A b \in Turns : client'[b].sources = client[b].sources /\ client'[b].pieces = client[b].pieces
    BY <2>1 DEF TurnInv, TypeOK, ClientRecord
  <2> QED
    BY <2>1, <2>2, TrailStutter
<1>6. ASSUME NEW t \in Turns,
             PostRefused(t) \/ PersistFails(t) \/ Leave(t) \/ EndOfStream(t)
      PROVE  UNCHANGED Trail!vars
  <2>1. UNCHANGED <<asked, row>>
    BY <1>6 DEF PostRefused, Refuse, PersistFails, Leave, EndOfStream
  <2>2. PICK p : client' = [client EXCEPT ![t].pc = p]
    BY <1>6 DEF PostRefused, Refuse, PersistFails, Leave, EndOfStream
  <2>3. \A b \in Turns : client'[b].sources = client[b].sources /\ client'[b].pieces = client[b].pieces
    BY <2>2 DEF TurnInv, TypeOK, ClientRecord
  <2> QED
    BY <2>1, <2>3, TrailStutter
<1>7. CASE Restart
  <2>1. UNCHANGED <<asked, row>>
    BY <1>7 DEF Restart
  <2>2. \A b \in Turns : client'[b] = IF client[b].pc = "reading" THEN [client[b] EXCEPT !.pc = "broken"]
                                      ELSE client[b]
    BY <1>7 DEF Restart
  <2>3. \A b \in Turns : client'[b].sources = client[b].sources /\ client'[b].pieces = client[b].pieces
    BY <2>2, Fields DEF TurnInv, ClientRecord
  <2> QED
    BY <2>1, <2>3, TrailStutter
<1>8. ASSUME NEW t \in Turns, ResolveConversation(t) \/ Search(t) \/ Raise(t) \/ Pull(t) \/ Write(t)
                \/ ReadStep(t) \/ ReadResult(t) \/ Disconnect(t) \/ GraphStep(t) \/ GraphEnds(t)
      PROVE  UNCHANGED <<asked, row, client>>
  BY <1>8 DEF ResolveConversation, Search, Raise, Pull, Write, ReadStep, ReadResult, Disconnect,
              GraphStep, GraphEnds
<1>9. CASE UNCHANGED vars
  BY <1>1, <1>9 DEF vars
<1> QED
  BY <1>1, <1>2, <1>3, <1>4, <1>5, <1>6, <1>7, <1>8, <1>9 DEF Next, Serve

\* Every behaviour of the turns is a behaviour of the trail: an answer is
\* recorded once, with all that was shown, and nothing is shown after that.
THEOREM TurnsImplementTrail == Spec => TrailSpec
BY TrailInit, TrailStep, TurnInvCorrect, PTL DEF Spec, TrailSpec, Trail!Spec
=============================================================================
