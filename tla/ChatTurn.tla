------------------------------- MODULE ChatTurn -------------------------------
(***************************************************************************)
(* Chat turns: the generator stream_reply and the deep-search task it may  *)
(* start (chat/service.py), the SSE body that pulls it (routes/chat.py)    *)
(* and the client that may leave at any moment.                            *)
(*                                                                         *)
(* The generator of a turn is running (its pc names the await it is in),   *)
(* suspended at a yield (pc "yield" until its event is written to the      *)
(* client, "sent" from then until it is pulled again) or in its finally    *)
(* block.  A text is known by the number of its pieces, a list of sources  *)
(* by whether it is empty, an error by its being one: provider_error and   *)
(* internal_error are both "failed".  Pings change no state.               *)
(***************************************************************************)
EXTENDS Integers, FiniteSets

CONSTANTS
  Turns,           \* questions, one per POST /api/chat
  Openers,         \* those posted without a conversation_id
  Deep,            \* those posted with mode "deep"
  NoTurn,
  NoRow,           \* no assistant message yet
  HistoryLimit,    \* HISTORY_LIMIT
  MaxPieces,       \* bound: pieces of a draft, chunks of a generation
  MaxUnread,       \* bound: steps in the queue of a deep search
  MaxFaults        \* bound: transactions the database refuses and crashes of the process

\* The last HistoryLimit messages are all there are.
ASSUME ConstantsAssumption ==
  /\ NoTurn \notin Turns /\ Deep \subseteq Turns /\ Openers \subseteq Turns
  /\ IsFiniteSet(Turns) /\ HistoryLimit \in Nat /\ 2 * Cardinality(Turns) <= HistoryLimit
  /\ MaxPieces \in Nat /\ MaxUnread \in Nat /\ MaxFaults \in Nat

VARIABLES
  conv,       \* the conversation of a turn, named by the turn that opened it
  asked,      \* the turns whose user message is recorded
  history,    \* the turns whose answers a turn read as its history
  gen,        \* the generator: where it is and its locals
  graph,      \* the task that runs the deep graph, and its queue of steps
  row,        \* the assistant message of each turn
  client,     \* what the client of each turn does and was shown
  settled,    \* the turns of its conversation a client had read to the end before it asked
  faults

request == <<conv, settled>>
vars == <<conv, asked, history, gen, graph, row, client, settled, faults>>

NoDraft == -1
Codes == {"none", "failed", "client_disconnect"}
Events == {"none", "start", "step", "sources", "delta", "done", "error"}
Snapshots == {"empty", "found"}
AtYield == {"yield", "sent"}
Streaming == {"graph", "write"}            \* in an await, after the first event
Busy == {"resolve", "ask", "search", "persist"} \cup Streaming \cup AtYield
Ended == {"over", "failed", "refused", "lost"}

GenRecord ==
  [pc : {"new"} \cup Busy \cup Ended,
   ev : Events,
   acc : Nat,                              \* accumulated
   sources : Snapshots,
   draft : Nat \cup {NoDraft},             \* prewritten
   code : Codes]                           \* error_code

GraphRecord ==
  [pc : {"none", "running", "delivered", "abstained", "raised"}, unread : Nat]

ClientRecord ==
  [pc : {"idle", "reading", "gone", "closed", "broken"},
   conv : {"unknown", "known"},
   sources : {"none"} \cup Snapshots,
   pieces : Nat,
   end : {"none", "done", "error"}]

RowRecord == [sources : Snapshots, pieces : Nat, code : Codes]

ASSUME NoRowAssumption == NoRow \notin RowRecord

NoLocals(pc) ==
  [pc |-> pc, ev |-> "none", acc |-> 0, sources |-> "empty", draft |-> NoDraft, code |-> "none"]
NoGraph == [pc |-> "none", unread |-> 0]

Init ==
  /\ conv = [t \in Turns |-> NoTurn]
  /\ asked = {}
  /\ history = [t \in Turns |-> {}]
  /\ gen = [t \in Turns |-> NoLocals("new")]
  /\ graph = [t \in Turns |-> NoGraph]
  /\ row = [t \in Turns |-> NoRow]
  /\ client = [t \in Turns |-> [pc |-> "idle", conv |-> "unknown", sources |-> "none",
                                pieces |-> 0, end |-> "none"]]
  /\ settled = [t \in Turns |-> {}]
  /\ faults = 0

-----------------------------------------------------------------------------
(* The request, up to the first event.                                     *)

Fault == faults < MaxFaults /\ faults' = faults + 1
SetGen(t, g) == gen' = [gen EXCEPT ![t] = g]
GoTo(t, pc) == gen' = [gen EXCEPT ![t].pc = pc]
Turn(t, ev) == [gen[t] EXCEPT !.pc = "yield", !.ev = ev]

\* A first question, one in a conversation the client knows the id of, or one
\* with an id that is unknown or of another user's conversation (s is NoTurn).
Post(t, s) ==
  LET c == IF s \in {t, NoTurn} THEN s ELSE conv[s] IN
  /\ client[t].pc = "idle"
  /\ IF t \in Openers THEN s = t ELSE s # NoTurn => client[s].conv = "known"
  /\ conv' = [conv EXCEPT ![t] = c]
  /\ settled' = [settled EXCEPT ![t] =
                   {r \in Turns : conv[r] = c /\ client[r].pc = "closed"}]
  /\ client' = [client EXCEPT ![t].pc = "reading"]
  /\ GoTo(t, "resolve")
  /\ UNCHANGED <<asked, history, graph, row, faults>>

\* The history is read before the question is recorded.
ResolveConversation(t) ==
  /\ gen[t].pc = "resolve" /\ conv[t] # NoTurn
  /\ history' = [history EXCEPT ![t] = {r \in Turns : conv[r] = conv[t] /\ row[r] # NoRow}]
  /\ GoTo(t, "ask")
  /\ UNCHANGED <<request, asked, graph, row, client, faults>>

Refuse(t) ==
  /\ GoTo(t, "refused")
  /\ client' = [client EXCEPT ![t].pc = IF @ = "reading" THEN "broken" ELSE @]
  /\ UNCHANGED <<request, asked, history, graph, row>>

\* An unknown or foreign conversation answers 404, a database error 500.
PostRefused(t) ==
  /\ Refuse(t)
  /\ \/ gen[t].pc = "resolve" /\ conv[t] = NoTurn /\ UNCHANGED faults
     \/ gen[t].pc \in {"resolve", "ask"} /\ Fault

InsertUserMessage(t) ==
  /\ gen[t].pc = "ask"
  /\ asked' = asked \cup {t}
  /\ SetGen(t, IF t \in Deep THEN Turn(t, "start") ELSE [gen[t] EXCEPT !.pc = "search"])
  /\ UNCHANGED <<request, history, graph, row, client, faults>>

\* Embedding, fused search and reranking; sources is set before the first event.
Search(t) ==
  /\ gen[t].pc = "search"
  /\ \E s \in Snapshots : SetGen(t, [Turn(t, "start") EXCEPT !.sources = s])
  /\ UNCHANGED <<request, asked, history, graph, row, client, faults>>

\* A provider raises, or anything else does.
Raise(t) ==
  /\ gen[t].pc \in {"search", "write"}
  /\ SetGen(t, [Turn(t, "error") EXCEPT !.code = "failed"])
  /\ UNCHANGED <<request, asked, history, graph, row, client, faults>>

-----------------------------------------------------------------------------
(* Events.  The SSE body writes one, then pulls the next.                  *)

Shown(c, g) ==
  CASE g.ev = "start" -> [c EXCEPT !.conv = "known"]
    [] g.ev = "sources" -> [c EXCEPT !.sources = g.sources]
    [] g.ev = "delta" -> [c EXCEPT !.pieces = @ + 1]
    [] g.ev \in {"done", "error"} -> [c EXCEPT !.end = g.ev]
    [] OTHER -> c

\* What is written to a client that has left goes nowhere.
Send(t) ==
  /\ gen[t].pc = "yield"
  /\ client' = [client EXCEPT ![t] = IF @.pc = "reading" THEN Shown(@, gen[t]) ELSE @]
  /\ GoTo(t, "sent")
  /\ UNCHANGED <<request, asked, history, graph, row, faults>>

\* The draft is paced out: a slice is accumulated, then yielded.
NextSlice(g) ==
  IF g.acc < g.draft THEN [g EXCEPT !.pc = "yield", !.ev = "delta", !.acc = @ + 1]
                     ELSE [g EXCEPT !.pc = "yield", !.ev = "done"]

\* Where the generator goes on after the yield of its event.
Resumed(g, deep) ==
  CASE g.ev = "start" /\ ~deep -> [g EXCEPT !.pc = "yield", !.ev = "sources"]
    [] g.ev \in {"start", "step"} /\ deep -> [g EXCEPT !.pc = "graph", !.ev = "none"]
    [] g.ev \in {"sources", "delta"} ->
         IF g.draft = NoDraft THEN [g EXCEPT !.pc = "write", !.ev = "none"] ELSE NextSlice(g)
    [] OTHER -> [g EXCEPT !.pc = "persist", !.ev = "none"]

Pull(t) ==
  /\ gen[t].pc = "sent"
  /\ SetGen(t, Resumed(gen[t], t \in Deep))
  /\ graph' = IF gen[t].ev = "start" /\ t \in Deep
                THEN [graph EXCEPT ![t].pc = "running"] ELSE graph
  /\ UNCHANGED <<request, asked, history, row, client, faults>>

\* Mutant: the chunk is yielded before it is accumulated.
WriteYieldsFirst(t) ==
  /\ gen[t].pc = "write"
  /\ \/ gen[t].acc < MaxPieces /\ SetGen(t, Turn(t, "delta"))
     \/ SetGen(t, Turn(t, "done"))
  /\ UNCHANGED <<request, asked, history, graph, row, client, faults>>

\* The next chunk of the language model, or the end of its reply.
Write(t) ==
  /\ gen[t].pc = "write"
  /\ \/ gen[t].acc < MaxPieces /\ SetGen(t, [Turn(t, "delta") EXCEPT !.acc = @ + 1])
     \/ SetGen(t, Turn(t, "done"))
  /\ UNCHANGED <<request, asked, history, graph, row, client, faults>>

-----------------------------------------------------------------------------
(* Deep search: the graph runs in a task of its own (module DeepGraph) and *)
(* reports its steps through a queue; its end is the last item.            *)

GraphStep(t) ==
  /\ graph[t].pc = "running" /\ graph[t].unread < MaxUnread
  /\ graph' = [graph EXCEPT ![t].unread = @ + 1]
  /\ UNCHANGED <<request, asked, history, gen, row, client, faults>>

GraphEnds(t) ==
  /\ graph[t].pc = "running"
  /\ \E pc \in {"delivered", "abstained", "raised"} : graph' = [graph EXCEPT ![t].pc = pc]
  /\ UNCHANGED <<request, asked, history, gen, row, client, faults>>

ReadStep(t) ==
  /\ gen[t].pc = "graph" /\ graph[t].unread > 0
  /\ graph' = [graph EXCEPT ![t].unread = @ - 1]
  /\ SetGen(t, Turn(t, "step"))
  /\ UNCHANGED <<request, asked, history, row, client, faults>>

\* Abstention leaves no evidence and no draft; a failure is raised again here.
ReadResult(t) ==
  /\ gen[t].pc = "graph" /\ graph[t].unread = 0
  /\ \/ /\ graph[t].pc = "delivered"
        /\ \E s \in Snapshots, n \in 0..MaxPieces :
             SetGen(t, [Turn(t, "sources") EXCEPT !.sources = s, !.draft = n])
     \/ /\ graph[t].pc = "abstained"
        /\ SetGen(t, Turn(t, "sources"))
     \/ /\ graph[t].pc = "raised"
        /\ SetGen(t, [Turn(t, "error") EXCEPT !.code = "failed"])
  /\ graph' = [graph EXCEPT ![t] = NoGraph]
  /\ UNCHANGED <<request, asked, history, row, client, faults>>

-----------------------------------------------------------------------------
(* Leaving, and the finally block.                                         *)

Leave(t) ==
  /\ client[t].pc = "reading"
  /\ client' = [client EXCEPT ![t].pc = "gone"]
  /\ UNCHANGED <<request, asked, history, gen, graph, row, faults>>

\* Mutant: the finished flag is not consulted.
DisconnectUnfinished(t) ==
  /\ client[t].pc = "gone" /\ gen[t].pc \in Streaming \cup AtYield
  /\ SetGen(t, [gen[t] EXCEPT !.pc = "persist", !.ev = "none", !.code = "client_disconnect"])
  /\ graph' = [graph EXCEPT ![t] = NoGraph]
  /\ UNCHANGED <<request, asked, history, row, client, faults>>

\* Mutant: a cancelled turn records its text and forgets its sources.
DisconnectDropsSources(t) ==
  /\ client[t].pc = "gone" /\ gen[t].pc \in Streaming \cup AtYield
  /\ SetGen(t, [gen[t] EXCEPT !.pc = "persist", !.ev = "none", !.sources = "empty",
                  !.code = IF gen[t].ev \in {"done", "error"} THEN @ ELSE "client_disconnect"])
  /\ graph' = [graph EXCEPT ![t] = NoGraph]
  /\ UNCHANGED <<request, asked, history, row, client, faults>>

\* CancelledError at an await, GeneratorExit at a yield.  A turn that finished
\* or failed before keeps its code.  The task of a deep search is left running:
\* nobody reads its queue any more and it writes nothing.
Disconnect(t) ==
  /\ client[t].pc = "gone" /\ gen[t].pc \in Streaming \cup AtYield
  /\ SetGen(t, [gen[t] EXCEPT !.pc = "persist", !.ev = "none",
                  !.code = IF gen[t].ev \in {"done", "error"} THEN @ ELSE "client_disconnect"])
  /\ graph' = [graph EXCEPT ![t] = NoGraph]
  /\ UNCHANGED <<request, asked, history, row, client, faults>>

\* Mutant: the insert is awaited without a shield; cancelled again, it is lost.
PersistUnshielded(t) ==
  /\ gen[t].pc = "persist"
  /\ row' = IF client[t].pc = "gone" THEN row
            ELSE [row EXCEPT ![t] = [sources |-> gen[t].sources, pieces |-> gen[t].acc,
                                     code |-> gen[t].code]]
  /\ SetGen(t, NoLocals("over"))
  /\ UNCHANGED <<request, asked, history, graph, client, faults>>

\* Shielded and waited out: the cancellation delivered again at this await
\* changes nothing.
Persist(t) ==
  /\ gen[t].pc = "persist"
  /\ row' = [row EXCEPT ![t] = [sources |-> gen[t].sources, pieces |-> gen[t].acc,
                                code |-> gen[t].code]]
  /\ SetGen(t, NoLocals("over"))
  /\ UNCHANGED <<request, asked, history, graph, client, faults>>

\* The database refuses the row: the generator raises and the stream breaks.
PersistFails(t) ==
  /\ gen[t].pc = "persist" /\ Fault
  /\ SetGen(t, NoLocals("failed"))
  /\ client' = [client EXCEPT ![t].pc = IF @ = "reading" THEN "broken" ELSE @]
  /\ UNCHANGED <<request, asked, history, graph, row>>

\* Mutant: the body returns after the event that ends the answer.
EndAtDone(t) ==
  /\ client[t].pc = "reading" /\ client[t].end # "none"
  /\ client' = [client EXCEPT ![t].pc = "closed"]
  /\ UNCHANGED <<request, asked, history, gen, graph, row, faults>>

\* The body returns when the generator is exhausted, and the response ends.
EndOfStream(t) ==
  /\ gen[t].pc = "over" /\ client[t].pc = "reading"
  /\ client' = [client EXCEPT ![t].pc = "closed"]
  /\ UNCHANGED <<request, asked, history, gen, graph, row, faults>>

\* The process dies and is started again: what is committed stays.
Restart ==
  /\ Fault
  /\ \E t \in Turns : gen[t].pc \in Busy
  /\ gen' = [t \in Turns |-> IF gen[t].pc \in Busy THEN NoLocals("lost") ELSE gen[t]]
  /\ graph' = [t \in Turns |-> NoGraph]
  /\ client' = [t \in Turns |->
                  IF client[t].pc = "reading" THEN [client[t] EXCEPT !.pc = "broken"] ELSE client[t]]
  /\ UNCHANGED <<request, asked, history, row>>

Serve(t) ==
  \/ ResolveConversation(t) \/ InsertUserMessage(t) \/ Search(t) \/ Raise(t)
  \/ Send(t) \/ Pull(t) \/ Write(t) \/ ReadStep(t) \/ ReadResult(t)
  \/ Disconnect(t) \/ Persist(t)

Next ==
  \/ \E t \in Turns, s \in Turns \cup {NoTurn} : Post(t, s)
  \/ \E t \in Turns :
       \/ Serve(t) \/ PostRefused(t) \/ PersistFails(t)
       \/ GraphStep(t) \/ GraphEnds(t) \/ Leave(t) \/ EndOfStream(t)
  \/ Restart

Spec == Init /\ [][Next]_vars

\* The event loop runs what is runnable; models, searches and the database
\* answer; the connection takes what is written or reports that it is gone, and
\* the interpreter closes a generator nobody holds any more.
Fairness ==
  \A t \in Turns : WF_vars(Serve(t)) /\ WF_vars(GraphEnds(t))

FairSpec == Spec /\ Fairness

-----------------------------------------------------------------------------
(* Properties.                                                             *)

TypeOK ==
  /\ conv \in [Turns -> Turns \cup {NoTurn}]
  /\ asked \subseteq Turns
  /\ history \in [Turns -> SUBSET Turns]
  /\ gen \in [Turns -> GenRecord]
  /\ graph \in [Turns -> GraphRecord]
  /\ row \in [Turns -> RowRecord \cup {NoRow}]
  /\ client \in [Turns -> ClientRecord]
  /\ settled \in [Turns -> SUBSET Turns]
  /\ faults \in Nat

\* "You can always reconstruct what the system showed" (COMPLIANCE): the row of
\* an answer holds the sources and at least the text its client was shown.
RecordCoversShown ==
  \A t \in Turns :
    row[t] # NoRow =>
      /\ client[t].pieces <= row[t].pieces
      /\ client[t].sources \in {"none", row[t].sources}

\* The error code of the row tells how the turn ended for the client: what it
\* was told at the end, that it left before the end, and, when it read to the
\* end, that the row is exactly what it read.
CodeTellsEnd ==
  \A t \in Turns :
    row[t] # NoRow =>
      /\ client[t].end = "done" => row[t].code = "none"
      /\ client[t].end = "error" => row[t].code = "failed"
      /\ row[t].code = "client_disconnect" => client[t].pc = "gone"
      /\ client[t].pc = "closed" =>
           client[t].end # "none" /\ client[t].pieces = row[t].pieces

\* The stream of an answer ends only after its row is written: a question asked
\* after that finds the answer in its history (of HISTORY_LIMIT messages).
NextTurnSeesAnswer ==
  \A t \in Turns : gen[t].pc \notin {"new", "resolve", "refused", "lost"} => settled[t] \subseteq history[t]

\* The inductive invariant, turn by turn (module ChatTurnProofs).
Live == Streaming \cup AtYield \cup {"persist"}
Asking == {"new", "resolve", "ask", "search"}
Owed(g) == IF g.pc = "yield" /\ g.ev = "delta" THEN 1 ELSE 0  \* accumulated, not yet sent
Cites(g) == \* before the sources are sent
  \/ g.pc = "graph"
  \/ g.pc \in AtYield /\ g.ev \in {"start", "step"}
  \/ g.pc = "yield" /\ g.ev = "sources"

ShownOK(t) ==
  /\ gen[t].pc \in Asking =>
       /\ client[t].pieces = 0 /\ client[t].sources = "none" /\ client[t].end = "none"
       /\ gen[t].acc = 0 /\ gen[t].code = "none"
  /\ gen[t].pc \in Live =>
       /\ client[t].pieces + Owed(gen[t]) <= gen[t].acc
       /\ client[t].pc = "reading" => client[t].pieces + Owed(gen[t]) = gen[t].acc
       /\ client[t].sources \in {"none", gen[t].sources}
       /\ Cites(gen[t]) => client[t].sources = "none"

EndOK(t) ==
  /\ gen[t].pc \in Streaming =>
       gen[t].code = "none" /\ client[t].end = "none" /\ (gen[t].pc = "graph" => t \in Deep)
  /\ gen[t].pc \in AtYield =>
       /\ gen[t].ev # "none" /\ (gen[t].ev = "step" => t \in Deep)
       /\ gen[t].code = IF gen[t].ev = "error" THEN "failed" ELSE "none"
       /\ client[t].end # "none" => gen[t].pc = "sent" /\ client[t].end = gen[t].ev
       /\ gen[t].pc = "sent" /\ gen[t].ev \in {"done", "error"} /\ client[t].pc = "reading" =>
            client[t].end = gen[t].ev
  /\ gen[t].pc = "persist" =>
       /\ client[t].end = "done" => gen[t].code = "none"
       /\ client[t].end = "error" => gen[t].code = "failed"
       /\ gen[t].code = "client_disconnect" => client[t].pc = "gone"
       /\ client[t].pc = "reading" => client[t].end # "none"

RowOK(t) ==
  /\ row[t] # NoRow <=> gen[t].pc = "over"
  /\ row[t] # NoRow =>
       /\ client[t].pieces <= row[t].pieces
       /\ client[t].sources \in {"none", row[t].sources}
       /\ client[t].end = "done" => row[t].code = "none"
       /\ client[t].end = "error" => row[t].code = "failed"
       /\ row[t].code = "client_disconnect" => client[t].pc = "gone"
       /\ client[t].pc \in {"reading", "closed"} =>
            client[t].end # "none" /\ client[t].pieces = row[t].pieces

PhaseOK(t) ==
  /\ client[t].pc = "idle" <=> gen[t].pc = "new"
  /\ client[t].pc = "closed" => gen[t].pc = "over"
  /\ gen[t].pc \in Live \cup {"search", "over"} => t \in asked

SettledOK(t) ==
  /\ \A r \in settled[t] : conv[r] = conv[t] /\ client[r].pc = "closed"
  /\ gen[t].pc \notin {"new", "resolve", "refused", "lost"} => settled[t] \subseteq history[t]

TurnInv ==
  /\ TypeOK
  /\ \A t \in Turns : ShownOK(t) /\ EndOK(t) /\ RowOK(t) /\ PhaseOK(t) /\ SettledOK(t)

\* The turns implement the trail they promise (module AnswerTrail).
Trail == INSTANCE AnswerTrail
           WITH shown <- [t \in Turns |-> [sources |-> client[t].sources,
                                           pieces |-> client[t].pieces]],
                record <- [t \in Turns |->
                             IF row[t] = NoRow THEN NoRow
                             ELSE [sources |-> row[t].sources, pieces |-> row[t].pieces]]
TrailSpec == Trail!Spec

\* "The audit row lands on every exit path: success, provider failure, even a
\* client disconnect mid-answer", unless the process dies or the row is refused.
EveryTurnRecorded ==
  \A t \in Turns :
    t \in asked ~> row[t] # NoRow \/ gen[t].pc \in {"lost", "failed"}
=============================================================================
