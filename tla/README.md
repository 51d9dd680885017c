# sovereign-rag in TLA+

Specifications, model-checking configurations and machine-checked proofs of the
stateful core of sovereign-rag, a self-hosted retrieval-augmented chat service
(FastAPI, PostgreSQL with pgvector, a React front end). Paths such as
`ingestion/service.py` are below `src/backend/src/sovereign_rag/` unless they
start with `frontend/`. `PROJECT.json` maps every definition to the lines it
models and lists the hazards of the code with the properties that cover them.

    tlc -workers 2 -config MCIngestion_safety.cfg MCIngestion   # a run
    tlapm IngestionProofs.tla                                   # a proof

| module | what it is |
|---|---|
| `DocumentCatalog` | abstract: what ingestion promises |
| `Ingestion`, `MCIngestion`, `IngestionProofs` | uploads, background processing, deletion, crash and boot |
| `AuditLedger` | abstract: what a compliance audit promises |
| `ComplianceAudit`, `MCComplianceAudit`, `ComplianceAuditProofs` | audit jobs with their agent graph, checkpoints and resumption |
| `AccessControl` | abstract: who may read and share a document |
| `DocumentAccess`, `MCDocumentAccess`, `DocumentAccessProofs` | upload, grant, revoke, delete with their audit entries; the demo seed |
| `AnswerTrail` | abstract: what the chat promises its auditors |
| `ChatTurn`, `MCChatTurn`, `ChatTurnProofs` | a chat turn: service, SSE route, client |
| `DeepGraph`, `MCDeepGraph`, `DeepGraphProofs` | the deep-search graph and its repair loops |
| `Boot`, `MCBoot` | settings, migrations, lifespan, shutdown and crash of two processes |
| `Indexing`, `MCIndexing`, `IndexingProofs` | one file from its bytes to embedded chunks |
| `Retrieval`, `MCRetrieval`, `RetrievalProofs` | the hybrid search, its statistics and the reranker, on a corpus that changes |
| `Authentication` | tokens against a cached key set, API keys |
| `Readiness` | the readiness probe and its cache |
| `Delegation` | one call of a language model: prompt, masking, streamed reply |
| `Conversations`, `ConversationExport` | the messages table, the dashboard's list of unanswered questions, the export |
| `MCServing`, `ServingProofs` | instance of, and theorems about, the last five; the latter also about `Boot` |

## 1. The system

One Python process (an asyncio event loop), one PostgreSQL database, a language
model, an embedding model and an optional reranker behind HTTP. State that
outlives a request is in the database; what the process adds is background
tasks, semaphores and caches. Concurrency is between coroutines, at their
awaits, and between database transactions (READ COMMITTED).

| component | state it keeps | operations | talks to |
|---|---|---|---|
| Ingestion service (`ingestion/service.py`) | `documents` rows and their status, one task per accepted upload, an embedding semaphore, the lexeme debounce | `ingest_upload`, `_process`, `refresh_lexeme_stats`, `seed_demo` | vector store, embedder, database |
| Vector store (`store/pgvector.py`) | `chunks` rows | `add_chunks`, `delete_document`, `hybrid_search` | database |
| Document routes (`routes/documents.py`) | `document_permissions` | upload, list, delete, grant, revoke | ingestion, store, audit log |
| Compliance audits (`audits.py`, `agents/compliance.py`) | `audits` rows: status, requirements, findings; one task per run | `launch`, `resume`, `shutdown`, `_run` with cartographer, assessor, reporter | model, store, audit log |
| Audit log (`audit.py`) | append-only `audit_log` | `record` | database |
| Chat service and route (`chat/service.py`, `routes/chat.py`) | `conversations`, `messages`; one generator per open stream | `stream_reply`, `_run_deep`, `post_chat`, `_sse_body` | store, model, deep graph |
| Deep graph (`agents/graph.py`, `agents/state.py`) | evidence, draft, claims, three repair budgets, per run | plan, search, write, verify, repairs, deliver, abstain | store, reranker, model |
| Authentication (`auth.py`, `auth_oidc.py`) | a cached key set and when it was fetched | per request | identity provider |
| Boot (`main.py`, `db.py`, `config.py`) | `schema_migrations`, `embedding_config`, an advisory lock, the pool | validate, migrate, guard, sweep, resume, seed; shutdown | all of the above |
| Health (`routes/health.py`) | a ten-second verdict cache | `readyz` | database, model, embedder |
| Extraction, chunking, embedding (`ingestion/extract.py`, `ingestion/chunking.py`, `embeddings/`) | none beyond a call | inside `_process` | embedding model |
| Search (`store/pgvector.py`, `reranking/`) | `lexeme_df`, a snapshot of term frequencies | `hybrid_search`, `refresh_lexeme_stats` | database, reranker |
| Prompts, redaction, model clients (`chat/prompts.py`, `redaction.py`, `llm/`) | a call | `build_messages`, `stream_chat` | language model |
| Dashboard and export (`routes/admin.py`, `routes/chat.py`) | none; reads `messages` | `metrics`, `export_conversation` | database, audit log |
| Front end (`frontend/src`) | chat stream hook, OIDC session | send, stop, hydrate, refresh | the API, the identity provider |

What is hard, and what makes each part correct:

* **Ingestion.** Uploads race past the dedupe read; a failed document is taken
  over by a re-upload whose task starts before its transaction ends; a document
  is deleted under its task; the process dies anywhere. Correct: one live
  document per content, one worker per document, only complete documents are
  searchable, nothing stays in `processing`.
* **Compliance audits.** A run is stopped at any step and resumed from its row.
  Correct: the map is made once, findings follow it in order and are never lost
  or duplicated, a restart costs at most the judgement in flight, the audit log
  agrees with the row, every audit settles.
* **Chat.** The client leaves at any await or yield, also between `done` and the
  end of the response; cancellation is delivered again at every await of the
  clean-up. Correct: the row is written on every exit path, it covers what was
  shown, its error code tells how the turn ended, a later question sees it.
* **Deep graph.** Nested repair loops whose verdicts come from a model. Correct:
  it ends, within the library's node limit; what is delivered belongs together.
* **Document access, audit log.** The owner is checked on one connection and
  the change made on another; grants, revocations and deletions meet each
  other's uncommitted rows; uploads and deletions are logged in a transaction of
  their own; the seed is cut by a crash. Correct: only an owner or an
  administrator changes sharing, the log explains every permission, none outlives
  its document, nobody waits for ever.
* **Boot.** Processes boot side by side, die half way, meet a failing file, and
  an operator switches the embedding model. Correct: migrations once and in
  order, one model in the index, the pool outlives the work, a boot ends.
* **Indexing and search.** Cuts at every boundary, replies in any order, ranks,
  caps and a filter built on stale statistics. Correct: no letter lost, bounded
  chunks, every chunk with its own place and vector; hits readable by who asks,
  the lexical leg as good as its statistics, no inversion.
* **Caches** (key set, readiness): concurrent requests refresh one cache, the
  older answer over the newer. Correct: what is served is recent, and a valid
  token is not refused for it.
* **Model calls.** A reply fails in the middle of a 200; rules mask parts of each
  other's identifiers. Correct: no identifier leaves but for the last character of
  an IBAN in groups and the rest of a number whose beginning the match before it
  took; half a reply is an error.
* **Messages table.** Rows of parallel turns interleave. Correct: a question
  goes with its answer, an export that is sent is complete and in the log, which
  has nothing that was rolled back.

## 2. How the modules correspond to the code

Each module translates code, not prose. An await is a step boundary; statements
with no await between them are one step; what a transaction has written and not
committed is invisible to others, who block on its locks. Model replies, search
results, failures and disconnections are nondeterministic.

### Ingestion

`req[r]` is an upload: its `pc` is the await of `ingest_upload` it is at
(`check` after the dedupe read, `reclaim`/`reclaimed`/`purged` in the takeover
of a failed row, `insert`/`inserted` around the INSERT, `committed` before the
task exists). `job[r]` is the `_process` task it created. `status`, `content`
and `chunks` are the committed tables. `RowLocked`, `ShaLocked` and
`PurgePending` are the PostgreSQL locks of the open uploads. `UploadReclaim`
creates its task before `UploadCommitReclaim`, as the code does. `JobEmbed` to
`JobMarkReady` are chunking, embedding, `add_chunks` and the flip to `ready`,
three transactions; `JobDbFault` is a refused statement in any of them, and in
the failure handler itself (pc `stranded`). `Crash` kills the process, `Boot` is
the sweep of `_sweep_interrupted_documents`. `UploadCommitFails` refuses a
COMMIT, after which a task created by a reclaim runs on.

Left out here: what a task does with its file (`Indexing`), the demo seed
(`DocumentAccess`), the debounced refresh of the statistics (`Retrieval`). Left
out altogether: a COMMIT that succeeds without its acknowledgement.

### ComplianceAudit

`launch[a]` is the POST, `task[a]` the `_run` task with the graph state it
carries, `requirements[a]` and `findings[a]` the checkpoint columns, `trail[a]`
the audit log entries, `paid[a]` the judgements asked of the model. `Stop` is a
crash or a shutdown, at any step; `Boot` is `resume`. `Cartographer` keeps a map
it finds in the row and persists the one it makes. `RunRaises` is any failure
of a run, `MarkFailedRefused` a database that refuses the failure handler too.

### ChatTurn

`gen[t]` is the generator `stream_reply` of turn t with its locals
(`accumulated`, `sources`, `prewritten`, `error_code`). It is at an await
(`resolve`, `ask`, `search`, `graph`, `write`), suspended at a yield (`yield`
until the SSE body writes its event, `sent` until the body pulls again) or in
the finally block (`persist`). `graph[t]` is the task and queue of `_run_deep`,
`client[t]` what the client does and was shown, `row[t]` the assistant message.
A standard turn retrieves before its first event, inside the `anext` of
`post_chat`; a deep turn yields `start` first. `Disconnect` is the handler of
CancelledError and GeneratorExit, `Persist` the shielded INSERT, `EndOfStream`
the end of the drained body. `Restart` is a crash: rows stay, streams break.

A text is the number of its pieces and a list of sources is empty or not: the
properties compare what was shown with what was recorded, and pieces are only
ever appended. `provider_error` and `internal_error` are one code, `failed`.
The graph task a disconnect leaves behind is dropped: it writes nothing. Pings
and frame syntax are left out. The mode of a turn and whether it opens its
conversation are constants (`Deep`, `Openers`). A conversation is assumed to fit
in `HISTORY_LIMIT`, so that its history is all of it.

### DocumentAccess

`owner` and `removed` are the `documents` table, `shared` is
`document_permissions`, `trail` is `audit_log`, an entry being the request that
wrote it. `req[r]` is a request with what it is about, and its `pc` the statement
it is at: `write`, `key` or `purge` once `RequireOwnerOrAdmin` has passed,
`inserted`, `kept`, `erased` or `missed` while its grant or revocation has executed
and not committed. What an open transaction did shows in `shared` and `removed`
at its commit only.

The row locks of PostgreSQL are modelled one by one. `Holds` is what a transaction
has locked, `Wants` what its next statement or trigger has to lock, `WaitsFor` whose
locks conflict; a request steps when it waits for nobody. The order is that of
the statements: a grant enters its key (`Grant`) and then its foreign key locks
the document (`CheckDocument`), which refuses it if the document is gone; a
revocation locks its permission (`Revoke`); the store's DELETE locks the document
(`LockDocument`), and its cascade one permission after the other, in any order
(`DeleteRow`), until `CommitPurge`. So a deletion waits for revocations with its
document locked, and a grant for a deletion with its key entered. A second
grant waits for both, a second revocation for an open revocation or a
cascade only: it does not see an open grant. `WriteEntry` is the second
transaction of an upload or a deletion. `Boot` seeds
when no document exists; `SeedIngest` and `SeedGrant` are the two transactions
of `seed_demo` for one file.

An upload is registered in one step, or finds its bytes there and is shown the
document if it may see it; `Ingestion` has the steps in between, and leaves
visibility to this module. That no user id equals the seed's owner, `system`,
is an assumption on the configured keys. Listings and searches read and
change nothing.

### DeepGraph

One action per node, with the conditional edge of `_after_verify` taken in the
step of the node it leaves. A verdict is any set of the four verdict classes, a
search finds any sequence of passages, merged and cut as the code does it, with
or without a reranker. A draft is known by the evidence it was written from.
`ChatTurn` uses the graph through its outcome only: delivered, abstained, raised.

### Boot

`pc[p]` is where process p is in its lifespan, `cfg[p]` its settings. `Start`
is the process with the validation of its settings, `Lock` to `Unlock` are
`apply_migrations` on its own connection: the advisory lock, the read of what is
applied, each file with its row in one transaction. `OpenPool` to `Seed` follow
the lifespan; a failure in any closes the pool (`Abort`), and a crash ends the
session, with which the server frees the lock. `Upgrade` is the operator with
`migrations/optional/upgrade_bge_m3_1024.sql`, whoever serves meanwhile. The
work of a process is one ingestion and one audit, known by what they need of the
pool; their steps are in `Ingestion` and `ComplianceAudit`.

What the module shows besides its properties: of two first boots with an empty
`embedding_config` one can fail on the row of the other (cause `race`) and has to
be started again; the sweep and the resumption of a second process touch the
live work of the first (the compose file starts one process); between the
upgrade's SQL and the change of the environment a restart registers the old
model again, whose vectors the column then refuses.

### Indexing

`ReadHeading`, `ReadText`, `EndOfFile` are the extractors, item by item;
`NextFragment`, `NextParagraph`, `NextSentence` walk the text as
`split_fragments` does, and `Pack` is the packing with its overlap. A text is the
lengths of its paragraphs and sentences; a unit remembers the letters it took,
so that losing or repeating one shows. The overlap is cut at a word, so its
length is any up to `Overlap`; a chunk no longer than `Overlap` is repeated
whole. `EmbedBatch` pairs a batch with the reply, which Azure may order at will.
A heading that skips a level nests its later siblings under each other
(`extract.py:86`): `ChunkNamesItsPlace` has `WellNested` as its premise.

### Retrieval

A chunk is the terms it has, a configuration of the text search maps a term to
its lexeme or drops it. `HybridSearch` is the one statement of `hybrid_search`:
both legs with the same access predicate, the strict and the relaxed lexical
pass, the fusion, the cap per document and the cut, with reranking or without.
How near and how dense a match is, and how ties fall, is arbitrary. The corpus
changes until that statement runs, `Refresh` is the debounced recomputation of
the statistics. `Init` is any corpus, with fresh statistics or those of an empty
table. The HNSW index is taken to be exact; the limit of 64 words of a query that
are looked at (`pgvector.py:130-132`) is left out.

### Authentication, Readiness, Delegation

`call[r]` is a request at one of the awaits of `OidcAuth`; `published` is the
provider's key set, `jwks` the cached copy. `ProviderAnswers` and `FetchDone` are
apart, so an older answer can be stored over a newer one. A token is its key and
whether the rest of it is good. A fetch that fails refuses the token although a
stale set is cached.

`probe[p]` is a `readyz` request with the checks it has made; the stamp of its
verdict is its beginning.

`exchange` is a model call: the messages as they leave, the server, the pieces
read. A text is the identifiers in it, in runs: a run is printed without a word
between, so that a match may go on from one identifier into the next. An
identifier has a kind, the rule and the notation it is written in; how much of it
a match from before takes, if one does (`taken`: the regular expressions decide it
by the digits, the model leaves it open); and a state, plain, masked, masked but
for its last character (`tail`), or torn. `Own` is what a rule is for, `Goes` and
`Takes` whose match goes on and into what, `Finds` what it finds inside another
kind; `Reaches` puts them together. A rule can only find what is still plain. The
kind `iban1` is the IBAN in groups with one character left over, which
`test_redaction.py:34` expects to leave. Two things are assumed: identifiers are
written as their rules expect, and the analyser of names, which is external,
reports the names. The end of a body that was cut short is an
error of the HTTP library (its framing tells). The embedder's
input is not masked, as only the model client is wrapped.

### Conversations, ConversationExport

`messages` is the table in the order of `created_at`; `turn[q]` inserts its
question, later its answer, or loses it. `Unanswered` is the dashboard's query:
clean answers of the window without sources, joined with the last question of
their conversation before them, grouped, ordered, cut. `export[e]` is an
`export_conversation` request between its statements: the conversation, the
messages, the entry with the commit (`CommitExport`, the end of the `async with`),
and the answer behind it (`SendExport`), which a crash, a departed client or an
error while the document is built can prevent (`ExportIsLost`): the log then
holds an export nobody received. `ChatTurn` has the turn in full.

## 3. Runs

| run | instance | shows |
|---|---|---|
| `ingestion_safety` | 3 ids, 2 contents (one of them blank), 3 uploads, 1 crash, 2 refused statements | the safety properties and the refinement of `DocumentCatalog` |
| `ingestion_live` | 3 ids, 1 content, 3 uploads, 1 crash, 1 refused COMMIT | `ProcessingResolves`, `UploadsAnswered` |
| `ingestion_raced` (violation) | 2 uploads of the same bytes | finding 1 |
| `audit_all` | 2 audits of one owner, maps of up to 2 requirements, 1 stop, 1 refused handler | checkpoints, resumption, trail, settlement, refinement of `AuditLedger` |
| `chat_all` | a deep search and a follow-up in its conversation, up to 2 pieces, 1 refused statement or crash | recording, codes, history, liveness, refinement of `AnswerTrail` |
| `access_all` | 2 documents, 2 demo files, a user and an administrator, 3 requests, 2 crashes or refused statements | accounted sharing, no orphan permission, no cycle of waits, refinement of `AccessControl` |
| `deep_all` | 3 passages of which 2 are kept, the budgets 2/2/1 and the limit 25 of the code | termination, node limit, consistency of what is delivered |
| `boot` | 2 processes, 6 environments over 3 embedding models, 2 migration files, 3 starts, 1 fault | migrations in order, one model per index, the pool, every boot ends |
| `indexing` | files of every type with up to 4 items, chunks of 6 letters overlapping by 2, batches of 2 | bounded chunks, nothing lost, place and vector of each chunk |
| `retrieval` | 4 chunks in 2 documents, 2 users, 4 questions over 2 languages, 1 change of the corpus | access, recall of the lexical leg, no inversion |
| `retrieval_stale` (violation) | the same | finding 2 |
| `serving` | 2 requests, 2 keys, life 1, clock 4; 2 probes; 2 passages, 2 pieces; 3 turns in 2 conversations, 1 export | key set, readiness, masking, replies, unanswered questions, exports |

`MCServing` explores one of its parts per behaviour, as they share no state: a
product would multiply their states and add no interleaving that matters.

Why the bounds are enough. Ingestion hazards need two requests on one content
and, for the takeover of a failed document, a third that failed first; one
embedding slot makes tasks queue; a second content shows that dedupe separates
them and that a document without chunks can be ready. One crash separates
states before it from states after it, and a second one starts from states the
first one already reaches. Two requirements make a run with something done and something left.
In a turn, two pieces distinguish first from later deltas, and two turns are
what a history needs; a third reads rows in the same way. Three requests let a
grant, a revocation and a deletion meet on one document, which is the longest chain
of waits (the grant for the deletion, the deletion for the revocation), and two demo files on two ids
exercise a file with the bytes of another. Three passages with
two kept make the cut of the evidence matter. Two processes race for the lock,
the guard's row and the sweep; three starts let one come back after the other
changed the model. Chunks of six letters make paragraphs that fit, fill, are cut at
sentences and inside one. In `retrieval` one document exceeds the cap and both
passes of the lexical leg, a stopword of one language and a listed one occur.
In `serving`, runs of up to four identifiers have each rule start a match, reach
through a whole identifier and end inside one.
In `serving`, a list of one entry and a window of one day make the limit and the
window bite, and the clock outlives the cache by more than a fetch. Every bound is a
constant, and the theorems hold for all their values.

Deadlock is not checked: every system here may stop, when all requests are
answered or all runs are over. `ingestion_safety` uses symmetry of requests,
`access_all` of requests and documents, `serving` of requests and probes; they check
no liveness.

Every property of a passing run has a mutant, a plausible bug in one definition
that makes TLC find the property violated (`PROJECT.json`, "mutants"; the mutated
forms are the definitions commented `Mutant:`).

### Fairness

Weak fairness of the steps of coroutines that have started: the event loop runs
what is runnable and the database, the models and the searches answer (the code
waits for them without limit of its own, so without this nothing is promised).
`Boot` is fair: Docker restarts the process. Never fair: what users do (upload, delete,
launch, ask, leave) and every fault. In `ChatTurn` a client that is gone is
noticed eventually, because Starlette cancels the response and the interpreter
closes generators that nobody holds. In `Boot` the steps of a boot are fair (no await
of the lifespan waits for a user) and nothing else is: `BootSettles` needs
the lock to be given back by processes that fail, which no fairness provides.

### Findings

Two runs are counterexamples to what the repository says of itself:

1. `RacedUploadsDedupe` (`ingestion_raced`): the loser of two identical uploads
   re-reads in an aborted transaction and answers 500, not the dedupe hit that
   `ingestion/service.py:178-180` and ARCHITECTURE 3.10 promise.
2. `LegNeverSilenced` (`retrieval_stale`): statistics taken when a word was common
   drop it after the corpus has changed, and a query of that word alone finds
   nothing in the lexical leg; `migrations/0002_lexeme_df.sql:10-12` says degraded
   statistics never silence it.

Further configurations that TLC refutes, kept beside the runs:

* `MCIngestion_guard.cfg`, `OneWorkerPerDocument` with a COMMIT that fails: a
  re-upload leaves its task running, and the next one starts a second
  (`ingestion/service.py:149-150`).
* `MCIngestion_stranded.cfg`, `ProcessingResolves` with a second refused
  statement: the failure handler's own UPDATE can fail; the document stays in
  `processing` until a restart (`ingestion/service.py:195`).
* `MCComplianceAudit_race.cfg`, `OneActivePerOwner`: two concurrent launches both
  pass the check (`audits.py:7-8`).
* `MCDeepGraph_repair.cfg`, `SearchReachesWriter`: without a reranker and with
  full evidence, a repair search adds nothing the writer sees
  (`agents/state.py:10`).
* `MCDocumentAccess_seed.cfg`, `DemoIsShared`: a process that dies between
  ingesting a demo file and granting it never seeds again, and leaves the document
  unshared and the other files out (`ingestion/service.py:273-274`, `289-290`;
  `main.py:259`).
* `MCServing_tabs.cfg`, `UnansweredIsByRequest` without `OneTab`: two tabs on one
  conversation interleave their rows, and the join "back to the user question that
  produced it" (`routes/admin.py:73-74`) takes the other tab's question.

`audit.py:5-8` says that an entry is written inside the transaction of its
action. `DocumentAccess` shows where that is so (grants, revocations:
`SharingIsAccounted` and the refinement depend on it) and where it is not: the
entries of uploads and deletions are `WriteEntry`, a step of its own that a
crash or a refused statement can cut off, and two racing deletions of
one document both write one. The order of entries is not modelled, because the
code does not keep it: a revocation that meets an open grant removes nothing,
may be logged last, and the permission stands. No document says otherwise.

In the chat turn none was found. Two limits are worth knowing. A row the
database refuses is lost after `done` was shown; `EveryTurnRecorded` excludes
it and a crash by name. And the row is written after `done`, so a
question asked between the two (the chat view allows it) may not find the answer
in its history; `NextTurnSeesAnswer` is about questions asked after the stream
has ended.

## 4. Proofs

For every value of the constants, from the assumptions the modules state:

| module | properties |
|---|---|
| `IngestionProofs` | `TypeOK` (failing COMMITs included); `UniqueContent`, `OneWorkerPerDocument`, `ProcessingHasWorker`, `RerunStartsClean`, `ReadyIsComplete`, `CatalogSpec` |
| `ComplianceAuditProofs` | `TypeOK`, `ActiveHasTask`, `RestartCostsRemainder`, `TrailTellsStatus`, `LedgerSpec` |
| `ChatTurnProofs` | `TypeOK`, `RecordCoversShown`, `CodeTellsEnd`, `NextTurnSeesAnswer`, `TrailSpec` |
| `DocumentAccessProofs` | `TypeOK`, `GoneIsUnshared`, `SharingIsAccounted`, `NoWaitCycle`, `AccessSpec` |
| `DeepGraphProofs` | `TypeOK`, `WithinRecursionLimit`, `DeliveredTogether`, `FlagsShipOnlyExhausted` |
| `IndexingProofs` | `TypeOK`, `ChunkBounded`, `NothingLost`, `ChunkNamesItsPlace`, `VectorOfOwnText` |
| `RetrievalProofs` | `HitsAllowed`, `RecallNet`, `NoInversion` |
| `ServingProofs` | of `Boot`: `TypeOK`, `MigrationsInOrder`, `IndexOfOneModel`, `PoolDiscipline`, one process at a time in the migrations; `CallTypeOK`, `IdentifiersStayIn`, `FinishedIsWhole`, `ReadinessIsRecent`, `PublishedIsAccepted`, `AcceptedWasPublished`, `ExportTellsAll`; `UnansweredIsByRequest` under `OneTab` |

So every invariant the passing runs check is proved, and every refinement. The
type invariants, `UniqueContent`, `RerunStartsClean`, `ActiveHasTask` and
`FlagsShipOnlyExhausted` are proved and in no run.

Apart from `TypeCorrect`, the ingestion theorems assume `MaxCommitFaults = 0`:
`MCIngestion_guard.cfg` shows that they are false otherwise. The others hold with any number of crashes, stops, refused
statements, requests, documents, turns and pieces. `GraphTypeCorrect` and its
companions assume that the recursion limit is at least `LongestRun`, which the
code's budgets and LangGraph's default satisfy (24 and 25).

The argument is an inductive invariant per module, stated at the end of the
module it is about or before its proof.

* `IngestionInv`. The properties say nothing of uncommitted work, and that is
  where they would break: `ReclaimInv` (an uncommitted takeover holds a failed
  row, alone, and its task already runs), `DigestInv` (an uncommitted row is the
  only claim on its digest), `ChunksInv` (before its INSERT a task's document has only
  chunks that are being purged), `WorkerInv` and `ProgressInv`.
* `AuditInv`, audit by audit. `TaskOK` is its heart: the graph state of a
  running task is the state of its row. A step of one audit leaves the
  others alone (lemma `Untouched`).
* `TurnInv`, turn by turn. `ShownOK` relates accumulated text, sources and what
  the client has, with one piece owed while a delta is suspended at its yield;
  `EndOK` relates the code to the event that ended the turn; `RowOK`
  carries both over to the row; `SettledOK` relates a turn to the
  earlier turns its client had read to the end.
* `AccessInv`, the best example of why more is needed than the properties say:
  `RecOK` records what an open transaction may rely on until it commits. A grant
  that inserted has a live document (the deletion waits for it); one that found
  its row in place finds it at its commit, or a revocation in the log, or its
  document gone; a cascade has its document locked, and what it has passed is
  deleted by it or gone. `Apart` says that no two delete one
  permission, and that nobody else adds one or deletes the document while a cascade runs.
  `Seeds` says that the seed runs alone and owns every live document.
  `NoWaitCycle` follows by ranks: a write or a purge waits holding nothing, so
  nobody waits for it; the foreign key of a grant waits for a cascade only, a cascade for
  an open revocation only, and that one for nobody.
* `CallInv`: the pieces read are those generated, and a server that crashed has failed the
  call. Masking is lemma `RulesMask`: rule by rule, in their order, over any plain
  run, of any length. What each rule leaves plain is not in the reach of one before
  it (`ReachedIsBehind`), so that its own rule finds it whole.
* `CallInv`: the pieces read are those generated, and a server that crashed has failed the
  call. Masking is lemma `RulesMask`: rule by rule, in their order, over any plain text.
* `ReadyInv`: a verdict's checks are not older than its stamp, also in the cache;
  with the stamp at the beginning, a late store cannot make them look younger.
* `AuthInv`: a key set on its way holds only keys that were published after its fetch
  began, and the key of a token whose key was published all along; the cached set
  is at most a fetch's latency older than its stamp.
* `TableInv`: the open turn of a conversation has its last question, so that the
  answer is appended behind it; `ExportInv`: an ended turn has both its rows, the
  rows an export read stay in the table, and who has committed has an entry.
* `BootInv`. `LockInv` says that whoever is inside `apply_migrations` holds the advisory
  lock, so that one is; under it, `RunInv` knows that what a process read as applied
  is what is applied, and that who has passed the migrations passed all of them. `FilesInv`
  is the order of the files. `ModelInv` is the guard of the model: before the
  upgrade, whoever has passed the guard has the model on record and every vector
  is of that model; after it, the width of the column keeps the others out.
* `PackInv` (`Indexing`): the chunk being packed never exceeds `Size + Overlap + 1`, as every
  unit has at most `Size` characters.
* `LossInv` (`Indexing`) is the conservation of letters while a text is taken apart. Of the fragment
  being split, the letters that units took and those still in the current sentence,
  the paragraph and the paragraphs behind it add up to its length (`LettersLeft`);
  the units of all chunks and of the one being packed, read as one sequence of
  slots, take each letter before that point once (`UnitsTaken`, `AllTaken`), in the
  order of the text within a run of fragments of one section (`UnitsInOrder`,
  `CurrentRun`). `NothingLost` is what is left when nothing is left to split.
* `PlaceInv` (`Indexing`): the stack of headings is the path at the item being read. It is pushed and
  popped, the path is computed from the whole file; lemma `PathOfHeading` relates the two,
  under `WellNested`. A fragment and then a chunk inherit it.
* `EmbedInv` (`Indexing`): the chunks stored so far are the first drafts, each with its own
  vector. The work is in lemma `ReplySorted`: whatever order the answers of a batch come
  in, sorting them by index restores the batch, and a reply with one missing is
  refused.
* `SearchInv` (`Retrieval`): the ranking respects every pair of chunks that both legs order alike, and the
  hits are its best. That the fused score does is arithmetic on the fold over the
  reciprocals (a worse rank, a smaller share). `HitsAllowed` and `RecallNet`
  need no invariant: the legs are computed from readable chunks, and the fusion,
  the cap and the cut take subsets.
* `GraphInv`. `StepsInv` bounds the nodes run by what the spent budgets can
  account for; `BudgetInv` and `DraftInv` say what each node may rely on.

The refinements (`CatalogSpec`, `LedgerSpec`, `TrailSpec`, `AccessSpec`) are proved by showing
that each action is a step of the abstract specification or changes nothing it
sees.

Where a proof needs induction over the naturals (the folds that add up letters and
scores, sorted replies, nested headings), it takes the least element of the set of
counterexamples, which `NatLessThanWellFounded` provides: the induction theorems of
the library take an operator as a parameter, which the provers cannot
instantiate.

Model-checked only: liveness (`ProcessingResolves`, `UploadsAnswered`,
`AuditsSettle`, `EveryTurnRecorded`, `Concludes`, `BootSettles`), which the prover
does not support under fairness. The findings are counterexamples of TLC.

## 5. Not modelled

* **Front end** (`frontend/src`): a view whose state is rebuilt from the server on
  every navigation; the server's half of a stream is `ChatTurn`. Whether two
  concurrent refreshes of a session conflict (`lib/oidc.ts:161`) is the identity
  provider's policy for rotated tokens, which the repository does not fix.
* **Benchmarks and scripts** (`src/bench`, `scripts`): not part of the running
  system; they measure a deployment and keep no state.
* **Formats**: what pypdf, python-docx and the Markdown patterns read from bytes,
  the patterns of the redactor character by character (what they take of which
  identifier is modelled), SSE framing, prompts'
  wording. The modules start from their results.
* **Construction of clients** beyond the settings it needs (`Boot`), the local
  models' inference, the health checks' requests.
* **Aggregate queries** of the dashboard but the list of unanswered questions, and
  the listings: single statements that read.
* **Lost acknowledgements**: a COMMIT that succeeds and is reported as failed. After
  it, the failure handler of an audit would overwrite `completed` with
  `failed` behind the entry that says complete (`audits.py:183`).
* **The entry of an upload or a deletion** (`routes/documents.py:101`, `208`) is written
  after the change, in a transaction of its own; `DocumentAccess` has both steps, and
  no property says that the entry is there, because it need not be.
