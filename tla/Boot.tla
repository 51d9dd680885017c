-------------------------------- MODULE Boot --------------------------------
(***************************************************************************)
(* Processes of the service booting, serving and stopping on one database: *)
(* the validation of the settings (config.py), the migration runner and    *)
(* the pool (db.py), and the lifespan with its embedding guard, sweep,     *)
(* adapters, resumed audits and seed (main.py).                            *)
(*                                                                         *)
(* A migration file is its rank in the lexicographic order.  What a file   *)
(* does is one entry of "schema", the rows of schema_migrations are        *)
(* "recorded".  The index is the set of models its vectors come from; a    *)
(* vector enters it only if it has the dimension of the column.  The work  *)
(* of a process is one ingestion and one audit at most, by what they hold  *)
(* of the pool; their steps are in Ingestion and ComplianceAudit.          *)
(***************************************************************************)
EXTENDS Naturals, FiniteSets, Sequences

CONSTANTS
  Procs,        \* processes of the service
  NoProc,
  Models,       \* embedding models
  NoModel,      \* the embedding_config table without its row
  Dim,          \* dimensions of each model's vectors
  BaseDim,      \* of chunks.embedding in 0001_schema.sql
  UpgradeDim,   \* of chunks.embedding after the optional upgrade
  NFiles,       \* migration files
  Settings,     \* the environments a process may be started in
  MaxBoots,     \* bound: processes started
  MaxFaults     \* bound: crashes, failing files, refused statements, providers down

ASSUME ConstantsAssumption ==
  /\ NoProc \notin Procs /\ NoModel \notin Models
  /\ Dim \in [Models -> Nat]
  /\ BaseDim # UpgradeDim
  /\ NFiles \in Nat \ {0}
  /\ Settings # {}
  /\ \A s \in Settings : s.model \in Models /\ s.embed \in {"local", "azure_openai"}
  /\ MaxBoots \in Nat /\ MaxFaults \in Nat

\* The upgrade ships for one model: no other has its dimension.
ASSUME UpgradeAssumption ==
  \A m, n \in Models : Dim[m] = UpgradeDim /\ Dim[n] = UpgradeDim => m = n

VARIABLES
  lock,         \* who holds the advisory lock, or NoProc
  schema,       \* the migration files that took effect, in that order
  recorded,     \* rows of schema_migrations
  config,       \* embedding_config.model
  upgraded,     \* the optional upgrade has been applied
  vectors,      \* models whose vectors are in chunks
  document,     \* status of a document of the corpus, "none" before it exists
  audit,        \* status of an audit, "none" before it exists
  pc,           \* where each process is in its life
  cfg,          \* its settings
  seen,         \* the files it read as applied
  pool,         \* its connection pool
  tasks,        \* its background tasks
  cause,        \* why its last boot failed
  boots, faults

tables == <<schema, recorded, config, upgraded, vectors, document, audit>>
bounds == <<boots, faults>>
vars == <<lock, schema, recorded, config, upgraded, vectors, document, audit,
          pc, cfg, seen, pool, tasks, cause, boots, faults>>

Migrating == {"read", "apply", "unlock"}
Booting == {"lock"} \cup Migrating \cup
           {"open", "guard", "insert", "sweep", "build", "warmup", "resume", "seed"}

\* Settings.check_provider_requirements; "has" names the variables that are set and the
\* optional dependencies that are installed.
Valid(s) ==
  /\ s.llm = "azure_openai" => {"azure_endpoint", "chat_deployment"} \subseteq s.has
  /\ s.llm = "openai_compatible" => {"compat_url", "compat_model"} \subseteq s.has
  /\ s.embed = "azure_openai" => {"azure_endpoint", "embed_deployment"} \subseteq s.has
  /\ "local" \in {s.embed, s.rerank} => "local_extra" \in s.has
  /\ s.rerank # "none" => s.topK <= s.pooled /\ s.pooled <= s.candidates
  /\ s.concurrency >= 1 /\ s.weight \in 0..2 /\ s.cap >= 0
  /\ s.ef >= s.candidates /\ s.ef >= s.topK
  /\ s.keys # {} \/ s.env # "prod"

\* What the constructors of the adapters check again before they build a client.
Constructible(s) ==
  /\ CASE s.llm = "azure_openai" -> {"azure_endpoint", "chat_deployment"} \subseteq s.has
       [] s.llm = "openai_compatible" -> {"compat_url", "compat_model"} \subseteq s.has
       [] OTHER -> TRUE
  /\ CASE s.embed = "azure_openai" -> {"azure_endpoint", "embed_deployment"} \subseteq s.has
       [] OTHER -> "local_extra" \in s.has

\* Without an API key an Azure client takes its token from the azure extra.
TokenSource(s) ==
  "azure_openai" \in {s.llm, s.embed} => s.has \cap {"azure_key", "azure_extra"} # {}

ColumnDim == IF upgraded THEN UpgradeDim ELSE BaseDim

Init ==
  /\ lock = NoProc
  /\ schema = <<>> /\ recorded = {} /\ config = NoModel
  /\ upgraded = FALSE /\ vectors = {} /\ document = "none" /\ audit = "none"
  /\ pc = [p \in Procs |-> "down"]
  /\ cfg = [p \in Procs |-> CHOOSE s \in Settings : TRUE]
  /\ seen = [p \in Procs |-> {}]
  /\ pool = [p \in Procs |-> "none"]
  /\ tasks = [p \in Procs |-> {}]
  /\ cause = [p \in Procs |-> "none"]
  /\ boots = 0 /\ faults = 0

Proceed(p, label) == pc' = [pc EXCEPT ![p] = label]

\* The exception leaves the lifespan, which closes the pool it created.
Abort(p, why) ==
  /\ Proceed(p, "failed")
  /\ pool' = [pool EXCEPT ![p] = "closed"]
  /\ cause' = [cause EXCEPT ![p] = why]

\* The session of a process ends with it, and the server frees its advisory lock.
SessionEnds(p) == lock' = IF lock = p THEN NoProc ELSE lock

-----------------------------------------------------------------------------
(* Migrations. *)

Start(p) ==
  /\ pc[p] \in {"down", "failed"} /\ boots < MaxBoots
  /\ boots' = boots + 1
  /\ seen' = [seen EXCEPT ![p] = {}]
  /\ tasks' = [tasks EXCEPT ![p] = {}]
  /\ \E s \in Settings :
       /\ cfg' = [cfg EXCEPT ![p] = s]
       /\ Proceed(p, IF Valid(s) THEN "lock" ELSE "failed")
       /\ pool' = [pool EXCEPT ![p] = IF Valid(s) THEN "built" ELSE "none"]
       /\ cause' = [cause EXCEPT ![p] = IF Valid(s) THEN "none" ELSE "settings"]
  /\ UNCHANGED <<lock, tables, faults>>

\* Mutant: the runner does not take the advisory lock.
LockNot(p) ==
  /\ pc[p] = "lock"
  /\ lock' = p
  /\ Proceed(p, "read")
  /\ UNCHANGED <<tables, cfg, seen, pool, tasks, cause, bounds>>

Lock(p) ==
  /\ pc[p] = "lock" /\ lock = NoProc
  /\ lock' = p
  /\ Proceed(p, "read")
  /\ UNCHANGED <<tables, cfg, seen, pool, tasks, cause, bounds>>

ReadApplied(p) ==
  /\ pc[p] = "read"
  /\ seen' = [seen EXCEPT ![p] = recorded]
  /\ Proceed(p, "apply")
  /\ UNCHANGED <<lock, tables, cfg, pool, tasks, cause, bounds>>

Pending(p) == (1..NFiles) \ seen[p]
NextFile(p) == CHOOSE f \in Pending(p) : \A g \in Pending(p) : f <= g

\* The file and its row in one transaction; a file that was applied meanwhile is refused.
ApplyFile(p) ==
  /\ pc[p] = "apply" /\ Pending(p) # {}
  /\ LET f == NextFile(p) IN
     IF f \in recorded
     THEN /\ cause' = [cause EXCEPT ![p] = "conflict"]
          /\ Proceed(p, "unlock")
          /\ UNCHANGED <<schema, recorded, seen>>
     ELSE /\ schema' = Append(schema, f)
          /\ recorded' = recorded \cup {f}
          /\ seen' = [seen EXCEPT ![p] = @ \cup {f}]
          /\ UNCHANGED <<pc, cause>>
  /\ UNCHANGED <<lock, config, upgraded, vectors, document, audit, cfg, pool, tasks, bounds>>

FileBreaks(p) ==
  /\ pc[p] = "apply" /\ Pending(p) # {} /\ faults < MaxFaults
  /\ faults' = faults + 1
  /\ cause' = [cause EXCEPT ![p] = "file"]
  /\ Proceed(p, "unlock")
  /\ UNCHANGED <<lock, tables, cfg, seen, pool, tasks, boots>>

AppliedAll(p) ==
  /\ pc[p] = "apply" /\ Pending(p) = {}
  /\ Proceed(p, "unlock")
  /\ UNCHANGED <<lock, tables, cfg, seen, pool, tasks, cause, bounds>>

\* Mutant: a run that failed leaves with the lock.
UnlockOnSuccess(p) ==
  /\ pc[p] = "unlock"
  /\ IF cause[p] = "none"
     THEN lock' = NoProc /\ Proceed(p, "open") /\ UNCHANGED <<pool, cause>>
     ELSE Abort(p, cause[p]) /\ UNCHANGED lock
  /\ UNCHANGED <<tables, cfg, seen, tasks, bounds>>

Unlock(p) ==
  /\ pc[p] = "unlock"
  /\ SessionEnds(p)
  /\ IF cause[p] = "none"
     THEN Proceed(p, "open") /\ UNCHANGED <<pool, cause>>
     ELSE Abort(p, cause[p])
  /\ UNCHANGED <<tables, cfg, seen, tasks, bounds>>

-----------------------------------------------------------------------------
(* The rest of the lifespan. *)

OpenPool(p) ==
  /\ pc[p] = "open"
  /\ pool' = [pool EXCEPT ![p] = "open"]
  /\ Proceed(p, "guard")
  /\ UNCHANGED <<lock, tables, cfg, seen, tasks, cause, bounds>>

\* Mutant: the guard accepts whatever model the index was built with.
GuardAny(p) ==
  /\ pc[p] = "guard"
  /\ Proceed(p, IF config = NoModel THEN "insert" ELSE "sweep")
  /\ UNCHANGED <<lock, tables, cfg, seen, pool, tasks, cause, bounds>>

Guard(p) ==
  /\ pc[p] = "guard"
  /\ IF config \in {NoModel, cfg[p].model}
     THEN /\ Proceed(p, IF config = NoModel THEN "insert" ELSE "sweep")
          /\ UNCHANGED <<pool, cause>>
     ELSE Abort(p, "mismatch")
  /\ UNCHANGED <<lock, tables, cfg, seen, tasks, bounds>>

\* Another boot may have inserted the one row since this one saw none.
GuardInsert(p) ==
  /\ pc[p] = "insert"
  /\ IF config = NoModel
     THEN config' = cfg[p].model /\ Proceed(p, "sweep") /\ UNCHANGED <<pool, cause>>
     ELSE Abort(p, "race") /\ UNCHANGED config
  /\ UNCHANGED <<lock, schema, recorded, upgraded, vectors, document, audit, cfg, seen, tasks,
                 bounds>>

Sweep(p) ==
  /\ pc[p] = "sweep"
  /\ document' = IF document = "processing" THEN "failed" ELSE document
  /\ Proceed(p, "build")
  /\ UNCHANGED <<lock, schema, recorded, config, upgraded, vectors, audit, cfg, seen, pool,
                 tasks, cause, bounds>>

Build(p) ==
  /\ pc[p] = "build"
  /\ CASE ~Constructible(cfg[p]) -> Abort(p, "config")
       [] Constructible(cfg[p]) /\ ~TokenSource(cfg[p]) -> Abort(p, "extra")
       [] OTHER -> Proceed(p, "warmup") /\ UNCHANGED <<pool, cause>>
  /\ UNCHANGED <<lock, tables, cfg, seen, tasks, bounds>>

Warmup(p) ==
  /\ pc[p] = "warmup"
  /\ Proceed(p, "resume")
  /\ UNCHANGED <<lock, tables, cfg, seen, pool, tasks, cause, bounds>>

ResumeAudits(p) ==
  /\ pc[p] = "resume"
  /\ tasks' = [tasks EXCEPT ![p] = IF audit = "running" THEN @ \cup {"audit"} ELSE @]
  /\ Proceed(p, "seed")
  /\ UNCHANGED <<lock, tables, cfg, seen, pool, cause, bounds>>

\* The vectors of a process fit the column of its database or are refused.
Indexes(p) == Dim[cfg[p].model] = ColumnDim

\* The demo corpus into an empty table, waited for; then the lexeme statistics.
Seed(p) ==
  /\ pc[p] = "seed"
  /\ IF cfg[p].seed /\ document = "none"
     THEN /\ document' = IF Indexes(p) THEN "ready" ELSE "failed"
          /\ vectors' = IF Indexes(p) THEN vectors \cup {cfg[p].model} ELSE vectors
     ELSE UNCHANGED <<document, vectors>>
  /\ Proceed(p, "serving")
  /\ UNCHANGED <<lock, schema, recorded, config, upgraded, audit, cfg, seen, pool, tasks, cause,
                 bounds>>

\* A statement is refused, or a provider does not answer, before the boot is over.
BootFault(p) ==
  /\ pc[p] \in Booting /\ faults < MaxFaults
  /\ faults' = faults + 1
  /\ Abort(p, "fault")
  /\ SessionEnds(p)
  /\ UNCHANGED <<tables, cfg, seen, tasks, boots>>

-----------------------------------------------------------------------------
(* Serving and stopping. *)

StartIngestion(p) ==
  /\ pc[p] = "serving" /\ document \in {"none", "failed"} /\ "ingestion" \notin tasks[p]
  /\ document' = "processing"
  /\ tasks' = [tasks EXCEPT ![p] = @ \cup {"ingestion"}]
  /\ UNCHANGED <<lock, schema, recorded, config, upgraded, vectors, audit, pc, cfg, seen, pool,
                 cause, bounds>>

\* The chunks need the row of their document and the dimension of the column.
FinishIngestion(p) ==
  /\ "ingestion" \in tasks[p]
  /\ tasks' = [tasks EXCEPT ![p] = @ \ {"ingestion"}]
  /\ IF document # "none" /\ pool[p] = "open" /\ Indexes(p)
     THEN document' = "ready" /\ vectors' = vectors \cup {cfg[p].model}
     ELSE /\ document' = IF document # "none" /\ pool[p] = "open" THEN "failed" ELSE document
          /\ UNCHANGED vectors
  /\ UNCHANGED <<lock, schema, recorded, config, upgraded, audit, pc, cfg, seen, pool, cause,
                 bounds>>

LaunchAudit(p) ==
  /\ pc[p] = "serving" /\ audit = "none"
  /\ audit' = "running"
  /\ tasks' = [tasks EXCEPT ![p] = @ \cup {"audit"}]
  /\ UNCHANGED <<lock, schema, recorded, config, upgraded, vectors, document, pc, cfg, seen,
                 pool, cause, bounds>>

FinishAudit(p) ==
  /\ "audit" \in tasks[p]
  /\ tasks' = [tasks EXCEPT ![p] = @ \ {"audit"}]
  /\ audit' = IF pool[p] = "open" THEN "settled" ELSE audit
  /\ UNCHANGED <<lock, schema, recorded, config, upgraded, vectors, document, pc, cfg, seen,
                 pool, cause, bounds>>

\* The audits are cancelled (and resumed by a later boot), the ingestions drained.
Shutdown(p) ==
  /\ pc[p] = "serving"
  /\ tasks' = [tasks EXCEPT ![p] = @ \ {"audit"}]
  /\ Proceed(p, "draining")
  /\ UNCHANGED <<lock, tables, cfg, seen, pool, cause, bounds>>

\* Mutant: the pool is closed without waiting for the ingestions.
StopAtOnce(p) ==
  /\ pc[p] = "draining"
  /\ pool' = [pool EXCEPT ![p] = "closed"]
  /\ Proceed(p, "down")
  /\ UNCHANGED <<lock, tables, cfg, seen, tasks, cause, bounds>>

Stop(p) ==
  /\ pc[p] = "draining" /\ tasks[p] = {}
  /\ pool' = [pool EXCEPT ![p] = "closed"]
  /\ Proceed(p, "down")
  /\ UNCHANGED <<lock, tables, cfg, seen, tasks, cause, bounds>>

Crash(p) ==
  /\ pc[p] \notin {"down", "failed"} /\ faults < MaxFaults
  /\ faults' = faults + 1
  /\ Proceed(p, "down")
  /\ pool' = [pool EXCEPT ![p] = "none"]
  /\ tasks' = [tasks EXCEPT ![p] = {}]
  /\ SessionEnds(p)
  /\ UNCHANGED <<tables, cfg, seen, cause, boots>>

\* The operator applies migrations/optional/upgrade_bge_m3_1024.sql, whoever is serving.
Upgrade ==
  /\ Len(schema) = NFiles /\ ~upgraded
  /\ upgraded' = TRUE
  /\ document' = "none" /\ vectors' = {} /\ config' = NoModel
  /\ UNCHANGED <<lock, schema, recorded, audit, pc, cfg, seen, pool, tasks, cause, bounds>>

-----------------------------------------------------------------------------

Migrate(p) ==
  \/ Lock(p) \/ ReadApplied(p) \/ ApplyFile(p) \/ AppliedAll(p) \/ Unlock(p)

Prepare(p) ==
  \/ OpenPool(p) \/ Guard(p) \/ GuardInsert(p) \/ Sweep(p) \/ Build(p) \/ Warmup(p)
  \/ ResumeAudits(p) \/ Seed(p)

Serve(p) ==
  \/ StartIngestion(p) \/ FinishIngestion(p) \/ LaunchAudit(p) \/ FinishAudit(p)
  \/ Shutdown(p) \/ Stop(p)

Faults(p) == FileBreaks(p) \/ BootFault(p) \/ Crash(p)

Next ==
  \/ Upgrade
  \/ \E p \in Procs : Start(p) \/ Migrate(p) \/ Prepare(p) \/ Serve(p) \/ Faults(p)

Spec == Init /\ [][Next]_vars

\* The event loop runs a boot to its end, and the server hands a freed lock on.
FairSpec == Spec /\ \A p \in Procs : WF_vars(Migrate(p)) /\ WF_vars(Prepare(p))

-----------------------------------------------------------------------------
(* Correctness. *)

TypeOK ==
  /\ lock \in Procs \cup {NoProc}
  /\ schema \in Seq(1..NFiles) /\ recorded \subseteq 1..NFiles
  /\ config \in Models \cup {NoModel} /\ upgraded \in BOOLEAN /\ vectors \subseteq Models
  /\ document \in {"none", "processing", "ready", "failed"}
  /\ audit \in {"none", "running", "settled"}
  /\ pc \in [Procs -> Booting \cup {"down", "failed", "serving", "draining"}]
  /\ cfg \in [Procs -> Settings]
  /\ seen \in [Procs -> SUBSET (1..NFiles)]
  /\ pool \in [Procs -> {"none", "built", "open", "closed"}]
  /\ tasks \in [Procs -> SUBSET {"ingestion", "audit"}]
  /\ cause \in [Procs -> {"none", "settings", "file", "conflict", "mismatch", "race", "config",
                          "extra", "fault"}]
  /\ boots \in Nat /\ faults \in Nat

\* Whatever fails and whoever else boots, the files that took effect are the first ones,
\* once each and in their order, schema_migrations says so, and no boot is refused because
\* another one migrates at the same time (db.py:51-88).
MigrationsInOrder ==
  /\ \A i \in 1..Len(schema) : schema[i] = i
  /\ recorded = 1..Len(schema)
  /\ \A p \in Procs : cause[p] # "conflict"

\* The index never mixes two embedding models, whichever processes boot, race for the first
\* row or are left serving by the upgrade; before the upgrade, they all serve the model on
\* record (main.py:83-101).
IndexOfOneModel ==
  /\ \A m, n \in vectors : m = n
  /\ ~upgraded =>
       /\ vectors \subseteq {config}
       /\ \A p \in Procs : pc[p] \in {"serving", "draining"} => cfg[p].model = config

\* A pool is open only on a migrated database, a failed boot leaves none open, and none is
\* closed by a clean stop under an ingestion that is still running (main.py:180-186, 268-287).
PoolDiscipline ==
  \A p \in Procs :
    /\ pool[p] = "open" => recorded = 1..NFiles
    /\ pc[p] = "failed" => pool[p] # "open"
    /\ pc[p] = "down" => tasks[p] = {}

\* A process that waits for the lock gets to serve or gives up, even if the one that holds it
\* fails or dies (db.py:64-88).
BootSettles ==
  \A p \in Procs : pc[p] = "lock" ~> pc[p] \in {"serving", "failed", "down"}

=============================================================================
