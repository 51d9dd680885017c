--------------------------- MODULE ComplianceAudit ---------------------------
(***************************************************************************)
(* Compliance audits: AuditService (audits.py), its route (routes/audits.py)*)
(* and the graph cartographer -> assess -> reporter (agents/compliance.py).*)
(*                                                                         *)
(* The row of the audits table is the checkpoint.  A task loads it, maps   *)
(* the regulation unless the row already holds a map, judges the           *)
(* requirements in order from the first one without a finding and commits  *)
(* each finding on its own.  A task is named by its audit: the service     *)
(* keeps one per id.  Every transaction that commits is one step; an LLM   *)
(* call is a step where what it cost matters.                              *)
(***************************************************************************)
EXTENDS Naturals, Sequences

CONSTANTS
  Audits,            \* audit ids, one per POST /api/audits
  Owners,
  NoOwner,
  Requirement,       \* what the language model may read in a regulation
  MaxRequirements,   \* MAX_REQUIREMENTS
  MaxStops,          \* bound: crashes and shutdowns of the process
  MaxDbFaults        \* bound: failure handlers the database refuses

ASSUME ConstantsAssumption ==
  /\ NoOwner \notin Owners
  /\ MaxRequirements \in Nat /\ MaxStops \in Nat /\ MaxDbFaults \in Nat

VARIABLES
  up,             \* the process is serving
  launch,         \* the launch request of each audit
  owner,          \* audits.owner_id, known from the request on
  status,         \* audits.status, "none" before the row
  requirements,   \* audits.requirements
  findings,       \* audits.findings, each named by the requirement it judges
  task,           \* the _run task of each audit, with its graph state
  trail,          \* the audit_log entries about each audit
  paid,           \* how many judgements each audit has asked a model for
  stops, dbFaults

row == <<owner, status, requirements, findings>>
vars == <<up, launch, owner, status, requirements, findings, task, trail, paid,
          stops, dbFaults>>

Maps == UNION {[1..n -> Requirement] : n \in 0..MaxRequirements}

LaunchPC == {"new", "checked", "inserted", "accepted", "refused", "error", "lost"}
Status == {"none", "queued", "running", "completed", "failed"}
Active == {"queued", "running"}
Running == {"load", "map", "judge", "persist", "finish", "fail"}
TaskPC == {"none", "over", "stranded"} \cup Running

NoTask == [pc |-> "none", reqs |-> <<>>, done |-> 0]

Init ==
  /\ up = TRUE
  /\ launch = [a \in Audits |-> "new"]
  /\ owner = [a \in Audits |-> NoOwner]
  /\ status = [a \in Audits |-> "none"]
  /\ requirements = [a \in Audits |-> <<>>]
  /\ findings = [a \in Audits |-> <<>>]
  /\ task = [a \in Audits |-> NoTask]
  /\ trail = [a \in Audits |-> <<>>]
  /\ paid = [a \in Audits |-> 0]
  /\ stops = 0 /\ dbFaults = 0

-----------------------------------------------------------------------------
(* launch.                                                                 *)

GoTo(a, pc) == launch' = [launch EXCEPT ![a] = pc]
Fresh == [NoTask EXCEPT !.pc = "load"]

\* SELECT 1 ... WHERE status IN ('queued', 'running').  Nothing keeps another
\* launch of the same owner from reading the same answer.
LaunchCheck(a, o) ==
  /\ up /\ launch[a] = "new"
  /\ owner' = [owner EXCEPT ![a] = o]
  /\ GoTo(a, IF \E b \in Audits : owner[b] = o /\ status[b] \in Active
               THEN "refused" ELSE "checked")
  /\ UNCHANGED <<up, status, requirements, findings, task, trail, paid, stops, dbFaults>>

\* The row and its audit.start entry, in one transaction.
LaunchInsert(a) ==
  /\ up /\ launch[a] = "checked"
  /\ status' = [status EXCEPT ![a] = "queued"]
  /\ trail' = [trail EXCEPT ![a] = Append(@, "start")]
  /\ GoTo(a, "inserted")
  /\ UNCHANGED <<up, owner, requirements, findings, task, paid, stops, dbFaults>>

\* Refused by the database: nothing was committed and no task exists.
LaunchFails(a) ==
  /\ up /\ launch[a] = "checked"
  /\ GoTo(a, "error")
  /\ UNCHANGED <<up, row, task, trail, paid, stops, dbFaults>>

LaunchStart(a) ==
  /\ up /\ launch[a] = "inserted"
  /\ task' = [task EXCEPT ![a] = Fresh]
  /\ GoTo(a, "accepted")
  /\ UNCHANGED <<up, row, trail, paid, stops, dbFaults>>

-----------------------------------------------------------------------------
(* _run and the nodes of the graph.                                        *)

At(a, pc) == up /\ task[a].pc = pc

\* The row as it is now becomes the state of the graph.
RunLoad(a) ==
  /\ At(a, "load")
  /\ status' = [status EXCEPT ![a] = "running"]
  /\ task' = [task EXCEPT ![a] = [pc |-> "map", reqs |-> requirements[a],
                                  done |-> Len(findings[a])]]
  /\ UNCHANGED <<up, launch, owner, requirements, findings, trail, paid, stops, dbFaults>>

\* Mutant: a resumed job maps its regulation again.
CartographerAlways(a) ==
  /\ At(a, "map")
  /\ \E m \in Maps :
       /\ requirements' = [requirements EXCEPT ![a] = m]
       /\ task' = [task EXCEPT ![a].pc = "judge", ![a].reqs = m]
  /\ UNCHANGED <<up, launch, owner, status, findings, trail, paid, stops, dbFaults>>

\* A map that is not empty is not extracted again.  What the model answers, and
\* what is left of the regulation if it was deleted, decide the new one.
Cartographer(a) ==
  /\ At(a, "map")
  /\ \/ /\ task[a].reqs # <<>>
        /\ task' = [task EXCEPT ![a].pc = "judge"]
        /\ UNCHANGED requirements
     \/ /\ task[a].reqs = <<>>
        /\ \E m \in Maps :
             /\ requirements' = [requirements EXCEPT ![a] = m]
             /\ task' = [task EXCEPT ![a].pc = "judge", ![a].reqs = m]
  /\ UNCHANGED <<up, launch, owner, status, findings, trail, paid, stops, dbFaults>>

Judge(a) ==
  /\ At(a, "judge") /\ task[a].done < Len(task[a].reqs)
  /\ paid' = [paid EXCEPT ![a] = @ + 1]
  /\ task' = [task EXCEPT ![a].pc = "persist"]
  /\ UNCHANGED <<up, launch, row, trail, stops, dbFaults>>

\* Mutant: the finding stays in the state of the graph.
PersistFindingLater(a) ==
  /\ At(a, "persist")
  /\ task' = [task EXCEPT ![a].pc = "judge", ![a].done = @ + 1]
  /\ UNCHANGED <<up, launch, row, trail, paid, stops, dbFaults>>

\* on_finding: findings || finding, committed on its own.
PersistFinding(a) ==
  LET n == task[a].done + 1 IN
  /\ At(a, "persist")
  /\ findings' = [findings EXCEPT ![a] = Append(@, task[a].reqs[n])]
  /\ task' = [task EXCEPT ![a].pc = "judge", ![a].done = n]
  /\ UNCHANGED <<up, launch, owner, status, requirements, trail, paid, stops, dbFaults>>

\* Mutant: a report needs a finding to report on.
ReporterOnFindings(a) ==
  /\ At(a, "judge") /\ task[a].done >= Len(task[a].reqs) /\ task[a].done > 0
  /\ task' = [task EXCEPT ![a].pc = "finish"]
  /\ UNCHANGED <<up, launch, row, trail, paid, stops, dbFaults>>

Reporter(a) ==
  /\ At(a, "judge") /\ task[a].done >= Len(task[a].reqs)
  /\ task' = [task EXCEPT ![a].pc = "finish"]
  /\ UNCHANGED <<up, launch, row, trail, paid, stops, dbFaults>>

\* The row and its audit.complete entry, in one transaction.
Complete(a) ==
  /\ At(a, "finish")
  /\ status' = [status EXCEPT ![a] = "completed"]
  /\ trail' = [trail EXCEPT ![a] = Append(@, "complete")]
  /\ task' = [task EXCEPT ![a].pc = "over"]
  /\ UNCHANGED <<up, launch, owner, requirements, findings, paid, stops, dbFaults>>

\* A provider, the embedder, the store or the database raises.
RunRaises(a) ==
  /\ up /\ task[a].pc \in Running \ {"fail"}
  /\ task' = [task EXCEPT ![a].pc = "fail"]
  /\ UNCHANGED <<up, launch, row, trail, paid, stops, dbFaults>>

MarkFailed(a) ==
  /\ At(a, "fail")
  /\ status' = [status EXCEPT ![a] = "failed"]
  /\ task' = [task EXCEPT ![a].pc = "over"]
  /\ UNCHANGED <<up, launch, owner, requirements, findings, trail, paid, stops, dbFaults>>

\* The UPDATE of the handler is refused too: the row keeps its status until the
\* next boot, and its owner can launch nothing.
MarkFailedRefused(a) ==
  /\ At(a, "fail") /\ dbFaults < MaxDbFaults
  /\ dbFaults' = dbFaults + 1
  /\ task' = [task EXCEPT ![a].pc = "stranded"]
  /\ UNCHANGED <<up, launch, row, trail, paid, stops>>

-----------------------------------------------------------------------------
(* The process.                                                            *)

\* A crash, or shutdown() cancelling the tasks: either way what was not
\* committed is gone and the rows stay as they are.
Stop ==
  /\ up /\ stops < MaxStops
  /\ up' = FALSE /\ stops' = stops + 1
  /\ task' = [a \in Audits |-> NoTask]
  /\ launch' = [a \in Audits |->
                  IF launch[a] \in {"checked", "inserted"} THEN "lost" ELSE launch[a]]
  /\ UNCHANGED <<row, trail, paid, dbFaults>>

\* Mutant: what resume_interrupted selects.
BootResumesCompleted ==
  /\ ~up
  /\ up' = TRUE
  /\ task' = [a \in Audits |->
                IF status[a] \in Active \cup {"completed"} THEN Fresh ELSE NoTask]
  /\ UNCHANGED <<launch, row, trail, paid, stops, dbFaults>>

\* resume_interrupted, before the first request is served.
Boot ==
  /\ ~up
  /\ up' = TRUE
  /\ task' = [a \in Audits |-> IF status[a] \in Active THEN Fresh ELSE NoTask]
  /\ UNCHANGED <<launch, row, trail, paid, stops, dbFaults>>

Launch(a) == LaunchInsert(a) \/ LaunchStart(a)

Run(a) ==
  \/ RunLoad(a) \/ Cartographer(a) \/ Judge(a) \/ PersistFinding(a)
  \/ Reporter(a) \/ Complete(a) \/ MarkFailed(a)

Next ==
  \/ \E a \in Audits, o \in Owners : LaunchCheck(a, o)
  \/ \E a \in Audits :
       Launch(a) \/ LaunchFails(a) \/ Run(a) \/ RunRaises(a) \/ MarkFailedRefused(a)
  \/ Stop \/ Boot

Spec == Init /\ [][Next]_vars

\* The event loop runs what is runnable, models and the database answer, and
\* an operator restarts a process that stopped.
Fairness ==
  /\ WF_vars(Boot)
  /\ \A a \in Audits : WF_vars(Launch(a)) /\ WF_vars(Run(a))

FairSpec == Spec /\ Fairness

-----------------------------------------------------------------------------
(* Properties.                                                             *)

TaskRecord == [pc : TaskPC, reqs : Seq(Requirement), done : Nat]

TypeOK ==
  /\ up \in BOOLEAN
  /\ launch \in [Audits -> LaunchPC]
  /\ owner \in [Audits -> Owners \cup {NoOwner}]
  /\ status \in [Audits -> Status]
  /\ requirements \in [Audits -> Seq(Requirement)]
  /\ findings \in [Audits -> Seq(Requirement)]
  /\ task \in [Audits -> TaskRecord]
  /\ trail \in [Audits -> Seq({"start", "complete"})]
  /\ paid \in [Audits -> Nat]
  /\ stops \in Nat /\ dbFaults \in Nat

\* "One audit at a time per owner" (audits.py, module docstring).
OneActivePerOwner ==
  \A a, b \in Audits :
    owner[a] = owner[b] /\ status[a] \in Active /\ status[b] \in Active => a = b

\* While the process serves, an active row, which keeps its owner from launching
\* anything, has a task working on it, is about to get one, or its failure
\* handler was refused by the database.
HasTask(a) ==
  up /\ status[a] \in Active =>
    task[a].pc \in Running \cup {"stranded"} \/ launch[a] = "inserted"

ActiveHasTask == \A a \in Audits : HasTask(a)

\* "A restarted job resumes at the first unevaluated requirement instead of
\* re-paying the run": beyond one judgement per finding, an audit has paid at
\* most one for each stop of the process and one for the run in progress.
RestartCostsRemainder ==
  \A a \in Audits : paid[a] <= Len(findings[a]) + stops + 1

\* The audit log tells the same story as the row: an audit has exactly one
\* start entry, and one complete entry exactly when it is completed.
Story(s) ==
  CASE s = "none" -> <<>>
    [] s = "completed" -> <<"start", "complete">>
    [] OTHER -> <<"start">>

TrailTellsStatus == \A a \in Audits : trail[a] = Story(status[a])

\* The audits implement the ledger they promise (module AuditLedger).
Ledger == INSTANCE AuditLedger
            WITH phase <- [a \in Audits |-> IF status[a] \in Active THEN "active" ELSE status[a]],
                 plan <- requirements, answers <- findings
LedgerSpec == Ledger!Spec

\* Every accepted audit is completed or failed in the end, however often the
\* process stops on the way, unless its failure handler was refused.
AuditsSettle ==
  \A a \in Audits :
    status[a] \in Active ~>
      status[a] \in {"completed", "failed"} \/ task[a].pc = "stranded"

-----------------------------------------------------------------------------
(* The inductive invariant behind them, audit by audit.                    *)

\* Findings answer the persisted requirements in order, all of them at the end.
CheckpointOK(a) ==
  /\ Len(findings[a]) <= Len(requirements[a])
  /\ \A i \in 1..Len(findings[a]) : findings[a][i] = requirements[a][i]
  /\ status[a] = "none" => findings[a] = <<>> /\ requirements[a] = <<>>

\* Only an active audit has a task at work, and its state is the row's.
TaskOK(a) ==
  /\ ~up => task[a].pc = "none"
  /\ task[a].pc \in Running \cup {"stranded"} => up /\ status[a] \in Active
  /\ task[a].pc \in {"map", "judge", "persist", "finish"} =>
       task[a].reqs = requirements[a] /\ task[a].done = Len(findings[a])
  /\ task[a].pc = "persist" => task[a].done < Len(task[a].reqs)
  /\ task[a].pc = "finish" => task[a].done = Len(task[a].reqs)

LaunchOK(a) ==
  /\ launch[a] \in {"new", "checked"} => status[a] = "none" /\ task[a].pc = "none"
  /\ launch[a] = "inserted" => up /\ status[a] = "queued" /\ task[a].pc = "none"

\* A judgement asked for and not yet recorded is the only one at risk.
PaidOK(a) ==
  /\ paid[a] <= Len(findings[a]) + stops + 1
  /\ task[a].pc \in {"none", "load", "map", "judge", "finish"} =>
       paid[a] <= Len(findings[a]) + stops

AuditOK(a) ==
  /\ CheckpointOK(a)
  /\ TaskOK(a)
  /\ LaunchOK(a)
  /\ HasTask(a)
  /\ trail[a] = Story(status[a])
  /\ PaidOK(a)

AuditInv == TypeOK /\ \A a \in Audits : AuditOK(a)
=============================================================================
