------------------------ MODULE ComplianceAuditProofs ------------------------
(***************************************************************************)
(* Theorems about ComplianceAudit, for every number of audits, owners,     *)
(* requirements, stops and refused failure handlers.                       *)
(***************************************************************************)
EXTENDS ComplianceAudit, TLAPS

LEMMA PCs ==
  /\ LaunchPC = {"new", "checked", "inserted", "accepted", "refused", "error", "lost"}
  /\ TaskPC = {"none", "over", "stranded", "load", "map", "judge", "persist", "finish", "fail"}
  /\ Running = {"load", "map", "judge", "persist", "finish", "fail"}
  /\ Status = {"none", "queued", "running", "completed", "failed"}
  /\ Active = {"queued", "running"}
BY DEF LaunchPC, TaskPC, Running, Status, Active

\* An entry of Maps is a sequence of requirements.
LEMMA MapsAreSeqs == \A m \in Maps : m \in Seq(Requirement) /\ Len(m) \in Nat
<1> SUFFICES ASSUME NEW n \in 0..MaxRequirements, NEW m \in [1..n -> Requirement]
             PROVE  m \in Seq(Requirement) /\ Len(m) \in Nat
  BY DEF Maps
<1>1. n \in Nat
  BY ConstantsAssumption
<1> QED
  BY <1>1

\* An idle task record, and one that has just been created.
LEMMA NoTaskType ==
  /\ NoTask \in TaskRecord /\ NoTask.pc = "none"
  /\ Fresh \in TaskRecord /\ Fresh.pc = "load"
<1>1. NoTask \in TaskRecord
  BY PCs DEF NoTask, TaskRecord
<1>2. Fresh = [pc |-> "load", reqs |-> <<>>, done |-> 0]
  BY DEF Fresh, NoTask
<1>3. Fresh \in TaskRecord
  BY <1>2, PCs DEF TaskRecord
<1> QED
  BY <1>1, <1>2, <1>3 DEF NoTask

\* Setting one field of a task, pointwise.
LEMMA TaskGoTo ==
  ASSUME TypeOK, NEW a \in Audits, NEW p \in TaskPC, task' = [task EXCEPT ![a].pc = p]
  PROVE  /\ task' \in [Audits -> TaskRecord]
         /\ task'[a].pc = p /\ task'[a].reqs = task[a].reqs /\ task'[a].done = task[a].done
         /\ \A b \in Audits : b # a => task'[b] = task[b]
BY DEF TypeOK, TaskRecord

LEMMA TaskBecomes ==
  ASSUME TypeOK, NEW a \in Audits, NEW t \in TaskRecord, task' = [task EXCEPT ![a] = t]
  PROVE  /\ task' \in [Audits -> TaskRecord]
         /\ task'[a] = t
         /\ \A b \in Audits : b # a => task'[b] = task[b]
BY DEF TypeOK

\* An audit nothing happens to keeps its part of the invariant.
LEMMA Untouched ==
  ASSUME NEW b \in Audits, AuditOK(b), up' = up, stops' = stops,
         launch'[b] = launch[b], status'[b] = status[b],
         requirements'[b] = requirements[b], findings'[b] = findings[b],
         task'[b] = task[b], trail'[b] = trail[b], paid'[b] = paid[b]
  PROVE  AuditOK(b)'
BY DEF AuditOK, CheckpointOK, TaskOK, LaunchOK, HasTask, PaidOK

\* What the parts of the invariant are made of, for one audit.
LEMMA Parts ==
  ASSUME TypeOK, NEW a \in Audits
  PROVE  /\ task[a] \in TaskRecord /\ task[a].pc \in TaskPC
         /\ task[a].reqs \in Seq(Requirement) /\ task[a].done \in Nat
         /\ findings[a] \in Seq(Requirement) /\ requirements[a] \in Seq(Requirement)
         /\ Len(findings[a]) \in Nat /\ Len(requirements[a]) \in Nat
         /\ paid[a] \in Nat /\ stops \in Nat
         /\ launch[a] \in LaunchPC /\ status[a] \in Status
         /\ trail[a] \in Seq({"start", "complete"})
BY DEF TypeOK, TaskRecord

-----------------------------------------------------------------------------
(* The steps of a launch.                                                  *)

LEMMA LaunchCheckInv ==
  ASSUME AuditInv, NEW a \in Audits, NEW o \in Owners, LaunchCheck(a, o)
  PROVE  AuditInv'
<1>1. TypeOK'
  BY PCs DEF AuditInv, TypeOK, LaunchCheck, GoTo
<1>2. \A b \in Audits : b # a => AuditOK(b)'
  BY Untouched DEF AuditInv, TypeOK, LaunchCheck, GoTo
<1>3. /\ launch'[a] \in {"refused", "checked"} /\ launch[a] = "new"
      /\ UNCHANGED <<up, status, requirements, findings, task, trail, paid, stops>>
  BY DEF AuditInv, TypeOK, LaunchCheck, GoTo
<1>4. AuditOK(a)'
  BY <1>3 DEF AuditInv, AuditOK, CheckpointOK, TaskOK, LaunchOK, HasTask, PaidOK
<1> QED
  BY <1>1, <1>2, <1>4 DEF AuditInv

LEMMA LaunchInsertInv ==
  ASSUME AuditInv, NEW a \in Audits, LaunchInsert(a)
  PROVE  AuditInv'
<1>1. /\ up /\ launch[a] = "checked" /\ launch'[a] = "inserted"
      /\ status'[a] = "queued" /\ trail'[a] = Append(trail[a], "start")
      /\ UNCHANGED <<up, requirements, findings, task, paid, stops>>
  BY DEF AuditInv, TypeOK, LaunchInsert, GoTo
<1>2. status[a] = "none" /\ trail[a] = <<>>
  BY <1>1 DEF AuditInv, AuditOK, LaunchOK, Story
<1>3. trail'[a] = <<"start">>
  BY <1>1, <1>2
<1>4. TypeOK'
  <2>1. trail' \in [Audits -> Seq({"start", "complete"})]
    BY Parts DEF AuditInv, TypeOK, LaunchInsert
  <2> QED
    BY <2>1, PCs DEF AuditInv, TypeOK, LaunchInsert, GoTo
<1>5. \A b \in Audits : b # a => AuditOK(b)'
  BY Untouched DEF AuditInv, TypeOK, LaunchInsert, GoTo
<1>6. AuditOK(a)'
  <2>1. trail'[a] = Story(status'[a])
    BY <1>1, <1>3 DEF Story
  <2>2. HasTask(a)' /\ PaidOK(a)'
    BY <1>1 DEF AuditInv, AuditOK, HasTask, PaidOK
  <2>3. TaskOK(a)' /\ LaunchOK(a)' /\ CheckpointOK(a)'
    BY <1>1, <1>2, PCs DEF AuditInv, AuditOK, CheckpointOK, TaskOK, LaunchOK
  <2> QED
    BY <2>1, <2>2, <2>3 DEF AuditOK
<1> QED
  BY <1>4, <1>5, <1>6 DEF AuditInv

LEMMA LaunchFailsInv ==
  ASSUME AuditInv, NEW a \in Audits, LaunchFails(a)
  PROVE  AuditInv'
<1>1. TypeOK'
  BY PCs DEF AuditInv, TypeOK, LaunchFails, GoTo, row
<1>2. \A b \in Audits : b # a => AuditOK(b)'
  BY Untouched DEF AuditInv, TypeOK, LaunchFails, GoTo, row
<1>3. /\ launch'[a] = "error" /\ launch[a] = "checked"
      /\ UNCHANGED <<up, status, requirements, findings, task, trail, paid, stops>>
  BY DEF AuditInv, TypeOK, LaunchFails, GoTo, row
<1>4. AuditOK(a)'
  BY <1>3 DEF AuditInv, AuditOK, CheckpointOK, TaskOK, LaunchOK, HasTask, PaidOK
<1> QED
  BY <1>1, <1>2, <1>4 DEF AuditInv

LEMMA LaunchStartInv ==
  ASSUME AuditInv, NEW a \in Audits, LaunchStart(a)
  PROVE  AuditInv'
<1>1. /\ task' \in [Audits -> TaskRecord] /\ task'[a].pc = "load"
      /\ \A b \in Audits : b # a => task'[b] = task[b]
  BY NoTaskType, TaskBecomes DEF AuditInv, LaunchStart
<1>2. /\ up /\ launch[a] = "inserted" /\ launch'[a] = "accepted"
      /\ UNCHANGED <<up, status, requirements, findings, trail, paid, stops>>
  BY DEF AuditInv, TypeOK, LaunchStart, GoTo, row
<1>3. TypeOK'
  BY <1>1, PCs DEF AuditInv, TypeOK, LaunchStart, GoTo, row
<1>4. \A b \in Audits : b # a => AuditOK(b)'
  BY <1>1, Untouched DEF AuditInv, TypeOK, LaunchStart, GoTo, row
<1>5. AuditOK(a)'
  BY <1>1, <1>2, PCs DEF AuditInv, AuditOK, CheckpointOK, TaskOK, LaunchOK, HasTask, PaidOK
<1> QED
  BY <1>3, <1>4, <1>5 DEF AuditInv

-----------------------------------------------------------------------------
(* The steps of a task.                                                    *)

LEMMA RunLoadInv ==
  ASSUME AuditInv, NEW a \in Audits, RunLoad(a)
  PROVE  AuditInv'
<1> DEFINE t == [pc |-> "map", reqs |-> requirements[a], done |-> Len(findings[a])]
<1>1. t \in TaskRecord
  BY Parts, PCs DEF AuditInv, TaskRecord
<1>2. /\ task' \in [Audits -> TaskRecord] /\ task'[a] = t
      /\ \A b \in Audits : b # a => task'[b] = task[b]
  BY <1>1, TaskBecomes DEF AuditInv, RunLoad
<1>3. /\ up /\ task[a].pc = "load" /\ status'[a] = "running"
      /\ UNCHANGED <<up, launch, requirements, findings, trail, paid, stops>>
  BY DEF AuditInv, TypeOK, RunLoad, At
<1>4. TypeOK'
  BY <1>2, PCs DEF AuditInv, TypeOK, RunLoad
<1>5. \A b \in Audits : b # a => AuditOK(b)'
  BY <1>2, Untouched DEF AuditInv, TypeOK, RunLoad
<1>6. AuditOK(a)'
  <2>1. status[a] \in Active
    BY <1>3, PCs DEF AuditInv, AuditOK, TaskOK
  <2>2. trail'[a] = Story(status'[a])
    BY <1>3, <2>1, PCs DEF AuditInv, AuditOK, Story
  <2> QED
    BY <1>2, <1>3, <2>1, <2>2, PCs
       DEF AuditInv, AuditOK, CheckpointOK, TaskOK, LaunchOK, HasTask, PaidOK
<1> QED
  BY <1>4, <1>5, <1>6 DEF AuditInv

LEMMA CartographerInv ==
  ASSUME AuditInv, NEW a \in Audits, Cartographer(a)
  PROVE  AuditInv'
<1>1. PICK m \in Seq(Requirement) :
        /\ requirements' = [requirements EXCEPT ![a] = m]
        /\ task' = [task EXCEPT ![a].pc = "judge", ![a].reqs = m]
        /\ m # requirements[a] => task[a].reqs = <<>>
  <2>1. CASE task[a].reqs # <<>> /\ task' = [task EXCEPT ![a].pc = "judge"] /\ UNCHANGED requirements
    <3>1. task[a].reqs = requirements[a]
      BY DEF AuditInv, AuditOK, TaskOK, Cartographer, At
    <3>2. requirements' = [requirements EXCEPT ![a] = requirements[a]]
      BY <2>1 DEF AuditInv, TypeOK
    <3>3. task' = [task EXCEPT ![a].pc = "judge", ![a].reqs = requirements[a]]
      BY <2>1, <3>1 DEF AuditInv, TypeOK, TaskRecord
    <3> QED
      BY <3>2, <3>3, Parts DEF AuditInv
  <2> QED
    BY <2>1, MapsAreSeqs DEF Cartographer
<1>2. /\ task' \in [Audits -> TaskRecord]
      /\ task'[a].pc = "judge" /\ task'[a].reqs = m /\ task'[a].done = task[a].done
      /\ \A b \in Audits : b # a => task'[b] = task[b]
  BY <1>1, PCs DEF AuditInv, TypeOK, TaskRecord
<1>3. /\ requirements'[a] = m
      /\ \A b \in Audits : b # a => requirements'[b] = requirements[b]
      /\ task[a].pc = "map"
      /\ UNCHANGED <<up, launch, owner, status, findings, trail, paid, stops, dbFaults>>
  BY <1>1 DEF AuditInv, TypeOK, Cartographer, At
<1>4. TypeOK'
  BY <1>1, <1>2, <1>3 DEF AuditInv, TypeOK
<1>5. \A b \in Audits : b # a => AuditOK(b)'
  BY <1>2, <1>3, Untouched DEF AuditInv
<1>6. AuditOK(a)'
  <2>1. /\ status[a] \in Active /\ task[a].reqs = requirements[a]
        /\ task[a].done = Len(findings[a])
    BY <1>3, PCs DEF AuditInv, AuditOK, TaskOK
  <2>2. CheckpointOK(a)'
    <3>1. CASE m = requirements[a]
      BY <1>3, <3>1 DEF AuditInv, AuditOK, CheckpointOK
    <3>2. CASE requirements[a] = <<>>
      <4>1. Len(findings[a]) = 0 /\ Len(m) \in Nat
        BY <3>2, Parts DEF AuditInv, AuditOK, CheckpointOK
      <4> QED
        BY <1>3, <2>1, <4>1, PCs DEF CheckpointOK
    <3> QED
      BY <1>1, <2>1, <3>1, <3>2
  <2> QED
    BY <1>2, <1>3, <2>1, <2>2, PCs
       DEF AuditInv, AuditOK, TaskOK, LaunchOK, HasTask, PaidOK
<1> QED
  BY <1>4, <1>5, <1>6 DEF AuditInv

LEMMA JudgeInv ==
  ASSUME AuditInv, NEW a \in Audits, Judge(a)
  PROVE  AuditInv'
<1>1. /\ task' \in [Audits -> TaskRecord]
      /\ task'[a].pc = "persist" /\ task'[a].reqs = task[a].reqs /\ task'[a].done = task[a].done
      /\ \A b \in Audits : b # a => task'[b] = task[b]
  BY PCs, TaskGoTo DEF AuditInv, Judge
<1>2. /\ up /\ task[a].pc = "judge" /\ task[a].done < Len(task[a].reqs)
      /\ paid'[a] = paid[a] + 1 /\ paid' \in [Audits -> Nat]
      /\ \A b \in Audits : b # a => paid'[b] = paid[b]
      /\ UNCHANGED <<up, launch, owner, status, requirements, findings, trail, stops, dbFaults>>
  BY Parts DEF AuditInv, TypeOK, Judge, At, row
<1>3. TypeOK'
  BY <1>1, <1>2 DEF AuditInv, TypeOK
<1>4. \A b \in Audits : b # a => AuditOK(b)'
  BY <1>1, <1>2, Untouched DEF AuditInv
<1>5. AuditOK(a)'
  <2>1. PaidOK(a)'
    BY <1>1, <1>2, Parts DEF AuditInv, AuditOK, PaidOK
  <2>2. TaskOK(a)' /\ LaunchOK(a)' /\ HasTask(a)'
    BY <1>1, <1>2, PCs DEF AuditInv, AuditOK, TaskOK, LaunchOK, HasTask
  <2>3. CheckpointOK(a)' /\ trail'[a] = Story(status'[a])
    BY <1>2 DEF AuditInv, AuditOK, CheckpointOK
  <2> QED
    BY <2>1, <2>2, <2>3 DEF AuditOK
<1> QED
  BY <1>3, <1>4, <1>5 DEF AuditInv

\* The finding appended is the answer to the first requirement without one.
LEMMA PersistFindingInv ==
  ASSUME AuditInv, NEW a \in Audits, PersistFinding(a)
  PROVE  AuditInv'
<1> DEFINE n == task[a].done + 1
<1>1. /\ up /\ task[a].pc = "persist"
      /\ findings' = [findings EXCEPT ![a] = Append(@, task[a].reqs[n])]
      /\ task' = [task EXCEPT ![a].pc = "judge", ![a].done = n]
      /\ UNCHANGED <<up, launch, owner, status, requirements, trail, paid, stops, dbFaults>>
  BY DEF PersistFinding, At
<1>2. /\ status[a] \in Active /\ task[a].reqs = requirements[a]
      /\ task[a].done = Len(findings[a]) /\ task[a].done < Len(requirements[a])
  BY <1>1, PCs DEF AuditInv, AuditOK, TaskOK
<1>3. n \in 1..Len(requirements[a]) /\ n = Len(findings[a]) + 1 /\ n \in Nat
  BY <1>2, Parts DEF AuditInv
<1>4. /\ task' \in [Audits -> TaskRecord]
      /\ task'[a].pc = "judge" /\ task'[a].reqs = task[a].reqs /\ task'[a].done = n
      /\ \A b \in Audits : b # a => task'[b] = task[b]
  BY <1>1, <1>3, PCs DEF AuditInv, TypeOK, TaskRecord
<1>5. /\ findings'[a] = Append(findings[a], requirements[a][n])
      /\ findings' \in [Audits -> Seq(Requirement)]
      /\ \A b \in Audits : b # a => findings'[b] = findings[b]
  <2>1. requirements[a][n] \in Requirement
    BY <1>3, Parts DEF AuditInv
  <2>2. Append(findings[a], requirements[a][n]) \in Seq(Requirement)
    BY <2>1, Parts DEF AuditInv
  <2> HIDE DEF n
  <2> QED
    BY <1>1, <1>2, <2>2 DEF AuditInv, TypeOK
<1>6. TypeOK'
  BY <1>1, <1>4, <1>5 DEF AuditInv, TypeOK
<1>7. \A b \in Audits : b # a => AuditOK(b)'
  BY <1>1, <1>4, <1>5, Untouched DEF AuditInv
<1>8. AuditOK(a)'
  <2>1. /\ Len(findings'[a]) = n
        /\ \A i \in 1..n : findings'[a][i] = IF i = n THEN requirements[a][n] ELSE findings[a][i]
    BY <1>3, <1>5, Parts DEF AuditInv
  <2>2. CheckpointOK(a)'
    <3>1. \A i \in 1..Len(findings[a]) : findings[a][i] = requirements[a][i]
      BY DEF AuditInv, AuditOK, CheckpointOK
    <3>2. \A i \in 1..n : findings'[a][i] = requirements[a][i]
      BY <1>3, <2>1, <3>1, Parts DEF AuditInv
    <3> QED
      BY <1>1, <1>2, <1>3, <2>1, <3>2, PCs DEF CheckpointOK
  <2>3. TaskOK(a)' /\ LaunchOK(a)' /\ HasTask(a)'
    BY <1>1, <1>2, <1>4, <2>1, PCs DEF AuditInv, AuditOK, TaskOK, LaunchOK, HasTask
  <2>4. PaidOK(a)'
    BY <1>1, <1>3, <1>4, <2>1, Parts DEF AuditInv, AuditOK, PaidOK
  <2>5. trail'[a] = Story(status'[a])
    BY <1>1 DEF AuditInv, AuditOK
  <2> QED
    BY <2>2, <2>3, <2>4, <2>5 DEF AuditOK
<1> QED
  BY <1>6, <1>7, <1>8 DEF AuditInv

LEMMA ReporterInv ==
  ASSUME AuditInv, NEW a \in Audits, Reporter(a)
  PROVE  AuditInv'
<1>1. /\ task' \in [Audits -> TaskRecord]
      /\ task'[a].pc = "finish" /\ task'[a].reqs = task[a].reqs /\ task'[a].done = task[a].done
      /\ \A b \in Audits : b # a => task'[b] = task[b]
  BY PCs, TaskGoTo DEF AuditInv, Reporter
<1>2. /\ up /\ task[a].pc = "judge" /\ task[a].done >= Len(task[a].reqs)
      /\ UNCHANGED <<up, launch, owner, status, requirements, findings, trail, paid, stops, dbFaults>>
  BY DEF Reporter, At, row
<1>3. TypeOK'
  BY <1>1, <1>2 DEF AuditInv, TypeOK
<1>4. \A b \in Audits : b # a => AuditOK(b)'
  BY <1>1, <1>2, Untouched DEF AuditInv
<1>5. AuditOK(a)'
  BY <1>1, <1>2, PCs, Parts
     DEF AuditInv, AuditOK, CheckpointOK, TaskOK, LaunchOK, HasTask, PaidOK
<1> QED
  BY <1>3, <1>4, <1>5 DEF AuditInv

\* The row stops being active in the step that ends its task.
LEMMA EndInv ==
  ASSUME AuditInv, NEW a \in Audits, Complete(a) \/ MarkFailed(a)
  PROVE  AuditInv'
<1>1. /\ task' \in [Audits -> TaskRecord]
      /\ task'[a].pc = "over" /\ task'[a].reqs = task[a].reqs /\ task'[a].done = task[a].done
      /\ \A b \in Audits : b # a => task'[b] = task[b]
  BY PCs, TaskGoTo DEF AuditInv, Complete, MarkFailed
<1>2. /\ up /\ task[a].pc \in {"finish", "fail"}
      /\ \/ status'[a] = "completed" /\ trail'[a] = Append(trail[a], "complete")
         \/ status'[a] = "failed" /\ trail'[a] = trail[a]
      /\ \A b \in Audits : b # a => status'[b] = status[b] /\ trail'[b] = trail[b]
      /\ UNCHANGED <<up, launch, owner, requirements, findings, paid, stops, dbFaults>>
  BY DEF AuditInv, TypeOK, Complete, MarkFailed, At
<1>3. status[a] \in Active /\ trail[a] = <<"start">>
  BY <1>2, PCs DEF AuditInv, AuditOK, TaskOK, Story
<1>4. TypeOK'
  <2>1. trail' \in [Audits -> Seq({"start", "complete"})]
    <3>1. CASE Complete(a)
      <4>1. Append(trail[a], "complete") \in Seq({"start", "complete"})
        BY Parts DEF AuditInv
      <4> QED
        BY <3>1, <4>1 DEF AuditInv, TypeOK, Complete
    <3>2. CASE MarkFailed(a)
      BY <3>2 DEF AuditInv, TypeOK, MarkFailed
    <3> QED
      BY <3>1, <3>2
  <2>2. status' \in [Audits -> Status]
    BY PCs DEF AuditInv, TypeOK, Complete, MarkFailed
  <2> QED
    BY <1>1, <1>2, <2>1, <2>2 DEF AuditInv, TypeOK
<1>5. \A b \in Audits : b # a => AuditOK(b)'
  BY <1>1, <1>2, Untouched DEF AuditInv
<1>6. AuditOK(a)'
  <2>1. trail'[a] = Story(status'[a])
    BY <1>2, <1>3 DEF Story
  <2> QED
    BY <1>1, <1>2, <1>3, <2>1, PCs
       DEF AuditInv, AuditOK, CheckpointOK, TaskOK, LaunchOK, HasTask, PaidOK
<1> QED
  BY <1>4, <1>5, <1>6 DEF AuditInv

LEMMA RaiseInv ==
  ASSUME AuditInv, NEW a \in Audits, RunRaises(a) \/ MarkFailedRefused(a)
  PROVE  AuditInv'
<1>1. /\ task' \in [Audits -> TaskRecord]
      /\ task'[a].pc \in {"fail", "stranded"}
      /\ task'[a].reqs = task[a].reqs /\ task'[a].done = task[a].done
      /\ \A b \in Audits : b # a => task'[b] = task[b]
  BY PCs, TaskGoTo DEF AuditInv, RunRaises, MarkFailedRefused
<1>2. /\ up /\ task[a].pc \in Running
      /\ UNCHANGED <<up, launch, owner, status, requirements, findings, trail, paid, stops>>
  BY PCs DEF RunRaises, MarkFailedRefused, At, row
<1>3. TypeOK'
  BY <1>1, <1>2 DEF AuditInv, TypeOK, RunRaises, MarkFailedRefused
<1>4. \A b \in Audits : b # a => AuditOK(b)'
  BY <1>1, <1>2, Untouched DEF AuditInv
<1>5. AuditOK(a)'
  BY <1>1, <1>2, PCs, Parts
     DEF AuditInv, AuditOK, CheckpointOK, TaskOK, LaunchOK, HasTask, PaidOK
<1> QED
  BY <1>3, <1>4, <1>5 DEF AuditInv

-----------------------------------------------------------------------------
(* The process, and the theorems.                                          *)

LEMMA StopInv ==
  ASSUME AuditInv, Stop
  PROVE  AuditInv'
<1>1. TypeOK'
  <2>1. task' \in [Audits -> TaskRecord] /\ stops' \in Nat
    BY NoTaskType DEF AuditInv, TypeOK, Stop
  <2>2. launch' \in [Audits -> LaunchPC]
    BY PCs DEF AuditInv, TypeOK, Stop
  <2> QED
    BY <2>1, <2>2 DEF AuditInv, TypeOK, Stop, row
<1>2. ASSUME NEW a \in Audits PROVE AuditOK(a)'
  <2>1. /\ task'[a].pc = "none" /\ up' = FALSE /\ stops' = stops + 1
        /\ launch'[a] \in {launch[a], "lost"} /\ launch'[a] # "inserted"
        /\ UNCHANGED <<status, requirements, findings, trail, paid>>
    BY NoTaskType DEF Stop, row
  <2> QED
    BY <2>1, PCs, Parts
       DEF AuditInv, AuditOK, CheckpointOK, TaskOK, LaunchOK, HasTask, PaidOK
<1> QED
  BY <1>1, <1>2 DEF AuditInv

LEMMA BootInv ==
  ASSUME AuditInv, Boot
  PROVE  AuditInv'
<1>1. TypeOK'
  BY NoTaskType DEF AuditInv, TypeOK, Boot, row
<1>2. ASSUME NEW a \in Audits PROVE AuditOK(a)'
  <2>1. /\ task'[a].pc = IF status[a] \in Active THEN "load" ELSE "none"
        /\ ~up /\ up' = TRUE
        /\ UNCHANGED <<launch, status, requirements, findings, trail, paid, stops>>
    BY NoTaskType DEF Boot, row
  <2>2. task[a].pc \in {"none", "over"}
    BY <2>1, PCs, Parts DEF AuditInv, AuditOK, TaskOK
  <2> QED
    BY <2>1, <2>2, PCs, Parts
       DEF AuditInv, AuditOK, CheckpointOK, TaskOK, LaunchOK, HasTask, PaidOK
<1> QED
  BY <1>1, <1>2 DEF AuditInv

LEMMA AuditInvInit == Init => AuditInv
<1> SUFFICES ASSUME Init PROVE AuditInv
  OBVIOUS
<1>1. TypeOK
  BY NoTaskType, PCs DEF Init, TypeOK
<1>2. ASSUME NEW a \in Audits PROVE AuditOK(a)
  BY NoTaskType, PCs
     DEF Init, AuditOK, CheckpointOK, TaskOK, LaunchOK, HasTask, PaidOK, Story
<1> QED
  BY <1>1, <1>2 DEF AuditInv

LEMMA AuditInvStep == AuditInv /\ [Next]_vars => AuditInv'
<1> SUFFICES ASSUME AuditInv, [Next]_vars PROVE AuditInv'
  OBVIOUS
<1>1. ASSUME NEW a \in Audits, NEW o \in Owners, LaunchCheck(a, o) PROVE AuditInv'
  BY <1>1, LaunchCheckInv
<1>2. ASSUME NEW a \in Audits, Launch(a) \/ LaunchFails(a) PROVE AuditInv'
  BY <1>2, LaunchInsertInv, LaunchStartInv, LaunchFailsInv DEF Launch
<1>3. ASSUME NEW a \in Audits, Run(a) PROVE AuditInv'
  BY <1>3, RunLoadInv, CartographerInv, JudgeInv, PersistFindingInv, ReporterInv, EndInv
     DEF Run
<1>4. ASSUME NEW a \in Audits, RunRaises(a) \/ MarkFailedRefused(a) PROVE AuditInv'
  BY <1>4, RaiseInv
<1>5. CASE Stop
  BY <1>5, StopInv
<1>6. CASE Boot
  BY <1>6, BootInv
<1>7. CASE UNCHANGED vars
  <2>1. TypeOK'
    BY <1>7 DEF AuditInv, TypeOK, vars
  <2>2. ASSUME NEW a \in Audits PROVE AuditOK(a)'
    BY <1>7, Untouched DEF AuditInv, vars
  <2> QED
    BY <2>1, <2>2 DEF AuditInv
<1> QED
  BY <1>1, <1>2, <1>3, <1>4, <1>5, <1>6, <1>7 DEF Next

LEMMA AuditInvCorrect == Spec => []AuditInv
BY AuditInvInit, AuditInvStep, PTL DEF Spec

\* The types hold: statuses, requests and tasks stay in the states the code
\* knows, and requirements and findings stay sequences.
THEOREM AuditTypeCorrect == Spec => []TypeOK
<1>1. AuditInv => TypeOK
  BY DEF AuditInv
<1> QED
  BY <1>1, AuditInvCorrect, PTL

\* An active row is always being worked on, about to be, or was left behind by
\* a refused failure handler.
THEOREM ActiveHasTaskCorrect == Spec => []ActiveHasTask
<1>1. AuditInv => ActiveHasTask
  BY DEF AuditInv, AuditOK, ActiveHasTask
<1> QED
  BY <1>1, AuditInvCorrect, PTL

\* A restart costs the remainder of the audit, not the run.
THEOREM RestartCostsRemainderCorrect == Spec => []RestartCostsRemainder
<1>1. AuditInv => RestartCostsRemainder
  BY DEF AuditInv, AuditOK, PaidOK, RestartCostsRemainder
<1> QED
  BY <1>1, AuditInvCorrect, PTL

\* The audit log agrees with the row in every committed state.
THEOREM TrailTellsStatusCorrect == Spec => []TrailTellsStatus
<1>1. AuditInv => TrailTellsStatus
  BY DEF AuditInv, AuditOK, TrailTellsStatus
<1> QED
  BY <1>1, AuditInvCorrect, PTL

-----------------------------------------------------------------------------
(* ComplianceAudit implements AuditLedger.                                 *)

LEMMA LedgerInit == Init => Ledger!Init
BY PCs DEF Init, Ledger!Init

LEMMA LedgerStep == AuditInv /\ [Next]_vars => [Ledger!Next]_(Ledger!vars)
<1> SUFFICES ASSUME AuditInv, Next PROVE [Ledger!Next]_(Ledger!vars)
  BY DEF vars, Ledger!vars
<1>1. ASSUME UNCHANGED <<requirements, findings, status>> PROVE UNCHANGED Ledger!vars
  BY <1>1 DEF Ledger!vars
<1>2. ASSUME NEW a \in Audits, LaunchInsert(a) PROVE Ledger!Next
  <2>1. status[a] = "none"
    BY <1>2 DEF LaunchInsert, AuditInv, AuditOK, LaunchOK
  <2>2. /\ status' = [status EXCEPT ![a] = "queued"]
        /\ UNCHANGED <<requirements, findings>>
    BY <1>2 DEF LaunchInsert
  <2>3. Ledger!Accept(a)
    BY <2>1, <2>2, PCs DEF Ledger!Accept, AuditInv, TypeOK
  <2> QED
    BY <2>3 DEF Ledger!Next
<1>3. ASSUME NEW a \in Audits, RunLoad(a) PROVE UNCHANGED Ledger!vars
  <2>1. status[a] \in Active
    BY <1>3, PCs DEF RunLoad, At, AuditInv, AuditOK, TaskOK
  <2> QED
    BY <1>3, <2>1, PCs DEF RunLoad, AuditInv, TypeOK, Ledger!vars
<1>4. ASSUME NEW a \in Audits, Cartographer(a) PROVE [Ledger!Next]_(Ledger!vars)
  <2>1. status[a] \in Active /\ task[a].reqs = requirements[a]
    BY <1>4, PCs DEF Cartographer, At, AuditInv, AuditOK, TaskOK
  <2>2. UNCHANGED <<status, findings>>
    BY <1>4 DEF Cartographer
  <2>3. CASE UNCHANGED requirements
    BY <1>1, <2>2, <2>3
  <2>4. ASSUME NEW m \in Maps, task[a].reqs = <<>>,
               requirements' = [requirements EXCEPT ![a] = m]
        PROVE  Ledger!Next
    <3>1. Ledger!Map(a, m)
      BY <2>1, <2>2, <2>4 DEF Ledger!Map
    <3> QED
      BY <3>1 DEF Ledger!Next
  <2> QED
    BY <1>4, <2>3, <2>4 DEF Cartographer
<1>5. ASSUME NEW a \in Audits, PersistFinding(a) PROVE Ledger!Next
  <2>1. /\ status[a] \in Active /\ task[a].reqs = requirements[a]
        /\ task[a].done = Len(findings[a]) /\ task[a].done < Len(requirements[a])
    BY <1>5, PCs DEF PersistFinding, At, AuditInv, AuditOK, TaskOK
  <2>2. /\ UNCHANGED <<status, requirements>>
        /\ findings' = [findings EXCEPT ![a] = Append(@, requirements[a][Len(findings[a]) + 1])]
    BY <1>5, <2>1 DEF PersistFinding
  <2>3. Len(findings[a]) + 1 <= Len(requirements[a])
    BY <2>1, Parts DEF AuditInv
  <2>4. Ledger!Answer(a)
    BY <2>1, <2>2, <2>3 DEF Ledger!Answer
  <2> QED
    BY <2>4 DEF Ledger!Next
<1>6. ASSUME NEW a \in Audits, Complete(a) PROVE Ledger!Next
  <2>1. /\ status[a] \in Active /\ CheckpointOK(a)
        /\ Len(findings[a]) = Len(requirements[a])
    BY <1>6, PCs DEF Complete, At, AuditInv, AuditOK, TaskOK
  <2>2. findings[a] = requirements[a]
    BY <2>1, Parts DEF AuditInv, CheckpointOK
  <2>3. /\ status' = [status EXCEPT ![a] = "completed"]
        /\ UNCHANGED <<requirements, findings>>
    BY <1>6 DEF Complete
  <2>4. Ledger!Complete(a)
    BY <2>1, <2>2, <2>3, PCs DEF Ledger!Complete, AuditInv, TypeOK
  <2> QED
    BY <2>4 DEF Ledger!Next
<1>7. ASSUME NEW a \in Audits, MarkFailed(a) PROVE Ledger!Next
  <2>1. status[a] \in Active
    BY <1>7, PCs DEF MarkFailed, At, AuditInv, AuditOK, TaskOK
  <2>2. /\ status' = [status EXCEPT ![a] = "failed"]
        /\ UNCHANGED <<requirements, findings>>
    BY <1>7 DEF MarkFailed
  <2>3. Ledger!Abandon(a)
    BY <2>1, <2>2, PCs DEF Ledger!Abandon, AuditInv, TypeOK
  <2> QED
    BY <2>3 DEF Ledger!Next
<1>8. ASSUME NEW a \in Audits,
             LaunchFails(a) \/ LaunchStart(a) \/ Judge(a) \/ Reporter(a)
               \/ RunRaises(a) \/ MarkFailedRefused(a)
      PROVE  UNCHANGED <<requirements, findings, status>>
  BY <1>8 DEF LaunchFails, LaunchStart, Judge, Reporter, RunRaises, MarkFailedRefused, row
<1>9. ASSUME NEW a \in Audits, NEW o \in Owners, LaunchCheck(a, o)
      PROVE  UNCHANGED <<requirements, findings, status>>
  BY <1>9 DEF LaunchCheck
<1>10. ASSUME Stop \/ Boot PROVE UNCHANGED <<requirements, findings, status>>
  BY <1>10 DEF Stop, Boot, row
<1> QED
  BY <1>1, <1>2, <1>3, <1>4, <1>5, <1>6, <1>7, <1>8, <1>9, <1>10 DEF Next, Launch, Run

\* Every behaviour of the service is a behaviour of the ledger: maps are made
\* once, answered in order, and nothing answered is lost or answered twice.
THEOREM AuditImplementsLedger == Spec => LedgerSpec
<1>1. AuditInv /\ [Next]_vars => [Ledger!Next]_(Ledger!vars)
  BY LedgerStep
<1> QED
  BY <1>1, LedgerInit, AuditInvCorrect, PTL DEF Spec, LedgerSpec, Ledger!Spec
=============================================================================
