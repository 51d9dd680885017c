------------------------------ MODULE Readiness ------------------------------
(***************************************************************************)
(* The readiness probe (routes/health.py): the database and both providers *)
(* are checked one after the other, and the verdict is cached for a while. *)
(* Probes overlap, and dependencies fail and recover meanwhile: a check    *)
(* may turn out either way.                                                *)
(***************************************************************************)
EXTENDS Naturals, Sequences

CONSTANTS
  Probes,       \* GET /readyz requests
  Deps,         \* the dependencies, in the order of their checks
  ReadyTtl,     \* READYZ_TTL_SECONDS
  MaxSeconds    \* bound: the clock

ASSUME ReadyAssumption == ReadyTtl \in Nat \ {0} /\ Deps \in Seq(STRING)

VARIABLES
  seconds,
  cache,        \* <<>>, or the stamp, the checks and when each was made
  probe         \* the requests: pc, when they began, their checks

readyVars == <<seconds, cache, probe>>

ReadyInit ==
  /\ seconds = 0
  /\ cache = <<>>
  /\ probe = [p \in Probes |-> [pc |-> "new", began |-> 0, checks |-> <<>>]]

Second ==
  /\ seconds < MaxSeconds
  /\ seconds' = seconds + 1
  /\ UNCHANGED <<cache, probe>>

\* From the cache, or the stamp of a new verdict.
Begin(p) ==
  /\ probe[p].pc = "new"
  /\ probe' = [probe EXCEPT ![p] =
                 IF cache # <<>> /\ seconds - cache[1].stamp < ReadyTtl
                 THEN [pc |-> "answered", began |-> seconds, checks |-> cache[1].checks]
                 ELSE [pc |-> "checking", began |-> seconds, checks |-> <<>>]]
  /\ UNCHANGED <<seconds, cache>>

\* One dependency; a failure is a verdict and not the end of the probe.
Check(p) ==
  /\ probe[p].pc = "checking" /\ Len(probe[p].checks) < Len(Deps)
  /\ \E ok \in BOOLEAN :
       probe' = [probe EXCEPT ![p].checks = Append(@, [ok |-> ok, at |-> seconds])]
  /\ UNCHANGED <<seconds, cache>>

\* Mutant: the verdict is stamped when it is stored.
StampLate(p) == seconds

\* "now" was read before the checks.
Stamp(p) == probe[p].began

StoreVerdict(p) ==
  /\ probe[p].pc = "checking" /\ Len(probe[p].checks) = Len(Deps)
  /\ cache' = <<[stamp |-> Stamp(p), checks |-> probe[p].checks]>>
  /\ probe' = [probe EXCEPT ![p].pc = "answered"]
  /\ UNCHANGED seconds

ReadyNext ==
  \/ Second
  \/ \E p \in Probes : Begin(p) \/ Check(p) \/ StoreVerdict(p)

ReadySpec == ReadyInit /\ [][ReadyNext]_readyVars

-----------------------------------------------------------------------------
(* Correctness. *)

\* No answer rests on a check that was made before its request, but for less than the cache's
\* life, also when a slow probe stores its verdict over a later one (health.py:31-67).
ReadinessIsRecent ==
  \A p \in Probes :
    probe[p].pc = "answered" =>
      /\ Len(probe[p].checks) = Len(Deps)
      /\ \A i \in 1..Len(Deps) : probe[p].checks[i].at + ReadyTtl > probe[p].began

=============================================================================
