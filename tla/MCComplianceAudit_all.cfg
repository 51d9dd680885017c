SPECIFICATION FairSpec
CONSTANTS
  Audits = {a1, a2}
  Owners = {o1}
  NoOwner = NoOwner
  Requirement = {q1, q2}
  MaxRequirements = 2
  MaxStops = 1
  MaxDbFaults = 1
INVARIANTS
  RestartCostsRemainder
  TrailTellsStatus
PROPERTIES
  LedgerSpec
  AuditsSettle
CHECK_DEADLOCK FALSE
