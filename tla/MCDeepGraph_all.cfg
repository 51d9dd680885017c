SPECIFICATION FairSpec
CONSTANTS
  Passages = {p1, p2, p3}
  Keep = 2
  Reranking = TRUE
  MaxSearchRepairs = 2
  MaxWriteRepairs = 2
  MaxReplans = 1
  RecursionLimit = 25
INVARIANTS
  WithinRecursionLimit
  DeliveredTogether
PROPERTY Concludes
CHECK_DEADLOCK FALSE
