SPECIFICATION Spec
CONSTANTS
  Passages = {p1, p2, p3}
  Keep = 2
  Reranking = FALSE
  MaxSearchRepairs = 2
  MaxWriteRepairs = 2
  MaxReplans = 1
  RecursionLimit = 25
INVARIANT
  SearchReachesWriter
CHECK_DEADLOCK FALSE
