SPECIFICATION Spec
CONSTANTS
  Docs = {d1, d2}
  Content = {c1}
  Blank = {}
  NoContent = NoContent
  NoDoc = NoDoc
  Requests = {r1, r2, r3}
  EmbedSlots = 1
  MaxCrashes = 0
  MaxDbFaults = 0
  MaxCommitFaults = 1
INVARIANT OneWorkerPerDocument
CHECK_DEADLOCK FALSE
