SPECIFICATION FairSpec
CONSTANTS
  Docs = {d1, d2}
  Content = {c1}
  Blank = {}
  NoContent = NoContent
  NoDoc = NoDoc
  Requests = {r1, r2}
  EmbedSlots = 1
  MaxCrashes = 0
  MaxDbFaults = 1
  MaxCommitFaults = 0
PROPERTY ProcessingResolves
CHECK_DEADLOCK FALSE
