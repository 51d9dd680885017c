SPECIFICATION FairSpec
CONSTANTS
  Docs = {d1, d2, d3}
  Content = {c1}
  Blank = {}
  NoContent = NoContent
  NoDoc = NoDoc
  Requests = {r1, r2, r3}
  EmbedSlots = 1
  MaxCrashes = 1
  MaxDbFaults = 0
  MaxCommitFaults = 1
PROPERTIES
  ProcessingResolves
  UploadsAnswered
CHECK_DEADLOCK FALSE
