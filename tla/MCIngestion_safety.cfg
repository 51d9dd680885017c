SPECIFICATION Spec
CONSTANTS
  Docs = {d1, d2, d3}
  Content = {c1, c2}
  Blank = {c2}
  NoContent = NoContent
  NoDoc = NoDoc
  Requests = {r1, r2, r3}
  EmbedSlots = 1
  MaxCrashes = 1
  MaxDbFaults = 2
  MaxCommitFaults = 0
SYMMETRY Symmetry
INVARIANTS
  OneWorkerPerDocument
  ProcessingHasWorker
  ReadyIsComplete
PROPERTY CatalogSpec
CHECK_DEADLOCK FALSE
