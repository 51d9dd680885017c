SPECIFICATION MCSpec
CONSTANTS
  AuthRequests = {r1, r2}
  Kids = {k1, k2}
  ApiUsers = {alice}
  Stranger = mallory
  Ttl = 1
  Latency = 1
  MaxTime = 4
  Initial = {k1}
  Probes = {p1, p2}
  Deps <- MCDeps
  ReadyTtl = 2
  MaxSeconds = 4
  Texts <- MCTexts
  MaxPassages = 2
  MaxReply = 2
  Questions = {1, 2, 3}
  Topics = {t1, t2}
  Chats = {c1, c2}
  Exports = {e1}
  OneTab = FALSE
  ListLimit = 1
  WindowDays = 0
  MaxDay = 1
INVARIANTS
  UnansweredIsByRequest
CHECK_DEADLOCK FALSE
