SPECIFICATION FairSpec
CONSTANTS
  Turns = {t1, t2}
  Openers = {t1}
  Deep = {t1}
  NoTurn = NoTurn
  NoRow = NoRow
  HistoryLimit = 10
  MaxPieces = 2
  MaxUnread = 1
  MaxFaults = 1
INVARIANTS
  RecordCoversShown
  CodeTellsEnd
  NextTurnSeesAnswer
PROPERTIES
  TrailSpec
  EveryTurnRecorded
CHECK_DEADLOCK FALSE
