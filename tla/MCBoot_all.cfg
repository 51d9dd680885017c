SPECIFICATION FairSpec
CONSTANTS
  Procs = {p1, p2}
  NoProc = NoProc
  Models = {small, twin, big}
  small = small
  twin = twin
  big = big
  NoModel = NoModel
  Dim <- MCDim
  BaseDim = 3
  UpgradeDim = 10
  NFiles = 2
  Settings <- MCSettings
  MaxBoots = 3
  MaxFaults = 1
INVARIANTS
  MigrationsInOrder
  IndexOfOneModel
  PoolDiscipline
PROPERTIES
  BootSettles
CHECK_DEADLOCK FALSE
