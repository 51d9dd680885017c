SPECIFICATION Spec
CONSTANTS
  Files <- MCFiles
  Size = 6
  Overlap = 2
  Batch = 2
  MinText = 3
  MaxItems = 4
INVARIANTS
  ChunkBounded
  NothingLost
  ChunkNamesItsPlace
  VectorOfOwnText
CHECK_DEADLOCK FALSE
