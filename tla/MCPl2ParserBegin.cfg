SPECIFICATION Spec
CONSTANTS
  Files <- MCFiles
  BufferSize = 20
  PartsSize = 6
INVARIANT
  BlockIsUnclosed
CHECK_DEADLOCK FALSE
