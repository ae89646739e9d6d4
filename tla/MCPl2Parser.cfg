SPECIFICATION Spec
CONSTANTS
  Files <- MCFiles
  BufferSize = 20
  PartsSize = 6
INVARIANTS
  TypeOK
  CommandsAsWritten
  WellFormedIsRead
  AheadIntact

PROPERTY
  ParseEnds
  TextsStay
CHECK_DEADLOCK FALSE
