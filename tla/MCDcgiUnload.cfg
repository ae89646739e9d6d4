SPECIFICATION Spec
CONSTANTS
  l1 = l1
  l2 = l2
  Workers = {w1, w2}
  Libs = {l1, l2}
  HasDealloc = {l1}
  DcgiRoutes <- MCRoutes
  DcgiCodes <- MCCodes
INVARIANTS
  UnloadedAfterRequest
CHECK_DEADLOCK FALSE
