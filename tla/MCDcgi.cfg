SPECIFICATION Spec
CONSTANTS
  l1 = l1
  l2 = l2
  Workers = {w1, w2, w3}
  Libs = {l1, l2}
  HasDealloc = {l1}
  DcgiRoutes <- MCRoutes
  DcgiCodes <- MCCodes
SYMMETRY MCWorkerSymmetry
INVARIANTS
  TypeOK
  OutcomeAsPromised
  ReferencesKept
  CodeStaysMapped
  OutParamsReleased
CHECK_DEADLOCK FALSE
