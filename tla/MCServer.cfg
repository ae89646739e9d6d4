SPECIFICATION FairSpec
CONSTANTS
  c1 = c1
  c2 = c2
  Conns = {c1, c2}
  Fds = {3, 4}
  MaxPending = 1
  Routes <- MCRoutes
  Requests <- MCRequests
  DcgiCodes <- MCDcgiCodes
  Malformed = Malformed
  NoInput = NoInput
  NoConn = NoConn
  NoFd = NoFd
  UrlMatches <- MCUrlMatches
  AcceptMayFail = TRUE
INVARIANTS
  TypeOK
  DescriptorAccounting
  Answered
  NothingUndue
  ConfigOutlivesAccepting
PROPERTIES
  ImplementsService
  NoCrossTalk
  EveryRequestFinishes
  BacklogDrains
CHECK_DEADLOCK FALSE
