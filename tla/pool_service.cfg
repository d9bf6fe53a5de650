SPECIFICATION FairSpec
CONSTANTS
  NumClients = 3
  MaxConn = 2
  Crowd = 3
  NumFd = 5
  Passthrough = TRUE
INVARIANTS
  TypeOK
  DescriptorsOwned
  SessionPairing
  RingsExclusive
PROPERTIES
  ServiceRefined
  ClientAnswered
  LeaverReleased
