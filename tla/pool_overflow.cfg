SPECIFICATION Spec
CONSTANTS
  NumClients = 3
  MaxConn = 2
  Crowd = 2
  NumFd = 6
  Passthrough = FALSE
INVARIANT
  NoInternalError
