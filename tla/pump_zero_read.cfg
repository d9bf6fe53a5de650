SPECIFICATION Spec
CONSTANTS
  Radix = 3
  RingSize = 9
  MaxHeader = 8
  V1 = 1
  V2 = 2
  HdrV1 = 2
  HdrV2 = 1
  Streams <- AllStreams
  Modes = {TRUE, FALSE}
  Stale = {1}
  SockCap = 4
  MaxSessions = 1
  SplitHeaders = FALSE
PROPERTY
  ZeroMeansClosed
