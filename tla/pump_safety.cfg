SPECIFICATION Spec
CONSTANTS
  Radix = 3
  RingSize = 9
  MaxHeader = 8
  V1 = 1
  V2 = 2
  HdrV1 = 2
  HdrV2 = 1
  Streams <- ReuseStreams
  Modes = {FALSE}
  Stale = {1}
  SockCap = 4
  MaxSessions = 2
  SplitHeaders = TRUE
INVARIANTS
  StreamIntegrity
  TypeOK
  RingHoldsStream
  RingAnchored
  OneFrame
PROPERTY
  RelayRefined
