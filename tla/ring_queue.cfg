SPECIFICATION RingSpec
CONSTANTS
  Radix = 2
  RingSize = 8
  Temps = {TRUE, FALSE}
INVARIANTS
  HoldsFifo
  RoomExact
PROPERTIES
  Straightens
