CONSTANTS
  AudioSize = 6
  StartLevel = 1
  MaxDelay = 3
  INBUF_SIZE = 2
  Numbers = 6
  MaxFaults = 2
SPECIFICATION FairSpec
INVARIANTS
  Resync
PROPERTIES
  Flow
  KeepsGoing
  PlayedInOrder
