CONSTANTS
  AudioSize = 64
  StartLevel = 32
  MaxDelay = 30
SPECIFICATION FairSpec
INVARIANTS
  NeverFull
PROPERTIES
  NoUnderrun
  EventuallyConnected
