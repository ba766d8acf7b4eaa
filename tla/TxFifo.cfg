CONSTANTS
  FifoSize = 8
  MainThreshold = 2
  IsrThreshold = 5
  Banner = 2
  KeyMessage = 1
  Rate = 2
SPECIFICATION FairSpec
INVARIANTS
  NoSpin
  Wakeup
PROPERTIES
  InOrder
  Printed
