SPECIFICATION FormatsSpec
INVARIANTS
  AllBytesArrive
  TimerOnTime
  
  AllLinesSplit
  FramesFit
  TablesFit
