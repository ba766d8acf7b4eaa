CONSTANTS
  Sounds = {"key", "song"}
  Size <- SizeValue
  IDs = {1, 2, 3}
  Tries = 2
  MaxLen = 2
  MaxPlays = 3
SPECIFICATION FairSpec
INVARIANTS
  UniqueIDs
  InStep
PROPERTY EveryPlayEnds
