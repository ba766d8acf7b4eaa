CONSTANTS
  Keys = {1, 8, 10}
  MaxKeys = 4
  MaxBacklog = 3
  MaxLost = 3
SPECIFICATION KeySpec
INVARIANTS
  NoKeyLost
  PlayedInOrder
PROPERTY AlwaysQuiet
CHECK_DEADLOCK FALSE
