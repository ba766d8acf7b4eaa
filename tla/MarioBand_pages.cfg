CONSTANTS
  Pages = {"a", "b"}
  Careful = {"a"}
  Buttons = {1, 11}
  MaxPlays = 4
SPECIFICATION Spec
INVARIANTS
  StopsOwn
  ThemeCanBeStopped
CHECK_DEADLOCK FALSE
