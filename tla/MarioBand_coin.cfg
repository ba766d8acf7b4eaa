CONSTANTS
  Pages = {"a"}
  Careful = {}
  Buttons = {1, 11}
  MaxPlays = 4
SPECIFICATION Spec
INVARIANT ThemeStopsTheme
CHECK_DEADLOCK FALSE
