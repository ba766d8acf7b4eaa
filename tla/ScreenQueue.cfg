CONSTANTS
  Lines <- LinesValue
  MaxLines = 3
SPECIFICATION ScreenSpec
INVARIANT LinesWhole
PROPERTY LinesSent
