CONSTANTS
  STRBUF_COUNT = 3
  LOGLINEWIDTH = 2
  RectLength = 2
  MaxChars = 7
SPECIFICATION Spec
INVARIANTS
  CommandsInOrder
  LinesAsSent
PROPERTY CommandsHandled
