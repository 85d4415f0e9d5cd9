SPECIFICATION BufSpec
CONSTANTS
  CR = 13
  LF = 10
  NUL = 0
  BUFSIZE = 30
  MESSAGE <- MCMessage
  TIMES = 3
  MINCHARS = 3
  MAXCHARS = 7
CHECK_DEADLOCK FALSE
INVARIANTS
  BufTypeOK
  StreamIsKept
PROPERTIES
  HangsUpOnlyAtTheEnd
  EveryConnectionEnds
