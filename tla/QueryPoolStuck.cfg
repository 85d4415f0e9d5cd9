SPECIFICATION Spec
CONSTANTS
  N = 2
  MaxRecs = 2
  PipeCap = 1
  MAXRECORDS = 4
  MaxQueries = 2
  WorkersMayDie = TRUE
CHECK_DEADLOCK FALSE
PROPERTIES
  AnyQueryIsAnswered
