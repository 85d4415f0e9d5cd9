SPECIFICATION Spec
CONSTANTS
  N = 3
  MaxRecs = 2
  PipeCap = 2
  MAXRECORDS = 6
  MaxQueries = 2
  WorkersMayDie = TRUE
CHECK_DEADLOCK FALSE
INVARIANTS
  TypeOK
  AnswersMatch
PROPERTIES
  QueryIsAnswered
  EverybodyExits
