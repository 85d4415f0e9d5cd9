SPECIFICATION Spec
CONSTANTS
  a1 = a1
  a2 = a2
  a3 = a3
  a4 = a4
  n1 = n1
  n2 = n2
  n3 = n3
  k1 = k1
  k2 = k2
  SAddr <- MCAddrs
  Names <- MCNames
  Courses <- MCCourses
  BadCourse = "CSC999"
  MaxTas = 2
  MaxCount = 2
  MaxBailed = 1
  MaxLeaked = 1
  CarefulTas = FALSE
  NULL = NULL
SYMMETRY Symmetry
CHECK_DEADLOCK FALSE
INVARIANTS
  NoTaHoldsFreed
