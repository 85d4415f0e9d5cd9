SPECIFICATION Spec
CONSTANTS
  c1 = c1
  c2 = c2
  c3 = c3
  s1 = s1
  s2 = s2
  s3 = s3
  n1 = n1
  n2 = n2
  NULL = NULL
  ListenFd = 3
  Fd = {4, 5}
  Addr <- ThreeAddrs
  SAddr <- TwoStudents
  Names <- TwoNames
  Courses = {"CSC209"}
  BadCourse = "CSC999"
  MaxTas = 2
  Departures = {"closed"}
  MaxLines = 1
  MaxUnread = 0
  Overlong = FALSE
  MaxBacklog = 1
SYMMETRY Symmetry
VIEW Matters
CHECK_DEADLOCK FALSE
INVARIANTS
  RemovedIsUnlinked
