SPECIFICATION FairSpec
CONSTANTS
  c1 = c1
  c2 = c2
  c3 = c3
  s1 = s1
  s2 = s2
  s3 = s3
  n1 = n1
  n2 = n2
  NULL = NULL
  ListenFd = 3
  Fd = {4, 5}
  Addr <- TwoAddrs
  SAddr <- TwoStudents
  Names <- OneName
  Courses = {"CSC209"}
  BadCourse = "CSC999"
  MaxTas = 1
  Departures = {"closed"}
  MaxLines = 1
  MaxUnread = 0
  Overlong = TRUE
  MaxBacklog = 1
CHECK_DEADLOCK FALSE
PROPERTIES
  DismissedAreRemoved
