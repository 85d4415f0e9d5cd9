SPECIFICATION Spec
CONSTANTS
  a1 = a1
  a2 = a2
  a3 = a3
  a4 = a4
  a5 = a5
  n1 = n1
  n2 = n2
  n3 = n3
  SAddr <- MCAddrs
  Names <- MCNames
  Courses = {"CSC209"}
  BadCourse = "CSC999"
  MaxTas = 2
  UniqueTas = TRUE
  NULL = NULL
SYMMETRY Symmetry
INVARIANTS
  TypeOK
  OneQuestionEach
  HeapDiscipline
PROPERTIES
  ArrivalOrder
  ImplementsDesk
