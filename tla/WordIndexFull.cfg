SPECIFICATION Spec
CONSTANTS
  f1 = f1
  f2 = f2
  f3 = f3
  f4 = f4
  g1 = g1
  MAXFILES = 3
  Files <- Three
  Directories <- ThreeAndElsewhere
  Dotted <- ThreeFiles
  NumWords = 3
  Cut <- LongWords
  MaxTokens <- TwoRuns
SYMMETRY Symmetry
CHECK_DEADLOCK FALSE
INVARIANTS
  IndexIsReadable
