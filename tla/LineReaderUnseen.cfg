SPECIFICATION Spec
CONSTANTS
  CR = "CR"
  LF = "LF"
  NUL = "NUL"
  Text = {"x"}
  INPUT_BUFFER_SIZE = 6
  MaxBytes = 9
CHECK_DEADLOCK FALSE
INVARIANTS
  FindsTheNewline
