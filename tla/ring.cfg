SPECIFICATION Spec
CONSTANTS
  Byte = {0, 1}
  Capacity = 3
  MaxRead = 4
  MAX_OUTPUT_DATA = 2
  Header = 1
  MAX_PENDING_WRITE = 3
  MaxWritten = 5
INVARIANTS LabelsAreTrue
PROPERTY IsAWindow
CHECK_DEADLOCK FALSE
