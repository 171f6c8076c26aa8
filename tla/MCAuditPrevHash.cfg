SPECIFICATION Spec
CONSTANTS
  Body = {"b1", "b2"}
  MaxLegacy = 2
  MaxRows = 5
  MAX_VERIFY_ROWS = 4
INVARIANTS WrongPrevHashDetected
CHECK_DEADLOCK FALSE
