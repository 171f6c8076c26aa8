SPECIFICATION ReadSpec
CONSTANTS
  Body = {"b1", "b2"}
  MaxLegacy = 2
  MaxRows = 5
  MAX_VERIFY_ROWS = 4
  Limits = {0, 1, 9}
  MAX_LIMIT = 3
  DEFAULT_LIMIT = 2
  NotGiven = NotGiven
INVARIANTS BackfillKeepsHistory IntactVouchesForPrefix EditDetected DeletionDetected RelinkDetected PagingNeitherSkipsNorRepeats
CHECK_DEADLOCK FALSE
