SPECIFICATION Spec
CONSTANTS
  Requests = 2
  Workers = 2
  MaxReplaced = 1
  None = None
  Version <- MCVersion
INVARIANTS WaiterRevalidates
CHECK_DEADLOCK FALSE
