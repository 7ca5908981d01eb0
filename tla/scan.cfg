SPECIFICATION Spec
CONSTANTS
  Requests = 3
  Workers = 2
  MaxReplaced = 1
  None = None
  Version <- MCVersion
INVARIANTS TypeOK OneScanner AllowNeedsScan VerdictFresh
CHECK_DEADLOCK FALSE
