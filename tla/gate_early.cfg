SPECIFICATION Spec
CONSTANTS
  Pid = {4, 8}
  FirstRequest = 3
  LastRequest = 4
  MaxCache = 1
PROPERTIES EarlyVerdictUsed
CHECK_DEADLOCK FALSE
