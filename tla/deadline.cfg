\* The limits of the code, in seconds.
SPECIFICATION Spec
CONSTANTS
  Requests = 3
  Workers = 2
  MaxQueue = 3
  KernelWait = 5
  ScanWait = 4
PROPERTIES WaitFallsThrough
CHECK_DEADLOCK FALSE
