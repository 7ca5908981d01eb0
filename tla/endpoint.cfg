\* Three processes and two workers.  The limits of the code, five and four seconds,
\* are scaled: one wait for a scan is shorter than the kernel's wait, two are not.
CONSTANTS
  Requests = 3
  Workers = 2
  MaxQueue = 1
  KernelWait = 2
  ScanWait = 1
SPECIFICATION Spec
INVARIANTS
  TypeOK
PROPERTIES
  TimeoutHasReason
  EventAnswered
CHECK_DEADLOCK FALSE
