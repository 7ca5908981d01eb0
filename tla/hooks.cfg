\* The first thread, frozen or not, the one that loads the DLL, and one that may
\* be started at any time.
CONSTANTS
  Thread = {m, l, a}
  Main = m
  Loader = l
  Locker = {a}
  None = None
SPECIFICATION FairSpec
INVARIANTS
  TypeOK
  CaughtStaySafe
PROPERTY
  InstallEnds
CHECK_DEADLOCK FALSE
