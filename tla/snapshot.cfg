\* Two clients and two requests, of one client or of both; answers of two chunks,
\* and a pipe that holds the length and one of them.
CONSTANTS
  Client = {a, b}
  File = {f, g}
  Limit = 2
  Size = 2
  MaxRequests = 2
  MaxChanges = 2
  MaxStarts = 1
  None = None
SPECIFICATION Spec
INVARIANTS
  TypeOK
  WholeOrError
PROPERTIES
  NeverOlder
  LoadingEnds
CHECK_DEADLOCK FALSE
