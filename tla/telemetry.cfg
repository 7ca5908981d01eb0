\* A part of the temporary path is what a file opened relative to it is reported by.
SPECIFICATION Spec
CONSTANTS
  tmp = tmp
  exe = exe
  rel = rel
  File = {f, g}
  Indexed = {f}
  Path = {tmp, exe}
  Part = {rel}
  Meant <- MCMeant
  Temp = {tmp}
  Ext <- MCExt
  ExecExt <- MCExecExt
  User = {u1}
  Agent = Agent
  Capacity = 1
  MaxOps = 3
  None = None
INVARIANTS TypeOK OwnIoUnseen FlagsEarned
CHECK_DEADLOCK FALSE
