SPECIFICATION Spec
CONSTANTS
  Agent = {a1, a2}
  Event = {e1, e2}
  Conn = {h1, h2}
  MaxCommands = 2
  Timeout = 0
  None = None
INVARIANTS TypeOK HandedOutOnce DeliveredIsSomewhere
PROPERTIES CompletedStays
CHECK_DEADLOCK FALSE
SYMMETRY Symmetry
