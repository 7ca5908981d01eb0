SPECIFICATION CallFairSpec
CONSTANTS
  Client = {a1, a2, a3}
  MaxEvents = 3
  MaxQueue = 1
  None = None
INVARIANTS CallTypeOK PendingIrpHeld
PROPERTIES ExitCompletes ImplementsChannel
CHECK_DEADLOCK FALSE
