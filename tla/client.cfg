SPECIFICATION Spec
CONSTANTS
  Client = {c}
  Pipes = 4
  Size = 2
  MaxShown = 2
  MaxEvents = 3
  MaxStarts = 3
  None = None
INVARIANTS TypeOK NothingSkipped NewestShown
PROPERTIES LiveStay Reconnected QueueDrains
CHECK_DEADLOCK FALSE
