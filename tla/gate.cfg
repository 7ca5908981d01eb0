SPECIFICATION FairSpec
CONSTANTS
  Pid = {4, 8}
  FirstRequest = 3
  LastRequest = 4
  MaxCache = 1
INVARIANTS TypeOK FailClosed VerdictHonoured UnloadDrains CacheFaithful
PROPERTIES FrozenReleased UnloadCompletes ImplementsGate
CHECK_DEADLOCK FALSE
