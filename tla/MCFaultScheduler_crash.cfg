\* Violation: the end of a run is recorded as a crash of a restarted node.
CONSTANTS
  n1 = n1
  Nodes = {n1}
  MaxSpawns = 2
  MaxFaults = 1
  MaxStalls = 1
  Schedules <- OneRestart
SPECIFICATION Spec
PROPERTIES
  NormalEndIsNoCrash
CHECK_DEADLOCK FALSE
