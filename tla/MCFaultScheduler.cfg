\* Two and three faults on one node.
CONSTANTS
  n1 = n1
  Nodes = {n1}
  MaxSpawns = 3
  MaxFaults = 3
  MaxStalls = 1
  Schedules <- PairsAndTriples
SPECIFICATION FairSpec
INVARIANTS
  PauseHasRecovery
  AuditComplete
PROPERTIES
  UsesManager
  ShutdownCompletes
CHECK_DEADLOCK FALSE
