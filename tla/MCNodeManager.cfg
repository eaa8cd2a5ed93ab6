\* One node, started up to three times.
CONSTANTS
  Nodes = {n1}
  MaxSpawns = 3
SPECIFICATION FairSpec
INVARIANTS
  NoOrphan
  StateMatchesProcess
PROPERTIES
  OwnStopIsNoCrash
  ImplementsLifecycle
  StopAllCompletes
  EndsAreNoticed
CHECK_DEADLOCK FALSE
