\* One node, started up to four times; two snapshots kept.
CONSTANTS
  n1 = n1
  f1 = f1
  f2 = f2
  Nodes = {n1}
  MaxStarts = 4
  Files = {f1, f2}
  Absent = Absent
  Empty = Empty
  Part = Part
  Keep = 2
  MaxWrites = 3
  MaxMissed = 1
SPECIFICATION DataSpec
SYMMETRY FileSymmetry
PROPERTIES
  NeverUnderALiveNode
  StaleRestartIsExact
CHECK_DEADLOCK FALSE
