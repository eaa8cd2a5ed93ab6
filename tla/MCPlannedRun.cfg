\* Every plan of three faults on two nodes.
CONSTANTS
  NodeCount = 2
  MaxFaults = 3
  Types <- AllTypes
  Segment = 3
  StartBuffer = 1
  StartLags = {0, 2}
  Durations = {2, 4}
  StallTimes = {1}
  IntervalTimes = {1}
  SleepTimes = {2}
SPECIFICATION Spec
INVARIANTS
  PunctualPlanSucceeds
  PictureComesTrue
CHECK_DEADLOCK FALSE
