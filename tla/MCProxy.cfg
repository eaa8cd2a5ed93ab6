CONSTANTS
  Endpoints = {c1, n1}
  Requests = {r1}
  MaxFaults = 5
SPECIFICATION Spec
INVARIANTS
  PassedWhenOpen
  ReasonIsTrue
  OneEcho
  RecordIsTrue
CHECK_DEADLOCK FALSE
