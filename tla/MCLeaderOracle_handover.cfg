\* Violation: a handover between two sweeps.
CONSTANTS
  NodeCount = 2
  Clusters = {"single"}
  MaxTerm = 2
  MaxSweeps = 2
  MaxKills = 1
SPECIFICATION Spec
INVARIANTS
  HandoverIsNoViolation
CHECK_DEADLOCK FALSE
