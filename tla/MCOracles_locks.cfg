\* An exclusive lock service behind a lossy network, and one that is not exclusive.
CONSTANTS
  Checkers = {"lock_exclusivity"}
  NodeCount = 1
  Clusters = {"raft"}
  MaxTerm = 1
  MaxSweeps = 1
  MaxKills = 0
  Clients = {c1, c2}
  MaxTime = 5
  MaxOps = 4
  Lifetimes = {2}
  Services <- JudgedServices
  MaxLate = 1
SPECIFICATION OraclesSpec
SYMMETRY ClientSymmetry
INVARIANTS
  LocksNoFalseReport
  SharedLeaseIsReported
CHECK_DEADLOCK FALSE
