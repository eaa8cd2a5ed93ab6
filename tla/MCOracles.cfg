\* A cluster with one leader per term or several; a store, correct or not.
CONSTANTS
  Checkers = {"no_two_leaders", "read_after_acknowledged_write"}
  NodeCount = 3
  Clusters = {"raft", "broken"}
  MaxTerm = 2
  MaxSweeps = 3
  MaxKills = 1
  Clients = {c1, c2}
  MaxTime = 4
  MaxOps = 4
  Lifetimes = {2}
  Services <- JudgedServices
  MaxLate = 1
SPECIFICATION OraclesSpec
SYMMETRY ClientSymmetry
INVARIANTS
  OneLeaderPerTermIsNotReported
  RivalsInOneTermAreReported
  SeparateLeadersAreNotReported
  ReadsNoFalseReport
  ReadsSequentialIsExact
CHECK_DEADLOCK FALSE
