CONSTANTS
  Half = 4
  Limit = 3
  Checkers = {reads}
  Faults <- MCFaults
  Clients = {1, 3}
  Durations <- MCDurations
  MaxRuns = 2
  Options <- MCOptions
  MaxPid = 3
  MaxBirths = 4
SPECIFICATION Spec
INVARIANTS
  GreenMeansAllPassed
  EverySeedIsAccountedFor
  SavedHasFailed
  LocallyMinimal
  PassedIsEarned
  ExecutedIsRecorded
  OnlyOwnAreKilled
  SeenAreKilled
PROPERTIES
  EvidenceIsAppendOnly
  MatrixEnds
  ImplementsExecution
CHECK_DEADLOCK FALSE
