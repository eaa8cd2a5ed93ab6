CONSTANT Configs <- MCConfigs
SPECIFICATION Spec
INVARIANTS
  PassedIsJudged
  LostWriteIsNotHidden
  VerdictIsOfFullRun
PROPERTY RunEnds
CHECK_DEADLOCK FALSE
