SPECIFICATION Spec
CONSTANTS
  Files <- MCFiles
  SetSize <- MCSetSize
  TimeMod = 16
  Duration = 2
  PAT_PMT_INTERVAL = 3
INVARIANTS LatestParameterSets
CHECK_DEADLOCK FALSE
