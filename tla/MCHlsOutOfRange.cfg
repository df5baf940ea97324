SPECIFICATION Spec
CONSTANTS
  Files <- MCFiles
  SetSize <- MCSetSize
  TimeMod = 16
  Duration = 2
  PAT_PMT_INTERVAL = 3
  Sequences = {0, 2}
  PageEntries = 4
  MaxRestarts = 1
INVARIANTS OutOfRangeRefused
CHECK_DEADLOCK FALSE
