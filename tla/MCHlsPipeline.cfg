SPECIFICATION Spec
CONSTANTS
  Files <- MCFiles
  SetSize <- MCSetSize
  TimeMod = 16
  Duration = 2
  PAT_PMT_INTERVAL = 3
  Sequences = {0, 1, 2}
  PageEntries = 3
  MaxRestarts = 1
INVARIANTS TypeOK SameSegment NeverForeign PlaylistServable
PROPERTIES ListedGetsIndexed
CHECK_DEADLOCK FALSE
