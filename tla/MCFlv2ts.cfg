SPECIFICATION Spec
CONSTANTS
  Files <- MCFiles
  SetSize <- MCSetSize
  TimeMod = 16
  Duration = 2
  PAT_PMT_INTERVAL = 3
INVARIANTS
  TypeOK PsiCadence ParameterSetsOncePerFile EveryTagOnce
  ContinuityAcrossFiles FilesHaveTheirDuration
CHECK_DEADLOCK FALSE
