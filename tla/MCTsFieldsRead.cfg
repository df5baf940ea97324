\* The clocks that ts::Parser hands out, one second into a file.
CONSTANTS
  Timestamps = {1000}
  CompositionTimes = {40}
  FrameSizes = {200}
  MaxFrames = 1
SPECIFICATION Spec
INVARIANT ClocksReadBack
CHECK_DEADLOCK FALSE
