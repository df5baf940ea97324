\* The clocks and lengths in the headers, as a decoder finds them.
CONSTANTS
  Timestamps <- MCTimestamps
  CompositionTimes <- MCCompositionTimes
  FrameSizes <- MCFrameSizes
  MaxFrames = 2
SPECIFICATION Spec
INVARIANTS
  FieldsDecode
  ClocksAgree
\* Every frame is written and read: nothing is left to do.
CHECK_DEADLOCK FALSE
