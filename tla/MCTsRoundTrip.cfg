SPECIFICATION RoundTripSpec
CONSTANTS
  PayloadSizes <- MCPayloadSizes
  CounterMod <- MCMod
  Start <- MCStart
  MaxCalls = 3
  MaxTables = 2
INVARIANTS ReadersAccept PayloadsReadBack
CHECK_DEADLOCK FALSE
