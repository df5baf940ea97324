SPECIFICATION Spec
CONSTANTS
  PayloadSizes <- MCPayloadSizes
  CounterMod <- MCMod
  Start <- MCStart
  MaxCalls = 3
  MaxTables = 2
INVARIANTS TypeOK PacketsWellFormed CounterContinuity PacketCount
PROPERTIES EveryCallReturns Delivers
CHECK_DEADLOCK FALSE
