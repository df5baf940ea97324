SPECIFICATION Spec
CONSTANTS
  PayloadSizes <- MCLargeSizes
  CounterMod <- MCMod
  Start <- MCStart
  MaxCalls = 1
  MaxTables = 2
INVARIANTS PesLengthStated
CHECK_DEADLOCK FALSE
