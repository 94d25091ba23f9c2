SPECIFICATION FairSpec
CONSTANTS
  Caller = {c1, c2, c3}
  short = short
  long = long
  Window = {short, long}
  Per <- MCPer
  Max <- MCMax
  DistinctReadings = TRUE
  LastCall = 3
  Horizon = 9
CHECK_DEADLOCK FALSE
INVARIANTS WindowsHold OneWaitIsEnough
PROPERTY EveryWaitReturns
