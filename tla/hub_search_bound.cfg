SPECIFICATION Spec
CONSTANTS
  a = a
  b = b
  h = h
  k = k
  Airport = {a, b, h, k}
  s1 = s1
  s2 = s2
  Search = {s1, s2}
  Input <- BagInput
  Market <- BagMarket
  Hubs <- MCHubs
  Prior <- MCPrior
  Day = 10
  MaxTime = 16
  MinLayover = 1
  MaxLayover = 4
  MaxFailures = 0
SYMMETRY Symmetric
CHECK_DEADLOCK FALSE
INVARIANT AlwaysBest
