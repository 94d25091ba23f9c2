SPECIFICATION Spec
CONSTANTS
  a = a
  b = b
  h = h
  k = k
  x = x
  y = y
  Airport = {a, b, h, k, x, y}
  s1 = s1
  s2 = s2
  Search = {s1}
  Input <- SmallInput
  Market <- MCMarket
  Routes <- SmallRoutes
  Country <- MCCountry
  Minutes <- MCMinutes
  Prior <- MCPrior
  MinHubOutDegree = 2
  Day = 10
  MaxTime = 16
  MinLayover = 1
  MaxLayover = 4
  MaxFaults = 0
CHECK_DEADLOCK FALSE
INVARIANT AsGoodAsOneHub
