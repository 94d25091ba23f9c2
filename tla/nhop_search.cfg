SPECIFICATION MCSpec
CONSTANTS
  a = a
  b = b
  h = h
  k = k
  x = x
  y = y
  Airport = {a, b, h, k, x, y}
  s1 = s1
  s2 = s2
  Search = {s1, s2}
  Input <- MCInput
  Market <- MCMarket
  Routes <- MCRoutes
  Country <- MCCountry
  Minutes <- MCMinutes
  Prior <- MCPrior
  MinHubOutDegree = 2
  Day = 10
  MaxTime = 16
  MinLayover = 1
  MaxLayover = 4
  MaxFaults = 1
SYMMETRY Symmetric
CHECK_DEADLOCK FALSE
INVARIANTS TypeOK LabelsAreFront BestIsCheapest ItinerariesCanBeFlown ItinerariesAreAllowed EdgesTriedOnce NothingLeftOut BudgetKept
