SPECIFICATION MCSpec
CONSTANTS
  a = a
  b = b
  c = c
  d = d
  h = h
  city = city
  village = village
  Airport = {a, b, c, d, h}
  City = {city, village}
  Near <- MCNear
  OutDegree <- MCOutDegree
  MinOutDegree = 2
  MaxCandidates = 2
  s1 = s1
  s2 = s2
  Search = {s1, s2}
  Task <- MCTask
  Input <- MCInput
  Market <- MCMarket
  Hubs <- MCHubs
  Prior <- MCPrior
  Day = 10
  MaxTime = 16
  MinLayover = 1
  MaxLayover = 4
  MaxFailures = 1
CHECK_DEADLOCK FALSE
INVARIANTS DispatchTypeOK FailureCostsOnePair AnswerIsOfItsDates NoDearerThanTwoTickets SpendsAsAnnounced CeilingKeptOneWay
