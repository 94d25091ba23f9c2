SPECIFICATION Spec
CONSTANTS
  trip = trip
  NoRoute = NoRoute
  Route = {trip}
  Ends <- MCEnds
  Day = {1, 2, 3}
  Length = {0, 1}
  Hours = {0, 1}
  DefaultMaxHours = 1
  Price = {0}
  Message <- MCBackwardsMessage
  Omission <- MCNoOmission
  RedispatchCap = 2
  Starter = {shell}
  Repl = shell
  shell = shell
  collector = collector
  Pieces = 2
  MaxFaults = 0
  MaxLines = 2
CHECK_DEADLOCK FALSE
INVARIANT NoBackwardsTrip
