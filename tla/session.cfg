SPECIFICATION MCSpec
CONSTANTS
  trip = trip
  NoRoute = NoRoute
  Route = {trip}
  Ends <- MCEnds
  Day = {1, 2, 3}
  Length = {0, 1}
  Hours = {0, 1}
  DefaultMaxHours = 1
  Price = {0}
  Message <- MCMessage
  Omission <- MCOmission
  RedispatchCap = 2
  Starter = {shell, collector}
  Repl = shell
  shell = shell
  collector = collector
  Pieces = 2
  MaxFaults = 1
  MaxLines = 3
CHECK_DEADLOCK FALSE
INVARIANTS SearchesMakeSense LinkIsOfWhatWasFound ShownIsForTheLastLine FilesWholeAtRest
PROPERTIES SessionFollowsLifecycle EveryLineComesBack
