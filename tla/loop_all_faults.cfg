SPECIFICATION Spec
CONSTANTS
  Request = {r1}
  Mail = {m1, m2, m3}
  EagerMail = {m2, m3}
  Completing = {m1}
  Intake = {i1, i2}
  Slot = {s1}
  Partition = {p1}
  DecisionPartition <- MCOnePartition
  RedispatchCap = 2
  Faults <- AllFaults
  MaxFaults = 1
CHECK_DEADLOCK FALSE
INVARIANTS TypeOK SearchesCapped IdsResolve TasksPublishedOnce NoReplyWithoutSearch
SYMMETRY Interchangeable
