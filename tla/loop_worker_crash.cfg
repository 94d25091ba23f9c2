SPECIFICATION Spec
CONSTANTS
  Request = {r1}
  Mail = {m1}
  EagerMail = {}
  Completing = {}
  Intake = {i1}
  Slot = {s1}
  Partition = {p1}
  DecisionPartition <- MCOnePartition
  RedispatchCap = 2
  Faults <- WorkerCrashes
  MaxFaults = 1
CHECK_DEADLOCK FALSE
INVARIANT NeverStranded
