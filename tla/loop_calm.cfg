SPECIFICATION FairSpec
CONSTANTS
  Request = {r1, r2}
  Mail = {m1, m2, m3}
  EagerMail = {m3}
  Completing = {m2}
  Intake = {i1}
  Slot = {s1}
  Partition = {p1}
  DecisionPartition <- MCOnePartition
  RedispatchCap = 2
  Faults <- NoFaults
  MaxFaults = 0
CHECK_DEADLOCK FALSE
INVARIANTS NeverStranded AnswerCoversReplies
PROPERTIES EveryRequestParks KeepsLifecycleGoing
