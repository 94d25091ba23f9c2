SPECIFICATION Spec
CONSTANTS
  Request = {r1}
  Mail = {m1, m2, m3}
  EagerMail = {m2, m3}
  Completing = {m2}
  Intake = {i1}
  Slot = {s1, s2}
  Partition = {p1}
  DecisionPartition <- MCOnePartition
  RedispatchCap = 2
  Faults <- AllButCollectorCrash
  MaxFaults = 2
CHECK_DEADLOCK FALSE
INVARIANT ResultBelongsToRound
PROPERTY FollowsLifecycle
