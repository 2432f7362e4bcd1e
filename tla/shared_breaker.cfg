SPECIFICATION FairSpec
CONSTANTS
  Execs = {x1, x2, x3}
  Concurrency = 3
  Threshold = 2
  Cooldown = 2
  HalfOpenMax = 2
  MaxTime = 6
INVARIANTS TypeOK ClosedBelowThreshold ProbeUnderWay
PROPERTIES LeavesHalfOpen
\* Time stops at MaxTime.
CHECK_DEADLOCK FALSE
