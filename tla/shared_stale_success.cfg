SPECIFICATION Spec
CONSTANTS
  Execs = {x1, x2, x3}
  Concurrency = 3
  Threshold = 2
  Cooldown = 2
  HalfOpenMax = 1
  MaxTime = 6
PROPERTIES OpenForCooldown
\* Time stops at MaxTime.
CHECK_DEADLOCK FALSE
