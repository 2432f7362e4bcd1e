SPECIFICATION ListenerFairSpec
CONSTANTS
  a1 = a1  a2 = a2  a3 = a3  b1 = b1  y1 = y1  z1 = z1
  ka = ka  kb = kb  ky = ky  kz = kz  d1 = d1  d2 = d2
  Calls <- FourCalls
  Keys <- ThreeKeys
  KeyOf <- KeyOfFour
  NoEntry = NoEntry
  Cells = {1, 2}
  Drains = {d1}
  OutsideDrains = {d1}
  ListenerCalls = {"acquire", "release", "drain"}
  Max = 1
  MaxWaiters = 4
  ValidateOutcomes = {"ok", "stale"}
  HasTimeout = FALSE
  HasTtl = TRUE
  MayReopen = FALSE
  ReleaseByKey = FALSE
INVARIANTS IdleListKept
PROPERTIES DrainCompletes AcquireSettles NoDisposeUnderHolder
\* The calls of a run are finitely many: when all have ended the system stops.
CHECK_DEADLOCK FALSE
