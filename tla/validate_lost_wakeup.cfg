SPECIFICATION Spec
CONSTANTS
  a1 = a1  a2 = a2  a3 = a3  b1 = b1  y1 = y1  z1 = z1
  ka = ka  kb = kb  ky = ky  kz = kz  d1 = d1  d2 = d2
  Calls <- GhostCalls
  Keys <- GhostKeys
  KeyOf <- KeyOfGhost
  NoEntry = NoEntry
  Drains = {}
  Max = 1
  MaxWaiters = 1
  ValidateOutcomes = {"ok", "throws"}
  HasTimeout = TRUE
  HasTtl = TRUE
  MayReopen = FALSE
  ReleaseByKey = FALSE
INVARIANTS NoLostWakeup
\* The calls of a run are finitely many: when all have ended the system stops.
CHECK_DEADLOCK FALSE
