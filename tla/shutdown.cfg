SPECIFICATION Spec
CONSTANTS
  a1 = a1  a2 = a2  a3 = a3  b1 = b1  y1 = y1  z1 = z1
  ka = ka  kb = kb  ky = ky  kz = kz  d1 = d1  d2 = d2
  Calls <- FiveCalls
  Keys <- FourKeys
  KeyOf <- KeyOfFive
  NoEntry = NoEntry
  Drains = {d1, d2}
  Max = 2
  MaxWaiters = 1
  ValidateOutcomes = {"ok", "stale"}
  HasTimeout = TRUE
  HasTtl = TRUE
  MayReopen = FALSE
  ReleaseByKey = TRUE
SYMMETRY SymmetryFive
INVARIANTS CapacityBound ClosedLeaksNothing
PROPERTIES KeepsBrokerPromise
\* The calls of a run are finitely many: when all have ended the system stops.
CHECK_DEADLOCK FALSE
