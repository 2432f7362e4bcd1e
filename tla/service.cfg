SPECIFICATION InternalSpec
CONSTANTS
  a1 = a1  a2 = a2  a3 = a3  b1 = b1  y1 = y1  z1 = z1
  ka = ka  kb = kb  ky = ky  kz = kz  d1 = d1  d2 = d2
  Calls <- SixCalls
  Keys <- FourKeys
  KeyOf <- KeyOfSix
  NoEntry = NoEntry
  Cells = {1, 2}
  Drains = {}
  Max = 2
  MaxWaiters = 2
  ValidateOutcomes = {"ok", "stale"}
  HasTimeout = TRUE
  HasTtl = TRUE
  MayReopen = FALSE
  ReleaseByKey = TRUE
SYMMETRY SymmetrySix
INVARIANTS TypeOK HeldResourceIntact CapacityBound IdleMembership RefCountExact SingleResource ReservedExact ParkedListed NoLostWakeup LinksRepresentIdle GaugesExact MutexRepresentsQueue
PROPERTIES NeverOverwritten KeepsBrokerPromise
\* The calls of a run are finitely many: when all have ended the system stops.
CHECK_DEADLOCK FALSE
