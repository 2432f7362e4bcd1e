SPECIFICATION TimeoutSpec
CONSTANTS
  r0 = r0  r1 = r1  j1 = j1  w1 = w1  w2 = w2  w3 = w3
  ka = ka  kb = kb  p1 = p1  p2 = p2
  Calls <- AppCalls
  Keys <- AppKeys
  KeyOf <- AppKeyOf
  NoResource = NoResource
  Max = 1
  Requests <- AppRequests
  Jobs <- AppJobs
  OnMissing = "error"
  WarmCalls <- AppWarmCalls
  Workers <- AppWorkers
  NoKey = NoKey
  WarmOnInit = FALSE
INVARIANTS LiveClientsBounded
\* The calls of a run are finitely many: when all have ended the system stops.
CHECK_DEADLOCK FALSE
