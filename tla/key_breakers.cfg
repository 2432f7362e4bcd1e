SPECIFICATION FairSpec
CONSTANTS
  Keys = {ka, kb}
  NoBreaker = NoBreaker
  Threshold = 2
  Cooldown = 1
  HalfOpenMax = 1
  MaxTime = 2
  MaxPending = 1
  MaxDisposals = 1
INVARIANTS KeyTypeOK BusyHasBreaker OpenBreakersCounted GaugeFollowsLast
PROPERTIES EachKeyABreaker StrayBreakersGo
\* Time stops at MaxTime.
CHECK_DEADLOCK FALSE
