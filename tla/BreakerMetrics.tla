--------------------------- MODULE BreakerMetrics ---------------------------
(***************************************************************************)
(* The breaker gauge of packages/metrics over the breakers of a pool:      *)
(* bindPrometheus() sets it at each breaker event, bound before the first  *)
(* of them, as the caller of the pool's constructor can.                   *)
(***************************************************************************)
EXTENDS KeyBreakers

VARIABLES
  gauge, \* refpool_breaker_state: a state, or absent once it is unbound
  moved, \* the key whose breaker made the transition it shows
  bound  \* unbind() has not been called

metricVars == <<gauge, moved, bound>>
vars == <<keyVars, metricVars>>

Init ==
  /\ KeyInit
  /\ gauge = "closed" /\ moved = NoBreaker
  /\ bound = TRUE

(* The breaker-* event that wireBreaker() emits with a transition of k.    *)
Moves(k) == stateOf(k)' # stateOf(k) /\ counters' # counters

OpeningsOnly == \* fault: the event of a half-open breaker is not followed
  /\ LET moving == {k \in Keys : Moves(k) /\ stateOf(k)' # "half-open"}
     IN  IF bound /\ moving # {}
         THEN \E k \in moving : gauge' = stateOf(k)' /\ moved' = k
         ELSE UNCHANGED <<gauge, moved>>
  /\ UNCHANGED bound
onBreaker ==
  /\ LET moving == {k \in Keys : Moves(k)}
     IN  IF bound /\ moving # {}
         THEN \E k \in moving : gauge' = stateOf(k)' /\ moved' = k
         ELSE UNCHANGED <<gauge, moved>>
  /\ UNCHANGED bound

(* The listeners are removed, and the gauge is taken from the registry. *)
unbind ==
  /\ bound /\ bound' = FALSE
  /\ gauge' = "absent" /\ moved' = NoBreaker
  /\ UNCHANGED keyVars

Next == (KeyNext /\ onBreaker) \/ unbind

Spec == Init /\ [][Next]_vars

(* The timer of mutexGcMs, while start() has it armed. *)
FairSpec == Spec /\ WF_vars(gcKeyState /\ onBreaker)
-----------------------------------------------------------------------------
(* While bound the gauge is the present state of the breaker that moved    *)
(* last: one that shows open or half-open is never dropped from the map    *)
(* without an event.                                                       *)
GaugeFollowsLast ==
  bound => gauge = IF moved = NoBreaker THEN "closed" ELSE stateOf(moved)
=============================================================================
