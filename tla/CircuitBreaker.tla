--------------------------- MODULE CircuitBreaker ---------------------------
(***************************************************************************)
(* InMemoryCircuitBreaker (src/packages/core/src/breakers.ts): closed,     *)
(* open for a cooldown, half-open for a few probes.  exec() runs a factory *)
(* call; several may overlap when one breaker is shared by the keys of a   *)
(* pool, one at a time when each key has its own (the per-key mutex).      *)
(***************************************************************************)
EXTENDS Integers, FiniteSets

CONSTANTS
  Execs,        \* callers of exec(), each with one call at a time
  Concurrency,  \* how many may be under way together
  Threshold,    \* failureThreshold
  Cooldown,     \* cooldownMs, in ticks
  HalfOpenMax,  \* halfOpenMaxAttempts
  MaxTime       \* bound of the clock

ASSUME BreakerAssumption ==
  /\ IsFiniteSet(Execs)
  /\ Threshold \in Nat \ {0} /\ HalfOpenMax \in Nat \ {0}
  /\ Cooldown \in Nat /\ MaxTime \in Nat /\ Concurrency \in Nat

VARIABLES
  state, failures, openedAt, halfOpenAttempts, \* the fields of the breaker
  call,                                        \* what each caller is doing
  now                                          \* the injected clock

vars == <<state, failures, openedAt, halfOpenAttempts, call, now>>

States == {"closed", "open", "half-open"}
Under(kind) == {x \in Execs : call[x] = kind}
Busy == {x \in Execs : call[x] # "idle"}

Init ==
  /\ state = "closed" /\ failures = 0 /\ openedAt = 0 /\ halfOpenAttempts = 0
  /\ call = [x \in Execs |-> "idle"]
  /\ now = 0

-----------------------------------------------------------------------------
Cooled == now - openedAt >= Cooldown

(* exec() while closed. *)
Run(x) ==
  /\ state = "closed"
  /\ call' = [call EXCEPT ![x] = "call"]
  /\ UNCHANGED <<state, failures, openedAt, halfOpenAttempts, now>>

(* exec() on an open breaker whose cooldown is over: the first probe. *)
OpenWindowUncounted(x) == \* fault: the window is entered without a probe
  /\ state = "open" /\ Cooled
  /\ state' = "half-open" /\ halfOpenAttempts' = HalfOpenMax
  /\ UNCHANGED <<failures, openedAt, call, now>>
OpenWindow(x) ==
  /\ state = "open" /\ Cooled
  /\ state' = "half-open" /\ halfOpenAttempts' = 1
  /\ call' = [call EXCEPT ![x] = "probe"]
  /\ UNCHANGED <<failures, openedAt, now>>

ProbeUnbounded(x) == \* fault: the number of probes is not checked
  /\ state = "half-open"
  /\ halfOpenAttempts' = halfOpenAttempts + 1
  /\ call' = [call EXCEPT ![x] = "probe"]
  /\ UNCHANGED <<state, failures, openedAt, now>>

(* exec() while half-open: another probe if one is allowed.  In the cases  *)
(* left exec() throws CircuitOpenError and changes nothing.                *)
Probe(x) ==
  /\ state = "half-open" /\ halfOpenAttempts < HalfOpenMax
  /\ halfOpenAttempts' = halfOpenAttempts + 1
  /\ call' = [call EXCEPT ![x] = "probe"]
  /\ UNCHANGED <<state, failures, openedAt, now>>

exec(x) ==
  /\ call[x] = "idle" /\ Cardinality(Busy) < Concurrency
  /\ Run(x) \/ OpenWindow(x) \/ Probe(x)

onSuccess(x) ==
  /\ call[x] # "idle"
  /\ call' = [call EXCEPT ![x] = "idle"]
  /\ failures' = 0
  /\ state' = "closed"
  /\ halfOpenAttempts' = IF state = "closed" THEN halfOpenAttempts ELSE 0
  /\ UNCHANGED <<openedAt, now>>

(* The failure that makes it failureThreshold in a row trips the breaker.  *)
TripsLate(n) == n > Threshold \* fault: off by one
Trips(n) == n >= Threshold

onFailure(x) ==
  /\ call[x] # "idle"
  /\ call' = [call EXCEPT ![x] = "idle"]
  /\ failures' = IF state = "half-open" THEN failures ELSE failures + 1
  /\ IF state = "half-open" \/ Trips(failures + 1)
     THEN state' = "open" /\ openedAt' = now
     ELSE UNCHANGED <<state, openedAt>>
  /\ UNCHANGED <<halfOpenAttempts, now>>

Tick == now < MaxTime /\ now' = now + 1
        /\ UNCHANGED <<state, failures, openedAt, halfOpenAttempts, call>>

Next == Tick \/ \E x \in Execs : exec(x) \/ onSuccess(x) \/ onFailure(x)
Spec == Init /\ [][Next]_vars

(* The breaker's promise settles whenever the factory's does. *)
FairSpec == Spec /\ \A x \in Execs : WF_vars(onSuccess(x) \/ onFailure(x))
-----------------------------------------------------------------------------
(* Every field stays within its type and halfOpenAttempts within its cap.  *)
TypeOK ==
  /\ state \in States
  /\ failures \in Nat /\ openedAt \in 0..now /\ now \in 0..MaxTime
  /\ halfOpenAttempts \in 0..HalfOpenMax
  /\ call \in [Execs -> {"idle", "call", "probe"}]

(* A breaker that has seen failureThreshold failures in a row is not       *)
(* closed: however calls overlap, the last of them trips it.               *)
ClosedBelowThreshold == state = "closed" => failures < Threshold

(* A half-open breaker has a probe under way whose end will move it on:    *)
(* halfOpenAttempts is never given back, so without one it would refuse    *)
(* every call for ever.                                                    *)
ProbeUnderWay == state = "half-open" => Under("probe") # {}

(* While the breaker is open nothing runs through it, so nothing that was  *)
(* let in earlier can reopen, close or prolong it.                         *)
OpenIsQuiet == state = "open" => Busy = {}

(* An open breaker stays open for cooldownMs ("closed -> open -> (after    *)
(* cooldown) half-open").                                                  *)
OpenForCooldown ==
  [][state = "open" /\ state' # "open" => now - openedAt >= Cooldown]_vars

(* The breaker does not stay half-open. *)
LeavesHalfOpen == state = "half-open" ~> state # "half-open"
=============================================================================
