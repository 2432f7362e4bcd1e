----------------------------- MODULE KeyBreakers -----------------------------
(***************************************************************************)
(* The breakers a pool keeps per key when options.breaker is a factory     *)
(* (src/packages/core/src/pool.ts): one is made for the first creation of  *)
(* a key and dropped, while closed, once nothing of the key is left.  Each *)
(* is an InMemoryCircuitBreaker; the per-key mutex is around its exec().   *)
(***************************************************************************)
EXTENDS Integers, FiniteSets

CONSTANTS
  Keys,
  NoBreaker,                          \* absent from the breakers map
  Threshold, Cooldown, HalfOpenMax,   \* options of the breakers, see CircuitBreaker
  MaxTime, MaxPending, MaxDisposals   \* bounds: clock, calls and disposals per key

ASSUME KeyBreakersAssumption ==
  /\ IsFiniteSet(Keys)
  /\ Threshold \in Nat \ {0} /\ HalfOpenMax \in Nat \ {0} /\ Cooldown \in Nat
  /\ MaxTime \in Nat /\ MaxPending \in Nat /\ MaxDisposals \in Nat

States == {"closed", "open", "half-open"}
BreakerFields ==
  [state : States, failures : 0..Threshold, openedAt : 0..MaxTime,
   halfOpenAttempts : 0..HalfOpenMax]

(* Absence is not a breaker, and not the name of a key. *)
ASSUME AbsentAssumption == NoBreaker \notin BreakerFields /\ NoBreaker \notin Keys

VARIABLES
  breakers,  \* the map, from keys to breakers
  pending,   \* the acquire() calls under way for each key
  phase,     \* the one in obtain(): none, call or probe (in exec), made, failed
  present,   \* the keys of the maps entries and orphans
  disposals, \* how many resources of each key are being disposed of
  counters,  \* counters.breaker: the transitions into each state
  pool,      \* new; started, its timers armed; or closed, by drain() or stop()
  now

keyVars == <<breakers, pending, phase, present, disposals, counters, pool, now>>

Fresh == [state |-> "closed", failures |-> 0, openedAt |-> 0, halfOpenAttempts |-> 0]
breakerOf(k) == IF breakers[k] = NoBreaker THEN Fresh ELSE breakers[k]
stateOf(k) == breakerOf(k).state

KeyInit ==
  /\ breakers = [k \in Keys |-> NoBreaker]
  /\ pending = [k \in Keys |-> 0]
  /\ phase = [k \in Keys |-> "none"]
  /\ present = {}
  /\ disposals = [k \in Keys |-> 0]
  /\ counters = [s \in States |-> 0]
  /\ pool = "new"
  /\ now = 0

-----------------------------------------------------------------------------
(* The breaker of k becomes b; wireBreaker() counts the transition. *)
Becomes(k, b) ==
  /\ breakers' = [breakers EXCEPT ![k] = b]
  /\ counters' = IF b.state = stateOf(k) THEN counters
                 ELSE [counters EXCEPT ![b.state] = @ + 1]

(* What exec() lets in: the breaker afterwards, and as what the call runs. *)
Cooled(b) == now - b.openedAt >= Cooldown
Admitted(b) ==
  CASE b.state = "closed" -> {<<b, "call">>}
    [] b.state = "open" /\ Cooled(b) ->
         {<<[b EXCEPT !.state = "half-open", !.halfOpenAttempts = 1], "probe">>}
    [] b.state = "half-open" /\ b.halfOpenAttempts < HalfOpenMax ->
         {<<[b EXCEPT !.halfOpenAttempts = @ + 1], "probe">>}
    [] OTHER -> {}

Succeeded(b) == [b EXCEPT !.state = "closed", !.failures = 0,
                          !.halfOpenAttempts = IF b.state = "closed" THEN @ ELSE 0]

TripsLate(b) == b.state = "half-open" \/ b.failures + 1 > Threshold \* fault: off by one
Trips(b) == b.state = "half-open" \/ b.failures + 1 >= Threshold
Failed(b) ==
  [b EXCEPT !.failures = IF b.state = "half-open" THEN @ ELSE @ + 1,
            !.state    = IF Trips(b) THEN "open" ELSE @,
            !.openedAt = IF Trips(b) THEN now ELSE @]

-----------------------------------------------------------------------------
Ask(k) ==
  /\ pending[k] < MaxPending
  /\ pending' = [pending EXCEPT ![k] = @ + 1]
  /\ UNCHANGED <<breakers, phase, present, disposals, counters, pool, now>>

(* A call ends without the factory: a live entry, a timeout, a closed pool *)
EndWithout(k) ==
  /\ phase[k] = "none" /\ pending[k] > 0
  /\ pending' = [pending EXCEPT ![k] = @ - 1]
  /\ UNCHANGED <<breakers, phase, present, disposals, counters, pool, now>>

(* resolveBreaker() and exec(), up to the factory's await; never if closed. *)
Create(k) ==
  LET b == breakerOf(k)
  IN  /\ phase[k] = "none" /\ pending[k] > 0 /\ k \notin present /\ pool # "closed"
      /\ IF Admitted(b) = {}
         THEN Becomes(k, b) /\ phase' = [phase EXCEPT ![k] = "failed"]
         ELSE \E a \in Admitted(b) :
                Becomes(k, a[1]) /\ phase' = [phase EXCEPT ![k] = a[2]]
      /\ UNCHANGED <<pending, present, disposals, pool, now>>

Settled(k) ==
  /\ phase[k] \in {"call", "probe"}
  /\ \/ Becomes(k, Succeeded(breakers[k])) /\ phase' = [phase EXCEPT ![k] = "made"]
     \/ Becomes(k, Failed(breakers[k])) /\ phase' = [phase EXCEPT ![k] = "failed"]
  /\ UNCHANGED <<pending, present, disposals, pool, now>>

(* obtain() and acquire() end: an entry, or none if the pool has closed.   *)
End(k) ==
  /\ phase[k] \in {"made", "failed"}
  /\ present' = present \union (IF phase[k] = "made" /\ pool # "closed" THEN {k} ELSE {})
  /\ phase' = [phase EXCEPT ![k] = "none"]
  /\ pending' = [pending EXCEPT ![k] = @ - 1]
  /\ UNCHANGED <<breakers, disposals, counters, pool, now>>

Removed(K) ==
  /\ \A k \in K : disposals[k] < MaxDisposals
  /\ present' = present \ K
  /\ disposals' = [k \in Keys |-> IF k \in K THEN disposals[k] + 1 ELSE disposals[k]]
  /\ UNCHANGED <<breakers, pending, phase, counters, now>>

(* Eviction, sweep, a stale or a condemned entry. *)
Remove(k) == k \in present /\ Removed({k}) /\ UNCHANGED pool

-----------------------------------------------------------------------------
start ==
  /\ pool # "started" /\ pool' = "started"
  /\ UNCHANGED <<breakers, pending, phase, present, disposals, counters, now>>

(* drain() or stop(): the timers are cleared; the idle entries go, those    *)
(* that are held stay as orphans.                                           *)
drain == pool' = "closed" /\ \E K \in SUBSET present : Removed(K)

-----------------------------------------------------------------------------
(* Faults: drops whatever the state; drops under a pending call; keeps one *)
(* that has counted failures.                                              *)
DroppableOpen(k) == k \notin present /\ pending[k] = 0
DroppableBusy(k) == stateOf(k) = "closed" /\ k \notin present
DroppableUnused(k) == breakerOf(k) = Fresh /\ k \notin present /\ pending[k] = 0

(* The conditions of dropBreaker(). *)
Droppable(k) == stateOf(k) = "closed" /\ k \notin present /\ pending[k] = 0

dropBreakers(K) ==
  breakers' = [k \in Keys |-> IF k \in K /\ Droppable(k) THEN NoBreaker ELSE breakers[k]]

(* dispose() has settled. *)
DisposeDone(k) ==
  /\ disposals[k] > 0
  /\ disposals' = [disposals EXCEPT ![k] = @ - 1]
  /\ dropBreakers({k})
  /\ UNCHANGED <<pending, phase, present, counters, pool, now>>

(* The callback of the timer that start() arms with mutexGcMs. *)
gcKeyState ==
  /\ pool = "started"
  /\ dropBreakers(Keys)
  /\ UNCHANGED <<pending, phase, present, disposals, counters, pool, now>>

Tick ==
  /\ now < MaxTime /\ now' = now + 1
  /\ UNCHANGED <<breakers, pending, phase, present, disposals, counters, pool>>

KeyNext ==
  \/ \E k \in Keys : \/ Ask(k) \/ EndWithout(k) \/ Create(k) \/ Settled(k)
                     \/ End(k) \/ Remove(k) \/ DisposeDone(k)
  \/ start \/ drain \/ gcKeyState \/ Tick

-----------------------------------------------------------------------------
(* Every variable stays within its type. *)
KeyTypeOK ==
  /\ breakers \in [Keys -> {NoBreaker} \union BreakerFields]
  /\ pending \in [Keys -> 0..MaxPending] /\ disposals \in [Keys -> 0..MaxDisposals]
  /\ phase \in [Keys -> {"none", "call", "probe", "made", "failed"}]
  /\ present \subseteq Keys /\ now \in 0..MaxTime
  /\ counters \in [States -> Nat] /\ pool \in {"new", "started", "closed"}

(* A call that runs through a breaker never has it dropped under it: its   *)
(* outcome would be lost, and the key's next call would start afresh.      *)
BusyHasBreaker == \A k \in Keys : phase[k] \in {"call", "probe"} => breakers[k] # NoBreaker

(* For its key the changing breakers are one CircuitBreaker with one call  *)
(* at a time, except that one that is closed may forget its failures while *)
(* nothing of the key is left.                                             *)
B(k) == INSTANCE CircuitBreaker WITH
  Execs <- {k}, Concurrency <- 1,
  state <- stateOf(k), failures <- breakerOf(k).failures,
  openedAt <- breakerOf(k).openedAt,
  halfOpenAttempts <- breakerOf(k).halfOpenAttempts,
  call <- [x \in {k} |-> IF phase[k] \in {"call", "probe"} THEN phase[k] ELSE "idle"]
Forgets(k) == /\ stateOf(k) = "closed" /\ k \notin present /\ pending[k] = 0
              /\ breakerOf(k)' = Fresh /\ UNCHANGED <<phase, now>>
EachKeyABreaker ==
  /\ \A k \in Keys : B(k)!Init
  /\ [][\A k \in Keys : [B(k)!Next \/ Forgets(k)]_(B(k)!vars)]_keyVars

(* The statistics tell how many breakers are open now: transitions to open, *)
(* re-openings included, less transitions to half-open, which is how every  *)
(* opening ends, however the map has changed meanwhile.                     *)
OpenBreakersCounted ==
  counters["open"] - counters["half-open"] = Cardinality({k \in Keys : stateOf(k) = "open"})

(* With mutexGcMs no closed breaker stays in the map of a pool that remains *)
(* started for a key that has nothing left, even where its last call failed *)
(* and no disposal will end: it goes, or the key is asked for again, or the *)
(* pool is drained and its timer with it.                                   *)
Stray(k) == /\ breakers[k] # NoBreaker /\ stateOf(k) = "closed"
            /\ k \notin present /\ pending[k] = 0
StrayBreakersGo == \A k \in Keys : (Stray(k) /\ pool = "started") ~> (~Stray(k) \/ pool # "started")
=============================================================================
