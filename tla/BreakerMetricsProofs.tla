------------------------ MODULE BreakerMetricsProofs ------------------------
(* Theorems about the breakers of a pool that keeps one per key, and about *)
(* the gauge that shows them, for every number of keys and every option of *)
(* the breakers.                                                           *)
EXTENDS BreakerMetrics, FiniteSetTheorems, TLAPS

(* What the mutex around exec() makes of the call under way for k: it runs *)
(* through the breaker in the state that let it in.                        *)
Sane(k) ==
  /\ phase[k] = "call" => breakers[k] # NoBreaker /\ stateOf(k) = "closed"
  /\ phase[k] = "probe" => stateOf(k) = "half-open"
  /\ phase[k] # "none" => pending[k] > 0
  /\ stateOf(k) = "closed" => breakerOf(k).failures < Threshold

KeyInv == KeyTypeOK /\ \A k \in Keys : Sane(k)

LEMMA FreshFields == Fresh \in BreakerFields /\ Fresh.state = "closed" /\ Fresh.failures = 0
BY KeyBreakersAssumption DEF Fresh, BreakerFields, States

LEMMA FieldTypes ==
  ASSUME KeyTypeOK, NEW k \in Keys
  PROVE  /\ breakerOf(k) \in BreakerFields
         /\ breakers[k] # NoBreaker => breakers[k] = breakerOf(k)
         /\ breakers[k] = NoBreaker => stateOf(k) = "closed"
         /\ stateOf(k) \in States
<1>1. breakerOf(k) \in BreakerFields
  BY FreshFields DEF KeyTypeOK, breakerOf
<1> QED
  BY <1>1, FreshFields DEF KeyTypeOK, breakerOf, stateOf, BreakerFields

(* The ways in which a breaker changes under exec().                       *)
LEMMA AdmittedBy ==
  ASSUME NEW b \in BreakerFields, NEW a \in Admitted(b)
  PROVE  \/ b.state = "closed" /\ a = <<b, "call">>
         \/ b.state = "open" /\ a = <<[b EXCEPT !.state = "half-open", !.halfOpenAttempts = 1], "probe">>
            /\ Cooled(b)
         \/ b.state = "half-open" /\ b.halfOpenAttempts < HalfOpenMax
            /\ a = <<[b EXCEPT !.halfOpenAttempts = @ + 1], "probe">>
<1>1. b.state \in States
  BY DEF BreakerFields
<1>2. CASE b.state = "closed"
  BY <1>2 DEF Admitted
<1>3. CASE b.state = "open"
  BY <1>3 DEF Admitted
<1>4. CASE b.state = "half-open"
  BY <1>4 DEF Admitted
<1> QED
  BY <1>1, <1>2, <1>3, <1>4 DEF States

(* The transitions that wireBreaker() may count.                           *)
Turns(s, t) ==
  \/ s = t
  \/ s = "closed" /\ t = "open"
  \/ s = "open" /\ t = "half-open"
  \/ s = "half-open" /\ t \in {"open", "closed"}

LEMMA FieldBounds ==
  ASSUME NEW b \in BreakerFields
  PROVE  /\ b.state \in States /\ b.failures \in 0..Threshold /\ b.openedAt \in 0..MaxTime
         /\ b.halfOpenAttempts \in 0..HalfOpenMax
BY DEF BreakerFields

LEMMA SucceededFields ==
  ASSUME NEW b \in BreakerFields
  PROVE  /\ Succeeded(b) \in BreakerFields
         /\ Succeeded(b).state = "closed" /\ Succeeded(b).failures = 0
         /\ Succeeded(b).openedAt = b.openedAt
         /\ Succeeded(b).halfOpenAttempts = IF b.state = "closed" THEN b.halfOpenAttempts ELSE 0
<1>1. PICK h \in 0..HalfOpenMax, s \in States, f \in 0..Threshold :
         /\ h = IF b.state = "closed" THEN b.halfOpenAttempts ELSE 0
         /\ s = "closed" /\ f = 0
  BY FieldBounds, KeyBreakersAssumption DEF States
<1>2. PICK r : r = [b EXCEPT !.state = s, !.failures = f, !.halfOpenAttempts = h]
  OBVIOUS
<1>3. /\ r \in BreakerFields /\ r.state = s /\ r.failures = f
      /\ r.openedAt = b.openedAt /\ r.halfOpenAttempts = h
  BY <1>2 DEF BreakerFields
<1>4. Succeeded(b) = r
  BY <1>1, <1>2, Zenon DEF Succeeded
<1> QED
  BY <1>1, <1>3, <1>4

LEMMA FailedFields ==
  ASSUME NEW b \in BreakerFields, now \in 0..MaxTime,
         b.state = "half-open" \/ b.failures < Threshold
  PROVE  /\ Failed(b) \in BreakerFields
         /\ Failed(b).state = IF Trips(b) THEN "open" ELSE b.state
         /\ Failed(b).failures = IF b.state = "half-open" THEN b.failures ELSE b.failures + 1
         /\ Failed(b).openedAt = IF Trips(b) THEN now ELSE b.openedAt
         /\ Failed(b).halfOpenAttempts = b.halfOpenAttempts
<1>1. /\ (IF b.state = "half-open" THEN b.failures ELSE b.failures + 1) \in 0..Threshold
      /\ (IF Trips(b) THEN "open" ELSE b.state) \in States
      /\ (IF Trips(b) THEN now ELSE b.openedAt) \in 0..MaxTime
  BY FieldBounds, KeyBreakersAssumption DEF States
<1>2. PICK f \in 0..Threshold, s \in States, o \in 0..MaxTime :
         /\ f = IF b.state = "half-open" THEN b.failures ELSE b.failures + 1
         /\ s = IF Trips(b) THEN "open" ELSE b.state
         /\ o = IF Trips(b) THEN now ELSE b.openedAt
  BY <1>1, Zenon
<1>3. PICK r : r = [b EXCEPT !.failures = f, !.state = s, !.openedAt = o]
  OBVIOUS
<1>4. /\ r \in BreakerFields /\ r.state = s /\ r.failures = f
      /\ r.openedAt = o /\ r.halfOpenAttempts = b.halfOpenAttempts
  BY <1>3 DEF BreakerFields
<1>5. Failed(b) = r
  BY <1>2, <1>3, Zenon DEF Failed
<1> QED
  BY <1>2, <1>4, <1>5

LEMMA OpenedFields ==
  ASSUME NEW b \in BreakerFields
  PROVE  LET r == [b EXCEPT !.state = "half-open", !.halfOpenAttempts = 1]
         IN  /\ r \in BreakerFields /\ r.state = "half-open" /\ r.failures = b.failures
             /\ r.openedAt = b.openedAt /\ r.halfOpenAttempts = 1
<1>1. 1 \in 0..HalfOpenMax /\ "half-open" \in States
  BY KeyBreakersAssumption DEF States
<1>2. ASSUME NEW s \in States, NEW h \in 0..HalfOpenMax
      PROVE  LET r == [b EXCEPT !.state = s, !.halfOpenAttempts = h]
             IN  /\ r \in BreakerFields /\ r.state = s /\ r.failures = b.failures
                 /\ r.openedAt = b.openedAt /\ r.halfOpenAttempts = h
  BY DEF BreakerFields
<1> QED
  BY <1>1, <1>2, Zenon

LEMMA ProbedFields ==
  ASSUME NEW b \in BreakerFields, b.halfOpenAttempts < HalfOpenMax
  PROVE  LET r == [b EXCEPT !.halfOpenAttempts = @ + 1]
         IN  /\ r \in BreakerFields /\ r.state = b.state /\ r.failures = b.failures
             /\ r.openedAt = b.openedAt /\ r.halfOpenAttempts = b.halfOpenAttempts + 1
<1>1. b.halfOpenAttempts + 1 \in 0..HalfOpenMax
  BY FieldBounds, KeyBreakersAssumption
<1>2. ASSUME NEW h \in 0..HalfOpenMax
      PROVE  LET r == [b EXCEPT !.halfOpenAttempts = h]
             IN  /\ r \in BreakerFields /\ r.state = b.state /\ r.failures = b.failures
                 /\ r.openedAt = b.openedAt /\ r.halfOpenAttempts = h
  BY DEF BreakerFields
<1> QED
  BY <1>1, <1>2, Zenon

(* What Create(k) and Settled(k) do to the breaker and the phase of k.     *)
Runs(k, b, p) ==
  /\ b \in BreakerFields /\ Turns(stateOf(k), b.state) /\ Becomes(k, b)
  /\ phase' = [phase EXCEPT ![k] = p]
  /\ p = "call" => b.state = "closed"
  /\ p = "probe" => b.state = "half-open"
  /\ b.state = "closed" => b.failures < Threshold
  /\ pending[k] > 0 /\ p \in {"call", "probe", "made", "failed"}
  /\ UNCHANGED <<pending, present, disposals, pool, now>>

LEMMA CreateRuns ==
  ASSUME KeyInv, NEW k \in Keys, Create(k)
  PROVE  \E b, p : Runs(k, b, p)
<1> DEFINE b == breakerOf(k)
<1>1. /\ b \in BreakerFields /\ b.state = stateOf(k)
      /\ b.state = "closed" => b.failures < Threshold
      /\ pending[k] > 0
      /\ UNCHANGED <<pending, present, disposals, pool, now>>
  BY FieldTypes DEF KeyInv, Create, Sane, stateOf
<1> HIDE DEF b
<1>2. CASE Admitted(b) = {}
  <2>1. Becomes(k, b) /\ phase' = [phase EXCEPT ![k] = "failed"]
    BY <1>2 DEF Create, b
  <2>2. Runs(k, b, "failed")
    BY <1>1, <2>1 DEF Runs, Turns
  <2> QED
    BY <2>2
<1>3. CASE Admitted(b) # {}
  <2>1. PICK a \in Admitted(b) : Becomes(k, a[1]) /\ phase' = [phase EXCEPT ![k] = a[2]]
    BY <1>3 DEF Create, b
  <2>2. /\ a[1] \in BreakerFields /\ Turns(b.state, a[1].state)
        /\ a[2] = "call" => a[1].state = "closed"
        /\ a[2] = "probe" => a[1].state = "half-open"
        /\ a[1].state = "closed" => a[1].failures < Threshold
        /\ a[2] \in {"call", "probe"}
    <3>1. CASE a = <<b, "call">> /\ b.state = "closed"
      BY <1>1, <3>1 DEF Turns
    <3>2. CASE /\ a = <<[b EXCEPT !.state = "half-open", !.halfOpenAttempts = 1], "probe">>
               /\ b.state = "open"
      BY <1>1, <3>2, OpenedFields DEF Turns
    <3>3. CASE /\ a = <<[b EXCEPT !.halfOpenAttempts = @ + 1], "probe">>
               /\ b.state = "half-open" /\ b.halfOpenAttempts < HalfOpenMax
      BY <1>1, <3>3, ProbedFields DEF Turns
    <3> QED
      BY <1>1, <3>1, <3>2, <3>3, AdmittedBy
  <2>3. Runs(k, a[1], a[2])
    BY <1>1, <2>1, <2>2 DEF Runs
  <2> QED
    BY <2>3
<1> QED
  BY <1>2, <1>3

LEMMA SettledRuns ==
  ASSUME KeyInv, NEW k \in Keys, Settled(k)
  PROVE  \E b, p : Runs(k, b, p)
<1> DEFINE b == breakers[k]
<1>1. /\ b \in BreakerFields /\ b.state = stateOf(k) /\ b = breakerOf(k)
      /\ b.state \in {"closed", "half-open"}
      /\ b.state = "closed" => b.failures < Threshold
      /\ pending[k] > 0 /\ now \in 0..MaxTime
      /\ UNCHANGED <<pending, present, disposals, pool, now>>
  BY FieldTypes DEF KeyInv, KeyTypeOK, Settled, Sane, stateOf
<1> HIDE DEF b
<1>2. CASE Becomes(k, Succeeded(b)) /\ phase' = [phase EXCEPT ![k] = "made"]
  <2>1. /\ Succeeded(b) \in BreakerFields /\ Turns(b.state, Succeeded(b).state)
        /\ Succeeded(b).failures < Threshold
    BY <1>1, SucceededFields, KeyBreakersAssumption DEF Turns
  <2>2. Runs(k, Succeeded(b), "made")
    BY <1>1, <1>2, <2>1 DEF Runs
  <2> QED
    BY <2>2
<1>3. CASE Becomes(k, Failed(b)) /\ phase' = [phase EXCEPT ![k] = "failed"]
  <2>1. /\ Failed(b) \in BreakerFields /\ Turns(b.state, Failed(b).state)
        /\ Failed(b).state = "closed" => Failed(b).failures < Threshold
    <3>1. b.state = "half-open" \/ b.failures + 1 >= Threshold <=> Trips(b)
      BY DEF Trips
    <3> QED
      BY <1>1, <3>1, FailedFields, FieldBounds, KeyBreakersAssumption DEF Turns
  <2>2. Runs(k, Failed(b), "failed")
    BY <1>1, <1>3, <2>1 DEF Runs
  <2> QED
    BY <2>2
<1> QED
  BY <1>2, <1>3 DEF Settled, b

-----------------------------------------------------------------------------
LEMMA BecomesEffect ==
  ASSUME KeyTypeOK, NEW k \in Keys, NEW b \in BreakerFields, Becomes(k, b)
  PROVE  /\ breakers' \in [Keys -> {NoBreaker} \union BreakerFields]
         /\ counters' \in [States -> Nat]
         /\ breakers'[k] # NoBreaker /\ breakerOf(k)' = b /\ stateOf(k)' = b.state
         /\ \A x \in Keys \ {k} : /\ breakers'[x] = breakers[x]
                                  /\ breakerOf(x)' = breakerOf(x) /\ stateOf(x)' = stateOf(x)
<1>1. /\ breakers' \in [Keys -> {NoBreaker} \union BreakerFields]
      /\ breakers'[k] = b
      /\ \A x \in Keys \ {k} : breakers'[x] = breakers[x]
  BY DEF Becomes, KeyTypeOK
<1>2. b # NoBreaker
  BY AbsentAssumption
<1>3. counters' \in [States -> Nat]
  BY FieldBounds DEF Becomes, KeyTypeOK
<1> QED
  BY <1>1, <1>2, <1>3 DEF breakerOf, stateOf

LEMMA DropEffect ==
  ASSUME KeyTypeOK, NEW K \in SUBSET Keys, dropBreakers(K)
  PROVE  /\ breakers' \in [Keys -> {NoBreaker} \union BreakerFields]
         /\ \A k \in Keys : \/ breakers'[k] = breakers[k] /\ breakerOf(k)' = breakerOf(k)
                            \/ Droppable(k) /\ breakerOf(k)' = Fresh
         /\ \A k \in Keys : stateOf(k)' = stateOf(k)
<1>1. /\ breakers' \in [Keys -> {NoBreaker} \union BreakerFields]
      /\ \A k \in Keys : \/ breakers'[k] = breakers[k]
                         \/ Droppable(k) /\ breakers'[k] = NoBreaker
  <2>1. /\ DOMAIN breakers' = Keys
        /\ \A k \in Keys : breakers'[k] = IF k \in K /\ Droppable(k) THEN NoBreaker ELSE breakers[k]
    BY Zenon DEF dropBreakers
  <2>2. \A k \in Keys : breakers'[k] \in {NoBreaker} \union BreakerFields
    BY <2>1 DEF KeyTypeOK
  <2>3. breakers' = [k \in Keys |-> breakers'[k]]
    BY Zenon DEF dropBreakers
  <2>4. breakers' \in [Keys -> {NoBreaker} \union BreakerFields]
    BY <2>2, <2>3, Zenon
  <2> QED
    BY <2>1, <2>4, Zenon
<1>2. \A k \in Keys : \/ breakers'[k] = breakers[k] /\ breakerOf(k)' = breakerOf(k)
                      \/ Droppable(k) /\ breakerOf(k)' = Fresh
  BY <1>1 DEF breakerOf
<1>3. \A k \in Keys : stateOf(k)' = stateOf(k)
  BY <1>2, FreshFields DEF stateOf, Droppable
<1> QED
  BY <1>1, <1>2, <1>3

(* A step that leaves the breakers alone. *)
LEMMA SameBreakers ==
  ASSUME UNCHANGED breakers
  PROVE  \A k \in Keys : breakerOf(k)' = breakerOf(k) /\ stateOf(k)' = stateOf(k)
BY DEF breakerOf, stateOf

LEMMA KeyInvInit == KeyInit => KeyInv
<1> SUFFICES ASSUME KeyInit PROVE KeyInv
  OBVIOUS
<1>1. \A k \in Keys : breakerOf(k) = Fresh /\ stateOf(k) = "closed"
  BY FreshFields DEF KeyInit, breakerOf, stateOf
<1>2. KeyTypeOK
  BY KeyBreakersAssumption DEF KeyInit, KeyTypeOK
<1>3. \A k \in Keys : Sane(k)
  BY <1>1, FreshFields, KeyBreakersAssumption DEF KeyInit, Sane
<1> QED
  BY <1>2, <1>3 DEF KeyInv

LEMMA RunsInv ==
  ASSUME KeyInv, NEW k \in Keys, NEW b, NEW p, Runs(k, b, p)
  PROVE  KeyInv'
<1>1. b \in BreakerFields /\ Becomes(k, b)
  BY DEF Runs
<1>2. /\ KeyTypeOK'
      /\ phase'[k] = p /\ \A x \in Keys \ {k} : phase'[x] = phase[x]
  BY <1>1, BecomesEffect DEF KeyInv, KeyTypeOK, Runs
<1>3. Sane(k)'
  BY <1>1, <1>2, BecomesEffect DEF KeyInv, Runs, Sane
<1>4. \A x \in Keys \ {k} : Sane(x)'
  BY <1>1, <1>2, BecomesEffect DEF KeyInv, Runs, Sane
<1> QED
  BY <1>2, <1>3, <1>4 DEF KeyInv

LEMMA KeyInvStep == KeyInv /\ [KeyNext]_keyVars => KeyInv'
<1> SUFFICES ASSUME KeyInv, [KeyNext]_keyVars PROVE KeyInv'
  OBVIOUS
<1>t. KeyTypeOK /\ \A k \in Keys : Sane(k)
  BY DEF KeyInv
<1>1. ASSUME NEW k \in Keys, Create(k) \/ Settled(k) PROVE KeyInv'
  BY <1>1, CreateRuns, SettledRuns, RunsInv
<1>2. ASSUME NEW k \in Keys, Ask(k) \/ EndWithout(k) \/ End(k) PROVE KeyInv'
  <2>1. /\ UNCHANGED breakers
        /\ \A x \in Keys \ {k} : pending'[x] = pending[x] /\ phase'[x] = phase[x]
        /\ \/ phase'[k] = "none"
           \/ phase'[k] = phase[k] /\ pending'[k] > 0
    <3>1. CASE Ask(k)
      BY <1>t, <3>1, KeyBreakersAssumption DEF Ask, KeyTypeOK
    <3>2. CASE EndWithout(k)
      BY <1>t, <3>2 DEF EndWithout, KeyTypeOK
    <3>3. CASE End(k)
      BY <1>t, <3>3 DEF End, KeyTypeOK
    <3> QED
      BY <1>2, <3>1, <3>2, <3>3
  <2>2. KeyTypeOK'
    <3>1. pending[k] > 0 \/ Ask(k)
      BY <1>t, <1>2 DEF EndWithout, End, Sane
    <3> QED
      BY <1>t, <1>2, <3>1, KeyBreakersAssumption DEF Ask, EndWithout, End, KeyTypeOK
  <2> QED
    BY <1>t, <2>1, <2>2, SameBreakers DEF KeyInv, Sane
<1>3. CASE drain \/ \E k \in Keys : Remove(k)
  <2>1. /\ \E K \in SUBSET Keys : Removed(K)
        /\ pool' \in {pool, "closed"}
    BY <1>t, <1>3 DEF Remove, drain, KeyTypeOK
  <2>2. KeyTypeOK' /\ UNCHANGED <<breakers, pending, phase>>
    <3>1. PICK K \in SUBSET Keys : Removed(K)
      BY <2>1
    <3>2. disposals' \in [Keys -> 0..MaxDisposals]
      BY <1>t, <3>1, KeyBreakersAssumption DEF Removed, KeyTypeOK
    <3> QED
      BY <1>t, <2>1, <3>1, <3>2 DEF Removed, KeyTypeOK
  <2> QED
    BY <1>t, <2>2, SameBreakers DEF KeyInv, Sane
<1>4. ASSUME NEW K \in SUBSET Keys, dropBreakers(K),
             UNCHANGED <<pending, phase, present, counters, pool, now>>,
             disposals' \in [Keys -> 0..MaxDisposals]
      PROVE  KeyInv'
  <2>1. KeyTypeOK'
    BY <1>t, <1>4, DropEffect DEF KeyTypeOK
  <2>2. ASSUME NEW k \in Keys PROVE Sane(k)'
    <3>1. CASE breakers'[k] = breakers[k] /\ breakerOf(k)' = breakerOf(k)
      BY <1>t, <1>4, <3>1, DropEffect DEF Sane
    <3>2. CASE Droppable(k) /\ breakerOf(k)' = Fresh
      BY <1>t, <1>4, <3>2, DropEffect, FreshFields, KeyBreakersAssumption
         DEF Sane, Droppable, KeyTypeOK
    <3> QED
      BY <1>t, <1>4, <3>1, <3>2, DropEffect
  <2> QED
    BY <2>1, <2>2 DEF KeyInv
<1>5. CASE start \/ Tick \/ UNCHANGED keyVars
  <2>1. KeyTypeOK' /\ UNCHANGED <<breakers, pending, phase>>
    BY <1>t, <1>5, KeyBreakersAssumption DEF start, Tick, keyVars, KeyTypeOK
  <2> QED
    BY <1>t, <2>1, SameBreakers DEF KeyInv, Sane
<1>6. ASSUME NEW k \in Keys, DisposeDone(k) PROVE KeyInv'
  <2>1. disposals' \in [Keys -> 0..MaxDisposals]
    BY <1>t, <1>6, KeyBreakersAssumption DEF DisposeDone, KeyTypeOK
  <2>2. {k} \in SUBSET Keys
    OBVIOUS
  <2> QED
    BY <1>4, <1>6, <2>1, <2>2 DEF DisposeDone
<1>7. CASE gcKeyState
  BY <1>t, <1>4, <1>7 DEF gcKeyState, KeyTypeOK
<1> QED
  BY <1>1, <1>2, <1>3, <1>5, <1>6, <1>7 DEF KeyNext

LEMMA KeysMove == [Next]_vars => [KeyNext]_keyVars
BY DEF Next, vars, unbind

LEMMA KeysAlways == Spec => []KeyInv
<1>1. Init => KeyInv
  BY KeyInvInit DEF Init
<1> QED
  BY <1>1, KeyInvStep, KeysMove, PTL DEF Spec

(* Every field keeps its type: no breaker counts more failures than        *)
(* failureThreshold or more probes than halfOpenMaxAttempts, because the   *)
(* mutex of its key lets one call at a time into exec().                   *)
THEOREM KeyTyping == Spec => []KeyTypeOK
<1>1. KeyInv => KeyTypeOK
  BY DEF KeyInv
<1> QED
  BY <1>1, KeysAlways, PTL

(* dropBreaker() never takes a breaker away under a call that runs in it.  *)
THEOREM NotDroppedUnderCall == Spec => []BusyHasBreaker
<1>1. KeyInv => BusyHasBreaker
  <2> SUFFICES ASSUME KeyInv, NEW k \in Keys, phase[k] \in {"call", "probe"}
               PROVE  breakers[k] # NoBreaker
    BY DEF BusyHasBreaker
  <2> QED
    BY FieldTypes DEF KeyInv, Sane
<1> QED
  BY <1>1, KeysAlways, PTL

-----------------------------------------------------------------------------
(* The counts that getStats() gives.                                       *)
OpenKeys == {k \in Keys : stateOf(k) = "open"}

(* Each step changes the state of one breaker at most, as wireBreaker() is *)
(* told of it: the transitions counted are the transitions made.           *)
OneTurn(k, t) ==
  /\ stateOf(k)' = t /\ Turns(stateOf(k), t)
  /\ \A x \in Keys \ {k} : stateOf(x)' = stateOf(x)
  /\ counters' = IF t = stateOf(k) THEN counters ELSE [counters EXCEPT ![t] = @ + 1]

LEMMA StepTurns ==
  ASSUME KeyInv, [KeyNext]_keyVars
  PROVE  \/ \E k \in Keys, t \in States : OneTurn(k, t)
         \/ /\ \A k \in Keys : stateOf(k)' = stateOf(k)
            /\ UNCHANGED counters
<1>t. KeyTypeOK
  BY DEF KeyInv
<1>1. ASSUME NEW k \in Keys, NEW b, NEW p, Runs(k, b, p)
      PROVE  OneTurn(k, b.state) /\ b.state \in States
  <2>1. b \in BreakerFields /\ Becomes(k, b) /\ Turns(stateOf(k), b.state)
    BY <1>1 DEF Runs
  <2> QED
    BY <1>t, <2>1, BecomesEffect, FieldBounds DEF OneTurn, Becomes
<1>2. ASSUME NEW k \in Keys, Create(k) \/ Settled(k)
      PROVE  \E t \in States : OneTurn(k, t)
  BY <1>1, <1>2, CreateRuns, SettledRuns
<1>3. ASSUME NEW K \in SUBSET Keys, dropBreakers(K), UNCHANGED counters
      PROVE  (\A k \in Keys : stateOf(k)' = stateOf(k)) /\ UNCHANGED counters
  BY <1>t, <1>3, DropEffect
<1>4. ASSUME NEW k \in Keys, DisposeDone(k)
      PROVE  (\A x \in Keys : stateOf(x)' = stateOf(x)) /\ UNCHANGED counters
  BY <1>3, <1>4 DEF DisposeDone
<1>5. CASE gcKeyState
  BY <1>3, <1>5 DEF gcKeyState
<1>6. CASE \/ start \/ drain \/ Tick \/ UNCHANGED keyVars
           \/ \E k \in Keys : Ask(k) \/ EndWithout(k) \/ End(k) \/ Remove(k)
  <2>1. UNCHANGED <<breakers, counters>>
    BY <1>6 DEF start, drain, Tick, keyVars, Ask, EndWithout, End, Remove, Removed
  <2> QED
    BY <2>1, SameBreakers
<1> QED
  BY <1>2, <1>4, <1>5, <1>6 DEF KeyNext

LEMMA CountStep ==
  ASSUME KeyInv, OpenBreakersCounted, [KeyNext]_keyVars
  PROVE  OpenBreakersCounted'
<1> USE DEF OpenBreakersCounted
<1>t. /\ counters["open"] \in Nat /\ counters["half-open"] \in Nat /\ counters["closed"] \in Nat
      /\ counters["open"] - counters["half-open"] = Cardinality(OpenKeys)
      /\ counters \in [States -> Nat]
  BY DEF KeyInv, KeyTypeOK, States, OpenKeys
<1>f. IsFiniteSet(OpenKeys) /\ Cardinality(OpenKeys) \in Nat
  BY KeyBreakersAssumption, FS_Subset, FS_CardinalityType DEF OpenKeys
<1>1. CASE (\A k \in Keys : stateOf(k)' = stateOf(k)) /\ UNCHANGED counters
  BY <1>1
<1>2. ASSUME NEW k \in Keys, NEW t \in States, OneTurn(k, t)
      PROVE  counters'["open"] - counters'["half-open"] = Cardinality(OpenKeys')
  <2>1. /\ stateOf(k)' = t /\ Turns(stateOf(k), t)
        /\ counters' = IF t = stateOf(k) THEN counters ELSE [counters EXCEPT ![t] = @ + 1]
    BY <1>2 DEF OneTurn
  <2>2. CASE t = stateOf(k)
    <3>1. OpenKeys' = OpenKeys
      BY <1>2, <2>2 DEF OneTurn, OpenKeys
    <3> QED
      BY <1>t, <2>1, <2>2, <3>1
  <2>3. CASE stateOf(k) # "open" /\ t = "open"
    <3>1. OpenKeys' = OpenKeys \union {k} /\ k \notin OpenKeys
      BY <1>2, <2>3 DEF OneTurn, OpenKeys
    <3>2. Cardinality(OpenKeys') = Cardinality(OpenKeys) + 1
      BY <1>f, <3>1, FS_AddElement
    <3>3. counters'["open"] = counters["open"] + 1 /\ counters'["half-open"] = counters["half-open"]
      BY <1>t, <2>1, <2>3 DEF States
    <3> QED
      BY <1>t, <1>f, <3>2, <3>3
  <2>4. CASE stateOf(k) = "open" /\ t = "half-open"
    <3>1. OpenKeys' = OpenKeys \ {k} /\ k \in OpenKeys
      BY <1>2, <2>4 DEF OneTurn, OpenKeys
    <3>2. Cardinality(OpenKeys') = Cardinality(OpenKeys) - 1
      BY <1>f, <3>1, FS_RemoveElement
    <3>3. counters'["open"] = counters["open"] /\ counters'["half-open"] = counters["half-open"] + 1
      BY <1>t, <2>1, <2>4 DEF States
    <3> QED
      BY <1>t, <1>f, <3>2, <3>3
  <2>5. CASE stateOf(k) = "half-open" /\ t = "closed"
    <3>1. OpenKeys' = OpenKeys
      BY <1>2, <2>5 DEF OneTurn, OpenKeys
    <3>2. counters'["open"] = counters["open"] /\ counters'["half-open"] = counters["half-open"]
      BY <1>t, <2>1, <2>5 DEF States
    <3> QED
      BY <1>t, <3>1, <3>2
  <2> QED
    BY <2>1, <2>2, <2>3, <2>4, <2>5 DEF Turns
<1>3. ASSUME NEW k \in Keys, NEW t \in States, OneTurn(k, t) PROVE OpenBreakersCounted'
  BY <1>2, <1>3 DEF OpenKeys
<1> QED
  BY <1>1, <1>3, StepTurns

(* Transitions to open, re-openings included, less transitions to          *)
(* half-open, as counted, are the breakers that are open now, although     *)
(* breakers come and go with their keys.                                   *)
THEOREM OpeningsAddUp == Spec => []OpenBreakersCounted
<1>1. Init => OpenBreakersCounted
  <2> SUFFICES ASSUME Init PROVE OpenBreakersCounted
    OBVIOUS
  <2>1. \A k \in Keys : stateOf(k) = "closed"
    BY FreshFields DEF Init, KeyInit, stateOf, breakerOf
  <2>2. OpenKeys = {}
    BY <2>1 DEF OpenKeys
  <2>3. counters["open"] = 0 /\ counters["half-open"] = 0
    BY DEF Init, KeyInit, States
  <2> QED
    BY <2>2, <2>3, FS_EmptySet DEF OpenBreakersCounted, OpenKeys
<1> QED
  BY <1>1, CountStep, KeysMove, KeysAlways, PTL DEF Spec

-----------------------------------------------------------------------------
GaugeInv == GaugeFollowsLast /\ moved \in Keys \union {NoBreaker}

LEMMA GaugeStep ==
  ASSUME KeyInv, GaugeInv, [Next]_vars
  PROVE  GaugeInv'
<1>t. counters \in [States -> Nat]
  BY DEF KeyInv, KeyTypeOK
<1>a. \A k \in Keys : k # NoBreaker
  BY AbsentAssumption
<1>1. CASE unbind
  BY <1>1 DEF unbind, GaugeInv, GaugeFollowsLast
<1>2. CASE UNCHANGED vars
  <2>1. \A k \in Keys : stateOf(k)' = stateOf(k)
    BY <1>2, SameBreakers DEF vars, keyVars
  <2> QED
    BY <1>2, <2>1 DEF vars, metricVars, GaugeInv, GaugeFollowsLast
<1>3. CASE KeyNext /\ onBreaker
  <2>1. CASE (\A k \in Keys : stateOf(k)' = stateOf(k)) /\ UNCHANGED counters
    <3>1. \A k \in Keys : ~Moves(k)
      BY <2>1 DEF Moves
    <3>2. UNCHANGED metricVars
      BY <1>3, <3>1 DEF onBreaker, metricVars
    <3> QED
      BY <2>1, <3>2 DEF metricVars, GaugeInv, GaugeFollowsLast
  <2>2. ASSUME NEW k \in Keys, NEW t \in States, OneTurn(k, t) PROVE GaugeInv'
    <3>1. \A x \in Keys : Moves(x) => x = k
      BY <2>2 DEF OneTurn, Moves
    <3>2. CASE Moves(k)
      <4>1. {x \in Keys : Moves(x)} = {k}
        BY <3>1, <3>2
      <4>2. CASE bound
        BY <1>3, <1>a, <4>1, <4>2 DEF onBreaker, GaugeInv, GaugeFollowsLast
      <4>3. CASE ~bound
        BY <1>3, <4>3 DEF onBreaker, GaugeInv, GaugeFollowsLast
      <4> QED
        BY <4>2, <4>3
    <3>3. CASE ~Moves(k)
      <4>1. \A x \in Keys : stateOf(x)' = stateOf(x)
        <5>1. counters[t] \in Nat
          BY <1>t
        <5>2. stateOf(k)' = stateOf(k)
          BY <1>t, <2>2, <3>3, <5>1 DEF OneTurn, Moves
        <5> QED
          BY <2>2, <5>2 DEF OneTurn
      <4>2. UNCHANGED metricVars
        BY <1>3, <3>1, <3>3 DEF onBreaker, metricVars
      <4> QED
        BY <4>1, <4>2 DEF metricVars, GaugeInv, GaugeFollowsLast
    <3> QED
      BY <3>2, <3>3
  <2> QED
    BY <1>3, <2>1, <2>2, StepTurns
<1> QED
  BY <1>1, <1>2, <1>3 DEF Next

(* While it is bound the gauge of bindPrometheus() shows the state of the  *)
(* breaker that moved last: none that it shows open or half-open goes from *)
(* the map unheard.                                                        *)
THEOREM GaugeTrue == Spec => []GaugeFollowsLast
<1>1. Init => GaugeInv
  BY DEF Init, GaugeInv, GaugeFollowsLast
<1>2. GaugeInv => GaugeFollowsLast
  BY DEF GaugeInv
<1> QED
  BY <1>1, <1>2, GaugeStep, KeysAlways, PTL DEF Spec

-----------------------------------------------------------------------------
(* Each key's breaker is a CircuitBreaker with one call at a time.         *)
CallOf(p) == IF p \in {"call", "probe"} THEN p ELSE "idle"

LEMMA KeyStill ==
  ASSUME NEW k \in Keys, breakerOf(k)' = breakerOf(k), UNCHANGED now,
         CallOf(phase'[k]) = CallOf(phase[k])
  PROVE  UNCHANGED B(k)!vars
<1>1. stateOf(k)' = stateOf(k)
  BY DEF stateOf
<1> QED
  BY <1>1 DEF B!vars, CallOf

LEMMA AloneInExec ==
  ASSUME NEW k \in Keys, CallOf(phase[k]) = "idle"
  PROVE  B(k)!Cardinality(B(k)!Busy) < 1
<1>1. B(k)!Busy = {}
  BY DEF B!Busy, CallOf
<1>2. B(k)!Cardinality({}) = Cardinality({})
  BY DEF B!Cardinality, Cardinality
<1> QED
  BY <1>1, <1>2, FS_EmptySet

(* What the call of k does, in the fields of its breaker.                  *)
Enters(k, kind) ==
  /\ CallOf(phase[k]) = "idle" /\ phase'[k] = kind /\ UNCHANGED now
  /\ breakerOf(k).failures' = breakerOf(k).failures
  /\ breakerOf(k).openedAt' = breakerOf(k).openedAt

LEMMA EntersExec ==
  ASSUME NEW k \in Keys,
         \/ /\ Enters(k, "call") /\ stateOf(k) = "closed" /\ stateOf(k)' = "closed"
            /\ breakerOf(k).halfOpenAttempts' = breakerOf(k).halfOpenAttempts
         \/ /\ Enters(k, "probe") /\ stateOf(k) = "open" /\ stateOf(k)' = "half-open"
            /\ Cooled(breakerOf(k)) /\ breakerOf(k).halfOpenAttempts' = 1
         \/ /\ Enters(k, "probe") /\ stateOf(k) = "half-open" /\ stateOf(k)' = "half-open"
            /\ breakerOf(k).halfOpenAttempts < HalfOpenMax
            /\ breakerOf(k).halfOpenAttempts' = breakerOf(k).halfOpenAttempts + 1
  PROVE  B(k)!Next
<1>1. CallOf(phase[k]) = "idle" /\ B(k)!Cardinality(B(k)!Busy) < 1
  BY AloneInExec DEF Enters
<1>2. CASE Enters(k, "call")
  <2>1. B(k)!Run(k)
    BY <1>2 DEF B!Run, Enters, CallOf
  <2> QED
    BY <1>1, <2>1 DEF B!exec, B!Next, CallOf
<1>3. CASE Enters(k, "probe")
  <2>1. B(k)!OpenWindow(k) \/ B(k)!Probe(k)
    BY <1>3 DEF B!OpenWindow, B!Probe, B!Cooled, Cooled, Enters, CallOf
  <2> QED
    BY <1>1, <2>1 DEF B!exec, B!Next, CallOf
<1> QED
  BY <1>2, <1>3

LEMMA CreateIsExec ==
  ASSUME KeyInv, NEW k \in Keys, Create(k)
  PROVE  B(k)!Next \/ UNCHANGED B(k)!vars
<1> DEFINE b == breakerOf(k)
<1>t. KeyTypeOK /\ b \in BreakerFields /\ b.state = stateOf(k)
  BY FieldTypes DEF KeyInv, stateOf
<1>1. /\ phase[k] = "none" /\ CallOf(phase[k]) = "idle" /\ UNCHANGED now
      /\ \A p : phase' = [phase EXCEPT ![k] = p] => phase'[k] = p
  BY <1>t DEF Create, KeyTypeOK, CallOf
<1>2. CASE Admitted(b) = {}
  <2>1. Becomes(k, b) /\ phase'[k] = "failed"
    BY <1>1, <1>2 DEF Create
  <2>2. breakerOf(k)' = b
    BY <1>t, <2>1, BecomesEffect
  <2> QED
    BY <1>1, <2>1, <2>2, KeyStill DEF CallOf
<1>3. CASE Admitted(b) # {}
  <2>1. PICK a \in Admitted(b) : Becomes(k, a[1]) /\ phase'[k] = a[2]
    BY <1>1, <1>3 DEF Create
  <2>2. ASSUME NEW r \in BreakerFields, Becomes(k, r)
        PROVE  breakerOf(k)' = r /\ stateOf(k)' = r.state
    BY <1>t, <2>2, BecomesEffect
  <2>3. CASE b.state = "closed" /\ a = <<b, "call">>
    <3>1. breakerOf(k)' = b /\ stateOf(k)' = b.state /\ phase'[k] = "call"
      BY <1>t, <2>1, <2>2, <2>3
    <3>2. Enters(k, "call")
      BY <1>1, <3>1 DEF Enters
    <3> QED
      BY <1>t, <2>3, <3>1, <3>2, EntersExec
  <2>4. CASE /\ b.state = "open" /\ Cooled(b)
             /\ a = <<[b EXCEPT !.state = "half-open", !.halfOpenAttempts = 1], "probe">>
    <3>1. PICK r : r = [b EXCEPT !.state = "half-open", !.halfOpenAttempts = 1]
      OBVIOUS
    <3>2. /\ r \in BreakerFields /\ r.state = "half-open" /\ r.failures = b.failures
          /\ r.openedAt = b.openedAt /\ r.halfOpenAttempts = 1
      BY <1>t, <3>1, OpenedFields
    <3>3. breakerOf(k)' = r /\ stateOf(k)' = r.state /\ phase'[k] = "probe"
      BY <2>1, <2>2, <2>4, <3>1, <3>2
    <3>4. Enters(k, "probe")
      BY <1>1, <3>2, <3>3 DEF Enters
    <3> QED
      BY <1>t, <2>4, <3>2, <3>3, <3>4, EntersExec
  <2>5. CASE /\ b.state = "half-open" /\ b.halfOpenAttempts < HalfOpenMax
             /\ a = <<[b EXCEPT !.halfOpenAttempts = @ + 1], "probe">>
    <3>1. PICK r : r = [b EXCEPT !.halfOpenAttempts = @ + 1]
      OBVIOUS
    <3>2. /\ r \in BreakerFields /\ r.state = b.state /\ r.failures = b.failures
          /\ r.openedAt = b.openedAt /\ r.halfOpenAttempts = b.halfOpenAttempts + 1
      BY <1>t, <2>5, <3>1, ProbedFields
    <3>3. breakerOf(k)' = r /\ stateOf(k)' = r.state /\ phase'[k] = "probe"
      BY <2>1, <2>2, <2>5, <3>1, <3>2
    <3>4. Enters(k, "probe")
      BY <1>1, <3>2, <3>3 DEF Enters
    <3> QED
      BY <1>t, <2>5, <3>2, <3>3, <3>4, EntersExec
  <2> QED
    BY <1>t, <2>3, <2>4, <2>5, AdmittedBy
<1> QED
  BY <1>2, <1>3

LEMMA SettledIsEnd ==
  ASSUME KeyInv, NEW k \in Keys, Settled(k)
  PROVE  B(k)!Next
<1> DEFINE b == breakerOf(k)
<1>t. /\ KeyTypeOK /\ b \in BreakerFields /\ b.state = stateOf(k) /\ breakers[k] = b
      /\ b.state = "half-open" \/ b.failures < Threshold
      /\ now \in 0..MaxTime
  BY FieldTypes DEF KeyInv, KeyTypeOK, Sane, Settled, stateOf
<1>1. /\ phase[k] \in {"call", "probe"} /\ UNCHANGED now
      /\ \A p : phase' = [phase EXCEPT ![k] = p] => phase'[k] = p
  BY <1>t DEF Settled, KeyTypeOK
<1>2. CASE Becomes(k, Succeeded(b)) /\ phase' = [phase EXCEPT ![k] = "made"]
  <2>1. PICK r : r = Succeeded(b)
    OBVIOUS
  <2>2. /\ r \in BreakerFields /\ r.state = "closed" /\ r.failures = 0
        /\ r.openedAt = b.openedAt
        /\ r.halfOpenAttempts = IF b.state = "closed" THEN b.halfOpenAttempts ELSE 0
    BY <1>t, <2>1, SucceededFields
  <2>3. breakerOf(k)' = r /\ stateOf(k)' = "closed" /\ phase'[k] = "made"
    BY <1>t, <1>1, <1>2, <2>1, <2>2, BecomesEffect
  <2>4. B(k)!onSuccess(k)
    BY <1>t, <1>1, <2>2, <2>3 DEF B!onSuccess
  <2> QED
    BY <2>4 DEF B!Next
<1>3. CASE Becomes(k, Failed(b)) /\ phase' = [phase EXCEPT ![k] = "failed"]
  <2>1. PICK r : r = Failed(b)
    OBVIOUS
  <2>2. /\ r \in BreakerFields
        /\ r.state = IF Trips(b) THEN "open" ELSE b.state
        /\ r.failures = IF b.state = "half-open" THEN b.failures ELSE b.failures + 1
        /\ r.openedAt = IF Trips(b) THEN now ELSE b.openedAt
        /\ r.halfOpenAttempts = b.halfOpenAttempts
    BY <1>t, <2>1, FailedFields
  <2>3. breakerOf(k)' = r /\ stateOf(k)' = r.state /\ phase'[k] = "failed"
    BY <1>t, <1>1, <1>3, <2>1, <2>2, BecomesEffect
  <2>4. Trips(b) <=> b.state = "half-open" \/ B(k)!Trips(b.failures + 1)
    BY DEF Trips, B!Trips
  <2>5. B(k)!onFailure(k)
    BY <1>t, <1>1, <2>2, <2>3, <2>4 DEF B!onFailure
  <2> QED
    BY <2>5 DEF B!Next
<1> QED
  BY <1>t, <1>2, <1>3 DEF Settled

LEMMA EachKeyStep ==
  ASSUME KeyInv, [KeyNext]_keyVars, NEW k \in Keys
  PROVE  B(k)!Next \/ Forgets(k) \/ UNCHANGED B(k)!vars
<1>t. KeyTypeOK
  BY DEF KeyInv
<1>1. ASSUME NEW j \in Keys \ {k}, Create(j) \/ Settled(j)
      PROVE  UNCHANGED B(k)!vars
  <2>1. PICK b, p : Runs(j, b, p)
    BY <1>1, CreateRuns, SettledRuns
  <2>2. breakerOf(k)' = breakerOf(k)
    BY <1>t, <1>1, <2>1, BecomesEffect DEF Runs
  <2>3. phase'[k] = phase[k] /\ UNCHANGED now
    BY <1>t, <2>1 DEF Runs, KeyTypeOK
  <2> QED
    BY <2>2, <2>3, KeyStill
<1>2. ASSUME NEW j \in Keys, Ask(j) \/ EndWithout(j) \/ End(j) \/ Remove(j)
      PROVE  UNCHANGED B(k)!vars
  <2>1. UNCHANGED <<breakers, now>> /\ CallOf(phase'[k]) = CallOf(phase[k])
    BY <1>t, <1>2 DEF Ask, EndWithout, End, Remove, Removed, KeyTypeOK, CallOf
  <2> QED
    BY <2>1, SameBreakers, KeyStill
<1>3. ASSUME NEW K \in SUBSET Keys, dropBreakers(K), UNCHANGED <<phase, now>>
      PROVE  Forgets(k) \/ UNCHANGED B(k)!vars
  <2>1. CASE breakerOf(k)' = breakerOf(k)
    BY <1>3, <2>1, KeyStill
  <2>2. CASE Droppable(k) /\ breakerOf(k)' = Fresh
    BY <1>3, <2>2 DEF Forgets, Droppable
  <2> QED
    BY <1>t, <1>3, <2>1, <2>2, DropEffect
<1>4. ASSUME NEW j \in Keys, DisposeDone(j) PROVE Forgets(k) \/ UNCHANGED B(k)!vars
  BY <1>3, <1>4 DEF DisposeDone
<1>5. CASE gcKeyState
  BY <1>3, <1>5 DEF gcKeyState
<1>6. CASE Tick
  <2>1. B(k)!Tick
    BY <1>6 DEF Tick, B!Tick, breakerOf, stateOf
  <2> QED
    BY <2>1 DEF B!Next
<1>7. CASE start \/ drain \/ UNCHANGED keyVars
  <2>1. UNCHANGED <<breakers, phase, now>>
    BY <1>7 DEF start, drain, Removed, keyVars
  <2> QED
    BY <2>1, SameBreakers, KeyStill
<1> QED
  BY <1>1, <1>2, <1>4, <1>5, <1>6, <1>7, CreateIsExec, SettledIsEnd DEF KeyNext

(* The breakers a key has one after the other behave as one CircuitBreaker *)
(* with one call at a time, but for the failures that one forgets when it  *)
(* is dropped, closed and with nothing of its key left.                    *)
THEOREM OneBreakerPerKey == Spec => EachKeyABreaker
<1>1. Init => \A k \in Keys : B(k)!Init
  <2> SUFFICES ASSUME Init, NEW k \in Keys PROVE B(k)!Init
    OBVIOUS
  <2>1. breakerOf(k) = Fresh /\ stateOf(k) = "closed" /\ phase[k] = "none" /\ now = 0
    BY FreshFields DEF Init, KeyInit, breakerOf, stateOf
  <2> QED
    BY <2>1 DEF B!Init, Fresh
<1>2. KeyInv /\ [Next]_vars
        => [\A k \in Keys : [B(k)!Next \/ Forgets(k)]_(B(k)!vars)]_keyVars
  <2> SUFFICES ASSUME KeyInv, [Next]_vars, NEW k \in Keys
               PROVE  [B(k)!Next \/ Forgets(k)]_(B(k)!vars)
    OBVIOUS
  <2> QED
    BY KeysMove, EachKeyStep
<1> QED
  BY <1>1, <1>2, KeysAlways, PTL DEF Spec, EachKeyABreaker
=============================================================================
