------------------------ MODULE CircuitBreakerProofs ------------------------
(* Theorems about the breaker for every number of callers, threshold,      *)
(* cooldown and probe limit.                                               *)
EXTENDS CircuitBreaker, FiniteSetTheorems, TLAPS

(* The fields keep their types, and a window never counts more probes than *)
(* halfOpenMaxAttempts (exec() in breakers.ts).                            *)
THEOREM Typing == Spec => []TypeOK
<1>1. Init => TypeOK
  BY BreakerAssumption DEF Init, TypeOK, States
<1>2. TypeOK /\ [Next]_vars => TypeOK'
  <2> SUFFICES ASSUME TypeOK, [Next]_vars PROVE TypeOK'
    OBVIOUS
  <2> USE BreakerAssumption DEF TypeOK, States
  <2>1. CASE Tick
    BY <2>1 DEF Tick
  <2>2. ASSUME NEW x \in Execs, exec(x) PROVE TypeOK'
    BY <2>2 DEF exec, Run, OpenWindow, Probe
  <2>3. ASSUME NEW x \in Execs, onSuccess(x) PROVE TypeOK'
    BY <2>3 DEF onSuccess
  <2>4. ASSUME NEW x \in Execs, onFailure(x) PROVE TypeOK'
    BY <2>4 DEF onFailure, Trips
  <2>5. CASE UNCHANGED vars
    BY <2>5 DEF vars
  <2> QED
    BY <2>1, <2>2, <2>3, <2>4, <2>5 DEF Next
<1> QED
  BY <1>1, <1>2, PTL DEF Spec

(* A closed breaker is below its threshold, and a half-open one waits for  *)
(* a probe, whatever calls overlap.                                        *)
Sound == ClosedBelowThreshold /\ ProbeUnderWay

LEMMA SoundStep == TypeOK /\ Sound /\ [Next]_vars => Sound'
<1> SUFFICES ASSUME TypeOK, Sound, [Next]_vars PROVE Sound'
  OBVIOUS
<1> USE BreakerAssumption DEF TypeOK, States, Sound, ClosedBelowThreshold
<1>1. CASE Tick
  BY <1>1 DEF Tick, ProbeUnderWay, Under
<1>2. ASSUME NEW x \in Execs, exec(x) PROVE Sound'
  <2>1. CASE Run(x)
    BY <1>2, <2>1 DEF Run, ProbeUnderWay
  <2>2. CASE OpenWindow(x) \/ Probe(x)
    <3>1. x \in Under("probe")'
      BY <2>2 DEF OpenWindow, Probe, Under
    <3>2. state' = "half-open"
      BY <2>2 DEF OpenWindow, Probe
    <3> QED
      BY <3>1, <3>2 DEF ProbeUnderWay
  <2> QED
    BY <1>2, <2>1, <2>2 DEF exec
<1>3. ASSUME NEW x \in Execs, onSuccess(x) PROVE Sound'
  BY <1>3 DEF onSuccess, ProbeUnderWay
<1>4. ASSUME NEW x \in Execs, onFailure(x) PROVE Sound'
  BY <1>4 DEF onFailure, Trips, ProbeUnderWay
<1>5. CASE UNCHANGED vars
  BY <1>5 DEF vars, ProbeUnderWay, Under
<1> QED
  BY <1>1, <1>2, <1>3, <1>4, <1>5 DEF Next

(* failureThreshold failures in a row leave the breaker not closed.        *)
THEOREM BelowThreshold == Spec => []ClosedBelowThreshold
<1>1. Init => Sound
  BY BreakerAssumption DEF Init, Sound, ClosedBelowThreshold, ProbeUnderWay
<1>2. Sound => ClosedBelowThreshold
  BY DEF Sound
<1> QED
  BY <1>1, <1>2, SoundStep, Typing, PTL DEF Spec

(* A half-open breaker always has a probe under way, so it cannot refuse   *)
(* every call for ever.                                                    *)
THEOREM NeverWedged == Spec => []ProbeUnderWay
<1>1. Init => Sound
  BY BreakerAssumption DEF Init, Sound, ClosedBelowThreshold, ProbeUnderWay
<1>2. Sound => ProbeUnderWay
  BY DEF Sound
<1> QED
  BY <1>1, <1>2, SoundStep, Typing, PTL DEF Spec

-----------------------------------------------------------------------------
(* A breaker of its own for each key: the per-key mutex runs one factory   *)
(* call at a time.                                                         *)

LEMMA OneAtATime ==
  ASSUME Concurrency = 1, NEW x \in Execs, exec(x)
  PROVE  Busy = {}
<1>1. IsFiniteSet(Busy)
  BY BreakerAssumption, FS_Subset DEF Busy
<1>2. Cardinality(Busy) < 1
  BY DEF exec
<1> QED
  BY <1>1, <1>2, FS_CardinalityType, FS_EmptySet

AtMostOne == \A x, y \in Busy : x = y

(* With the mutex around exec(), no call is under way while the breaker is *)
(* open.                                                                   *)
THEOREM QuietWhileOpen ==
  ASSUME Concurrency = 1
  PROVE  Spec => []OpenIsQuiet
<1> DEFINE IInv == TypeOK /\ AtMostOne /\ OpenIsQuiet
<1>1. Init => IInv
  BY BreakerAssumption DEF Init, TypeOK, States, AtMostOne, OpenIsQuiet, Busy
<1>2. TypeOK /\ TypeOK' /\ AtMostOne /\ OpenIsQuiet /\ [Next]_vars
        => (AtMostOne /\ OpenIsQuiet)'
  <2> SUFFICES ASSUME TypeOK, TypeOK', AtMostOne, OpenIsQuiet, [Next]_vars
               PROVE  AtMostOne' /\ OpenIsQuiet'
    OBVIOUS
  <2> USE DEF TypeOK, AtMostOne, OpenIsQuiet, Busy
  <2>1. CASE Tick \/ UNCHANGED vars
    BY <2>1 DEF Tick, vars
  <2>2. ASSUME NEW x \in Execs, exec(x) PROVE AtMostOne' /\ OpenIsQuiet'
    <3>1. \A y \in Execs : call[y] = "idle"
      BY <2>2, OneAtATime
    <3> QED
      BY <2>2, <3>1 DEF exec, Run, OpenWindow, Probe
  <2>3. ASSUME NEW x \in Execs, onSuccess(x) \/ onFailure(x)
        PROVE  AtMostOne' /\ OpenIsQuiet'
    <3>1. \A y \in Execs : call'[y] = "idle"
      BY <2>3 DEF onSuccess, onFailure
    <3> QED
      BY <3>1
  <2> QED
    BY <2>1, <2>2, <2>3 DEF Next
<1> QED
  BY <1>1, <1>2, Typing, PTL DEF Spec

(* With the mutex around exec(), an open breaker stays open for at least   *)
(* its cooldown: nobody can close it by a success that came late.          *)
THEOREM CooldownServed ==
  ASSUME Concurrency = 1
  PROVE  Spec => OpenForCooldown
<1>1. TypeOK /\ OpenIsQuiet /\ [Next]_vars
        => [state = "open" /\ state' # "open" => now - openedAt >= Cooldown]_vars
  BY BreakerAssumption
     DEF TypeOK, OpenIsQuiet, Busy, Next, Tick, exec, Run, OpenWindow, Probe,
         Cooled, onSuccess, onFailure
<1> QED
  BY <1>1, Typing, QuietWhileOpen, PTL DEF Spec, OpenForCooldown
=============================================================================
