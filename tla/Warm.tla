-------------------------------- MODULE Warm --------------------------------
(***************************************************************************)
(* warm() and warmKey() of packages/core/src/pool.ts: a bounded number of  *)
(* workers takes the keys to warm off a queue; each acquires a key perKey  *)
(* times, one after the other, and then releases all it has.               *)
(***************************************************************************)
EXTENDS ResourceBroker, Sequences

CONSTANTS
  WarmCalls, \* its acquire() calls: perKey of them for each key to warm
  Workers,   \* as many as options.prewarm.concurrency
  NoKey

VARIABLES
  keyQueue, \* the keys no worker has taken yet
  warming   \* the key each worker is busy with

warmVars == <<keyQueue, warming>>

WarmKeys == {KeyOf[c] : c \in WarmCalls}
CallsFor(k) == {c \in WarmCalls : KeyOf[c] = k}
Handles(k) == {c \in CallsFor(k) : want[c] = "granted"}

(* strategy.keys, in any order. *)
WarmInit ==
  /\ keyQueue \in {q \in [1..Cardinality(WarmKeys) -> WarmKeys] :
                    \A i, j \in DOMAIN q : q[i] = q[j] => i = j}
  /\ warming = [w \in Workers |-> NoKey]

TakeKey(w) ==
  /\ warming[w] = NoKey /\ keyQueue # <<>>
  /\ warming' = [warming EXCEPT ![w] = Head(keyQueue)]
  /\ keyQueue' = Tail(keyQueue)
  /\ UNCHANGED brokerVars

AskNext(w) ==
  LET calls == CallsFor(warming[w])
  IN  \E c \in calls : /\ \A d \in calls : want[d] \in {"idle", "granted"}
                       /\ Ask(c)
                       /\ UNCHANGED warmVars

Failed(k) == \E c \in CallsFor(k) : want[c] = "ended"

(* The finally block, reached after the last acquire() or a failed one.    *)
ReleaseHeld(w) == \* fault: after a failure the handles are forgotten
  LET k == warming[w]
  IN  /\ IF Failed(k) THEN UNCHANGED brokerVars ELSE GiveBack(Handles(k))
      /\ warming' = [warming EXCEPT ![w] = NoKey]
      /\ UNCHANGED keyQueue
ReleaseAll(w) ==
  LET k == warming[w]
  IN  /\ IF Handles(k) = {} THEN UNCHANGED brokerVars ELSE GiveBack(Handles(k))
      /\ warming' = [warming EXCEPT ![w] = NoKey]
      /\ UNCHANGED keyQueue

KeyDoneUncaught(w) == \* fault: a failed acquire() ends the worker
  /\ warming[w] # NoKey
  /\ Handles(warming[w]) = CallsFor(warming[w])
  /\ ReleaseAll(w)
KeyDone(w) ==
  /\ warming[w] # NoKey
  /\ Failed(warming[w]) \/ Handles(warming[w]) = CallsFor(warming[w])
  /\ ReleaseAll(w)

WarmDone == keyQueue = <<>> /\ \A w \in Workers : warming[w] = NoKey

WarmNext == \E w \in Workers : TakeKey(w) \/ AskNext(w) \/ KeyDone(w)
=============================================================================
