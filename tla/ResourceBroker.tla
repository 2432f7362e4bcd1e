--------------------------- MODULE ResourceBroker ---------------------------
(***************************************************************************)
(* What the pool promises to those who call acquire() and release(), with  *)
(* nothing of how it keeps the promise: a call is granted its key's one    *)
(* resource or refused, at most Max resources are open, and a resource is  *)
(* closed only when nobody has it.  Once the pool is shut a call may still *)
(* be granted what it had found before, closed or not.  A resource is      *)
(* named after the call on whose behalf the factory made it.               *)
(***************************************************************************)
EXTENDS Integers, FiniteSets

CONSTANTS
  Calls,      \* the calls of acquire()
  Keys,       \* the keys
  KeyOf,      \* the key each call asks for
  NoResource, \* grant of a call that has none
  Max         \* options.max; Max <= 0: no bound

VARIABLES
  want,  \* each call: idle, waiting, granted or ended
  grant, \* the resource a call has been granted
  life,  \* each resource: none, open, closing or gone
  shut   \* closed to new resources

brokerVars == <<want, grant, life, shut>>

OpenOnes == {e \in Calls : life[e] = "open"}
GrantedTo(e) == {c \in Calls : want[c] = "granted" /\ grant[c] = e}
WaitingFor(k) == {c \in Calls : want[c] = "waiting" /\ KeyOf[c] = k}

BrokerInit ==
  /\ want = [c \in Calls |-> "idle"]
  /\ grant = [c \in Calls |-> NoResource]
  /\ life = [e \in Calls |-> "none"]
  /\ shut = FALSE

Ask(c) ==
  /\ want[c] = "idle"
  /\ want' = [want EXCEPT ![c] = "waiting"]
  /\ UNCHANGED <<grant, life, shut>>

(* The factory has made the resource of c's key. *)
Open(c) ==
  /\ want[c] = "waiting" /\ life[c] = "none" /\ ~shut
  /\ \A e \in OpenOnes : KeyOf[e] # KeyOf[c]
  /\ Max > 0 => Cardinality(OpenOnes) < Max
  /\ life' = [life EXCEPT ![c] = "open"]
  /\ UNCHANGED <<want, grant, shut>>

(* obtain() has found e for c, and checkout() asks no more: in a shut pool *)
(* a drain or a last release may have closed e in between.                 *)
Found(e) == life[e] = "open" \/ (shut /\ life[e] # "none")
Give(c, e) ==
  /\ Found(e) /\ KeyOf[e] = KeyOf[c]
  /\ want' = [want EXCEPT ![c] = "granted"]
  /\ grant' = [grant EXCEPT ![c] = e]
  /\ UNCHANGED <<life, shut>>

Grant(c, e) == want[c] = "waiting" /\ Give(c, e)
GrantAtOnce(c, e) == want[c] = "idle" /\ Give(c, e)

(* Timeout, no place to wait, a factory that failed, or a closed pool.     *)
Refuse(c) ==
  /\ want[c] = "waiting"
  /\ want' = [want EXCEPT ![c] = "ended"]
  /\ UNCHANGED <<grant, life, shut>>

Closing(S) == [e \in Calls |-> IF e \in S THEN "closing" ELSE life[e]]

HandleKept(C) == grant \* fault: the handles still name their resources
HandleDropped(C) == [c \in Calls |-> IF c \in C THEN NoResource ELSE grant[c]]

(* The calls of C release their handles; in a shut pool what only they had *)
(* is closed on the spot.                                                  *)
LastOf(C) == {e \in OpenOnes : GrantedTo(e) # {} /\ GrantedTo(e) \subseteq C}
GiveBack(C) ==
  /\ C # {} /\ \A c \in C : want[c] = "granted"
  /\ want' = [c \in Calls |-> IF c \in C THEN "ended" ELSE want[c]]
  /\ grant' = HandleDropped(C)
  /\ life' = IF shut THEN Closing(LastOf(C)) ELSE life
  /\ UNCHANGED shut

(* Eviction, sweep, a stale resource: those of S are disposed of, none     *)
(* before the call it was made for has had it.                             *)
Retire(S) ==
  /\ ~shut /\ S # {}
  /\ \A e \in S : life[e] = "open" /\ GrantedTo(e) = {} /\ want[e] # "waiting"
  /\ life' = Closing(S)
  /\ UNCHANGED <<want, grant, shut>>

Gone(e) ==
  /\ life[e] = "closing"
  /\ life' = [life EXCEPT ![e] = "gone"]
  /\ UNCHANGED <<want, grant, shut>>

(* drain() or stop(): what nobody has is disposed of, what a waiting call  *)
(* has found included.                                                     *)
ShutAll == \* fault: holders are not asked after
  /\ shut' = TRUE
  /\ life' = Closing(OpenOnes)
  /\ UNCHANGED <<want, grant>>
Shut ==
  /\ shut' = TRUE
  /\ life' = Closing({e \in OpenOnes : GrantedTo(e) = {}})
  /\ UNCHANGED <<want, grant>>

BrokerNext ==
  \/ \E c \in Calls : \/ Ask(c) \/ Open(c) \/ Refuse(c)
                      \/ \E e \in Calls : Grant(c, e) \/ GrantAtOnce(c, e)
                      \/ GiveBack({c}) \/ Gone(c)
  \/ \E S \in SUBSET OpenOnes : Retire(S)
  \/ Shut

BrokerSpec == BrokerInit /\ [][BrokerNext]_brokerVars
=============================================================================
