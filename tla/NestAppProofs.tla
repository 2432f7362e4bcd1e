---------------------------- MODULE NestAppProofs ----------------------------
(***************************************************************************)
(* Theorems about the application around the pool: whoever runs with a     *)
(* resource has it, warming leaves nothing held, and there are never more  *)
(* database clients than options.max; and about the same with a breaker    *)
(* that gives up on creations, whose clients come on top.                  *)
(***************************************************************************)
EXTENDS CreationTimeout, FiniteSetTheorems, TLAPS

-----------------------------------------------------------------------------
(* The broker: a granted resource is of the key asked for, and open unless *)
(* a shutdown came first.                                                  *)

BrokerTypes ==
  /\ want \in [Calls -> {"idle", "waiting", "granted", "ended"}]
  /\ grant \in [Calls -> Calls \union {NoResource}]
  /\ life \in [Calls -> {"none", "open", "closing", "gone"}]
  /\ shut \in BOOLEAN

Granted(c) == /\ grant[c] \in Calls
              /\ Found(grant[c])
              /\ KeyOf[grant[c]] = KeyOf[c]
GrantsFound ==
  \A c \in Calls : IF want[c] = "granted" THEN Granted(c) ELSE grant[c] = NoResource

Brokered == BrokerTypes /\ GrantsFound

(* What clients and pool do with the broker, factories and disposals aside. *)
OuterMove ==
  \/ UNCHANGED brokerVars
  \/ Shut
  \/ \E c \in Calls : \/ Ask(c)
                      \/ c \notin InFactory /\ Refuse(c)
                      \/ c \notin InFactory /\ \E e \in Calls : Grant(c, e)
  \/ \E C \in SUBSET Calls : GiveBack(C)
  \/ \E S \in SUBSET Calls : Retire(S)

(* What the adapters do with it. *)
InnerMove ==
  \/ UNCHANGED brokerVars
  \/ \E c \in Calls : Refuse(c) \/ Open(c) \/ Gone(c)

(* Who has a resource keeps it: no operation of the pool closes it, or     *)
(* replaces it by another.                                                 *)
HandlesKept ==
  \A c \in Calls :
    want[c] = "granted" /\ want'[c] = "granted" =>
      /\ grant'[c] = grant[c]
      /\ life[grant[c]] = "open" => life'[grant[c]] = "open"

LEMMA BrokerKept ==
  ASSUME Brokered, OuterMove \/ InnerMove
  PROVE  Brokered' /\ HandlesKept
<1> USE ClientsAssumption DEF Brokered, BrokerTypes, GrantsFound, Granted, Found, HandlesKept
<1>1. CASE UNCHANGED brokerVars
  BY <1>1 DEF brokerVars
<1>2. CASE Shut
  <2> DEFINE S == {e \in OpenOnes : GrantedTo(e) = {}}
  <2>1. life' = Closing(S) /\ shut' = TRUE /\ UNCHANGED <<want, grant>>
    BY <1>2 DEF Shut
  <2>2. \A e \in Calls : life'[e] = IF e \in S THEN "closing" ELSE life[e]
    BY <2>1 DEF Closing
  <2>3. \A c \in Calls : want[c] = "granted" => grant[c] \notin S
    BY DEF GrantedTo
  <2>4. \A e \in S : life[e] = "open"
    BY DEF OpenOnes
  <2>5. BrokerTypes'
    BY <2>1 DEF Closing
  <2> HIDE DEF S
  <2>6. \A c \in Calls : want[c] = "granted" => Granted(c)'
    BY <2>1, <2>2, <2>3
  <2> QED
    BY <2>1, <2>2, <2>3, <2>5, <2>6
<1>3. ASSUME NEW c \in Calls, Ask(c) PROVE Brokered' /\ HandlesKept
  BY <1>3 DEF Ask
<1>4. ASSUME NEW c \in Calls, Refuse(c) PROVE Brokered' /\ HandlesKept
  BY <1>4 DEF Refuse
<1>5. ASSUME NEW c \in Calls, NEW e \in Calls, Grant(c, e) PROVE Brokered' /\ HandlesKept
  BY <1>5 DEF Grant, Give
<1>6. ASSUME NEW c \in Calls, Open(c) PROVE Brokered' /\ HandlesKept
  BY <1>6 DEF Open
<1>7. ASSUME NEW c \in Calls, Gone(c) PROVE Brokered' /\ HandlesKept
  BY <1>7 DEF Gone
<1>8. ASSUME NEW S \in SUBSET Calls, Retire(S) PROVE Brokered' /\ HandlesKept
  <2>1. \A c \in Calls : want[c] = "granted" => grant[c] \notin S
    BY <1>8 DEF Retire, GrantedTo
  <2> QED
    BY <1>8, <2>1 DEF Retire, Closing
<1>9. ASSUME NEW C \in SUBSET Calls, GiveBack(C)
      PROVE  Brokered' /\ HandlesKept
  <2> DEFINE S == IF shut THEN LastOf(C) ELSE {}
  <2>1. \A c \in Calls : want'[c] = IF c \in C THEN "ended" ELSE want[c]
    BY <1>9 DEF GiveBack
  <2>2. \A c \in Calls : grant'[c] = IF c \in C THEN NoResource ELSE grant[c]
    BY <1>9 DEF GiveBack, HandleDropped
  <2>3. \A e \in Calls : life'[e] = IF e \in S THEN "closing" ELSE life[e]
    BY <1>9 DEF GiveBack, Closing
  <2>4. \A c \in Calls \ C : want[c] = "granted" => grant[c] \notin S
    BY DEF LastOf, GrantedTo
  <2>5. BrokerTypes' /\ shut' = shut
    BY <1>9 DEF GiveBack, Closing, HandleDropped
  <2>6. \A e \in S : life[e] = "open" /\ shut
    BY DEF LastOf, OpenOnes
  <2> HIDE DEF S
  <2>7. \A c \in Calls : IF want'[c] = "granted" THEN Granted(c)' ELSE grant'[c] = NoResource
    BY <2>1, <2>2, <2>3, <2>4, <2>5, <2>6
  <2> QED
    BY <2>1, <2>2, <2>3, <2>4, <2>5, <2>7
<1> QED
  BY <1>1, <1>2, <1>3, <1>4, <1>5, <1>6, <1>7, <1>8, <1>9 DEF OuterMove, InnerMove

-----------------------------------------------------------------------------
(* The types of clients, adapters and application.                         *)

PartTypes ==
  /\ client \in [Calls -> {"none", "configuring", "making", "ready", "undoing", "ended"}]
  /\ stage \in [Requests -> {"absent", "acquiring", "handling", "failed"}]
  /\ \A r \in Requests : stage[r] = "acquiring" => r \in Calls
  /\ response \in [Requests -> {"open", "finished", "closed"}]
  /\ listening \subseteq Requests \cap Calls
  /\ running \subseteq Jobs
  /\ keyQueue \in Seq(Keys)
  /\ warming \in [Workers -> Keys \union {NoKey}]
  /\ app \in {"initializing", "serving", "stopping", "stopped"}
  /\ awaited \subseteq Calls

(* A request attaches its listeners only with a handle; warming takes its  *)
(* keys from the queue.                                                    *)
LEMMA PartTypesStep ==
  ASSUME Brokered, PartTypes, [Next]_vars
  PROVE  PartTypes'
<1> USE ClientsAssumption DEF PartTypes
<1>1. CASE UNCHANGED vars
  BY <1>1 DEF vars, requestVars, warmVars
<1>2. CASE Warming
  <2>1. PICK w \in Workers : TakeKey(w) \/ AskNext(w) \/ KeyDone(w)
    BY <1>2 DEF Warming, WarmNext
  <2>2. UNCHANGED <<requestVars, client, app, awaited>>
    BY <1>2 DEF Warming
  <2>3. CASE TakeKey(w)
    <3>1. Head(keyQueue) \in Keys /\ Tail(keyQueue) \in Seq(Keys)
      BY <2>3 DEF TakeKey
    <3> QED
      BY <2>2, <2>3, <3>1 DEF TakeKey, requestVars
  <2>4. CASE AskNext(w)
    BY <2>2, <2>4 DEF AskNext, requestVars, warmVars
  <2>5. CASE KeyDone(w)
    BY <2>2, <2>5 DEF KeyDone, ReleaseAll, requestVars
  <2> QED
    BY <2>1, <2>3, <2>4, <2>5
<1>3. CASE Serving(RequestNext)
  <2>1. UNCHANGED <<warmVars, client, app, awaited>>
    BY <1>3 DEF Serving
  <2>2. ASSUME NEW r \in Requests,
               \/ UseMissing(r) \/ UseTenant(r) \/ Attach(r)
               \/ AcquireFailed(r) \/ Finish(r) \/ Close(r)
        PROVE  PartTypes'
    <3>1. CASE UseMissing(r)
      BY <2>1, <3>1 DEF UseMissing, warmVars
    <3>2. CASE UseTenant(r)
      BY <2>1, <3>2 DEF UseTenant, Tenantless, warmVars
    <3>3. CASE Attach(r)
      <4>1. r \in Calls
        BY <3>3 DEF Attach
      <4> QED
        BY <2>1, <3>3, <4>1 DEF Attach, warmVars
    <3>4. CASE AcquireFailed(r)
      BY <2>1, <3>4 DEF AcquireFailed, warmVars
    <3>5. CASE Finish(r) \/ Close(r)
      BY <2>1, <3>5 DEF Finish, Close, warmVars
    <3> QED
      BY <2>2, <3>1, <3>2, <3>3, <3>4, <3>5
  <2>3. ASSUME NEW j \in Jobs, JobAsk(j) \/ JobRun(j) \/ JobEnd(j)
        PROVE  PartTypes'
    BY <2>1, <2>3 DEF JobAsk, JobRun, JobEnd, requestVars, warmVars
  <2> QED
    BY <1>3, <2>2, <2>3 DEF Serving, RequestNext
<1>4. CASE PoolNext
  BY <1>4 DEF PoolNext, Serve, Reject, Evict, others, requestVars, warmVars
<1>5. CASE AdapterNext /\ UNCHANGED others
  BY <1>5 DEF AdapterNext, Factory, Configured, ConfigFailed, Made, MakeFailed,
              Undone, Disposed, becomes, others, requestVars, warmVars
<1>6. CASE Initialized \/ Stop \/ Stopped
  BY <1>6 DEF Initialized, Stop, Stopped, OpenOnes, requestVars, warmVars
<1> QED
  BY <1>1, <1>2, <1>3, <1>4, <1>5, <1>6 DEF Next

-----------------------------------------------------------------------------
(* Each step of the application is one of the clients and the pool, which  *)
(* leaves the factories alone, or one of an adapter.                       *)

LEMMA Sides ==
  ASSUME Brokered, PartTypes, [Next]_vars
  PROVE  \/ OuterMove /\ UNCHANGED client
         \/ AdapterNext /\ UNCHANGED others /\ InnerMove
<1> USE ClientsAssumption
<1>1. CASE UNCHANGED vars
  BY <1>1 DEF vars, OuterMove
<1>2. CASE Warming
  <2>1. PICK w \in Workers : TakeKey(w) \/ AskNext(w) \/ KeyDone(w)
    BY <1>2 DEF Warming, WarmNext
  <2>2. CASE TakeKey(w)
    BY <1>2, <2>2 DEF Warming, TakeKey, OuterMove
  <2>3. CASE AskNext(w)
    <3>1. \E c \in Calls : Ask(c)
      BY <2>3 DEF AskNext, CallsFor
    <3> QED
      BY <1>2, <3>1 DEF Warming, OuterMove
  <2>4. CASE KeyDone(w)
    <3> DEFINE C == Handles(warming[w])
    <3>1. C \in SUBSET Calls
      BY DEF Handles, CallsFor
    <3>3. OuterMove
      <4>1. CASE Handles(warming[w]) = {}
        BY <2>4, <4>1 DEF KeyDone, ReleaseAll, OuterMove
      <4>2. CASE Handles(warming[w]) # {}
        <5>1. GiveBack(C)
          BY <2>4, <4>2 DEF KeyDone, ReleaseAll
        <5> QED
          BY <3>1, <5>1 DEF OuterMove
      <4> QED
        BY <4>1, <4>2
    <3> QED
      BY <1>2, <3>3 DEF Warming
  <2> QED
    BY <2>1, <2>2, <2>3, <2>4
<1>3. CASE Serving(RequestNext)
  <2>1. UNCHANGED client
    BY <1>3 DEF Serving
  <2>2. ASSUME NEW r \in Calls, GiveBack({r})
        PROVE  OuterMove
    <3>1. {r} \in SUBSET Calls
      OBVIOUS
    <3> QED
      BY <2>2, <3>1 DEF OuterMove
  <2>3. ASSUME NEW r \in Requests, emitEnd(r)
        PROVE  OuterMove
    <3>1. CASE r \in listening /\ ~released(r)
      BY <2>2, <2>3, <3>1 DEF emitEnd, released, PartTypes
    <3>2. CASE ~(r \in listening /\ ~released(r))
      BY <2>3, <3>2 DEF emitEnd, OuterMove
    <3> QED
      BY <3>1, <3>2
  <2>4. ASSUME NEW r \in Requests,
               \/ UseMissing(r) \/ UseTenant(r) \/ Attach(r)
               \/ AcquireFailed(r) \/ Finish(r) \/ Close(r)
        PROVE  OuterMove
    <3>1. CASE UseTenant(r)
      BY <3>1 DEF UseTenant, Tenantless, OuterMove
    <3>2. CASE Finish(r) \/ Close(r)
      BY <2>3, <3>2 DEF Finish, Close
    <3> QED
      BY <2>4, <3>1, <3>2 DEF UseMissing, Attach, AcquireFailed, OuterMove
  <2>5. ASSUME NEW j \in Jobs, JobAsk(j) \/ JobRun(j) \/ JobEnd(j)
        PROVE  OuterMove
    <3>1. j \in Calls
      OBVIOUS
    <3>2. CASE JobEnd(j)
      BY <2>2, <3>1, <3>2 DEF JobEnd
    <3> QED
      BY <2>5, <3>1, <3>2 DEF JobAsk, JobRun, OuterMove
  <2> QED
    BY <1>3, <2>1, <2>4, <2>5 DEF Serving, RequestNext
<1>4. CASE PoolNext
  <2>1. PICK c \in Calls : Serve(c) \/ Reject(c) \/ Evict(c)
    BY <1>4 DEF PoolNext
  <2>2. CASE Evict(c)
    <3>1. {c} \in SUBSET Calls
      OBVIOUS
    <3> QED
      BY <2>2, <3>1 DEF Evict, OuterMove
  <2>3. OpenOnes \union awaited \subseteq Calls
    BY DEF OpenOnes, PartTypes
  <2> QED
    BY <2>1, <2>2, <2>3 DEF Serve, Reject, OuterMove
<1>5. CASE AdapterNext /\ UNCHANGED others
  <2>1. InnerMove
    BY <1>5 DEF AdapterNext, Factory, Configured, ConfigFailed, Made, MakeFailed,
                Undone, Disposed, InnerMove
  <2> QED
    BY <1>5, <2>1
<1>6. CASE Initialized \/ Stop \/ Stopped
  BY <1>6 DEF Initialized, Stop, Stopped, OuterMove
<1> QED
  BY <1>1, <1>2, <1>3, <1>4, <1>5, <1>6 DEF Next

-----------------------------------------------------------------------------
(* Users.                                                                  *)

UsersHold ==
  /\ \A r \in Requests \cap Calls :
       stage[r] = "handling" /\ response[r] = "open" => want[r] = "granted"
  /\ \A j \in running : want[j] = "granted"

(* Only the client that a call belongs to gives its resource back.         *)
LEMMA UsersStep ==
  ASSUME Brokered, PartTypes, UsersHold, [Next]_vars
  PROVE  UsersHold'
<1> USE ClientsAssumption DEF UsersHold, Brokered, BrokerTypes, PartTypes
<1>1. CASE UNCHANGED vars
  BY <1>1 DEF vars, brokerVars, requestVars
<1>2. CASE Warming
  <2>1. UNCHANGED requestVars
    BY <1>2 DEF Warming
  <2>2. \A c \in Calls \ WarmCalls : want[c] = "granted" => want'[c] = "granted"
    <3>1. PICK w \in Workers : TakeKey(w) \/ AskNext(w) \/ KeyDone(w)
      BY <1>2 DEF Warming, WarmNext
    <3>2. CASE TakeKey(w)
      BY <3>2 DEF TakeKey, brokerVars
    <3>3. CASE AskNext(w)
      BY <3>3 DEF AskNext, CallsFor, Ask
    <3>4. CASE KeyDone(w)
      <4> DEFINE C == Handles(warming[w])
      <4>1. C \subseteq WarmCalls
        BY DEF Handles, CallsFor
      <4>2. CASE UNCHANGED brokerVars
        BY <4>2 DEF brokerVars
      <4>3. ASSUME GiveBack(C)
            PROVE  \A c \in Calls \ WarmCalls : want'[c] = want[c]
        BY <4>1, <4>3 DEF GiveBack
      <4> QED
        BY <3>4, <4>2, <4>3 DEF KeyDone, ReleaseAll
    <3> QED
      BY <3>1, <3>2, <3>3, <3>4
  <2> QED
    BY <2>1, <2>2 DEF requestVars
<1>3. CASE Serving(RequestNext)
  <2>1. ASSUME NEW r \in Requests, UseMissing(r) PROVE UsersHold'
    BY <2>1 DEF UseMissing, Tenantless, brokerVars
  <2>2. ASSUME NEW r \in Requests, UseTenant(r) PROVE UsersHold'
    BY <2>2 DEF UseTenant, Ask
  <2>3. ASSUME NEW r \in Requests, Attach(r) PROVE UsersHold'
    BY <2>3 DEF Attach, brokerVars
  <2>4. ASSUME NEW r \in Requests, AcquireFailed(r) PROVE UsersHold'
    BY <2>4 DEF AcquireFailed, brokerVars
  <2>5. ASSUME NEW r \in Requests, Finish(r) \/ Close(r) PROVE UsersHold'
    <3>1. \A c \in Calls \ {r} : want[c] = "granted" => want'[c] = "granted"
      BY <2>5 DEF Finish, Close, emitEnd, GiveBack, brokerVars
    <3>2. response'[r] # "open" /\ \A q \in Requests \ {r} : response'[q] = response[q]
      BY <2>5 DEF Finish, Close
    <3>3. UNCHANGED <<stage, running>>
      BY <2>5 DEF Finish, Close
    <3> QED
      BY <3>1, <3>2, <3>3
  <2>6. ASSUME NEW j \in Jobs, JobAsk(j) PROVE UsersHold'
    BY <2>6 DEF JobAsk, Ask, requestVars
  <2>7. ASSUME NEW j \in Jobs, JobRun(j) PROVE UsersHold'
    BY <2>7 DEF JobRun, brokerVars
  <2>8. ASSUME NEW j \in Jobs, JobEnd(j) PROVE UsersHold'
    BY <2>8 DEF JobEnd, GiveBack
  <2> QED
    BY <1>3, <2>1, <2>2, <2>3, <2>4, <2>5, <2>6, <2>7, <2>8 DEF Serving, RequestNext
<1>4. CASE PoolNext
  BY <1>4 DEF PoolNext, Serve, Grant, Give, Reject, Refuse, Evict, Retire, others,
              requestVars
<1>5. CASE AdapterNext /\ UNCHANGED others
  <2>1. UNCHANGED requestVars
    BY <1>5 DEF others
  <2>2. \A c \in Calls : want[c] = "granted" => want'[c] = "granted"
    BY <1>5 DEF AdapterNext, Factory, Configured, ConfigFailed, Made, MakeFailed,
                Undone, Disposed, Refuse, Open, Gone, brokerVars
  <2> QED
    BY <2>1, <2>2 DEF requestVars
<1>6. CASE Initialized \/ Stop \/ Stopped
  BY <1>6 DEF Initialized, Stop, Stopped, Shut, brokerVars, requestVars
<1> QED
  BY <1>1, <1>2, <1>3, <1>4, <1>5, <1>6 DEF Next

-----------------------------------------------------------------------------
(* Warming.                                                                *)

(* A warm-up's call waits or has a handle only while a worker is busy with *)
(* its key; and a worker asks for one resource at a time, so that nothing  *)
(* is under way when it lets go of the key.                                *)
WarmServed ==
  \A c \in WarmCalls :
    want[c] \in {"waiting", "granted"} =>
      app = "initializing" /\ \E w \in Workers : warming[w] = KeyOf[c]
WarmSerial ==
  \A c, d \in WarmCalls :
    want[c] = "waiting" /\ KeyOf[d] = KeyOf[c] /\ d # c => want[d] \in {"idle", "granted"}
WarmIfWanted == ~WarmOnInit => \A w \in Workers : warming[w] = NoKey

WarmInv == WarmServed /\ WarmSerial /\ WarmIfWanted

(* What the others do to the calls of a warm-up: serve or refuse them.     *)
WarmLeft ==
  \A c \in WarmCalls : \/ want'[c] = want[c]
                       \/ want[c] = "waiting" /\ want'[c] \in {"granted", "ended"}

(* A refused call counts as ended: with it nothing of its key waits.       *)
LEMMA WarmSerialKept ==
  ASSUME BrokerTypes, WarmSerial, WarmLeft
  PROVE  WarmSerial'
<1> SUFFICES ASSUME NEW c \in WarmCalls, NEW d \in WarmCalls,
                    want'[c] = "waiting", KeyOf[d] = KeyOf[c], d # c
             PROVE  want'[d] \in {"idle", "granted"}
  BY DEF WarmSerial
<1>1. want[c] = "waiting"
  BY DEF WarmLeft
<1>2. want[d] \in {"idle", "granted"}
  BY <1>1 DEF WarmSerial
<1> QED
  BY <1>2 DEF WarmLeft

LEMMA WarmServedKept ==
  ASSUME BrokerTypes, WarmServed, WarmLeft, UNCHANGED <<warmVars, app>>
  PROVE  WarmServed'
BY DEF WarmServed, WarmLeft, warmVars

(* The finally block releases everything of the key.                       *)
LEMMA WarmStep ==
  ASSUME Brokered, PartTypes, WarmInv, [Next]_vars
  PROVE  WarmInv'
<1> USE ClientsAssumption DEF Brokered, PartTypes
<1> USE DEF WarmInv
<1>l. ASSUME WarmLeft, UNCHANGED <<warmVars, app>> PROVE WarmInv'
  BY <1>l, WarmSerialKept, WarmServedKept DEF WarmIfWanted, warmVars
<1>1. CASE UNCHANGED vars
  BY <1>1, <1>l DEF vars, brokerVars, WarmLeft
<1>2. CASE Warming
  <2>1. PICK w \in Workers : TakeKey(w) \/ AskNext(w) \/ KeyDone(w)
    BY <1>2 DEF Warming, WarmNext
  <2>2. app = "initializing" /\ app' = app /\ WarmOnInit
    BY <1>2 DEF Warming
  <2>3. CASE TakeKey(w)
    <3>1. want' = want
      BY <2>3 DEF TakeKey, brokerVars
    <3>2. \A c \in WarmCalls : warming[w] # KeyOf[c]
      BY <2>3 DEF TakeKey
    <3>3. \A v \in Workers \ {w} : warming'[v] = warming[v]
      BY <2>3 DEF TakeKey
    <3> QED
      BY <2>2, <3>1, <3>2, <3>3 DEF WarmServed, WarmSerial, WarmIfWanted
  <2>4. CASE AskNext(w)
    <3>1. PICK c \in CallsFor(warming[w]) :
            /\ \A d \in CallsFor(warming[w]) : want[d] \in {"idle", "granted"}
            /\ Ask(c)
      BY <2>4 DEF AskNext
    <3>2. warming' = warming
      BY <2>4 DEF AskNext, warmVars
    <3>3. c \in WarmCalls /\ KeyOf[c] = warming[w]
      BY DEF CallsFor
    <3>4. /\ want[c] = "idle" /\ want'[c] = "waiting"
          /\ \A d \in Calls \ {c} : want'[d] = want[d]
      BY <3>1, <3>3 DEF Ask, BrokerTypes
    <3>5. WarmServed'
      BY <2>2, <3>2, <3>3, <3>4 DEF WarmServed
    <3>6. ASSUME NEW d \in WarmCalls, KeyOf[d] = KeyOf[c]
          PROVE  want[d] \in {"idle", "granted"}
      BY <3>1, <3>3, <3>6 DEF CallsFor
    <3>7. WarmSerial'
      BY <3>3, <3>4, <3>6 DEF WarmSerial
    <3> QED
      BY <2>2, <3>5, <3>7 DEF WarmIfWanted
  <2>5. CASE KeyDone(w)
    <3> DEFINE k == warming[w]
    <3>1. /\ Failed(k) \/ Handles(k) = CallsFor(k)
          /\ warming' = [warming EXCEPT ![w] = NoKey]
      BY <2>5 DEF KeyDone, ReleaseAll
    <3>2. ASSUME NEW c \in CallsFor(k)
          PROVE  want[c] # "waiting"
      <4>1. CASE Failed(k)
        <5>1. PICK d \in CallsFor(k) : want[d] = "ended"
          BY <4>1 DEF Failed
        <5> QED
          BY <5>1 DEF WarmSerial, CallsFor
      <4>2. CASE Handles(k) = CallsFor(k)
        BY <4>2 DEF Handles
      <4> QED
        BY <3>1, <4>1, <4>2
    <3>3. \A c \in Calls : want'[c] = IF c \in Handles(k) THEN "ended" ELSE want[c]
      <4>1. CASE Handles(k) = {}
        BY <2>5, <4>1 DEF KeyDone, ReleaseAll, brokerVars
      <4>2. CASE Handles(k) # {}
        BY <2>5, <4>2 DEF KeyDone, ReleaseAll, GiveBack
      <4> QED
        BY <4>1, <4>2
    <3>4. \A c \in CallsFor(k) : want'[c] \notin {"waiting", "granted"}
      BY <3>2, <3>3 DEF Handles, CallsFor
    <3>5. \A c \in WarmCalls : KeyOf[c] # k => want'[c] = want[c]
      BY <3>3 DEF Handles, CallsFor
    <3>6. WarmServed'
      <4> SUFFICES ASSUME NEW c \in WarmCalls, want'[c] \in {"waiting", "granted"}
                   PROVE  \E v \in Workers : warming'[v] = KeyOf[c]
        BY <2>2 DEF WarmServed
      <4>1. KeyOf[c] # k
        BY <3>4 DEF CallsFor
      <4>2. PICK v \in Workers : warming[v] = KeyOf[c]
        BY <3>5, <4>1 DEF WarmServed
      <4> QED
        BY <3>1, <4>1, <4>2
    <3>7. WarmSerial'
      <4> SUFFICES ASSUME NEW c \in WarmCalls, NEW d \in WarmCalls,
                          want'[c] = "waiting", KeyOf[d] = KeyOf[c], d # c
                   PROVE  want'[d] \in {"idle", "granted"}
        BY DEF WarmSerial
      <4>1. KeyOf[c] # k
        BY <3>4 DEF CallsFor
      <4> QED
        BY <3>5, <4>1 DEF WarmSerial
    <3> QED
      BY <2>2, <3>6, <3>7 DEF WarmIfWanted
  <2> QED
    BY <2>1, <2>3, <2>4, <2>5
<1>3. CASE Serving(RequestNext)
  <2>1. UNCHANGED <<warmVars, app>>
    BY <1>3 DEF Serving
  <2>2. WarmLeft
    <3>1. ASSUME NEW r \in Requests,
                 \/ UseMissing(r) \/ UseTenant(r) \/ Attach(r)
                 \/ AcquireFailed(r) \/ Finish(r) \/ Close(r)
          PROVE  WarmLeft
      <4>1. \A c \in Calls \ {r} : want'[c] = want[c]
        BY <3>1 DEF UseMissing, UseTenant, Attach, AcquireFailed, Finish, Close,
                    emitEnd, GiveBack, Ask, BrokerTypes, brokerVars
      <4> QED
        BY <4>1 DEF WarmLeft
    <3>2. ASSUME NEW j \in Jobs, JobAsk(j) \/ JobRun(j) \/ JobEnd(j)
          PROVE  WarmLeft
      <4>1. \A c \in Calls \ {j} : want'[c] = want[c]
        BY <3>2 DEF JobAsk, JobRun, JobEnd, GiveBack, Ask, BrokerTypes, brokerVars
      <4> QED
        BY <4>1 DEF WarmLeft
    <3> QED
      BY <1>3, <3>1, <3>2 DEF Serving, RequestNext
  <2> QED
    BY <1>l, <2>1, <2>2
<1>4. CASE PoolNext
  <2>1. PICK c \in Calls : Serve(c) \/ Reject(c) \/ Evict(c)
    BY <1>4 DEF PoolNext
  <2>2. WarmLeft
    BY <2>1 DEF Serve, Grant, Give, Reject, Refuse, Evict, Retire, WarmLeft, BrokerTypes
  <2>3. UNCHANGED <<warmVars, app>>
    BY <2>1 DEF Serve, Reject, Evict, others
  <2> QED
    BY <1>l, <2>2, <2>3
<1>5. CASE AdapterNext /\ UNCHANGED others
  <2>1. WarmLeft
    BY <1>5 DEF AdapterNext, Factory, Configured, ConfigFailed, Made, MakeFailed, Undone,
                Disposed, Refuse, Open, Gone, WarmLeft, BrokerTypes, brokerVars
  <2> QED
    BY <1>5, <1>l, <2>1 DEF others
<1>6. CASE Initialized
  <2>1. want' = want /\ warming' = warming
    BY <1>6 DEF Initialized, brokerVars, warmVars
  <2>2. \A w \in Workers : warming[w] = NoKey
    BY <1>6 DEF Initialized, WarmDone, WarmIfWanted
  <2>3. \A c \in WarmCalls : want[c] \notin {"waiting", "granted"}
    BY <2>2 DEF WarmServed
  <2> QED
    BY <2>1, <2>3 DEF WarmServed, WarmSerial, WarmIfWanted
<1>7. CASE Stop \/ Stopped
  <2>1. want' = want /\ warming' = warming /\ app # "initializing"
    BY <1>7 DEF Stop, Stopped, Shut, brokerVars, warmVars
  <2> QED
    BY <2>1 DEF WarmServed, WarmSerial, WarmIfWanted
<1> QED
  BY <1>1, <1>2, <1>3, <1>4, <1>5, <1>6, <1>7 DEF Next

-----------------------------------------------------------------------------
(* Clients.                                                                *)

Taken == OpenOnes \union InFactory

(* A creation that was given up goes on, but is no call's of the pool.     *)
ClientOfCall ==
  \A c \in Calls :
    /\ client[c] \in {"configuring", "making", "undoing"} =>
         want[c] \in {"waiting", "ended"} /\ life[c] = "none"
    /\ client[c] = "none" => life[c] = "none"
    /\ life[c] \in {"open", "closing"} => client[c] = "ready"
    /\ client[c] = "ready" => life[c] \in {"open", "closing"} \/ Unawaited(c)
OnePerKey == \A c, d \in Taken : KeyOf[c] = KeyOf[d] => c = d
SlotsBounded == Max > 0 => Cardinality(Taken) <= Max

ClientInv == ClientOfCall /\ OnePerKey /\ SlotsBounded

LEMMA TakenFinite == IsFiniteSet(Taken) /\ Taken \subseteq Calls
<1>1. Taken \subseteq Calls
  BY DEF Taken, OpenOnes, InFactory
<1> QED
  BY <1>1, ClientsAssumption, FS_Subset

(* Giving slots back keeps one user per key and the bound.                 *)
LEMMA TakenShrinks ==
  ASSUME ClientInv, Taken' \subseteq Taken
  PROVE  OnePerKey' /\ SlotsBounded'
<1>1. Cardinality(Taken') <= Cardinality(Taken) /\ Cardinality(Taken) \in Nat
      /\ Cardinality(Taken') \in Nat
  BY TakenFinite, FS_Subset, FS_CardinalityType
<1>2. SlotsBounded'
  BY <1>1, ClientsAssumption DEF ClientInv, SlotsBounded
<1>3. OnePerKey'
  BY DEF ClientInv, OnePerKey
<1> QED
  BY <1>2, <1>3

(* The pool and its clients open nothing, and take no call away from a     *)
(* factory.                                                                *)
LEMMA OuterClients ==
  ASSUME Brokered, PartTypes, ClientInv, OuterMove, UNCHANGED client
  PROVE  ClientInv'
<1> USE DEF Brokered, BrokerTypes, PartTypes
<1>s. ASSUME ClientOfCall', Taken' \subseteq Taken PROVE ClientInv'
  BY <1>s, TakenShrinks DEF ClientInv
<1>c. ASSUME want' = want, NEW S \in SUBSET OpenOnes, life' = Closing(S) PROVE ClientInv'
  <2>1. \A e \in Calls : life'[e] = IF e \in S THEN "closing" ELSE life[e]
    BY <1>c DEF Closing
  <2>2. \A e \in S : life[e] = "open"
    BY DEF OpenOnes
  <2> QED
    BY <1>c, <2>1, <2>2, <1>s DEF ClientInv, ClientOfCall, Unawaited, Taken, OpenOnes, InFactory
<1>1. CASE UNCHANGED brokerVars
  <2>1. UNCHANGED <<want, life>>
    BY <1>1 DEF brokerVars
  <2> QED
    BY <2>1, <1>s DEF ClientInv, ClientOfCall, Unawaited, Taken, OpenOnes, InFactory
<1>7. CASE Shut
  BY <1>7, <1>c DEF Shut
<1>2. ASSUME NEW c \in Calls, Ask(c) PROVE ClientInv'
  BY <1>2, <1>s DEF Ask, ClientInv, ClientOfCall, Unawaited, Taken, OpenOnes, InFactory
<1>3. ASSUME NEW c \in Calls, c \notin InFactory, Refuse(c) PROVE ClientInv'
  BY <1>3, <1>s DEF Refuse, ClientInv, ClientOfCall, Unawaited, Taken, OpenOnes, InFactory
<1>4. ASSUME NEW c \in Calls, c \notin InFactory, NEW e \in Calls, Grant(c, e)
      PROVE  ClientInv'
  <2>1. want[c] = "waiting" /\ life' = life /\ want' = [want EXCEPT ![c] = "granted"]
    BY <1>4 DEF Grant, Give
  <2> QED
    BY <1>4, <2>1, <1>s DEF ClientInv, ClientOfCall, Unawaited, Taken, OpenOnes, InFactory
<1>5. ASSUME NEW C \in SUBSET Calls, GiveBack(C)
      PROVE  ClientInv'
  <2> DEFINE S == IF shut THEN LastOf(C) ELSE {}
  <2>1. \A c \in Calls : want'[c] = IF c \in C THEN "ended" ELSE want[c]
    BY <1>5 DEF GiveBack
  <2>2. \A c \in C : want[c] = "granted"
    BY <1>5 DEF GiveBack
  <2>3. \A e \in Calls : life'[e] = IF e \in S THEN "closing" ELSE life[e]
    BY <1>5 DEF GiveBack, Closing
  <2>4. \A e \in S : life[e] = "open"
    BY DEF LastOf, OpenOnes
  <2> HIDE DEF S
  <2>5. ClientOfCall'
    BY <2>1, <2>2, <2>3, <2>4 DEF ClientInv, ClientOfCall, Unawaited
  <2>6. Taken' \subseteq Taken
    BY <2>1, <2>3 DEF Taken, OpenOnes, InFactory
  <2> QED
    BY <2>5, <2>6, <1>s
<1>6. ASSUME NEW S \in SUBSET Calls, Retire(S) PROVE ClientInv'
  <2>1. S \subseteq OpenOnes
    BY <1>6 DEF Retire, OpenOnes
  <2> QED
    BY <1>6, <2>1, <1>c DEF Retire
<1> QED
  BY <1>1, <1>2, <1>3, <1>4, <1>5, <1>6, <1>7 DEF OuterMove

(* A factory takes a slot only when one is free, keeps it until its client *)
(* has ended or is the pool's, and then hands it over.                     *)
LEMMA InnerClients ==
  ASSUME Brokered, PartTypes, ClientInv, AdapterNext
  PROVE  ClientInv'
<1> USE DEF Brokered, BrokerTypes, PartTypes, becomes
<1>s. ASSUME ClientOfCall', Taken' \subseteq Taken PROVE ClientInv'
  BY <1>s, TakenShrinks DEF ClientInv
<1> PICK c \in Calls : \/ Factory(c) \/ Configured(c) \/ ConfigFailed(c)
                       \/ Made(c) \/ MakeFailed(c) \/ Undone(c) \/ Disposed(c)
  BY DEF AdapterNext
<1>1. CASE Factory(c)
  <2>1. UNCHANGED <<want, life>>
    BY <1>1 DEF Factory, brokerVars
  <2>2. want[c] = "waiting" /\ client[c] = "none"
        /\ client' = [client EXCEPT ![c] = "configuring"]
    BY <1>1 DEF Factory
  <2>3. c \notin Taken /\ Taken' = Taken \union {c}
    BY <2>1, <2>2 DEF ClientInv, ClientOfCall, Unawaited, Taken, OpenOnes, InFactory
  <2>4. ClientOfCall'
    BY <2>1, <2>2 DEF ClientInv, ClientOfCall, Unawaited
  <2>5. /\ \A e \in Taken : KeyOf[e] # KeyOf[c]
        /\ Max > 0 => Cardinality(Taken) < Max
    BY <1>1 DEF Factory, Taken
  <2>6. OnePerKey'
    BY <2>3, <2>5 DEF ClientInv, OnePerKey
  <2>7. Cardinality(Taken') = Cardinality(Taken) + 1 /\ Cardinality(Taken) \in Nat
    BY <2>3, TakenFinite, FS_AddElement, FS_CardinalityType
  <2>8. SlotsBounded'
    BY <2>5, <2>7, ClientsAssumption DEF SlotsBounded
  <2> QED
    BY <2>4, <2>6, <2>8 DEF ClientInv
<1>2. CASE Configured(c) \/ MakeFailed(c)
  <2>1. UNCHANGED <<want, life>>
    BY <1>2 DEF Configured, MakeFailed, brokerVars
  <2>2. /\ client[c] \in {"configuring", "making"}
        /\ client' \in {[client EXCEPT ![c] = "making"], [client EXCEPT ![c] = "undoing"]}
    BY <1>2 DEF Configured, MakeFailed
  <2> QED
    BY <2>1, <2>2, <1>s DEF ClientInv, ClientOfCall, Unawaited, Taken, OpenOnes, InFactory
<1>3. CASE ConfigFailed(c) \/ Undone(c)
  <2>1. life' = life /\ want' = [want EXCEPT ![c] = "ended"]
    BY <1>3 DEF ConfigFailed, Undone, Refuse
  <2>2. /\ client[c] \in {"configuring", "undoing"}
        /\ client' \in {[client EXCEPT ![c] = "none"], [client EXCEPT ![c] = "ended"]}
    BY <1>3 DEF ConfigFailed, Undone
  <2> QED
    BY <2>1, <2>2, <1>s DEF ClientInv, ClientOfCall, Unawaited, Taken, OpenOnes, InFactory
<1>4. CASE Made(c)
  <2>1. client[c] = "making"
    BY <1>4 DEF Made
  <2>2. CASE shut
    <3>1. UNCHANGED <<want, life>> /\ client' = [client EXCEPT ![c] = "undoing"]
      BY <1>4, <2>2 DEF Made, brokerVars
    <3>2. ClientOfCall'
      BY <2>1, <3>1 DEF ClientInv, ClientOfCall, Unawaited
    <3>3. Taken' \subseteq Taken
      BY <2>1, <3>1 DEF Taken, OpenOnes, InFactory
    <3> QED
      BY <3>2, <3>3, <1>s
  <2>3. CASE ~shut
    <3>1. /\ want' = want /\ life' = [life EXCEPT ![c] = "open"]
          /\ client' = [client EXCEPT ![c] = "ready"] /\ want[c] = "waiting"
      BY <1>4, <2>3 DEF Made, Open
    <3>2. ClientOfCall'
      BY <2>1, <3>1 DEF ClientInv, ClientOfCall, Unawaited
    <3>3. Taken' \subseteq Taken
      BY <2>1, <3>1 DEF Taken, OpenOnes, InFactory
    <3> QED
      BY <3>2, <3>3, <1>s
  <2> QED
    BY <2>2, <2>3
<1>5. CASE Disposed(c)
  <2>1. want' = want /\ life[c] = "closing" /\ life' = [life EXCEPT ![c] = "gone"]
        /\ client[c] = "ready" /\ client' = [client EXCEPT ![c] = "ended"]
    BY <1>5 DEF Disposed, Gone
  <2> QED
    BY <2>1, <1>s DEF ClientInv, ClientOfCall, Unawaited, Taken, OpenOnes, InFactory
<1> QED
  BY <1>1, <1>2, <1>3, <1>4, <1>5

(* Without timeouts nobody gives up a creation that is under way.          *)
NoneGivenUp == \A c \in Calls : Unawaited(c) => client[c] \in {"none", "ended"}

LEMMA GivenUpStep ==
  ASSUME Brokered, PartTypes, ClientInv, NoneGivenUp,
         \/ OuterMove /\ UNCHANGED client
         \/ AdapterNext
  PROVE  NoneGivenUp'
<1> USE DEF Brokered, BrokerTypes, PartTypes, NoneGivenUp, Unawaited
<1>1. CASE OuterMove /\ UNCHANGED client
  <2>1. \A c \in Calls : want'[c] = "ended" => \/ want[c] \in {"ended", "granted"}
                                               \/ c \notin InFactory
    BY <1>1 DEF OuterMove, brokerVars, Shut, Ask, Refuse, Grant, Give, GiveBack, Retire
  <2>2. \A c \in Calls : life'[c] = "none" => life[c] = "none"
    BY <1>1 DEF OuterMove, brokerVars, Shut, Ask, Refuse, Grant, Give, GiveBack, Retire, Closing
  <2> QED
    BY <1>1, <2>1, <2>2 DEF ClientInv, ClientOfCall, InFactory
<1>2. CASE AdapterNext
  <2>1. PICK c \in Calls : \/ Factory(c) \/ Configured(c) \/ ConfigFailed(c)
                           \/ Made(c) \/ MakeFailed(c) \/ Undone(c) \/ Disposed(c)
    BY <1>2 DEF AdapterNext
  <2> QED
    BY <2>1 DEF Factory, Configured, ConfigFailed, Made, MakeFailed, Undone, Disposed,
                becomes, Refuse, Open, Gone, brokerVars
<1> QED
  BY <1>1, <1>2

-----------------------------------------------------------------------------
(* The application's invariant.                                            *)

AppInv == Brokered /\ PartTypes /\ UsersHold /\ WarmInv /\ ClientInv

LEMMA AppStart ==
  ASSUME Init
  PROVE  AppInv /\ NoneGivenUp
<1> USE ClientsAssumption DEF Init, BrokerInit, RequestInit, WarmInit, AdapterInit
<1>1. Brokered
  BY DEF Brokered, BrokerTypes, GrantsFound
<1>2. PartTypes
  <2>1. WarmKeys \subseteq Keys /\ IsFiniteSet(WarmKeys)
    <3>1. WarmKeys \subseteq Keys
      BY DEF WarmKeys
    <3>2. IsFiniteSet(WarmCalls)
      BY FS_Subset
    <3>3. IsFiniteSet(WarmKeys)
      <4> DEFINE f == [c \in WarmCalls |-> KeyOf[c]]
      <4>1. f \in Surjection(WarmCalls, WarmKeys)
        BY DEF WarmKeys, Surjection
      <4> QED
        BY <3>2, <4>1, FS_Surjection
    <3> QED
      BY <3>1, <3>3
  <2>2. Cardinality(WarmKeys) \in Nat
    BY <2>1, FS_CardinalityType
  <2>3. keyQueue \in [1..Cardinality(WarmKeys) -> Keys]
    BY <2>1
  <2>4. keyQueue \in Seq(Keys)
    BY <2>2, <2>3
  <2> QED
    BY <2>4 DEF PartTypes
<1>3. UsersHold
  BY DEF UsersHold
<1>4. WarmInv
  BY DEF WarmInv, WarmServed, WarmSerial, WarmIfWanted
<1>5. ClientInv
  <2>1. Taken = {}
    BY DEF Taken, OpenOnes, InFactory
  <2>2. SlotsBounded /\ OnePerKey
    BY <2>1, FS_EmptySet DEF SlotsBounded, OnePerKey
  <2> QED
    BY <2>2 DEF ClientInv, ClientOfCall, Unawaited
<1> QED
  BY <1>1, <1>2, <1>3, <1>4, <1>5 DEF AppInv, NoneGivenUp, Unawaited

LEMMA AppStep ==
  ASSUME AppInv, [Next]_vars
  PROVE  AppInv'
<1> USE DEF AppInv
<1>1. \/ OuterMove /\ UNCHANGED client
      \/ AdapterNext /\ UNCHANGED others /\ InnerMove
  BY Sides
<1>2. Brokered' /\ PartTypes' /\ UsersHold' /\ WarmInv'
  BY <1>1, BrokerKept, PartTypesStep, UsersStep, WarmStep
<1>3. ClientInv'
  BY <1>1, OuterClients, InnerClients
<1> QED
  BY <1>2, <1>3

LEMMA AppAlways == Spec => [](AppInv /\ NoneGivenUp)
<1>1. AppInv /\ NoneGivenUp /\ [Next]_vars => AppInv' /\ NoneGivenUp'
  BY AppStep, Sides, GivenUpStep DEF AppInv
<1> QED
  BY <1>1, AppStart, PTL DEF Spec

LEMMA AppTypes == AppInv => TypeOK
BY DEF AppInv, Brokered, BrokerTypes, GrantsFound, Granted, PartTypes, TypeOK

(* The two halves of UsersHaveResource.                                    *)
UsersServedNow == \A c \in Users : want[c] = "granted" /\ (~shut => life[grant[c]] = "open")
UsersUndisturbed ==
  \A c \in Users \cap Users' :
    /\ grant'[c] = grant[c]
    /\ life[grant[c]] = "open" => life'[grant[c]] = "open"

LEMMA AppUsers == AppInv => UsersServedNow
BY ClientsAssumption
   DEF AppInv, Brokered, GrantsFound, Granted, Found, PartTypes, UsersHold, Users, UsersServedNow

LEMMA KeptFromUsers ==
  ASSUME AppInv, AppInv', HandlesKept
  PROVE  UsersUndisturbed
BY ClientsAssumption
   DEF AppInv, PartTypes, UsersHold, Users, HandlesKept, UsersUndisturbed

LEMMA UsersStay ==
  ASSUME AppInv, [Next]_vars
  PROVE  UsersUndisturbed
<1>1. HandlesKept
  BY Sides, BrokerKept DEF AppInv
<1> QED
  BY <1>1, AppStep, KeptFromUsers

LEMMA AppWarm == AppInv => WarmKeepsNothing
BY DEF AppInv, WarmInv, WarmServed, WarmKeepsNothing

(* Every variable stays within its type, and a call has a resource of its  *)
(* key exactly while it is granted: the whole application, whatever the    *)
(* order in which requests, jobs, warm-up, pool and adapters move.         *)
THEOREM AppTyping == Spec => []TypeOK
BY AppTypes, AppAlways, PTL

(* A handler whose response has not ended, and the fn of withResource(),   *)
(* run with a resource: an open one until stop() is called, and one that   *)
(* was open stays so while they run, through the shutdown too; no          *)
(* eviction, drain or other client's release takes it away.                *)
THEOREM UsersServed == Spec => UsersHaveResource
<1>1. AppInv /\ [Next]_vars => UsersUndisturbed
  BY UsersStay
<1> QED
  BY <1>1, AppUsers, AppAlways, PTL DEF Spec, UsersHaveResource, UsersServedNow, UsersUndisturbed

(* Once the application serves, warm() holds nothing: the finally block of *)
(* warmKey() releases all of it, and it never runs beside an acquire() of  *)
(* the same key, however many workers share the keys.                      *)
THEOREM WarmingReleases == Spec => []WarmKeepsNothing
BY AppWarm, AppAlways, PTL

(* Those that the pool knows of: a slot is kept until the client has ended. *)
AwaitedClients == {c \in Connected : life[c] # "closing" /\ ~Unawaited(c)}
AwaitedBounded == Max > 0 => Cardinality(AwaitedClients) <= Max

LEMMA AwaitedHaveSlots ==
  ASSUME AppInv
  PROVE  AwaitedBounded
<1>1. AwaitedClients \subseteq Taken
  BY DEF AppInv, ClientInv, ClientOfCall, Brokered, BrokerTypes, Connected, AwaitedClients,
         Unawaited, Taken, OpenOnes, InFactory
<1>2. Cardinality(AwaitedClients) <= Cardinality(Taken) /\ Cardinality(Taken) \in Nat
      /\ Cardinality(AwaitedClients) \in Nat
  BY <1>1, TakenFinite, FS_Subset, FS_CardinalityType
<1> QED
  BY <1>2, ClientsAssumption DEF AppInv, ClientInv, SlotsBounded, AwaitedBounded

(* Never more database clients than options.max, those being disposed of   *)
(* aside: a factory that fails keeps its slot until what it made has ended. *)
THEOREM NeverTooManyClients == Spec => []ClientsBounded
<1>1. ASSUME AppInv, NoneGivenUp
      PROVE  ClientsBounded
  <2>1. {c \in Connected : life[c] # "closing"} = AwaitedClients
    BY <1>1 DEF NoneGivenUp, Connected, AwaitedClients
  <2> QED
    BY <1>1, <2>1, AwaitedHaveSlots DEF AwaitedBounded, ClientsBounded
<1>2. AppInv /\ NoneGivenUp => ClientsBounded
  BY <1>1
<1> QED
  BY <1>2, AppAlways, PTL

-----------------------------------------------------------------------------
(* A breaker that gives up on slow creations.                              *)

LEMMA TimeoutStep ==
  ASSUME AppInv, [TimeoutNext]_vars
  PROVE  AppInv'
<1> USE DEF AppInv
<1>1. CASE [Next]_vars
  BY <1>1, AppStep
<1>2. ASSUME NEW c \in Calls, TimedOut(c), UNCHANGED others PROVE AppInv'
  <2>1. Refuse(c) /\ c \in InFactory /\ UNCHANGED <<client, requestVars, warmVars, app, awaited>>
    BY <1>2 DEF TimedOut, others
  <2>2. /\ want[c] = "waiting" /\ want' = [want EXCEPT ![c] = "ended"]
        /\ UNCHANGED <<grant, life, shut>> /\ want \in [Calls -> {"idle", "waiting", "granted", "ended"}]
    BY <2>1 DEF Refuse, Brokered, BrokerTypes
  <2>3. Brokered'
    BY <2>1, BrokerKept DEF InnerMove
  <2>4. PartTypes'
    BY <2>1 DEF PartTypes, requestVars, warmVars
  <2>5. UsersHold'
    BY <2>1, <2>2, ClientsAssumption DEF UsersHold, PartTypes, requestVars
  <2>6. WarmInv'
    <3>1. WarmLeft
      BY <2>2, ClientsAssumption DEF WarmLeft
    <3> QED
      BY <2>1, <3>1, WarmSerialKept, WarmServedKept DEF WarmInv, WarmIfWanted, warmVars, Brokered
  <2>7. ClientOfCall' /\ Taken' \subseteq Taken
    BY <2>1, <2>2 DEF ClientInv, ClientOfCall, Unawaited, Taken, OpenOnes, InFactory
  <2> QED
    BY <2>3, <2>4, <2>5, <2>6, <2>7, TakenShrinks DEF ClientInv
<1>3. ASSUME NEW c \in Calls, LateEnd(c), UNCHANGED others PROVE AppInv'
  <2>1. /\ UNCHANGED <<want, grant, life, shut>> /\ UNCHANGED <<requestVars, warmVars, app, awaited>>
        /\ Unawaited(c)
    BY <1>3 DEF LateEnd, brokerVars, others
  <2>2. PICK s \in {"making", "none", "ready", "undoing", "ended"} :
          client' = [client EXCEPT ![c] = s]
    BY <1>3 DEF LateEnd, becomes
  <2>3. Brokered'
    BY <2>1 DEF Brokered, BrokerTypes, GrantsFound, Granted, Found
  <2>4. PartTypes'
    BY <2>1, <2>2 DEF PartTypes, requestVars, warmVars
  <2>5. UsersHold' /\ WarmInv'
    BY <2>1 DEF UsersHold, WarmInv, WarmServed, WarmSerial, WarmIfWanted, requestVars, warmVars
  <2>6. ClientOfCall' /\ Taken' \subseteq Taken
    BY <2>1, <2>2 DEF PartTypes, ClientInv, ClientOfCall, Unawaited, Taken, OpenOnes, InFactory
  <2> QED
    BY <2>3, <2>4, <2>5, <2>6, TakenShrinks DEF ClientInv
<1> QED
  BY <1>1, <1>2, <1>3 DEF TimeoutNext

LEMMA TimeoutAlways == TimeoutSpec => []AppInv
BY AppStart, TimeoutStep, PTL DEF TimeoutSpec

(* With creations given up at any moment, whatever they do later, users    *)
(* still have their resources, and keep them through a shutdown, warming   *)
(* still leaves nothing held and every variable stays within its type.     *)
THEOREM TimeoutsHarmUsersNot ==
  TimeoutSpec => [](TypeOK /\ WarmKeepsNothing) /\ UsersHaveResource
<1>1. AppInv => TypeOK /\ WarmKeepsNothing
  BY AppTypes, AppWarm
<1>2. ASSUME AppInv, [TimeoutNext]_vars PROVE UsersUndisturbed
  <2>1. CASE [Next]_vars
    BY <1>2, <2>1, UsersStay
  <2>2. ASSUME NEW c \in Calls, TimedOut(c) \/ LateEnd(c) PROVE HandlesKept
    BY <1>2, <2>2, BrokerKept DEF TimedOut, LateEnd, InnerMove, AppInv
  <2> QED
    BY <1>2, <2>1, <2>2, TimeoutStep, KeptFromUsers DEF TimeoutNext
<1>3. AppInv /\ [TimeoutNext]_vars => UsersUndisturbed
  BY <1>2
<1> QED
  BY <1>1, <1>3, AppUsers, TimeoutAlways, PTL
     DEF TimeoutSpec, UsersHaveResource, UsersServedNow, UsersUndisturbed

(* Only clients whose creation was given up come on top of options.max.    *)
THEOREM OnlyGivenUpClientsExceed == TimeoutSpec => []AwaitedBounded
<1>1. AppInv => AwaitedBounded
  BY AwaitedHaveSlots
<1> QED
  BY <1>1, TimeoutAlways, PTL

=============================================================================
