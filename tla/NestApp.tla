------------------------------- MODULE NestApp -------------------------------
(***************************************************************************)
(* An application built with RefPoolModule: RefPoolService starts and      *)
(* warms the pool before requests are served and stops it on shutdown.     *)
(* TenantConnection, Warm and the Adapter composed over one ResourceBroker.*)
(***************************************************************************)
EXTENDS TenantConnection, Warm, Adapter

CONSTANT WarmOnInit \* options.warmOnInit, or prewarm is set

ASSUME ClientsAssumption ==
  /\ Requests \cap Jobs = {} /\ Requests \cap WarmCalls = {} /\ Jobs \cap WarmCalls = {}
  /\ Jobs \subseteq Calls /\ WarmCalls \subseteq Calls
  /\ KeyOf \in [Calls -> Keys] /\ IsFiniteSet(Calls) /\ NoResource \notin Calls
  /\ Max \in Int /\ NoKey \notin Keys /\ Workers # {}
  /\ WarmOnInit \in BOOLEAN /\ OnMissing \in {"next", "error"}

VARIABLES
  app,    \* initializing, serving, stopping or stopped
  awaited \* the resources stop() waits for

vars == <<brokerVars, requestVars, warmVars, client, app, awaited>>

Init == /\ BrokerInit /\ RequestInit /\ WarmInit /\ AdapterInit
        /\ app = "initializing" /\ awaited = {}

-----------------------------------------------------------------------------
(* onModuleInit() has resolved: start(), and warm() if it is wanted. *)
Initialized ==
  /\ app = "initializing"
  /\ WarmOnInit => WarmDone
  /\ app' = "serving"
  /\ UNCHANGED <<brokerVars, requestVars, warmVars, client, awaited>>

(* onApplicationShutdown() calls stop(), which closes the pool at once ... *)
Stop ==
  /\ app = "serving"
  /\ app' = "stopping"
  /\ awaited' = OpenOnes
  /\ Shut
  /\ UNCHANGED <<requestVars, warmVars, client>>

(* ... and waits until what was open then has been disposed of. *)
Stopped ==
  /\ app = "stopping"
  /\ \A e \in awaited : life[e] = "gone"
  /\ app' = "stopped"
  /\ UNCHANGED <<brokerVars, requestVars, warmVars, client, awaited>>

(* What the pool does by itself, factories and disposals aside: a call is  *)
(* served what is open, or was when stop() was called.                     *)
others == <<requestVars, warmVars, app, awaited>>
Serve(c)  == /\ c \notin InFactory /\ \E e \in OpenOnes \union awaited : Grant(c, e)
             /\ UNCHANGED <<others, client>>
Reject(c) == c \notin InFactory /\ Refuse(c) /\ UNCHANGED <<others, client>>
Evict(e)  == Retire({e}) /\ UNCHANGED <<others, client>>
PoolNext  == \E c \in Calls : Serve(c) \/ Reject(c) \/ Evict(c)

(* The clients of the pool, while they run. *)
Warming    == app = "initializing" /\ WarmOnInit /\ WarmNext
              /\ UNCHANGED <<requestVars, client, app, awaited>>
Serving(A) == app # "initializing" /\ A /\ UNCHANGED <<warmVars, client, app, awaited>>

Next ==
  \/ Warming \/ Serving(RequestNext)
  \/ PoolNext
  \/ AdapterNext /\ UNCHANGED others
  \/ Initialized \/ Stop \/ Stopped

Spec == Init /\ [][Next]_vars

(* A call waits only while others have the resources: an unused one makes  *)
(* room for it, and a closed pool turns it away.  The calls are finitely   *)
(* many, so it is enough that each kind of step goes on while any is left. *)
Starved(c) == /\ want[c] = "waiting" /\ c \notin InFactory
              /\ \A e \in OpenOnes : KeyOf[e] # KeyOf[c]
MakeRoom == \E e \in Calls : /\ WaitingFor(KeyOf[e]) = {}
                             /\ \E c \in Calls : Starved(c)
                             /\ Evict(e)
PoolFair ==
  /\ WF_vars(\E c \in Calls : Serve(c))
  /\ WF_vars(shut /\ \E c \in Calls : Reject(c))
  /\ WF_vars(MakeRoom)

(* The factory is called when there is room; config(), the database's      *)
(* answer, the undoing and dispose settle.                                 *)
AdapterFair == WF_vars(AdapterNext /\ UNCHANGED others)

(* Continuations run, responses close and the fn of withResource() ends.   *)
AppFair ==
  /\ WF_vars(Serving(\E r \in Requests : Attach(r) \/ AcquireFailed(r)))
  /\ WF_vars(Serving(\E r \in Requests : Close(r)))
  /\ WF_vars(Serving(\E j \in Jobs : JobRun(j) \/ JobEnd(j)))
  /\ WF_vars(Warming) /\ WF_vars(Initialized) /\ WF_vars(Stopped)

FairSpec == Spec /\ PoolFair /\ AdapterFair /\ AppFair
-----------------------------------------------------------------------------
(* Every variable stays within its type, and a call has a resource of its  *)
(* key exactly while it is granted.                                        *)
TypeOK ==
  /\ want \in [Calls -> {"idle", "waiting", "granted", "ended"}]
  /\ \A c \in Calls : IF want[c] = "granted" THEN KeyOf[grant[c]] = KeyOf[c]
                                             ELSE grant[c] = NoResource
  /\ life \in [Calls -> {"none", "open", "closing", "gone"}]
  /\ client \in [Calls -> {"none", "configuring", "making", "ready", "undoing", "ended"}]
  /\ stage \in [Requests -> {"absent", "acquiring", "handling", "failed"}]
  /\ response \in [Requests -> {"open", "finished", "closed"}]
  /\ listening \subseteq Requests \cap Calls /\ running \subseteq Jobs
  /\ keyQueue \in Seq(Keys) /\ warming \in [Workers -> Keys \union {NoKey}]
  /\ shut \in BOOLEAN /\ app \in {"initializing", "serving", "stopping", "stopped"}
  /\ awaited \subseteq Calls

(* Whoever runs with a resource has it: a handler until its response has   *)
(* ended, a job until its fn has.  It is open when they get it unless      *)
(* stop() has closed it under the acquire() that was about to return it,   *)
(* and once open it is not closed under them, by stop() neither.           *)
Users == {r \in Requests \cap Calls : stage[r] = "handling" /\ response[r] = "open"}
         \union running
UsersHaveResource ==
  /\ [](\A c \in Users : want[c] = "granted" /\ (~shut => life[grant[c]] = "open"))
  /\ [][\A c \in Users \cap Users' :
         /\ grant'[c] = grant[c]
         /\ life[grant[c]] = "open" => life'[grant[c]] = "open"]_vars

(* Warming leaves nothing in use when the application starts to serve,     *)
(* whatever failed in the middle of it.                                    *)
WarmKeepsNothing == app # "initializing" => \A c \in WarmCalls : want[c] # "granted"

(* Never more database clients than max, failed ones included until they   *)
(* have ended: those being disposed of come on top (LRU eviction does not  *)
(* wait for them), nothing else does.                                      *)
ClientsBounded ==
  Max > 0 => Cardinality({c \in Connected : life[c] # "closing"}) <= Max

(* "The holder's reference is always dropped when the request ends"        *)
(* (ARCHITECTURE.md).                                                      *)
EndedRequestsHoldNothing ==
  \A r \in Requests \cap Calls :
    stage[r] = "handling" /\ response[r] # "open" => want[r] # "granted"

(* Warming ends, although its workers hold handles while they wait for     *)
(* more and all of them compete for the same slots: nobody is refused or   *)
(* times out by assumption.                                                *)
InitCompletes == app = "initializing" ~> app = "serving"

(* Shutdown ends once the requests and jobs of the time have ended, unless *)
(* a request's response closed before its listeners were there, and then   *)
(* every database client is ended, those too that were being made when the *)
(* pool closed, which stop() does not wait for.                            *)
ShutdownCompletes ==
  app = "stopping" ~>
    \/ app = "stopped" /\ \A c \in Calls : client[c] \in {"none", "ended"}
    \/ \E r \in Requests \cap Calls : Deaf(r)
=============================================================================
