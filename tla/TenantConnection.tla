-------------------------- MODULE TenantConnection --------------------------
(***************************************************************************)
(* TenantConnectionMiddleware (packages/nestjs): one acquire() for each    *)
(* request that names a tenant, released when the response ends, and       *)
(* withResource(), which handlers and jobs use for a tenant of their own.  *)
(* Both are clients of the pool as ResourceBroker describes it.            *)
(***************************************************************************)
EXTENDS ResourceBroker

CONSTANTS
  Requests,  \* those that are members of Calls name a tenant, KeyOf
  Jobs,      \* the calls of withResource(), members of Calls
  OnMissing  \* options.onMissing: next or error

VARIABLES
  stage,     \* each request: absent, acquiring, handling or failed
  response,  \* its response: open, finished or closed
  listening, \* the requests whose release() listens for finish and close
  running    \* the jobs whose fn runs

requestVars == <<stage, response, listening, running>>

Tenantless == Requests \ Calls

RequestInit ==
  /\ stage = [r \in Requests |-> "absent"]
  /\ response = [r \in Requests |-> "open"]
  /\ listening = {}
  /\ running = {}

-----------------------------------------------------------------------------
(* use(), up to its await: a request without a tenant passes or fails.     *)
UseMissing(r) ==
  /\ r \in Tenantless /\ stage[r] = "absent"
  /\ stage' = [stage EXCEPT ![r] = IF OnMissing = "error" THEN "failed" ELSE "handling"]
  /\ UNCHANGED <<response, listening, running, brokerVars>>

UseTenant(r) ==
  /\ r \notin Tenantless /\ stage[r] = "absent"
  /\ stage' = [stage EXCEPT ![r] = "acquiring"]
  /\ Ask(r)
  /\ UNCHANGED <<response, listening, running>>

NextAtOnce(r) == \* fault: next() is called without waiting for the handle
  /\ stage[r] = "acquiring"
  /\ listening' = listening \union {r}
  /\ stage' = [stage EXCEPT ![r] = "handling"]
  /\ UNCHANGED <<response, running, brokerVars>>

(* use(), when acquire() has resolved: listeners, property, next().        *)
Attach(r) ==
  /\ stage[r] = "acquiring" /\ want[r] = "granted"
  /\ listening' = listening \union {r}
  /\ stage' = [stage EXCEPT ![r] = "handling"]
  /\ UNCHANGED <<response, running, brokerVars>>

(* use(), when acquire() has been rejected: next(error).                   *)
AcquireFailed(r) ==
  /\ r \in Calls /\ stage[r] = "acquiring" /\ want[r] = "ended"
  /\ stage' = [stage EXCEPT ![r] = "failed"]
  /\ UNCHANGED <<response, listening, running, brokerVars>>

(* The response emits an event: release() hands the handle back, once.     *)
released(r) == want[r] # "granted"
emitEnd(r) ==
  IF r \in listening /\ ~released(r) THEN GiveBack({r}) ELSE UNCHANGED brokerVars

Finish(r) ==
  /\ stage[r] \in {"handling", "failed"} /\ response[r] = "open"
  /\ response' = [response EXCEPT ![r] = "finished"]
  /\ emitEnd(r)
  /\ UNCHANGED <<stage, listening, running>>

(* After finish, or at any time: the client has gone. *)
Close(r) ==
  /\ stage[r] # "absent" /\ response[r] # "closed"
  /\ response' = [response EXCEPT ![r] = "closed"]
  /\ emitEnd(r)
  /\ UNCHANGED <<stage, listening, running>>

-----------------------------------------------------------------------------
(* withResource(): acquire, run fn, release in a finally block.            *)
JobAsk(j) == Ask(j) /\ UNCHANGED requestVars

JobRun(j) ==
  /\ want[j] = "granted" /\ j \notin running
  /\ running' = running \union {j}
  /\ UNCHANGED <<stage, response, listening, brokerVars>>

JobEnd(j) ==
  /\ j \in running
  /\ running' = running \ {j}
  /\ GiveBack({j})
  /\ UNCHANGED <<stage, response, listening>>

RequestNext ==
  \/ \E r \in Requests : \/ UseMissing(r) \/ UseTenant(r) \/ Attach(r)
                         \/ AcquireFailed(r) \/ Finish(r) \/ Close(r)
  \/ \E j \in Jobs : JobAsk(j) \/ JobRun(j) \/ JobEnd(j)

(* The response had closed by the time its listeners were registered.      *)
Deaf(r) == /\ r \in listening /\ response[r] = "closed"
           /\ want[r] = "granted"
=============================================================================
