------------------------------- MODULE Adapter -------------------------------
(***************************************************************************)
(* The database adapters (packages/knex, node-postgres, typeorm, prisma    *)
(* and drizzle): the factory that makes a key's database client, undoing   *)
(* what it made if it cannot be connected or wrapped, and the dispose that *)
(* ends it.  Knex and node-postgres connect lazily: their factories never  *)
(* fail once the client is made, the others' may.                          *)
(***************************************************************************)
EXTENDS ResourceBroker

VARIABLE client \* by call: none, configuring, making, ready, undoing, ended

(* Calls for which the pool has reserved a slot, and clients that hold a   *)
(* connection to the database or are about to.                             *)
InFactory == {c \in Calls : want[c] = "waiting"
                            /\ client[c] \in {"configuring", "making", "undoing"}}
Connected == {c \in Calls : client[c] \in {"making", "ready", "undoing"}}

AdapterInit == client = [c \in Calls |-> "none"]

becomes(c, s) == client' = [client EXCEPT ![c] = s]

-----------------------------------------------------------------------------
(* The pool has a slot for c's key and calls the factory: config(key).     *)
Factory(c) ==
  /\ want[c] = "waiting" /\ client[c] = "none" /\ ~shut
  /\ \A e \in OpenOnes \union InFactory : KeyOf[e] # KeyOf[c]
  /\ Max > 0 => Cardinality(OpenOnes \union InFactory) < Max
  /\ becomes(c, "configuring")
  /\ UNCHANGED brokerVars

Configured(c) ==
  /\ client[c] = "configuring"
  /\ becomes(c, "making")
  /\ UNCHANGED brokerVars

ConfigFailed(c) ==
  /\ client[c] = "configuring"
  /\ becomes(c, "none")
  /\ Refuse(c)

(* The factory has resolved: the pool opens the resource, or disposes of   *)
(* it if it has been closed meanwhile.                                     *)
Made(c) ==
  /\ client[c] = "making"
  /\ IF shut THEN becomes(c, "undoing") /\ UNCHANGED brokerVars
             ELSE becomes(c, "ready") /\ Open(c)

(* Faults: the client is forgotten; its end is not awaited.                *)
FailsForgotten(c) ==
  /\ client[c] = "making"
  /\ Refuse(c)
  /\ UNCHANGED client
FailsAtOnce(c) ==
  /\ client[c] = "making"
  /\ becomes(c, "undoing")
  /\ Refuse(c)

(* It cannot be connected or wrapped: the factory ends it, and waits.      *)
MakeFailed(c) ==
  /\ client[c] = "making"
  /\ becomes(c, "undoing")
  /\ UNCHANGED brokerVars

(* ... and then throws the error; so does obtain() after a discard.        *)
Undone(c) ==
  /\ client[c] = "undoing"
  /\ becomes(c, "ended")
  /\ Refuse(c)

(* The dispose of an open resource has ended its client. *)
Disposed(e) ==
  /\ client[e] = "ready"
  /\ becomes(e, "ended")
  /\ Gone(e)

AdapterNext == \E c \in Calls : \/ Factory(c) \/ Configured(c) \/ ConfigFailed(c)
                                \/ Made(c) \/ MakeFailed(c) \/ Undone(c) \/ Disposed(c)
=============================================================================
