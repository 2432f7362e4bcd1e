--------------------------- MODULE CreationTimeout ---------------------------
(***************************************************************************)
(* The application with a breaker that gives up on slow calls, as opossum  *)
(* does with its option `timeout` (packages/core: opossum.ts and obtain()  *)
(* of pool.ts).  Its fire() rejects; nothing stops the factory it has      *)
(* called, nor takes what that resolves to.                                *)
(***************************************************************************)
EXTENDS NestApp

(* exec() rejects: obtain() gives the slot back and acquire() rejects.     *)
TimedOut(c) == c \in InFactory /\ Refuse(c) /\ UNCHANGED client

(* The factory goes on for nobody. *)
Unawaited(c) == want[c] = "ended" /\ life[c] = "none"
LateEnd(c) ==
  /\ Unawaited(c)
  /\ \/ client[c] = "configuring" /\ (becomes(c, "making") \/ becomes(c, "none"))
     \/ client[c] = "making" /\ (becomes(c, "ready") \/ becomes(c, "undoing"))
     \/ client[c] = "undoing" /\ becomes(c, "ended")
  /\ UNCHANGED brokerVars

TimeoutNext ==
  \/ Next
  \/ \E c \in Calls : (TimedOut(c) \/ LateEnd(c)) /\ UNCHANGED others

TimeoutSpec == Init /\ [][TimeoutNext]_vars
-----------------------------------------------------------------------------
(* "At most max live data sources" (README of packages/typeorm), those     *)
(* being disposed of aside: one that is ready after its creation has been  *)
(* given up is alive too, and nobody is left to end it.                    *)
LiveClientsBounded ==
  Max > 0 => Cardinality({c \in Calls : client[c] = "ready" /\ life[c] # "closing"}) <= Max
=============================================================================
