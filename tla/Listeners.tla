------------------------------ MODULE Listeners ------------------------------
(***************************************************************************)
(* The pool with a listener of the `release` event that calls back into the *)
(* pool (packages/core: events.ts, releaseEntry() of pool.ts).  emit() is  *)
(* synchronous: the listener runs between the decrement of refCount and    *)
(* the bookkeeping of the same release, and may release another handle,    *)
(* whose event reaches it in turn.  While it runs nothing else does.       *)
(***************************************************************************)
EXTENDS PoolInternals

CONSTANTS
  ListenerCalls, \* what the listener calls: some of acquire, release, drain
  OutsideDrains  \* the drain() calls that others than the listener may make

ASSUME ListenerAssumption ==
  /\ ListenerCalls \subseteq {"acquire", "release", "drain"}
  /\ OutsideDrains \subseteq Drains

VARIABLE releasing \* the releases whose event is being emitted, innermost last

listenerVars == <<allVars, releasing>>

Quiet == releasing = <<>>
Innermost == releasing[Len(releasing)]

(* releaseEntry() of a resource that nobody can use any more: no event.    *)
Spent(e) == status[e] = "disposed" \/ refCount[e] = 0
EmptyRelease(c) ==
  /\ Quiet \/ "release" \in ListenerCalls
  /\ pc[c] = "holding" /\ Spent(ent[c])
  /\ IRelease(c)
  /\ UNCHANGED releasing

(* The first half of releaseEntry(), as far as its event. *)
BeginRelease(c) ==
  LET e == ent[c]
  IN  /\ Quiet \/ "release" \in ListenerCalls
      /\ pc[c] = "holding"
      /\ ~Spent(e)
      /\ refCount' = [refCount EXCEPT ![e] = @ - 1]
      /\ pc' = Move(c, "done")
      /\ ent' = [ent EXCEPT ![c] = NoEntry]
      /\ releasing' = Append(releasing, e)
      /\ UNCHANGED <<queue, tableVars, status, condemned, slotVars, lifeVars, internals>>

(* What is left of it when the listeners have returned, or thrown.         *)
ListAgain(e) == \* fault: does not ask whether e is listed
  /\ BackToIdle(e, pc)
  /\ links' = List!idleAppend(List!idleRemove(links, e), e)
idleAppend(e) ==
  /\ idle' = IF e \in Elements(idle) THEN idle ELSE Append(idle, e)
  /\ links' = List!idleAppend(links, e)
  /\ Wake(pc, 1)
  /\ UNCHANGED <<entries, orphans, status>>

dispose(e) ==
  /\ removeEntry(e)
  /\ links' = List!idleRemove(links, e)
  /\ status' = Disposing({e})
  /\ UNCHANGED <<pc, waiters>>

RestUnchecked(e) == \* fault: does not ask for other references
  IF isCondemned(e) THEN dispose(e) ELSE idleAppend(e)
Rest(e) ==
  IF refCount[e] # 0 THEN UNCHANGED <<pc, tableVars, status, waiters, links>>
  ELSE IF isCondemned(e) THEN dispose(e) ELSE idleAppend(e)

EndRelease ==
  /\ ~Quiet
  /\ Rest(Innermost)
  /\ releasing' = SubSeq(releasing, 1, Len(releasing) - 1)
  /\ SameMutex
  /\ UNCHANGED <<ent, queue, refCount, condemned, reserved, lifeVars>>

(* The calls of the listener that emit no release event. *)
ListenerStep ==
  /\ ~Quiet
  /\ \/ "acquire" \in ListenerCalls /\ \E c \in Calls : IAcquireFast(c) \/ IAcquireQueued(c)
     \/ "drain" \in ListenerCalls /\ \E d \in Drains : IDrain(d)
  /\ UNCHANGED releasing

(* The pool and its other callers. *)
OutsideStep ==
  /\ Quiet
  /\ InternalNext
  /\ \A d \in Drains \ OutsideDrains : draining[d] = "idle" => draining'[d] = "idle"
  /\ UNCHANGED releasing

ListenerInit == InternalInit /\ releasing = <<>>
ListenerNext ==
  \/ OutsideStep \/ ListenerStep \/ EndRelease
  \/ \E c \in Calls : BeginRelease(c) \/ EmptyRelease(c)

ListenerSpec == ListenerInit /\ [][ListenerNext]_listenerVars

(* As in RefPool; and a listener returns. *)
ListenerFairSpec ==
  /\ ListenerSpec
  /\ EventLoop /\ HoldersRelease /\ TimersFire
  /\ WF_listenerVars(EndRelease)
-----------------------------------------------------------------------------
(* Whatever the listener calls while the pool is open, once releases have  *)
(* ended the idle list is the unheld live entries, each once: two releases *)
(* that both find the count at zero list the entry a single time.          *)
IdleListKept == Quiet /\ ~closed => IdleMembership
=============================================================================
