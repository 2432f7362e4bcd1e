---------------------------- MODULE PoolInternals ----------------------------
(***************************************************************************)
(* RefPool with the two structures that it keeps as sequences in the form  *)
(* the code has them: the idle list as linked entries (IdleLinks) and the  *)
(* per-key mutex as chained promises (KeyMutex).  Each action of RefPool   *)
(* is conjoined with the calls on the two that its stretch of code makes.  *)
(***************************************************************************)
EXTENDS RefPool

CONSTANT Cells \* numbers for the mutex cells of a key

ASSUME CellsAssumption == Cells # {} /\ NoEntry \notin Cells

VARIABLES
  links,  \* idleHead, idleTail, idleCount; inIdle, prev and next of entries
  mutexes, tail, pending, cellOf, after

List  == INSTANCE IdleLinks WITH Nodes <- Calls, None <- NoEntry
Mutex == INSTANCE KeyMutex WITH None <- NoEntry

internals == <<links, mutexes, tail, pending, cellOf, after>>
allVars   == <<vars, internals>>

SameLinks == UNCHANGED links
SameMutex == UNCHANGED <<mutexes, tail, pending, cellOf, after>>

InternalInit ==
  /\ Init
  /\ links = List!NoLinks
  /\ Mutex!MutexInit

-----------------------------------------------------------------------------
(* checkout() *)
ListedWhileHeld(e) == SameLinks \* fault: does not leave the list
unlistIfIdle(e) == links' = IF refCount[e] = 0 THEN List!idleRemove(links, e) ELSE links

IAcquireFast(c) ==
  AcquireFast(c) /\ unlistIfIdle(entries[KeyOf[c]]) /\ SameMutex

IAcquireQueued(c) == AcquireQueued(c) /\ Mutex!runExclusive(c) /\ SameLinks

(* obtain() leaves the mutex, and acquire() checks the entry out.          *)
ISettle(c) == Settle(c) /\ unlistIfIdle(ent[c]) /\ Mutex!leave(c)
ISettleFailed(c) == SettleFailed(c) /\ SameLinks /\ Mutex!leave(c)

-----------------------------------------------------------------------------
(* The walks from the head: the listed entries with no pending acquire.    *)
spared(n) == isPending(KeyOf[n])

(* takeLruIdle(), called by acquireSlot() when there is no room.           *)
takeLruIdle ==
  LET walked == List!Walk(links)
      found  == {i \in DOMAIN walked : ~spared(walked[i])}
  IN  IF Max <= 0 \/ Room \/ found = {} THEN links
      ELSE List!idleRemove(links, walked[CHOOSE i \in found : \A j \in found : i <= j])

ISlot(c) == GoForSlot(c) /\ links' = takeLruIdle
IMissing(c) == \/ ISlot(c)
               \/ (Resurrect(c) \/ Refuse(c)) /\ SameLinks

(* obtain() runs when the call's predecessor in the chain has ended.       *)
IObtain(c) ==
  /\ pc[c] = "queued" /\ Mutex!mayRun(c)
  /\ \/ UseLive(c) /\ SameLinks
     \/ ~isUsable(entries[KeyOf[c]]) /\ IMissing(c)
  /\ SameMutex

IReplace(c) ==
  /\ pc[c] = "replacing" /\ status[ent[c]] = "disposed"
  /\ IMissing(c)
  /\ SameMutex

IRetry(c) ==
  /\ Retry(c)
  /\ links' = IF closed THEN links ELSE takeLruIdle
  /\ SameMutex

(* One victim after the other, n entries from the head having expired.     *)
sweep(n) ==
  LET expired == SubSeq(List!Walk(links), 1, n)
  IN  List!removeAll(links, Without(expired, {e \in Calls : spared(e)}))
ISweep(n) == Sweep(n) /\ links' = sweep(n) /\ SameMutex

-----------------------------------------------------------------------------
(* removeEntry() of a stale entry; the entry that obtain() inserts.        *)
IValidateStale(c) ==
  ValidateStale(c) /\ links' = List!idleRemove(links, ent[c]) /\ SameMutex

IFactoryResolves(c) ==
  /\ FactoryResolves(c)
  /\ links' = IF closed THEN links ELSE List!idleAppend(links, c)
  /\ SameMutex

(* releaseEntry(), at the last reference. *)
relist(e) ==
  links' = CASE status[e] = "disposed" \/ refCount[e] # 1 -> links
             [] status[e] # "disposed" /\ refCount[e] = 1 /\ isCondemned(e)
                -> List!idleRemove(links, e)
             [] OTHER -> List!idleAppend(links, e)

IRelease(c) == Release(c) /\ relist(ent[c]) /\ SameMutex

keyed(k) == IF entries[k] # NoEntry THEN entries[k] ELSE orphans[k]
IReleaseKey(c) ==
  /\ ReleaseKey(c)
  /\ IF keyed(KeyOf[c]) = NoEntry THEN SameLinks ELSE relist(keyed(KeyOf[c]))
  /\ SameMutex

(* drain(): the unheld entries leave the list one after the other, in the  *)
(* order of the live map, and the list is then reset.                      *)
Orders(S) == {s \in [1..Cardinality(S) -> S] : Elements(s) = S}
IDrain(d) ==
  /\ Drain(d)
  /\ LET live == {entries[k] : k \in Live}
     IN  \E order \in Orders(live \ InUse(live)) :
           links' = List!reset(List!removeAll(links, order))
  /\ SameMutex

(* The rest leaves both structures alone. *)
Elsewhere(c) ==
  /\ \/ ValidateOk(c) \/ ValidateThrows(c) \/ Timeout(c) \/ FactoryRejects(c)
     \/ DiscardDone(c) \/ DisposeDone(c)
  /\ SameLinks /\ SameMutex

IGc == Mutex!gcMutexes /\ SameLinks /\ UNCHANGED vars

InternalNext ==
  \/ \E c \in Calls :
       \/ IAcquireFast(c) \/ IAcquireQueued(c) \/ IObtain(c) \/ IReplace(c)
       \/ IRetry(c) \/ IValidateStale(c) \/ IFactoryResolves(c)
       \/ ISettle(c) \/ ISettleFailed(c) \/ IRelease(c) \/ IReleaseKey(c)
       \/ Elsewhere(c)
  \/ \E d \in Drains : IDrain(d) \/ (DrainDone(d) /\ SameLinks /\ SameMutex)
  \/ \E n \in DOMAIN idle : ISweep(n)
  \/ Start /\ SameLinks /\ SameMutex
  \/ IGc

(* getStats(), as far as it is about resources and waiters. *)
getStats == [keys |-> Cardinality(Live),
             live |-> Cardinality(Live) + Cardinality(Orphans),
             idle |-> links.count,
             inUse |-> Cardinality(Live) - links.count + Cardinality(Orphans),
             waiters |-> Len(waiters)]

InternalSpec == InternalInit /\ [][InternalNext]_allVars
-----------------------------------------------------------------------------
(* The links, the ends and the count stand for the idle list of RefPool in *)
(* both directions, and an entry that is on no list has no link left, or   *)
(* is on its way out: no later idleRemove() can cut the list in two.       *)
LinksRepresentIdle ==
  /\ List!Represents(links, idle)
  /\ \A e \in Calls \ Elements(idle) :
       List!Unlinked(links, e) \/ status[e] \in {"disposing", "disposed"}

(* "idle and inUse never require a scan" (getStats): until the pool closes *)
(* the count kept with the links tells the unheld resources, and what is   *)
(* left of the live map the held ones.                                     *)
GaugesExact ==
  LET held == {k \in Live : Holders(entries[k]) # {}}
  IN  ~closed => /\ getStats.inUse = Cardinality(held)
                 /\ getStats.idle = Cardinality(Live \ held)

(* runExclusive() "can't lose ordering" and "keeps the mutex map bounded": *)
(* for each key there is a cell exactly while calls are queued or running  *)
(* in it, whose chain of promises is the order in which they arrived.      *)
MutexRepresentsQueue == \A k \in Keys : Mutex!Chains(k, queue[k])
=============================================================================
