------------------------------ MODULE RefPool ------------------------------
(***************************************************************************)
(* The keyed, reference-counted, bounded LRU pool of packages/core         *)
(* (src/packages/core/src/pool.ts, class RefCountedLruPool).               *)
(*                                                                         *)
(* The program is single-threaded: a step is a stretch of JavaScript       *)
(* between two points where control goes back to the event loop, and the   *)
(* interleaving is that of promise continuations, timers and of the code   *)
(* that calls acquire(), release(), drain() and start().  Each member of   *)
(* Calls is one call of acquire(key); a resource is named after the call   *)
(* whose factory made it.                                                  *)
(***************************************************************************)
EXTENDS Integers, Sequences, FiniteSets, PoolSeqs

CONSTANTS
  Calls,            \* the acquire() calls of the run
  Keys,             \* the keys (tenants)
  KeyOf,            \* the key each call asks for
  NoEntry,          \* no resource: an absent map entry
  Drains,           \* the drain()/stop() calls of the run
  Max,              \* options.max; Max <= 0 disables the bound
  MaxWaiters,       \* options.maxWaiters; Cardinality(Calls) or more: no cap
  ValidateOutcomes, \* how options.validate can end; {}: no such option
  HasTimeout,       \* acquireTimeoutMs is finite
  HasTtl,           \* idleTtlMs > 0
  MayReopen,        \* start() may be called on a closed pool
  ReleaseByKey      \* a holder may use pool.release(key) for its handle

ASSUME CallsAssumption ==
  /\ IsFiniteSet(Calls) /\ IsFiniteSet(Keys)
  /\ KeyOf \in [Calls -> Keys]
  /\ NoEntry \notin Calls

ASSUME OptionsAssumption ==
  /\ Max \in Int
  /\ MaxWaiters \in Nat
  /\ ValidateOutcomes \subseteq {"ok", "stale", "throws"}
  /\ HasTimeout \in BOOLEAN /\ HasTtl \in BOOLEAN
  /\ MayReopen \in BOOLEAN /\ ReleaseByKey \in BOOLEAN

VARIABLES
  pc,         \* how far each acquire() call has come
  ent,        \* the resource a call validates, replaces, was given or holds
  queue,      \* per key, the calls in the per-key mutex; the head runs
  entries,    \* the live map
  orphans,    \* the map of resources a drain found in use
  idle,       \* the idle list, least recently released first
  status,     \* each resource's life: absent, usable, disposing, disposed
  refCount,   \* Entry.refCount
  condemned,  \* the resources whose Entry.condemned is set
  waiters,    \* capacityWaiters, oldest first
  reserved,   \* the reservations counter
  closed, started,
  draining,   \* idle, draining or done, for each drain() call
  awaited     \* the resources each drain() call waits for

callVars  == <<pc, ent, queue>>
tableVars == <<entries, orphans, idle>>
resVars   == <<status, refCount, condemned>>
slotVars  == <<waiters, reserved>>
lifeVars  == <<closed, started, draining, awaited>>
vars      == <<callVars, tableVars, resVars, slotVars, lifeVars>>

-----------------------------------------------------------------------------
(* The states of a call.  "new" and the last three are outside acquire();  *)
(* the others count in `pending` for the call's key.                       *)

Running  == {"validating", "replacing", "parked", "woken", "creating",
             "discarding", "got", "failed"}
InFlight == Running \union {"queued"}
PCs      == InFlight \union {"new", "holding", "done", "rejected"}

Statuses == {"absent", "usable", "disposing", "disposed"}

Entry == Calls \union {NoEntry}

Live    == {k \in Keys : entries[k] # NoEntry}
Orphans == {k \in Keys : orphans[k] # NoEntry}

isPending(k) == \E c \in Calls : KeyOf[c] = k /\ pc[c] \in InFlight

Holders(e) == {c \in Calls : pc[c] = "holding" /\ ent[c] = e}

(* runExclusive(): the per-key mutex runs its queued calls one at a time.  *)
atHead(c) == /\ queue[KeyOf[c]] # <<>> /\ Head(queue[KeyOf[c]]) = c

(* A promise continuation is ready to run; timers fire only when none is.  *)
MicrotaskReady ==
  \E c \in Calls : \/ pc[c] \in {"got", "failed", "woken"}
                   \/ pc[c] = "queued" /\ atHead(c)

(* `x && !x.disposed` on what a map lookup returned. *)
isUsable(e) == e # NoEntry /\ status[e] # "disposed"

(* dispose(): starts at most once per resource. *)
Disposing(S) ==
  [e \in Calls |-> IF e \in S /\ status[e] = "usable" THEN "disposing"
                   ELSE status[e]]

(* wakeCapacityWaiter(), n times over, on top of the new call states f. *)
FirstWaiters(n) == {waiters[i] : i \in {j \in DOMAIN waiters : j <= n}}
Wake(f, n) == /\ pc' = [c \in Calls |-> IF c \in FirstWaiters(n)
                                        THEN "woken" ELSE f[c]]
              /\ waiters' = SubSeq(waiters, n + 1, Len(waiters))

Move(c, to) == [pc EXCEPT ![c] = to]
-----------------------------------------------------------------------------
Init ==
  /\ pc = [c \in Calls |-> "new"]
  /\ ent = [c \in Calls |-> NoEntry]
  /\ queue = [k \in Keys |-> <<>>]
  /\ entries = [k \in Keys |-> NoEntry]
  /\ orphans = [k \in Keys |-> NoEntry]
  /\ idle = <<>>
  /\ status = [e \in Calls |-> "absent"]
  /\ refCount = [e \in Calls |-> 0]
  /\ condemned = {}
  /\ waiters = <<>>
  /\ reserved = 0
  /\ closed = FALSE
  /\ started = FALSE
  /\ draining = [d \in Drains |-> "idle"]
  /\ awaited = [d \in Drains |-> {}]

-----------------------------------------------------------------------------
(* acquire(): the part that runs at once.                                  *)

(* Faults: a sharer takes no reference; the idle list keeps the entry. *)
CheckoutUncounted(c, e) ==
  /\ pc' = Move(c, "holding")
  /\ ent' = [ent EXCEPT ![c] = e]
  /\ refCount' = [refCount EXCEPT ![e] = 1]
  /\ idle' = Without(idle, {e})
CheckoutStaysIdle(c, e) ==
  /\ pc' = Move(c, "holding")
  /\ ent' = [ent EXCEPT ![c] = e]
  /\ refCount' = [refCount EXCEPT ![e] = @ + 1]
  /\ UNCHANGED idle

(* checkout(): take one reference to e for call c. *)
checkout(c, e) ==
  /\ pc' = Move(c, "holding")
  /\ ent' = [ent EXCEPT ![c] = e]
  /\ refCount' = [refCount EXCEPT ![e] = @ + 1]
  /\ idle' = IF refCount[e] = 0 THEN Without(idle, {e}) ELSE idle

Shareable(e) == isUsable(e) /\ refCount[e] > 0

AcquireFast(c) ==
  /\ pc[c] = "new"
  /\ Shareable(entries[KeyOf[c]])
  /\ checkout(c, entries[KeyOf[c]])
  /\ UNCHANGED <<queue, entries, orphans, status, condemned, slotVars, lifeVars>>

AcquireQueued(c) ==
  /\ pc[c] = "new"
  /\ ~Shareable(entries[KeyOf[c]])
  /\ pc' = Move(c, "queued")
  /\ queue' = [queue EXCEPT ![KeyOf[c]] = Append(@, c)]
  /\ UNCHANGED <<ent, tableVars, resVars, slotVars, lifeVars>>

-----------------------------------------------------------------------------
(* acquireSlot(): one turn of its loop for call c.                         *)

RoomForOneMore == Cardinality(Live) + reserved <= Max \* fault: off by one
Room == Cardinality(Live) + reserved < Max

(* Places in the idle list that takeLruIdle() and sweep() do not skip. *)
EvictablePending == DOMAIN idle \* fault: skips no key with a pending acquire
Evictable == {i \in DOMAIN idle : ~isPending(KeyOf[idle[i]])}

ReserveForgotten(c) == pc' = Move(c, "creating") /\ UNCHANGED reserved \* fault
Reserve(c) ==
  /\ pc' = Move(c, "creating")
  /\ reserved' = reserved + 1

EvictFor(c) ==
  \E i \in Evictable :
    /\ \A j \in Evictable : i <= j
    /\ idle' = Without(idle, {idle[i]})
    /\ entries' = [entries EXCEPT ![KeyOf[idle[i]]] = NoEntry]
    /\ status' = Disposing({idle[i]})
    /\ Reserve(c)
    /\ UNCHANGED waiters

(* waitForCapacity() *)
ParkOrReject(c) ==
  /\ IF Len(waiters) >= MaxWaiters
     THEN pc' = Move(c, "failed") /\ UNCHANGED waiters
     ELSE pc' = Move(c, "parked") /\ waiters' = Append(waiters, c)
  /\ UNCHANGED <<reserved, entries, idle, status>>

Bounded(c) ==
  \/ /\ closed
     /\ pc' = Move(c, "failed")
     /\ UNCHANGED <<reserved, waiters, entries, idle, status>>
  \/ ~closed /\ Room /\ Reserve(c) /\ UNCHANGED <<waiters, entries, idle, status>>
  \/ ~closed /\ ~Room /\ EvictFor(c)
  \/ ~closed /\ ~Room /\ Evictable = {} /\ ParkOrReject(c)

acquireSlot(c) ==
  /\ IF Max <= 0
     THEN /\ pc' = Move(c, "creating")
          /\ UNCHANGED <<reserved, waiters, entries, idle, status>>
     ELSE Bounded(c)
  /\ UNCHANGED <<queue, orphans, refCount, condemned, lifeVars>>

-----------------------------------------------------------------------------
(* obtain(): runs for the head of the key's mutex queue.                   *)

Turn(c) == pc[c] = "queued" /\ atHead(c)

Validates(e) == refCount[e] = 0 /\ ValidateOutcomes # {}

UseLive(c) ==
  LET live == entries[KeyOf[c]]
  IN  /\ isUsable(live)
      /\ pc' = Move(c, IF Validates(live) THEN "validating" ELSE "got")
      /\ ent' = [ent EXCEPT ![c] = live]
      /\ UNCHANGED <<queue, tableVars, resVars, slotVars, lifeVars>>
ObtainLive(c) == Turn(c) /\ UseLive(c)

(* No live resource: hand out the orphan, refuse, or go for a slot. *)
ResurrectKeepsOrphan(c) == \* fault: stays in the orphans map too
  LET k == KeyOf[c]
  IN  /\ isUsable(orphans[k])
      /\ pc' = Move(c, "got")
      /\ ent' = [ent EXCEPT ![c] = orphans[k]]
      /\ entries' = [entries EXCEPT ![k] = orphans[k]]
      /\ UNCHANGED <<queue, orphans, idle, resVars, slotVars, lifeVars>>
Resurrect(c) ==
  LET k == KeyOf[c]
  IN  /\ isUsable(orphans[k])
      /\ pc' = Move(c, "got")
      /\ ent' = [ent EXCEPT ![c] = orphans[k]]
      /\ entries' = [entries EXCEPT ![k] = orphans[k]]
      /\ orphans' = [orphans EXCEPT ![k] = NoEntry]
      /\ UNCHANGED <<queue, idle, resVars, slotVars, lifeVars>>

Refuse(c) ==
  /\ ~isUsable(orphans[KeyOf[c]])
  /\ closed
  /\ pc' = Move(c, "failed")
  /\ ent' = [ent EXCEPT ![c] = NoEntry]
  /\ UNCHANGED <<queue, tableVars, resVars, slotVars, lifeVars>>

GoForSlotBesideOrphan(c) == \* fault: does not look for an orphan first
  /\ ~closed
  /\ acquireSlot(c)
  /\ ent' = [ent EXCEPT ![c] = NoEntry]
GoForSlot(c) ==
  /\ ~isUsable(orphans[KeyOf[c]])
  /\ ~closed
  /\ acquireSlot(c)
  /\ ent' = [ent EXCEPT ![c] = NoEntry]

Missing(c) == Resurrect(c) \/ Refuse(c) \/ GoForSlot(c)

ObtainMissing(c) == Turn(c) /\ ~isUsable(entries[KeyOf[c]]) /\ Missing(c)

ValidateOk(c) ==
  /\ pc[c] = "validating" /\ "ok" \in ValidateOutcomes
  /\ pc' = Move(c, "got")
  /\ UNCHANGED <<ent, queue, tableVars, resVars, slotVars, lifeVars>>

(* removeEntry(): off the idle list and out of both maps. *)
removeEntry(e) ==
  LET k == KeyOf[e]
      drop(m) == [m EXCEPT ![k] = IF @ = e THEN NoEntry ELSE @]
  IN  /\ idle' = Without(idle, {e})
      /\ entries' = drop(entries)
      /\ orphans' = drop(orphans)

ValidateStale(c) ==
  /\ pc[c] = "validating" /\ "stale" \in ValidateOutcomes
  /\ pc' = Move(c, "replacing")
  /\ removeEntry(ent[c])
  /\ status' = Disposing({ent[c]})
  /\ UNCHANGED <<ent, queue, refCount, condemned, slotVars, lifeVars>>

ValidateThrows(c) ==
  /\ pc[c] = "validating" /\ "throws" \in ValidateOutcomes
  /\ pc' = Move(c, "failed")
  /\ UNCHANGED <<ent, queue, tableVars, resVars, slotVars, lifeVars>>

Replace(c) ==
  /\ pc[c] = "replacing" /\ status[ent[c]] = "disposed"
  /\ Missing(c)

Retry(c) == pc[c] = "woken" /\ acquireSlot(c) /\ UNCHANGED ent

TimeoutStaysListed(c) == \* fault: keeps its place among the waiters
  /\ HasTimeout
  /\ pc[c] = "parked"
  /\ ~MicrotaskReady
  /\ pc' = Move(c, "failed")
  /\ UNCHANGED <<ent, queue, tableVars, resVars, slotVars, lifeVars>>

(* The acquireTimeoutMs timer of a parked call. *)
Timeout(c) ==
  /\ HasTimeout
  /\ pc[c] = "parked"
  /\ ~MicrotaskReady
  /\ pc' = Move(c, "failed")
  /\ waiters' = Without(waiters, {c})
  /\ UNCHANGED <<ent, queue, tableVars, resVars, reserved, lifeVars>>

-----------------------------------------------------------------------------
(* The factory settles (through the breaker, whose refusal is a rejection).*)

(* Faults: the slot is not given back; nobody is told that it is. *)
ReservationKept(f) == UNCHANGED reserved /\ Wake(f, 1)
ReservationSilent(f) == reserved' = reserved - 1 /\ pc' = f /\ UNCHANGED waiters

(* releaseReservation() on top of the new call states f. *)
releaseReservation(f) == reserved' = reserved - 1 /\ Wake(f, 1)

insert(c) ==
  /\ pc' = Move(c, "got")
  /\ ent' = [ent EXCEPT ![c] = c]
  /\ entries' = [entries EXCEPT ![KeyOf[c]] = c]
  /\ idle' = Append(idle, c)
  /\ status' = [status EXCEPT ![c] = "usable"]
  /\ reserved' = reserved - 1
  /\ UNCHANGED <<orphans, waiters>>

(* The pool was closed while the factory ran: disposeOrphaned(). *)
discard(c) ==
  /\ releaseReservation(Move(c, "discarding"))
  /\ UNCHANGED <<ent, tableVars, status>>

InsertUnchecked(c) == \* fault: a late resource enters a closed pool
  /\ pc[c] = "creating"
  /\ insert(c)
  /\ UNCHANGED <<queue, refCount, condemned, lifeVars>>
FactoryResolves(c) ==
  /\ pc[c] = "creating"
  /\ IF closed THEN discard(c) ELSE insert(c)
  /\ UNCHANGED <<queue, refCount, condemned, lifeVars>>

FactoryRejects(c) ==
  /\ pc[c] = "creating"
  /\ releaseReservation(Move(c, "failed"))
  /\ UNCHANGED <<ent, queue, tableVars, resVars, lifeVars>>

DiscardDone(c) ==
  /\ pc[c] = "discarding"
  /\ pc' = Move(c, "failed")
  /\ UNCHANGED <<ent, queue, tableVars, resVars, slotVars, lifeVars>>

-----------------------------------------------------------------------------
(* obtain() has settled: the mutex passes on and acquire() ends.           *)

passMutex(c) == queue' = [queue EXCEPT ![KeyOf[c]] = Tail(@)]

Settle(c) ==
  /\ pc[c] = "got"
  /\ checkout(c, ent[c])
  /\ passMutex(c)
  /\ UNCHANGED <<entries, orphans, status, condemned, slotVars, lifeVars>>

SettleFailed(c) ==
  /\ pc[c] = "failed"
  /\ pc' = Move(c, "rejected")
  /\ ent' = [ent EXCEPT ![c] = NoEntry]
  /\ passMutex(c)
  /\ UNCHANGED <<tableVars, resVars, slotVars, lifeVars>>

-----------------------------------------------------------------------------
(* releaseEntry() *)

OrphanOnly(e) == orphans[KeyOf[e]] = e \* fault: resurrection forgives
isCondemned(e) == e \in condemned \/ orphans[KeyOf[e]] = e

(* Back on the idle list, evictable: a parked call may have the slot. *)
BackToIdleSilently(e, f) == \* fault: wakes nobody
  /\ idle' = Append(idle, e) /\ pc' = f
  /\ UNCHANGED <<entries, orphans, status, waiters>>
BackToIdle(e, f) ==
  /\ idle' = Append(idle, e)
  /\ Wake(f, 1)
  /\ UNCHANGED <<entries, orphans, status>>

LastRelease(e, f) ==
  IF isCondemned(e)
  THEN /\ removeEntry(e)
       /\ status' = Disposing({e})
       /\ pc' = f
       /\ UNCHANGED waiters
  ELSE BackToIdle(e, f)

LastRefOrCondemned(e) == refCount[e] = 1 \/ isCondemned(e) \* fault: disposes early
LastRef(e) == refCount[e] = 1

releaseEntry(e, f) ==
  IF status[e] = "disposed" \/ refCount[e] = 0
  THEN pc' = f /\ UNCHANGED <<tableVars, status, refCount, waiters>>
  ELSE /\ refCount' = [refCount EXCEPT ![e] = @ - 1]
       /\ IF LastRef(e)
          THEN LastRelease(e, f)
          ELSE pc' = f /\ UNCHANGED <<tableVars, status, waiters>>

Release(c) ==
  /\ pc[c] = "holding"
  /\ releaseEntry(ent[c], Move(c, "done"))
  /\ ent' = [ent EXCEPT ![c] = NoEntry]
  /\ UNCHANGED <<queue, condemned, reserved, lifeVars>>

(* release(key), used once in place of the handle. *)
ReleaseKey(c) ==
  LET k == KeyOf[c]
      e == IF entries[k] # NoEntry THEN entries[k] ELSE orphans[k]
  IN  /\ ReleaseByKey
      /\ pc[c] = "holding"
      /\ IF e = NoEntry
         THEN pc' = Move(c, "done") /\ UNCHANGED <<tableVars, status, refCount, waiters>>
         ELSE releaseEntry(e, Move(c, "done"))
      /\ ent' = [ent EXCEPT ![c] = NoEntry]
      /\ UNCHANGED <<queue, condemned, reserved, lifeVars>>

(* options.dispose has settled, either way. *)
DisposeDone(e) ==
  /\ status[e] = "disposing"
  /\ status' = [status EXCEPT ![e] = "disposed"]
  /\ UNCHANGED <<callVars, tableVars, refCount, condemned, slotVars, lifeVars>>

-----------------------------------------------------------------------------
(* Lifecycle: drain(), stop(), start() and the TTL sweep.                  *)

(* setClosed(): every parked call is rejected with PoolClosedError. *)
setClosed ==
  /\ closed' = TRUE
  /\ pc' = [c \in Calls |-> IF c \in Elements(waiters) THEN "failed" ELSE pc[c]]
  /\ waiters' = <<>>

stopTimers == started' = FALSE

SharedOf(S) == {e \in S : refCount[e] > 1} \* fault: off by one
InUse(S) == {e \in S : refCount[e] # 0}

(* stop() only repeats what drain() starts with. *)
Drain(d) ==
  LET live    == {entries[k] : k \in Live}
      held    == InUse(live)
      orphan(k) == IF entries[k] \in held THEN entries[k] ELSE orphans[k]
      orphaned  == {orphan(k) : k \in Keys} \ {NoEntry}
  IN  /\ draining[d] = "idle"
      /\ setClosed
      /\ stopTimers
      /\ entries' = [k \in Keys |-> NoEntry]
      /\ orphans' = [k \in Keys |-> orphan(k)]
      /\ idle' = <<>>
      /\ status' = Disposing(live \ held)
      /\ condemned' = condemned \union orphaned
      /\ draining' = [draining EXCEPT ![d] = "draining"]
      /\ awaited' = [awaited EXCEPT ![d] = live \union orphaned]
      /\ UNCHANGED <<ent, queue, refCount, reserved>>

DrainDone(d) ==
  /\ draining[d] = "draining"
  /\ \A e \in awaited[d] : status[e] = "disposed"
  /\ draining' = [draining EXCEPT ![d] = "done"]
  /\ awaited' = [awaited EXCEPT ![d] = {}]
  /\ UNCHANGED <<callVars, tableVars, resVars, slotVars, closed, started>>

Start ==
  /\ closed => MayReopen
  /\ closed \/ ~started
  /\ closed' = FALSE
  /\ started' = TRUE
  /\ UNCHANGED <<callVars, tableVars, resVars, slotVars, draining, awaited>>

(* sweep(): the first n idle entries have outlived idleTtlMs. *)
Sweep(n) ==
  LET victims == {idle[i] : i \in Evictable \cap 1..n}
  IN  /\ HasTtl /\ started
      /\ ~MicrotaskReady
      /\ victims # {}
      /\ idle' = Without(idle, victims)
      /\ entries' = [k \in Keys |-> IF \E v \in victims : KeyOf[v] = k
                                    THEN NoEntry ELSE entries[k]]
      /\ status' = Disposing(victims)
      /\ Wake(pc, Cardinality(victims))
      /\ UNCHANGED <<ent, queue, orphans, refCount, condemned, reserved, lifeVars>>

-----------------------------------------------------------------------------
Acquire(c) == AcquireFast(c) \/ AcquireQueued(c)
Obtain(c)  == ObtainLive(c) \/ ObtainMissing(c)
Validated(c) == ValidateOk(c) \/ ValidateStale(c) \/ ValidateThrows(c)
Created(c) == FactoryResolves(c) \/ FactoryRejects(c)
Settled(c) == Settle(c) \/ SettleFailed(c)
Released(c) == Release(c) \/ ReleaseKey(c)

Next ==
  \/ \E c \in Calls : \/ Acquire(c) \/ Obtain(c) \/ Validated(c) \/ Replace(c)
                      \/ Retry(c) \/ Timeout(c) \/ Created(c) \/ DiscardDone(c)
                      \/ Settled(c) \/ Released(c)
                      \/ DisposeDone(c)
  \/ \E d \in Drains : Drain(d) \/ DrainDone(d)
  \/ \E n \in DOMAIN idle : Sweep(n)
  \/ Start

Spec == Init /\ [][Next]_vars

(* Ready continuations run, and validate, the factory and dispose settle:  *)
(* the event loop and the options' promises.                               *)
EventLoop ==
  /\ \A c \in Calls : /\ WF_vars(Obtain(c)) /\ WF_vars(Validated(c))
                      /\ WF_vars(Replace(c)) /\ WF_vars(Retry(c))
                      /\ WF_vars(Created(c)) /\ WF_vars(DiscardDone(c))
                      /\ WF_vars(Settled(c)) /\ WF_vars(DisposeDone(c))
  /\ \A d \in Drains : WF_vars(DrainDone(d))

(* Holders give their handles back. *)
HoldersRelease == \A c \in Calls : WF_vars(Released(c))

TimersFire == \A c \in Calls : WF_vars(Timeout(c))

FairSpec == Spec /\ EventLoop /\ HoldersRelease /\ TimersFire
-----------------------------------------------------------------------------
(* What must hold.                                                         *)

(* Every variable stays within its type; a bounded pool never gives back   *)
(* more slots than it reserved.                                            *)
Types ==
  /\ pc \in [Calls -> PCs]
  /\ ent \in [Calls -> Entry]
  /\ queue \in [Keys -> Seq(Calls)]
  /\ entries \in [Keys -> Entry]
  /\ orphans \in [Keys -> Entry]
  /\ idle \in Seq(Calls)
  /\ status \in [Calls -> Statuses]
  /\ refCount \in [Calls -> Nat]
  /\ condemned \subseteq Calls
  /\ waiters \in Seq(Calls)
  /\ reserved \in Int
  /\ closed \in BOOLEAN /\ started \in BOOLEAN
  /\ draining \in [Drains -> {"idle", "draining", "done"}]
  /\ awaited \in [Drains -> SUBSET Calls]
TypeOK == Types /\ (Max > 0 => reserved >= 0)

(* No holder ever has its resource disposed, or being disposed: "no        *)
(* request ever has its connection pulled out from under it" (README).     *)
HeldResourceIntact == \A c \in Calls : pc[c] = "holding" => status[ent[c]] = "usable"

(* The bound of options.max: live resources, the orphans a drain left to   *)
(* their holders and the creations under way never exceed it.              *)
CapacityBound == Max > 0 => Cardinality(Live) + Cardinality(Orphans) + reserved <= Max

(* Entry.inIdle: an entry is on the idle list exactly when it is in the    *)
(* live map with no holder, and it is there once.                          *)
IdleMembership ==
  /\ Distinct(idle)
  /\ \A e \in Calls : e \in Elements(idle) <=> entries[KeyOf[e]] = e /\ refCount[e] = 0

(* The reference count of a resource that is not disposed of is the number *)
(* of its holders.                                                         *)
RefCountExact == \A e \in Calls : status[e] = "usable" => refCount[e] = Cardinality(Holders(e))

(* Single creation: a key never has two resources, nor one and a factory   *)
(* call that makes another ("invoked at most once per live key").          *)
SingleResource ==
  \A c, e \in Calls : /\ KeyOf[c] = KeyOf[e] /\ c # e
                      /\ status[c] = "usable" \/ pc[c] = "creating"
                      => status[e] # "usable" /\ pc[e] # "creating"

(* `reserved` counts the creations that have passed the capacity gate and  *)
(* not yet inserted their entry (comment on the field).                    *)
ReservedExact == reserved = Cardinality({c \in Calls : pc[c] = "creating"})

(* capacityWaiters lists the parked calls, each once: a wakeup always      *)
(* reaches a call that waits, and none that has timed out or been woken.   *)
ParkedListed == Elements(waiters) = {c \in Calls : pc[c] = "parked"} /\ Distinct(waiters)

(* No lost wakeup: when every continuation has run and no call is about to *)
(* refill the place of a stale resource, a call is parked only if there is *)
(* neither room nor an idle resource to evict.                             *)
Replacing == \E c \in Calls : pc[c] = "replacing"
NoLostWakeup ==
  waiters # <<>> /\ ~MicrotaskReady /\ ~Replacing => ~Room /\ Evictable = {}

(* A closed pool keeps nothing that no drain will dispose of: every        *)
(* resource left usable is condemned, and nobody is parked.                *)
ClosedLeaksNothing ==
  closed => waiters = <<>> /\ \A e \in Calls : status[e] = "usable" => e \in condemned

(* Disposal starts only once nobody holds the resource. *)
NoDisposeUnderHolder ==
  [][\A e \in Calls : status[e] = "usable" /\ status'[e] # "usable"
       => \A c \in Holders(e) : pc'[c] # "holding"]_vars

(* A live entry or an orphan is never overwritten by another resource. *)
NeverOverwritten ==
  [][\A k \in Keys : /\ entries[k] # NoEntry => entries'[k] \in {entries[k], NoEntry}
                     /\ orphans[k] # NoEntry => orphans'[k] \in {orphans[k], NoEntry}]_vars

(* Every acquire() call settles. *)
AcquireSettles ==
  \A c \in Calls : pc[c] \in InFlight ~> pc[c] \in {"holding", "done", "rejected"}

(* Every drain() call completes. *)
DrainCompletes == \A d \in Drains : draining[d] = "draining" ~> draining[d] = "done"

(* The pool keeps the promise of ResourceBroker: a call is `waiting` for   *)
(* as long as acquire() is pending, and an entry is `open` until its       *)
(* disposal starts.                                                        *)
Broker == INSTANCE ResourceBroker WITH
  NoResource <- NoEntry,
  want  <- [c \in Calls |-> CASE pc[c] = "new" -> "idle"
                             [] pc[c] \in InFlight -> "waiting"
                             [] pc[c] = "holding" -> "granted"
                             [] OTHER -> "ended"],
  grant <- [c \in Calls |-> IF pc[c] = "holding" THEN ent[c] ELSE NoEntry],
  life  <- [e \in Calls |-> CASE status[e] = "absent" -> "none"
                             [] status[e] = "usable" -> "open"
                             [] status[e] = "disposing" -> "closing"
                             [] status[e] = "disposed" -> "gone"],
  shut  <- closed
KeepsBrokerPromise == Broker!BrokerSpec
=============================================================================
