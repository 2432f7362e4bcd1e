---------------------------- MODULE RefPoolProofs ----------------------------
(***************************************************************************)
(* Theorems about the pool for all sets of calls and keys and all options: *)
(* its types, mutexes, waiters and reservations, and then what the two     *)
(* maps, the idle list and the calls under way can say of each other.      *)
(***************************************************************************)
EXTENDS RefPool, PoolSeqLemmas

-----------------------------------------------------------------------------
(* Types.                                                                  *)

LEMMA CallTypes ==
  ASSUME Types, NEW c \in Calls
  PROVE  /\ KeyOf[c] \in Keys
         /\ queue[KeyOf[c]] \in Seq(Calls)
         /\ entries[KeyOf[c]] \in Entry /\ orphans[KeyOf[c]] \in Entry
         /\ ent[c] \in Entry
BY CallsAssumption DEF Types

LEMMA WakeTypes ==
  ASSUME Types, NEW f \in [Calls -> PCs], NEW n \in Nat, Wake(f, n)
  PROVE  pc' \in [Calls -> PCs] /\ waiters' \in Seq(Calls)
<1>1. waiters \in Seq(Calls)
  BY DEF Types
<1>2. waiters' \in Seq(Calls)
  BY <1>1, DropFirst DEF Wake
<1>3. pc' \in [Calls -> PCs]
  BY DEF Wake, PCs, InFlight, Running
<1> QED
  BY <1>2, <1>3

LEMMA ReservationTypes ==
  ASSUME Types, NEW f \in [Calls -> PCs], releaseReservation(f)
  PROVE  pc' \in [Calls -> PCs] /\ waiters' \in Seq(Calls) /\ reserved' \in Int
<1>1. Wake(f, 1) /\ reserved' = reserved - 1 /\ 1 \in Nat
  BY DEF releaseReservation
<1>2. reserved \in Int
  BY DEF Types
<1> QED
  BY <1>1, <1>2, WakeTypes

LEMMA DisposingTypes ==
  ASSUME Types, NEW S PROVE Disposing(S) \in [Calls -> Statuses]
BY DEF Types, Disposing, Statuses

LEMMA WithoutTypes ==
  ASSUME Types, NEW S
  PROVE  Without(idle, S) \in Seq(Calls) /\ Without(waiters, S) \in Seq(Calls)
BY WithoutProperties DEF Types

LEMMA MoveTypes ==
  ASSUME Types, NEW c \in Calls
  PROVE  /\ Move(c, "queued") \in [Calls -> PCs] /\ Move(c, "validating") \in [Calls -> PCs]
         /\ Move(c, "replacing") \in [Calls -> PCs] /\ Move(c, "parked") \in [Calls -> PCs]
         /\ Move(c, "creating") \in [Calls -> PCs] /\ Move(c, "discarding") \in [Calls -> PCs]
         /\ Move(c, "got") \in [Calls -> PCs] /\ Move(c, "failed") \in [Calls -> PCs]
         /\ Move(c, "holding") \in [Calls -> PCs] /\ Move(c, "done") \in [Calls -> PCs]
         /\ Move(c, "rejected") \in [Calls -> PCs]
BY DEF Types, Move, PCs, InFlight, Running

LEMMA CheckoutTypes ==
  ASSUME Types, NEW c \in Calls, NEW e \in Calls, checkout(c, e)
  PROVE  /\ pc' \in [Calls -> PCs] /\ ent' \in [Calls -> Entry]
         /\ refCount' \in [Calls -> Nat] /\ idle' \in Seq(Calls)
<1>1. pc' \in [Calls -> PCs]
  BY MoveTypes DEF checkout
<1>2. ent' \in [Calls -> Entry] /\ refCount' \in [Calls -> Nat]
  BY DEF checkout, Types, Entry
<1>3. idle' \in Seq(Calls)
  BY WithoutTypes DEF checkout, Types
<1> QED
  BY <1>1, <1>2, <1>3

LEMMA SlotTypes ==
  ASSUME Types, NEW c \in Calls, acquireSlot(c)
  PROVE  /\ pc' \in [Calls -> PCs] /\ waiters' \in Seq(Calls) /\ reserved' \in Int
         /\ entries' \in [Keys -> Entry] /\ idle' \in Seq(Calls)
         /\ status' \in [Calls -> Statuses]
<1>0. /\ waiters \in Seq(Calls) /\ reserved \in Int /\ entries \in [Keys -> Entry]
      /\ idle \in Seq(Calls) /\ status \in [Calls -> Statuses] /\ Max \in Int
  BY OptionsAssumption DEF Types
<1>1. CASE Max <= 0
  BY <1>0, <1>1, MoveTypes DEF acquireSlot
<1>2. CASE Max > 0
  <2>0. Bounded(c)
    BY <1>0, <1>2 DEF acquireSlot
  <2>1. CASE closed /\ pc' = Move(c, "failed")
             /\ UNCHANGED <<reserved, waiters, entries, idle, status>>
    BY <1>0, <2>1, MoveTypes
  <2>2. CASE Reserve(c) /\ UNCHANGED <<waiters, entries, idle, status>>
    BY <1>0, <2>2, MoveTypes DEF Reserve
  <2>3. CASE EvictFor(c)
    <3>1. PICK i \in Evictable :
            /\ idle' = Without(idle, {idle[i]})
            /\ entries' = [entries EXCEPT ![KeyOf[idle[i]]] = NoEntry]
            /\ status' = Disposing({idle[i]})
            /\ Reserve(c)
            /\ UNCHANGED waiters
      BY <2>3 DEF EvictFor
    <3>2. entries' \in [Keys -> Entry]
      BY <1>0, <3>1 DEF Entry
    <3>3. pc' \in [Calls -> PCs] /\ reserved' \in Int
      BY <1>0, <3>1, MoveTypes DEF Reserve
    <3> QED
      BY <1>0, <3>1, <3>2, <3>3, WithoutTypes, DisposingTypes
  <2>4. CASE ParkOrReject(c)
    <3>1. waiters' \in Seq(Calls)
      BY <1>0, <2>4, AppendElements DEF ParkOrReject
    <3>2. pc' \in [Calls -> PCs]
      BY <2>4, MoveTypes DEF ParkOrReject
    <3> QED
      BY <1>0, <2>4, <3>1, <3>2 DEF ParkOrReject
  <2> QED
    BY <2>0, <2>1, <2>2, <2>3, <2>4 DEF Bounded
<1> QED
  BY <1>0, <1>1, <1>2

LEMMA MissingTypes ==
  ASSUME Types, NEW c \in Calls, Missing(c)
  PROVE  Types'
<1>1. CASE Resurrect(c)
  BY <1>1, CallTypes, MoveTypes
     DEF Resurrect, Types, resVars, slotVars, lifeVars, Entry
<1>2. CASE Refuse(c)
  BY <1>2, CallTypes, MoveTypes
     DEF Refuse, Types, tableVars, resVars, slotVars, lifeVars, Entry
<1>3. CASE GoForSlot(c)
  <2>1. acquireSlot(c) /\ ent' \in [Calls -> Entry]
    BY <1>3 DEF GoForSlot, Types, Entry
  <2>2. UNCHANGED <<queue, orphans, refCount, condemned, lifeVars>>
    BY <2>1 DEF acquireSlot
  <2> QED
    BY <2>1, <2>2, SlotTypes DEF Types, lifeVars
<1> QED
  BY <1>1, <1>2, <1>3 DEF Missing

LEMMA RemoveEntryTypes ==
  ASSUME Types, NEW e \in Calls, removeEntry(e)
  PROVE  /\ idle' \in Seq(Calls) /\ entries' \in [Keys -> Entry]
         /\ orphans' \in [Keys -> Entry]
BY WithoutTypes DEF removeEntry, Types, Entry

LEMMA ReleaseTypes ==
  ASSUME Types, NEW e \in Calls, NEW f \in [Calls -> PCs], releaseEntry(e, f)
  PROVE  /\ pc' \in [Calls -> PCs] /\ waiters' \in Seq(Calls)
         /\ refCount' \in [Calls -> Nat] /\ idle' \in Seq(Calls)
         /\ entries' \in [Keys -> Entry] /\ orphans' \in [Keys -> Entry]
         /\ status' \in [Calls -> Statuses]
<1>0. /\ waiters \in Seq(Calls) /\ refCount \in [Calls -> Nat] /\ idle \in Seq(Calls)
      /\ entries \in [Keys -> Entry] /\ orphans \in [Keys -> Entry]
      /\ status \in [Calls -> Statuses]
  BY DEF Types
<1>1. CASE status[e] = "disposed" \/ refCount[e] = 0
  BY <1>0, <1>1 DEF releaseEntry, tableVars
<1>2. CASE ~(status[e] = "disposed" \/ refCount[e] = 0)
  <2>1. refCount' \in [Calls -> Nat]
    BY <1>0, <1>2 DEF releaseEntry
  <2>2. CASE ~LastRef(e)
    BY <1>0, <1>2, <2>1, <2>2 DEF releaseEntry, tableVars
  <2>3. CASE LastRef(e) /\ isCondemned(e)
    <3>1. removeEntry(e) /\ status' = Disposing({e}) /\ pc' = f /\ UNCHANGED waiters
      BY <1>2, <2>3 DEF releaseEntry, LastRelease
    <3> QED
      BY <1>0, <2>1, <3>1, RemoveEntryTypes, DisposingTypes
  <2>4. CASE LastRef(e) /\ ~isCondemned(e)
    <3>1. BackToIdle(e, f)
      BY <1>2, <2>4 DEF releaseEntry, LastRelease
    <3> QED
      BY <1>0, <2>1, <3>1, AppendElements, WakeTypes DEF BackToIdle
  <2> QED
    BY <2>2, <2>3, <2>4
<1> QED
  BY <1>1, <1>2

-----------------------------------------------------------------------------
(* The state a step relies on to keep the types: a call that uses a        *)
(* resource has one, the waiters are the parked calls, and a call inside   *)
(* obtain() is the head of its key's queue.                                *)

ClaimsReal ==
  \A c \in Calls : pc[c] \in {"validating", "replacing", "got", "holding"} => ent[c] \in Calls

QueueOk ==
  /\ \A k \in Keys : Distinct(queue[k])
  /\ \A k \in Keys : \A i \in DOMAIN queue[k] :
       /\ KeyOf[queue[k][i]] = k
       /\ pc[queue[k][i]] \in InFlight
       /\ i # 1 => pc[queue[k][i]] = "queued"
  /\ \A c \in Calls : pc[c] \in Running => atHead(c)

Base == Types /\ ClaimsReal /\ ParkedListed /\ QueueOk

LEMMA PassMutexTypes ==
  ASSUME Base, NEW c \in Calls, pc[c] \in Running, passMutex(c)
  PROVE  queue' \in [Keys -> Seq(Calls)]
<1>1. queue[KeyOf[c]] \in Seq(Calls) /\ queue[KeyOf[c]] # <<>>
  BY CallTypes DEF Base, QueueOk, atHead
<1>2. Tail(queue[KeyOf[c]]) \in Seq(Calls)
  BY <1>1, TailElements
<1> QED
  BY <1>2 DEF passMutex, Base, Types

LEMMA TypesStep == Base /\ [Next]_vars => Types'
<1> SUFFICES ASSUME Base, [Next]_vars PROVE Types'
  OBVIOUS
<1>0. Types
  BY DEF Base
<1>1. ASSUME NEW c \in Calls, AcquireFast(c) PROVE Types'
  <2>1. entries[KeyOf[c]] \in Calls
    BY <1>0, <1>1, CallTypes DEF AcquireFast, Shareable, isUsable, Entry
  <2>2. checkout(c, entries[KeyOf[c]])
    BY <1>0, <1>1 DEF AcquireFast
  <2> QED
    BY <1>0, <1>1, <2>1, <2>2, CheckoutTypes DEF AcquireFast, Types, slotVars, lifeVars
<1>2. ASSUME NEW c \in Calls, AcquireQueued(c) PROVE Types'
  <2>1. queue' \in [Keys -> Seq(Calls)]
    BY <1>0, <1>2, CallTypes, AppendElements DEF AcquireQueued, Types
  <2> QED
    BY <1>0, <1>2, <2>1, MoveTypes DEF AcquireQueued, Types, tableVars, resVars, slotVars, lifeVars
<1>3. ASSUME NEW c \in Calls, ObtainLive(c) PROVE Types'
  BY <1>0, <1>3, CallTypes, MoveTypes
     DEF ObtainLive, UseLive, Types, tableVars, resVars, slotVars, lifeVars
<1>4. ASSUME NEW c \in Calls, ObtainMissing(c) PROVE Types'
  BY <1>0, <1>4, MissingTypes DEF ObtainMissing
<1>5. ASSUME NEW c \in Calls, ValidateOk(c) \/ ValidateThrows(c) \/ DiscardDone(c) PROVE Types'
  BY <1>0, <1>5, MoveTypes
     DEF ValidateOk, ValidateThrows, DiscardDone, Types, tableVars, resVars, slotVars, lifeVars
<1>6. ASSUME NEW c \in Calls, ValidateStale(c) PROVE Types'
  <2>1. CASE ent[c] \in Calls
    BY <1>0, <1>6, <2>1, MoveTypes, RemoveEntryTypes, DisposingTypes
       DEF ValidateStale, Types, slotVars, lifeVars
  <2>2. CASE ent[c] = NoEntry
    <3>1. entries' \in [Keys -> Entry] /\ orphans' \in [Keys -> Entry]
      BY <1>0, <1>6, <2>2 DEF ValidateStale, removeEntry, Types, Entry
    <3>2. idle' \in Seq(Calls)
      BY <1>0, <1>6, WithoutTypes DEF ValidateStale, removeEntry
    <3> QED
      BY <1>0, <1>6, <3>1, <3>2, MoveTypes, DisposingTypes
         DEF ValidateStale, Types, slotVars, lifeVars
  <2> QED
    BY <1>0, <2>1, <2>2 DEF Types, Entry
<1>7. ASSUME NEW c \in Calls, Replace(c) PROVE Types'
  BY <1>0, <1>7, MissingTypes DEF Replace
<1>8. ASSUME NEW c \in Calls, Retry(c) PROVE Types'
  <2>1. acquireSlot(c) /\ UNCHANGED ent
    BY <1>0, <1>8 DEF Retry
  <2>2. UNCHANGED <<queue, orphans, refCount, condemned, lifeVars>>
    BY <1>0, <2>1 DEF acquireSlot
  <2> QED
    BY <1>0, <2>1, <2>2, SlotTypes DEF Types, lifeVars
<1>9. ASSUME NEW c \in Calls, Timeout(c) PROVE Types'
  BY <1>0, <1>9, MoveTypes, WithoutTypes DEF Timeout, Types, tableVars, resVars, lifeVars
<1>10. ASSUME NEW c \in Calls, FactoryResolves(c) PROVE Types'
  <2>1. CASE insert(c)
    <3>1. idle' \in Seq(Calls)
      BY <1>0, <2>1, AppendElements DEF insert, Types
    <3>2. entries' \in [Keys -> Entry] /\ ent' \in [Calls -> Entry]
      BY <1>0, <2>1 DEF insert, Types, Entry
    <3>3. status' \in [Calls -> Statuses]
      BY <1>0, <2>1 DEF insert, Types, Statuses
    <3> QED
      BY <1>0, <1>10, <2>1, <3>1, <3>2, <3>3, MoveTypes
         DEF FactoryResolves, insert, Types, lifeVars
  <2>2. CASE discard(c)
    <3>1. pc' \in [Calls -> PCs] /\ waiters' \in Seq(Calls) /\ reserved' \in Int
      BY <1>0, <2>2, MoveTypes, ReservationTypes DEF discard
    <3> QED
      BY <1>0, <1>10, <2>2, <3>1 DEF FactoryResolves, discard, Types, tableVars, lifeVars
  <2> QED
    BY <1>0, <1>10, <2>1, <2>2 DEF FactoryResolves
<1>11. ASSUME NEW c \in Calls, FactoryRejects(c) PROVE Types'
  <2>1. pc' \in [Calls -> PCs] /\ waiters' \in Seq(Calls) /\ reserved' \in Int
    BY <1>0, <1>11, MoveTypes, ReservationTypes DEF FactoryRejects
  <2> QED
    BY <1>0, <1>11, <2>1 DEF FactoryRejects, Types, tableVars, resVars, lifeVars
<1>12. ASSUME NEW c \in Calls, Settle(c) PROVE Types'
  <2>1. ent[c] \in Calls /\ checkout(c, ent[c])
    BY <1>12 DEF Settle, Base, ClaimsReal
  <2>2. queue' \in [Keys -> Seq(Calls)]
    BY <1>12, PassMutexTypes DEF Settle, Running
  <2> QED
    BY <1>0, <1>12, <2>1, <2>2, CheckoutTypes DEF Settle, Types, slotVars, lifeVars
<1>13. ASSUME NEW c \in Calls, SettleFailed(c) PROVE Types'
  <2>1. queue' \in [Keys -> Seq(Calls)]
    BY <1>13, PassMutexTypes DEF SettleFailed, Running
  <2>2. ent' \in [Calls -> Entry]
    BY <1>0, <1>13 DEF SettleFailed, Types, Entry
  <2> QED
    BY <1>0, <1>13, <2>1, <2>2, MoveTypes
       DEF SettleFailed, Types, tableVars, resVars, slotVars, lifeVars
<1>14. ASSUME NEW c \in Calls, Release(c) PROVE Types'
  <2>1. ent[c] \in Calls /\ releaseEntry(ent[c], Move(c, "done"))
    BY <1>14 DEF Release, Base, ClaimsReal
  <2>2. ent' \in [Calls -> Entry]
    BY <1>0, <1>14 DEF Release, Types, Entry
  <2> QED
    BY <1>0, <1>14, <2>1, <2>2, MoveTypes, ReleaseTypes DEF Release, Types, lifeVars
<1>15. ASSUME NEW c \in Calls, ReleaseKey(c) PROVE Types'
  <2> DEFINE k == KeyOf[c]
             e == IF entries[k] # NoEntry THEN entries[k] ELSE orphans[k]
  <2>1. e \in Entry
    BY <1>0, CallTypes
  <2>2. ent' \in [Calls -> Entry]
    BY <1>0, <1>15 DEF ReleaseKey, Types, Entry
  <2>3. CASE e = NoEntry
    BY <1>0, <1>15, <2>2, <2>3, MoveTypes DEF ReleaseKey, Types, tableVars, lifeVars
  <2>4. CASE e \in Calls
    <3>1. releaseEntry(e, Move(c, "done"))
      BY <1>15, <2>4, CallsAssumption DEF ReleaseKey
    <3> QED
      BY <1>0, <1>15, <2>2, <2>4, <3>1, MoveTypes, ReleaseTypes DEF ReleaseKey, Types, lifeVars
  <2> QED
    BY <2>1, <2>3, <2>4 DEF Entry
<1>16. ASSUME NEW e \in Calls, DisposeDone(e) PROVE Types'
  BY <1>0, <1>16
     DEF DisposeDone, Types, Statuses, callVars, tableVars, slotVars, lifeVars
<1>17. ASSUME NEW d \in Drains, Drain(d) PROVE Types'
  <2>1. pc' \in [Calls -> PCs] /\ waiters' \in Seq(Calls) /\ closed' = TRUE /\ started' = FALSE
    BY <1>0, <1>17, EmptySeq
       DEF Drain, setClosed, stopTimers, Types, PCs, InFlight, Running
  <2>2. entries' \in [Keys -> Entry] /\ orphans' \in [Keys -> Entry] /\ idle' \in Seq(Calls)
    BY <1>0, <1>17, EmptySeq DEF Drain, Types, Entry
  <2>3. condemned' \subseteq Calls /\ awaited' \in [Drains -> SUBSET Calls]
    BY <1>0, <1>17 DEF Drain, Types, Entry, Live, InUse
  <2>4. draining' \in [Drains -> {"idle", "draining", "done"}]
    BY <1>0, <1>17 DEF Drain, Types
  <2> QED
    BY <1>0, <1>17, <2>1, <2>2, <2>3, <2>4, DisposingTypes DEF Drain, Types
<1>18. ASSUME NEW d \in Drains, DrainDone(d) PROVE Types'
  BY <1>0, <1>18 DEF DrainDone, Types, callVars, tableVars, resVars, slotVars
<1>19. CASE Start
  BY <1>0, <1>19 DEF Start, Types, callVars, tableVars, resVars, slotVars
<1>20. ASSUME NEW n \in DOMAIN idle, Sweep(n) PROVE Types'
  <2>1. PICK victims : /\ victims \subseteq Elements(idle)
                       /\ idle' = Without(idle, victims)
                       /\ entries' = [k \in Keys |-> IF \E v \in victims : KeyOf[v] = k
                                                     THEN NoEntry ELSE entries[k]]
                       /\ status' = Disposing(victims)
                       /\ Wake(pc, Cardinality(victims))
    BY <1>20 DEF Sweep, Evictable, Elements
  <2>2. Cardinality(victims) \in Nat
    <3>1. victims \subseteq Calls
      BY <1>0, <2>1, ElementOfSeq, LenProperties DEF Types, Elements
    <3> QED
      BY <3>1, CallsAssumption, FS_Subset, FS_CardinalityType
  <2>3. pc' \in [Calls -> PCs] /\ waiters' \in Seq(Calls)
    BY <1>0, <2>1, <2>2, WakeTypes DEF Types
  <2>4. entries' \in [Keys -> Entry]
    BY <1>0, <2>1 DEF Types, Entry
  <2>5. idle' \in Seq(Calls) /\ status' \in [Calls -> Statuses]
    BY <1>0, <2>1, WithoutTypes, DisposingTypes
  <2>6. UNCHANGED <<ent, queue, orphans, refCount, condemned, reserved, lifeVars>>
    BY <1>20 DEF Sweep
  <2> QED
    BY <1>0, <2>3, <2>4, <2>5, <2>6 DEF Types, lifeVars
<1>21. CASE UNCHANGED vars
  BY <1>0, <1>21 DEF vars, callVars, tableVars, resVars, slotVars, lifeVars, Types
<1> QED
  BY <1>1, <1>2, <1>3, <1>4, <1>5, <1>6, <1>7, <1>8, <1>9, <1>10, <1>11, <1>12, <1>13,
     <1>14, <1>15, <1>16, <1>17, <1>18, <1>19, <1>20, <1>21
     DEF Next, Acquire, Obtain, Validated, Created, Settled, Released
-----------------------------------------------------------------------------
(* The waiters.                                                            *)

LEMMA ParkedKept ==
  ASSUME ParkedListed, waiters' = waiters,
         \A x \in Calls : pc'[x] = "parked" <=> pc[x] = "parked"
  PROVE  ParkedListed'
BY DEF ParkedListed

LEMMA WakeEffect ==
  ASSUME Types, ParkedListed, NEW f \in [Calls -> PCs], NEW n \in Nat, Wake(f, n),
         \A x \in Calls : f[x] = pc[x] \/ (pc[x] # "parked" /\ f[x] # "parked")
  PROVE  /\ ParkedListed'
         /\ \A x \in Calls : pc'[x] = f[x] \/ (pc[x] = "parked" /\ pc'[x] = "woken")
<1> DEFINE first == FirstWaiters(n)
<1>1. waiters \in Seq(Calls) /\ Distinct(waiters)
      /\ Elements(waiters) = {c \in Calls : pc[c] = "parked"}
  BY DEF Types, ParkedListed
<1>2. \A x \in first : x \in Calls /\ pc[x] = "parked"
  BY <1>1 DEF FirstWaiters, Elements
<1>3. Elements(waiters') \subseteq Elements(waiters) /\ Distinct(waiters')
      /\ \A i \in DOMAIN waiters : /\ i > n => waiters[i] \in Elements(waiters')
                                   /\ i <= n => waiters[i] \notin Elements(waiters')
  BY <1>1, DropFirst DEF Wake
<1>4. Elements(waiters') = Elements(waiters) \ first
  <2>1. \A i \in DOMAIN waiters : i \in Int
    BY <1>1, LenProperties
  <2> QED
    BY <1>3, <2>1 DEF Elements, FirstWaiters
<1>5. \A x \in Calls : pc'[x] = IF x \in first THEN "woken" ELSE f[x]
  BY DEF Wake
<1>6. {c \in Calls : pc'[c] = "parked"} = {c \in Calls : pc[c] = "parked"} \ first
  BY <1>2, <1>5
<1> QED
  BY <1>1, <1>2, <1>3, <1>4, <1>5, <1>6 DEF ParkedListed

LEMMA ParkEffect ==
  ASSUME Types, ParkedListed, NEW c \in Calls, pc[c] # "parked",
         pc' = Move(c, "parked"), waiters' = Append(waiters, c)
  PROVE  ParkedListed'
<1>1. waiters \in Seq(Calls) /\ c \notin Elements(waiters) /\ Distinct(waiters)
  BY DEF Types, ParkedListed
<1>2. Elements(waiters') = Elements(waiters) \cup {c} /\ Distinct(waiters')
  BY <1>1, AppendElements
<1>3. \A x \in Calls : pc'[x] = IF x = c THEN "parked" ELSE pc[x]
  BY DEF Types, Move
<1> QED
  BY <1>2, <1>3 DEF ParkedListed

LEMMA UnparkEffect ==
  ASSUME Types, ParkedListed, NEW c \in Calls, NEW s \in PCs, s # "parked",
         pc' = Move(c, s), waiters' = Without(waiters, {c})
  PROVE  ParkedListed'
<1>1. waiters \in Seq(Calls) /\ Distinct(waiters)
  BY DEF Types, ParkedListed
<1>2. Elements(waiters') = Elements(waiters) \ {c} /\ Distinct(waiters')
  BY <1>1, WithoutProperties
<1>3. \A x \in Calls : pc'[x] = IF x = c THEN s ELSE pc[x]
  BY DEF Types, Move
<1> QED
  BY <1>2, <1>3 DEF ParkedListed

-----------------------------------------------------------------------------
(* What a step does to the mutex of each key: nothing, one call joins a    *)
(* queue, or the call that runs leaves it.                                 *)

Keeps(x) ==
  \/ pc'[x] = pc[x]
  \/ pc[x] \in Running /\ pc'[x] \in Running
  \/ Turn(x) /\ pc'[x] \in Running
  \/ pc[x] \notin InFlight /\ pc'[x] \notin InFlight
Joins(c) ==
  /\ pc[c] \notin InFlight /\ pc'[c] = "queued"
  /\ queue' = [queue EXCEPT ![KeyOf[c]] = Append(@, c)]
  /\ \A x \in Calls \ {c} : pc'[x] = pc[x]
Leaves(c) ==
  /\ pc[c] \in Running /\ pc'[c] \notin InFlight
  /\ passMutex(c)
  /\ \A x \in Calls \ {c} : pc'[x] = pc[x]
MutexStep ==
  \/ UNCHANGED queue /\ \A x \in Calls : Keeps(x)
  \/ \E c \in Calls : Joins(c) \/ Leaves(c)

LEMMA QueueStep == Base /\ Types' /\ MutexStep => QueueOk'
<1> SUFFICES ASSUME Base, Types', MutexStep PROVE QueueOk'
  OBVIOUS
<1>0. /\ queue \in [Keys -> Seq(Calls)] /\ KeyOf \in [Calls -> Keys]
      /\ pc \in [Calls -> PCs] /\ pc' \in [Calls -> PCs]
  BY CallsAssumption DEF Base, Types
<1>1. \A k \in Keys : Distinct(queue[k])
  BY DEF Base, QueueOk
<1>2. \A k \in Keys : \A i \in DOMAIN queue[k] :
        /\ KeyOf[queue[k][i]] = k
        /\ pc[queue[k][i]] \in InFlight
        /\ i # 1 => pc[queue[k][i]] = "queued"
  BY DEF Base, QueueOk
<1>3. \A c \in Calls : pc[c] \in Running => atHead(c)
  BY DEF Base, QueueOk
<1>4. \A k \in Keys : \A i \in DOMAIN queue[k] : queue[k][i] \in Calls /\ i \in Nat \ {0}
  <2> SUFFICES ASSUME NEW k \in Keys, NEW i \in DOMAIN queue[k]
               PROVE  queue[k][i] \in Calls /\ i \in Nat \ {0}
    OBVIOUS
  <2>1. queue[k] \in Seq(Calls)
    BY <1>0
  <2> QED
    BY <2>1, ElementOfSeq, LenProperties
<1>5. CASE UNCHANGED queue /\ \A x \in Calls : Keeps(x)
  <2>1. ASSUME NEW k \in Keys, NEW i \in DOMAIN queue[k]
        PROVE  /\ pc'[queue[k][i]] \in InFlight
               /\ i # 1 => pc'[queue[k][i]] = "queued"
    <3> DEFINE x == queue[k][i]
    <3>1. x \in Calls /\ Keeps(x) /\ pc[x] \in InFlight /\ KeyOf[x] = k
      BY <1>2, <1>4, <1>5
    <3>2. i # 1 => ~atHead(x)
      <4>1. queue[k] \in Seq(Calls) /\ queue[k] # <<>>
        BY <1>0, EmptySeq
      <4>2. Head(queue[k]) = queue[k][1] /\ 1 \in DOMAIN queue[k]
        BY <4>1, TailElements
      <4> QED
        BY <1>1, <3>1, <4>2 DEF atHead, Distinct
    <3> HIDE DEF x
    <3>3. pc'[x] \in InFlight
      BY <3>1 DEF Keeps, InFlight
    <3>4. i # 1 => pc'[x] = "queued"
      BY <1>2, <1>3, <3>1, <3>2 DEF Keeps, Turn, x
    <3> QED
      BY <3>3, <3>4 DEF x
  <2>2. ASSUME NEW c \in Calls, pc'[c] \in Running PROVE atHead(c)'
    <3>1. pc[c] \in Running \/ Turn(c)
      BY <1>5, <2>2 DEF Keeps, Running, InFlight
    <3> QED
      BY <1>3, <1>5, <3>1 DEF Turn, atHead
  <2> QED
    BY <1>1, <1>2, <1>5, <2>1, <2>2 DEF QueueOk
<1>6. ASSUME NEW c \in Calls, Joins(c) PROVE QueueOk'
  <2> DEFINE k == KeyOf[c]  s == queue[k]
  <2>1. k \in Keys /\ s \in Seq(Calls) /\ c \notin Elements(s)
    BY <1>0, <1>2, <1>6 DEF Elements, Joins
  <2>2. /\ queue'[k] = Append(s, c) /\ Distinct(queue'[k])
        /\ \A h \in Keys \ {k} : queue'[h] = queue[h]
    BY <1>0, <1>1, <1>6, <2>1, AppendElements DEF Joins
  <2>3. /\ DOMAIN queue'[k] = DOMAIN s \cup {Len(s) + 1}
        /\ \A i \in DOMAIN s : queue'[k][i] = s[i]
        /\ queue'[k][Len(s) + 1] = c
    BY <2>1, <2>2, AppendProperties, LenProperties
  <2>4. \A h \in Keys : \A i \in DOMAIN queue[h] : queue[h][i] # c
    BY <1>2, <1>6 DEF Joins
  <2>5. \A h \in Keys : \A i \in DOMAIN queue[h] : pc'[queue[h][i]] = pc[queue[h][i]]
    BY <1>4, <1>6, <2>4 DEF Joins
  <2>6. \A h \in Keys \ {k} : \A i \in DOMAIN queue'[h] :
          /\ KeyOf[queue'[h][i]] = h
          /\ pc'[queue'[h][i]] \in InFlight
          /\ i # 1 => pc'[queue'[h][i]] = "queued"
    BY <1>2, <2>2, <2>5
  <2>7. \A i \in DOMAIN queue'[k] :
          /\ KeyOf[queue'[k][i]] = k
          /\ pc'[queue'[k][i]] \in InFlight
          /\ i # 1 => pc'[queue'[k][i]] = "queued"
    BY <1>2, <1>6, <2>1, <2>3, <2>5 DEF Joins, InFlight
  <2>8. ASSUME NEW x \in Calls, pc'[x] \in Running PROVE atHead(x)'
    <3>1. x # c /\ pc[x] = pc'[x] /\ atHead(x)
      BY <1>3, <1>6, <2>8 DEF Joins, Running
    <3>2. KeyOf[x] # k => atHead(x)'
      BY <1>0, <2>2, <3>1 DEF atHead
    <3>3. ASSUME KeyOf[x] = k PROVE atHead(x)'
      <4>1. s # <<>> /\ Head(s) = x
        BY <3>1, <3>3 DEF atHead
      <4>2. 1 \in DOMAIN s /\ Head(s) = s[1]
        BY <2>1, <4>1, TailElements
      <4>3. queue'[k] \in Seq(Calls) /\ queue'[k] # <<>>
        BY <2>1, <2>2, <2>3, AppendElements, EmptySeq
      <4>4. Head(queue'[k]) = queue'[k][1]
        BY <4>3, TailElements
      <4> QED
        BY <2>3, <3>3, <4>1, <4>2, <4>3, <4>4 DEF atHead
    <3> QED
      BY <3>2, <3>3
  <2> QED
    BY <1>1, <2>2, <2>6, <2>7, <2>8 DEF QueueOk
<1>7. ASSUME NEW c \in Calls, Leaves(c) PROVE QueueOk'
  <2> DEFINE k == KeyOf[c]  s == queue[k]
  <2>1. k \in Keys /\ s \in Seq(Calls) /\ s # <<>> /\ Head(s) = c
    BY <1>0, <1>3, <1>7 DEF Leaves, atHead
  <2>2. /\ queue'[k] = Tail(s)
        /\ \A h \in Keys \ {k} : queue'[h] = queue[h]
    BY <1>0, <1>7, <2>1 DEF Leaves, passMutex
  <2>3. /\ \A i \in DOMAIN Tail(s) : i \in Nat \ {0} /\ i + 1 \in DOMAIN s /\ Tail(s)[i] = s[i + 1]
        /\ s[1] = c /\ 1 \in DOMAIN s
    BY <2>1, TailElements
  <2>4. Distinct(Tail(s))
    <3> SUFFICES ASSUME NEW i \in DOMAIN Tail(s), NEW j \in DOMAIN Tail(s),
                        Tail(s)[i] = Tail(s)[j]
                 PROVE  i = j
      BY DEF Distinct
    <3>1. i + 1 = j + 1 /\ i \in Nat /\ j \in Nat
      BY <1>1, <2>1, <2>3 DEF Distinct
    <3> QED
      BY <3>1
  <2>5. \A i \in DOMAIN Tail(s) : i + 1 # 1 /\ Tail(s)[i] # c
    <3> SUFFICES ASSUME NEW i \in DOMAIN Tail(s) PROVE i + 1 # 1 /\ Tail(s)[i] # c
      OBVIOUS
    <3>1. i \in Nat \ {0} /\ i + 1 \in DOMAIN s
      BY <2>3
    <3>2. i + 1 # 1
      BY <3>1
    <3> QED
      BY <1>1, <2>1, <2>3, <3>1, <3>2 DEF Distinct
  <2>6. \A h \in Keys \ {k} : \A i \in DOMAIN queue'[h] :
          /\ KeyOf[queue'[h][i]] = h
          /\ pc'[queue'[h][i]] \in InFlight
          /\ i # 1 => pc'[queue'[h][i]] = "queued"
    BY <1>2, <1>4, <1>7, <2>2 DEF Leaves
  <2>7. \A i \in DOMAIN queue'[k] :
          /\ KeyOf[queue'[k][i]] = k
          /\ pc'[queue'[k][i]] \in InFlight
          /\ i # 1 => pc'[queue'[k][i]] = "queued"
    <3> SUFFICES ASSUME NEW i \in DOMAIN Tail(s)
                 PROVE  /\ KeyOf[Tail(s)[i]] = k
                        /\ pc'[Tail(s)[i]] = "queued"
      BY <2>2 DEF InFlight
    <3>1. i + 1 \in DOMAIN s /\ Tail(s)[i] = s[i + 1] /\ i + 1 # 1 /\ Tail(s)[i] # c
      BY <2>3, <2>5
    <3>2. s[i + 1] \in Calls /\ KeyOf[s[i + 1]] = k /\ pc[s[i + 1]] = "queued"
      BY <1>2, <1>4, <2>1, <3>1
    <3> QED
      BY <1>7, <3>1, <3>2 DEF Leaves
  <2>8. ASSUME NEW x \in Calls, pc'[x] \in Running PROVE atHead(x)'
    <3>1. x # c /\ pc[x] = pc'[x] /\ atHead(x)
      BY <1>3, <1>7, <2>8 DEF Leaves, InFlight
    <3>2. KeyOf[x] # k
      BY <2>1, <3>1 DEF atHead
    <3> QED
      BY <1>0, <2>2, <3>1, <3>2 DEF atHead
  <2> QED
    BY <1>1, <2>1, <2>2, <2>4, <2>6, <2>7, <2>8 DEF QueueOk
<1> QED
  BY <1>5, <1>6, <1>7 DEF MutexStep

-----------------------------------------------------------------------------
(* What a step does to the reservations of a bounded pool: it keeps them   *)
(* in step with the factory calls under way.                               *)

Balanced ==
  \/ reserved' = reserved /\ \A x \in Calls : pc'[x] = "creating" <=> pc[x] = "creating"
  \/ \E c \in Calls :
       /\ pc[c] # "creating" /\ reserved' = reserved + 1
       /\ \A x \in Calls : pc'[x] = "creating" <=> pc[x] = "creating" \/ x = c
  \/ \E c \in Calls :
       /\ pc[c] = "creating" /\ reserved' = reserved - 1
       /\ \A x \in Calls : pc'[x] = "creating" <=> pc[x] = "creating" /\ x # c

LEMMA ReservedStep ==
  ASSUME Types, ReservedExact, Balanced
  PROVE  ReservedExact'
<1> DEFINE C == {c \in Calls : pc[c] = "creating"}
           D == {c \in Calls : pc'[c] = "creating"}
<1>1. IsFiniteSet(C) /\ reserved = Cardinality(C) /\ Cardinality(C) \in Nat
  <2>1. IsFiniteSet(C)
    BY CallsAssumption, FS_Subset
  <2> QED
    BY <2>1, FS_CardinalityType DEF ReservedExact
<1> SUFFICES reserved' = Cardinality(D)
  BY DEF ReservedExact
<1>2. CASE reserved' = reserved /\ \A x \in Calls : pc'[x] = "creating" <=> pc[x] = "creating"
  <2>1. D = C
    BY <1>2
  <2> QED
    BY <1>1, <1>2, <2>1
<1>3. ASSUME NEW c \in Calls, pc[c] # "creating", reserved' = reserved + 1,
             \A x \in Calls : pc'[x] = "creating" <=> pc[x] = "creating" \/ x = c
      PROVE  reserved' = Cardinality(D)
  <2>1. D = C \cup {c} /\ c \notin C
    BY <1>3
  <2> HIDE DEF C, D
  <2> QED
    BY <1>1, <1>3, <2>1, FS_AddElement
<1>4. ASSUME NEW c \in Calls, pc[c] = "creating", reserved' = reserved - 1,
             \A x \in Calls : pc'[x] = "creating" <=> pc[x] = "creating" /\ x # c
      PROVE  reserved' = Cardinality(D)
  <2>1. D = C \ {c} /\ c \in C
    BY <1>4
  <2> HIDE DEF C, D
  <2> QED
    BY <1>1, <1>4, <2>1, FS_RemoveElement
<1> QED
  BY <1>2, <1>3, <1>4 DEF Balanced

-----------------------------------------------------------------------------
(* The effects of the parts that several handlers share.                   *)

LEMMA SlotEffect ==
  ASSUME Types, ParkedListed, NEW c \in Calls, pc[c] \notin {"parked", "creating"},
         acquireSlot(c)
  PROVE  /\ \A x \in Calls \ {c} : pc'[x] = pc[x]
         /\ pc'[c] \in {"creating", "parked", "failed"}
         /\ ParkedListed'
         /\ UNCHANGED queue
         /\ Max > 0 => Balanced
<1>0. \A s : Move(c, s)[c] = s /\ \A x \in Calls \ {c} : Move(c, s)[x] = pc[x]
  BY DEF Types, Move
<1>1. UNCHANGED queue
  BY DEF acquireSlot
<1>2. CASE pc' = Move(c, "creating") /\ UNCHANGED waiters
           /\ (Max > 0 => reserved' = reserved + 1)
  BY <1>0, <1>1, <1>2, ParkedKept DEF Balanced
<1>3. CASE pc' = Move(c, "failed") /\ UNCHANGED <<waiters, reserved>>
  BY <1>0, <1>1, <1>3, ParkedKept DEF Balanced
<1>4. CASE pc' = Move(c, "parked") /\ waiters' = Append(waiters, c) /\ UNCHANGED reserved
  BY <1>0, <1>1, <1>4, ParkEffect DEF Balanced
<1>5. CASE Max <= 0
  <2>1. Max > 0 => FALSE
    BY <1>5, OptionsAssumption
  <2> QED
    BY <1>2, <1>5, <2>1 DEF acquireSlot
<1>6. CASE Max > 0
  <2>1. Bounded(c)
    BY <1>6, OptionsAssumption DEF acquireSlot
  <2> QED
    BY <1>2, <1>3, <1>4, <2>1 DEF Bounded, Reserve, EvictFor, ParkOrReject
<1> QED
  BY <1>5, <1>6, OptionsAssumption

LEMMA MissingEffect ==
  ASSUME Types, ParkedListed, NEW c \in Calls, pc[c] \notin {"parked", "creating"},
         Missing(c)
  PROVE  /\ \A x \in Calls \ {c} : pc'[x] = pc[x] /\ ent'[x] = ent[x]
         /\ pc'[c] \in {"got", "creating", "parked", "failed"}
         /\ pc'[c] = "got" => ent'[c] \in Calls
         /\ ParkedListed'
         /\ UNCHANGED queue
         /\ Max > 0 => Balanced
<1>0. \A s : Move(c, s)[c] = s /\ \A x \in Calls \ {c} : Move(c, s)[x] = pc[x]
  BY DEF Types, Move
<1>1. CASE Resurrect(c)
  <2>1. ent'[c] \in Calls /\ \A x \in Calls \ {c} : ent'[x] = ent[x]
    BY <1>1, CallTypes DEF Resurrect, isUsable, Entry, Types
  <2>2. UNCHANGED <<queue, waiters, reserved>> /\ pc' = Move(c, "got")
    BY <1>1 DEF Resurrect, slotVars
  <2> QED
    BY <1>0, <2>1, <2>2, ParkedKept DEF Balanced
<1>2. CASE Refuse(c)
  <2>1. \A x \in Calls \ {c} : ent'[x] = ent[x]
    BY <1>2 DEF Refuse, Types
  <2>2. UNCHANGED <<queue, waiters, reserved>> /\ pc' = Move(c, "failed")
    BY <1>2 DEF Refuse, slotVars
  <2> QED
    BY <1>0, <2>1, <2>2, ParkedKept DEF Balanced
<1>3. CASE GoForSlot(c)
  <2>1. acquireSlot(c) /\ \A x \in Calls \ {c} : ent'[x] = ent[x]
    BY <1>3 DEF GoForSlot, Types
  <2> QED
    BY <2>1, SlotEffect
<1> QED
  BY <1>1, <1>2, <1>3 DEF Missing

LEMMA ReleaseEffect ==
  ASSUME Types, ParkedListed, NEW c \in Calls, pc[c] = "holding", NEW e \in Calls,
         releaseEntry(e, Move(c, "done"))
  PROVE  /\ pc'[c] = "done"
         /\ \A x \in Calls \ {c} : pc'[x] = pc[x] \/ (pc[x] = "parked" /\ pc'[x] = "woken")
         /\ ParkedListed'
<1>0. /\ Move(c, "done")[c] = "done"
      /\ \A x \in Calls \ {c} : Move(c, "done")[x] = pc[x]
  BY DEF Types, Move
<1>1. CASE pc' = Move(c, "done") /\ UNCHANGED waiters
  BY <1>0, <1>1, ParkedKept
<1>2. CASE Wake(Move(c, "done"), 1)
  <2>1. Move(c, "done") \in [Calls -> PCs] /\ 1 \in Nat
    BY MoveTypes
  <2>2. /\ ParkedListed'
        /\ \A x \in Calls : \/ pc'[x] = Move(c, "done")[x]
                            \/ pc[x] = "parked" /\ pc'[x] = "woken"
    BY <1>0, <1>2, <2>1, WakeEffect
  <2> QED
    BY <1>0, <2>2
<1> QED
  BY <1>1, <1>2 DEF releaseEntry, LastRelease, BackToIdle

LEMMA ReservationEffect ==
  ASSUME Types, ParkedListed, NEW c \in Calls, pc[c] = "creating", NEW s \in PCs,
         s \notin {"parked", "creating"}, releaseReservation(Move(c, s))
  PROVE  /\ pc'[c] = s
         /\ \A x \in Calls \ {c} : pc'[x] = pc[x] \/ (pc[x] = "parked" /\ pc'[x] = "woken")
         /\ ParkedListed'
         /\ Balanced
<1>0. Move(c, s)[c] = s /\ \A x \in Calls \ {c} : Move(c, s)[x] = pc[x]
  BY DEF Types, Move
<1>1. Wake(Move(c, s), 1) /\ Move(c, s) \in [Calls -> PCs] /\ 1 \in Nat
      /\ reserved' = reserved - 1
  BY DEF releaseReservation, Types, Move
<1>2. /\ ParkedListed'
      /\ \A x \in Calls : pc'[x] = Move(c, s)[x] \/ (pc[x] = "parked" /\ pc'[x] = "woken")
  BY <1>0, <1>1, WakeEffect
<1> QED
  BY <1>0, <1>1, <1>2 DEF Balanced

-----------------------------------------------------------------------------
(* The effect of every step.                                               *)

Effect == ClaimsReal' /\ ParkedListed' /\ MutexStep /\ (Max > 0 => Balanced)

(* A step of call c alone that leaves the queues and the slots as they are. *)
LEMMA OwnStep ==
  ASSUME Base, NEW c \in Calls, UNCHANGED <<queue, waiters, reserved>>,
         pc[c] \notin {"parked", "creating"}, pc'[c] \notin {"parked", "creating"},
         \A x \in Calls \ {c} : pc'[x] = pc[x] /\ ent'[x] = ent[x],
         pc'[c] \in {"validating", "replacing", "got", "holding"} => ent'[c] \in Calls,
         Keeps(c)
  PROVE  Effect
<1>1. ParkedListed'
  BY ParkedKept DEF Base
<1>2. MutexStep /\ Balanced
  BY DEF MutexStep, Keeps, Balanced
<1>3. ClaimsReal'
  BY DEF Base, ClaimsReal
<1> QED
  BY <1>1, <1>2, <1>3 DEF Effect

(* A step in which call c leaves the mutex. *)
LEMMA LeavingStep ==
  ASSUME Base, NEW c \in Calls, UNCHANGED <<waiters, reserved>>, passMutex(c),
         pc[c] \in {"got", "failed"}, pc'[c] \in {"holding", "rejected"},
         \A x \in Calls \ {c} : pc'[x] = pc[x] /\ ent'[x] = ent[x],
         pc'[c] = "holding" => ent'[c] \in Calls
  PROVE  Effect
<1>1. ParkedListed'
  BY ParkedKept DEF Base
<1>2. Leaves(c) /\ Balanced
  BY DEF Leaves, InFlight, Running, Balanced
<1>3. ClaimsReal'
  BY DEF Base, ClaimsReal
<1> QED
  BY <1>1, <1>2, <1>3 DEF Effect, MutexStep

(* A step of a call c in its critical section that may go for a slot. *)
LEMMA SlotStep ==
  ASSUME Base, NEW c \in Calls, UNCHANGED queue, pc[c] \in Running \/ Turn(c),
         \A x \in Calls \ {c} : pc'[x] = pc[x] /\ ent'[x] = ent[x],
         pc'[c] \in {"got", "creating", "parked", "failed"},
         pc'[c] = "got" => ent'[c] \in Calls,
         ParkedListed', Max > 0 => Balanced
  PROVE  Effect
<1>1. MutexStep
  BY DEF MutexStep, Keeps, Running
<1>2. ClaimsReal'
  BY DEF Base, ClaimsReal
<1> QED
  BY <1>1, <1>2 DEF Effect

(* A step of call c that wakes parked calls. *)
LEMMA WakingStep ==
  ASSUME Base, NEW c \in Calls, UNCHANGED queue, Keeps(c),
         \A x \in Calls \ {c} : /\ pc'[x] = pc[x] \/ (pc[x] = "parked" /\ pc'[x] \in {"woken", "failed"})
                                /\ ent'[x] = ent[x],
         pc'[c] \in {"validating", "replacing", "got", "holding"} => ent'[c] \in Calls,
         ParkedListed', Max > 0 => Balanced
  PROVE  Effect
<1>1. MutexStep
  BY DEF MutexStep, Keeps, Running
<1>2. ClaimsReal'
  BY DEF Base, ClaimsReal
<1> QED
  BY <1>1, <1>2 DEF Effect

LEMMA StepEffect == Base /\ [Next]_vars => Effect
<1> SUFFICES ASSUME Base, [Next]_vars PROVE Effect
  OBVIOUS
<1>0. Types /\ ParkedListed /\ ClaimsReal
  BY DEF Base
<1>m. \A c \in Calls : \A s : /\ Move(c, s)[c] = s
                              /\ \A x \in Calls \ {c} : Move(c, s)[x] = pc[x]
  BY <1>0 DEF Types, Move
<1>1. ASSUME NEW c \in Calls, AcquireFast(c) PROVE Effect
  <2>1. entries[KeyOf[c]] \in Calls
    BY <1>0, <1>1, CallTypes DEF AcquireFast, Shareable, isUsable, Entry
  <2>2. ent'[c] \in Calls /\ \A x \in Calls \ {c} : ent'[x] = ent[x]
    BY <1>0, <1>1, <2>1 DEF AcquireFast, checkout, Types
  <2>3. pc[c] = "new" /\ pc' = Move(c, "holding") /\ UNCHANGED <<queue, waiters, reserved>>
    BY <1>1 DEF AcquireFast, checkout, slotVars
  <2>4. Keeps(c)
    BY <1>m, <2>3 DEF Keeps, InFlight, Running
  <2> QED
    BY <1>m, <2>2, <2>3, <2>4, OwnStep
<1>2. ASSUME NEW c \in Calls, AcquireQueued(c) PROVE Effect
  <2>1. pc[c] = "new" /\ pc' = Move(c, "queued") /\ UNCHANGED <<ent, waiters, reserved>>
        /\ queue' = [queue EXCEPT ![KeyOf[c]] = Append(@, c)]
    BY <1>2 DEF AcquireQueued, slotVars
  <2>2. Joins(c) /\ Balanced
    BY <1>m, <2>1 DEF Joins, InFlight, Running, Balanced
  <2>3. ParkedListed' /\ ClaimsReal'
    BY <1>0, <1>m, <2>1, ParkedKept DEF ClaimsReal
  <2> QED
    BY <2>2, <2>3 DEF Effect, MutexStep
<1>3. ASSUME NEW c \in Calls, ObtainLive(c) PROVE Effect
  <2>1. ent'[c] \in Calls /\ \A x \in Calls \ {c} : ent'[x] = ent[x]
    BY <1>0, <1>3, CallTypes DEF ObtainLive, UseLive, isUsable, Types, Entry
  <2>2. /\ Turn(c) /\ UNCHANGED <<queue, waiters, reserved>>
        /\ pc' = Move(c, "validating") \/ pc' = Move(c, "got")
    BY <1>3 DEF ObtainLive, UseLive, slotVars
  <2>3. Keeps(c) /\ pc[c] = "queued"
    BY <1>m, <2>2 DEF Keeps, Running, Turn
  <2> QED
    BY <1>m, <2>1, <2>2, <2>3, OwnStep
<1>4. ASSUME NEW c \in Calls, ObtainMissing(c) PROVE Effect
  <2>1. Turn(c) /\ pc[c] = "queued" /\ Missing(c)
    BY <1>4 DEF ObtainMissing, Turn
  <2> QED
    BY <1>0, <2>1, MissingEffect, SlotStep
<1>5. ASSUME NEW c \in Calls, ValidateOk(c) \/ ValidateThrows(c) \/ DiscardDone(c) PROVE Effect
  <2>1. /\ pc[c] \in {"validating", "discarding"}
        /\ UNCHANGED <<ent, queue, waiters, reserved>>
        /\ \/ pc' = Move(c, "got") /\ pc[c] = "validating"
           \/ pc' = Move(c, "failed")
    BY <1>5 DEF ValidateOk, ValidateThrows, DiscardDone, slotVars
  <2>2. Keeps(c) /\ (pc[c] = "validating" => ent[c] \in Calls)
    BY <1>0, <1>m, <2>1 DEF Keeps, Running, ClaimsReal
  <2> QED
    BY <1>m, <2>1, <2>2, OwnStep
<1>6. ASSUME NEW c \in Calls, ValidateStale(c) PROVE Effect
  <2>1. /\ pc[c] = "validating" /\ pc' = Move(c, "replacing")
        /\ UNCHANGED <<ent, queue, waiters, reserved>>
    BY <1>6 DEF ValidateStale, slotVars
  <2>2. Keeps(c) /\ ent[c] \in Calls
    BY <1>0, <1>m, <2>1 DEF Keeps, Running, ClaimsReal
  <2> QED
    BY <1>m, <2>1, <2>2, OwnStep
<1>7. ASSUME NEW c \in Calls, Replace(c) PROVE Effect
  <2>1. pc[c] = "replacing" /\ pc[c] \in Running /\ Missing(c)
    BY <1>7 DEF Replace, Running
  <2> QED
    BY <1>0, <2>1, MissingEffect, SlotStep
<1>8. ASSUME NEW c \in Calls, Retry(c) PROVE Effect
  <2>1. pc[c] = "woken" /\ pc[c] \in Running /\ acquireSlot(c) /\ UNCHANGED ent
    BY <1>8 DEF Retry, Running
  <2> QED
    BY <1>0, <2>1, SlotEffect, SlotStep
<1>9. ASSUME NEW c \in Calls, Timeout(c) PROVE Effect
  <2>1. /\ pc[c] = "parked" /\ pc' = Move(c, "failed") /\ "failed" \in PCs
        /\ waiters' = Without(waiters, {c}) /\ UNCHANGED <<ent, queue, reserved>>
    BY <1>9 DEF Timeout, PCs, InFlight, Running
  <2>2. ParkedListed' /\ Balanced
    BY <1>0, <1>m, <2>1, UnparkEffect DEF Balanced
  <2> QED
    BY <1>m, <2>1, <2>2, SlotStep DEF Running
<1>10. ASSUME NEW c \in Calls, FactoryResolves(c) PROVE Effect
  <2>0. pc[c] = "creating" /\ UNCHANGED queue
    BY <1>10 DEF FactoryResolves
  <2>1. CASE insert(c)
    <3>1. /\ pc' = Move(c, "got") /\ reserved' = reserved - 1 /\ UNCHANGED waiters
          /\ ent'[c] = c /\ \A x \in Calls \ {c} : ent'[x] = ent[x]
      BY <1>0, <2>1 DEF insert, Types
    <3>2. ParkedListed' /\ Balanced
      BY <1>0, <1>m, <2>0, <3>1, ParkedKept DEF Balanced
    <3> QED
      BY <1>m, <2>0, <3>1, <3>2, SlotStep DEF Running
  <2>2. CASE discard(c)
    <3>1. releaseReservation(Move(c, "discarding")) /\ UNCHANGED ent
          /\ "discarding" \in PCs \ {"parked", "creating"}
      BY <2>2 DEF discard, PCs, InFlight, Running
    <3>2. /\ pc'[c] = "discarding" /\ ParkedListed' /\ Balanced
          /\ \A x \in Calls \ {c} : pc'[x] = pc[x] \/ (pc[x] = "parked" /\ pc'[x] = "woken")
      BY <1>0, <2>0, <3>1, ReservationEffect
    <3>3. Keeps(c)
      BY <2>0, <3>2 DEF Keeps, Running
    <3> QED
      BY <2>0, <3>1, <3>2, <3>3, WakingStep
  <2> QED
    BY <1>10, <2>1, <2>2 DEF FactoryResolves
<1>11. ASSUME NEW c \in Calls, FactoryRejects(c) PROVE Effect
  <2>1. /\ pc[c] = "creating" /\ UNCHANGED <<queue, ent>>
        /\ releaseReservation(Move(c, "failed"))
        /\ "failed" \in PCs \ {"parked", "creating"}
    BY <1>11 DEF FactoryRejects, PCs, InFlight, Running
  <2>2. /\ pc'[c] = "failed" /\ ParkedListed' /\ Balanced
        /\ \A x \in Calls \ {c} : pc'[x] = pc[x] \/ (pc[x] = "parked" /\ pc'[x] = "woken")
    BY <1>0, <2>1, ReservationEffect
  <2>3. Keeps(c)
    BY <2>1, <2>2 DEF Keeps, Running
  <2> QED
    BY <2>1, <2>2, <2>3, WakingStep
<1>12. ASSUME NEW c \in Calls, Settle(c) PROVE Effect
  <2>1. ent[c] \in Calls
    BY <1>0, <1>12 DEF Settle, ClaimsReal
  <2>2. /\ pc[c] = "got" /\ pc' = Move(c, "holding") /\ passMutex(c)
        /\ UNCHANGED <<waiters, reserved>>
        /\ \A x \in Calls : ent'[x] = ent[x]
    BY <1>0, <1>12 DEF Settle, checkout, slotVars, Types
  <2> QED
    BY <1>m, <2>1, <2>2, LeavingStep
<1>13. ASSUME NEW c \in Calls, SettleFailed(c) PROVE Effect
  <2>1. /\ pc[c] = "failed" /\ pc' = Move(c, "rejected") /\ passMutex(c)
        /\ UNCHANGED <<waiters, reserved>>
        /\ \A x \in Calls \ {c} : ent'[x] = ent[x]
    BY <1>0, <1>13 DEF SettleFailed, slotVars, Types
  <2> QED
    BY <1>m, <2>1, LeavingStep
<1>14. ASSUME NEW c \in Calls, Released(c) PROVE Effect
  <2>1. /\ pc[c] = "holding" /\ UNCHANGED <<queue, reserved>>
        /\ \A x \in Calls \ {c} : ent'[x] = ent[x]
    BY <1>0, <1>14 DEF Released, Release, ReleaseKey, Types
  <2>2. CASE pc' = Move(c, "done") /\ UNCHANGED waiters
    <3>1. Keeps(c)
      BY <1>m, <2>1, <2>2 DEF Keeps, InFlight, Running
    <3> QED
      BY <1>m, <2>1, <2>2, <3>1, OwnStep
  <2>3. ASSUME NEW e \in Calls, releaseEntry(e, Move(c, "done")) PROVE Effect
    <3>1. /\ pc'[c] = "done" /\ ParkedListed'
          /\ \A x \in Calls \ {c} : pc'[x] = pc[x] \/ (pc[x] = "parked" /\ pc'[x] = "woken")
      BY <1>0, <2>1, <2>3, ReleaseEffect
    <3>2. Keeps(c) /\ Balanced
      BY <2>1, <3>1 DEF Keeps, InFlight, Running, Balanced
    <3> QED
      BY <2>1, <3>1, <3>2, WakingStep
  <2>4. CASE Release(c)
    <3>1. ent[c] \in Calls
      BY <1>0, <2>1 DEF ClaimsReal
    <3> QED
      BY <2>3, <2>4, <3>1 DEF Release
  <2>5. CASE ReleaseKey(c)
    <3> DEFINE k == KeyOf[c]
               e == IF entries[k] # NoEntry THEN entries[k] ELSE orphans[k]
    <3>1. e \in Entry
      BY <1>0, CallTypes
    <3>2. CASE e = NoEntry
      BY <2>2, <2>5, <3>2 DEF ReleaseKey
    <3>3. CASE e \in Calls
      <4>1. releaseEntry(e, Move(c, "done"))
        BY <2>5, <3>3, CallsAssumption DEF ReleaseKey
      <4> QED
        BY <2>3, <3>3, <4>1
    <3> QED
      BY <3>1, <3>2, <3>3 DEF Entry
  <2> QED
    BY <1>14, <2>4, <2>5 DEF Released
<1>15. CASE UNCHANGED <<pc, ent, queue, waiters, reserved>>
  BY <1>0, <1>15, ParkedKept DEF Effect, MutexStep, Keeps, Balanced, ClaimsReal
<1>16. ASSUME NEW d \in Drains, Drain(d) PROVE Effect
  <2>1. /\ UNCHANGED <<ent, queue, reserved>> /\ waiters' = <<>>
        /\ \A x \in Calls : pc'[x] = IF x \in Elements(waiters) THEN "failed" ELSE pc[x]
    BY <1>16 DEF Drain, setClosed
  <2>2. \A x \in Calls : x \in Elements(waiters) <=> pc[x] = "parked"
    BY <1>0 DEF ParkedListed
  <2>3. ParkedListed'
    <3>1. Elements(waiters') = {} /\ Distinct(waiters')
      BY <2>1, EmptySeq DEF Elements, Distinct
    <3>2. \A x \in Calls : pc'[x] # "parked"
      BY <2>1, <2>2
    <3> QED
      BY <3>1, <3>2 DEF ParkedListed
  <2>4. MutexStep /\ Balanced /\ ClaimsReal'
    BY <1>0, <2>1, <2>2 DEF MutexStep, Keeps, Running, Balanced, ClaimsReal
  <2> QED
    BY <2>3, <2>4 DEF Effect
<1>17. ASSUME NEW n \in DOMAIN idle, Sweep(n) PROVE Effect
  <2>1. PICK victims : /\ victims \subseteq Elements(idle)
                       /\ Wake(pc, Cardinality(victims))
    BY <1>17 DEF Sweep, Evictable, Elements
  <2>2. Cardinality(victims) \in Nat
    <3>1. victims \subseteq Calls
      BY <1>0, <2>1, ElementOfSeq, LenProperties DEF Types, Elements
    <3> QED
      BY <3>1, CallsAssumption, FS_Subset, FS_CardinalityType
  <2>3. pc \in [Calls -> PCs]
    BY <1>0 DEF Types
  <2>4. /\ ParkedListed'
        /\ \A x \in Calls : pc'[x] = pc[x] \/ (pc[x] = "parked" /\ pc'[x] = "woken")
    BY <1>0, <2>1, <2>2, <2>3, WakeEffect
  <2>5. UNCHANGED <<queue, ent, reserved>>
    BY <1>17 DEF Sweep
  <2>6. MutexStep /\ Balanced /\ ClaimsReal'
    BY <1>0, <2>4, <2>5 DEF MutexStep, Keeps, Running, Balanced, ClaimsReal
  <2> QED
    BY <2>4, <2>6 DEF Effect
<1>18. ASSUME NEW e \in Calls, DisposeDone(e) PROVE Effect
  BY <1>15, <1>18 DEF DisposeDone, callVars, slotVars
<1>19. ASSUME NEW d \in Drains, DrainDone(d) PROVE Effect
  BY <1>15, <1>19 DEF DrainDone, callVars, slotVars
<1>20. CASE Start \/ UNCHANGED vars
  BY <1>15, <1>20 DEF Start, vars, callVars, slotVars
<1> QED
  BY <1>1, <1>2, <1>3, <1>4, <1>5, <1>6, <1>7, <1>8, <1>9, <1>10, <1>11, <1>12, <1>13,
     <1>14, <1>16, <1>17, <1>18, <1>19, <1>20
     DEF Next, Acquire, Obtain, Validated, Created, Settled

-----------------------------------------------------------------------------
(* The theorems.                                                           *)

LEMMA BaseInit == Init => Base /\ ReservedExact
<1> SUFFICES ASSUME Init PROVE Base /\ ReservedExact
  OBVIOUS
<1>1. Types
  <2>1. /\ pc \in [Calls -> PCs] /\ ent \in [Calls -> Entry]
        /\ entries \in [Keys -> Entry] /\ orphans \in [Keys -> Entry]
        /\ status \in [Calls -> Statuses]
    BY DEF Init, PCs, Entry, Statuses
  <2>2. /\ idle \in Seq(Calls) /\ waiters \in Seq(Calls)
        /\ queue \in [Keys -> Seq(Calls)]
    BY EmptySeq DEF Init
  <2>3. condemned \subseteq Calls /\ reserved \in Int
    BY DEF Init
  <2>4. refCount \in [Calls -> Nat]
    BY DEF Init
  <2>5. draining \in [Drains -> {"idle", "draining", "done"}]
    BY DEF Init
  <2>6. awaited \in [Drains -> SUBSET Calls]
    BY DEF Init
  <2>7. closed \in BOOLEAN /\ started \in BOOLEAN
    <3>1. closed = FALSE /\ started = FALSE
      BY DEF Init
    <3> QED
      BY <3>1, Zenon
  <2> QED
    BY <2>1, <2>2, <2>3, <2>4, <2>5, <2>6, <2>7 DEF Types
<1>2. ClaimsReal /\ QueueOk
  BY EmptySeq DEF Init, ClaimsReal, QueueOk, Distinct, Running
<1>3. ParkedListed
  BY EmptySeq DEF Init, ParkedListed, Elements, Distinct
<1>4. ReservedExact
  <2>1. {c \in Calls : pc[c] = "creating"} = {}
    BY DEF Init
  <2> QED
    BY <2>1, FS_EmptySet DEF Init, ReservedExact
<1> QED
  BY <1>1, <1>2, <1>3, <1>4 DEF Base

LEMMA BaseStep == Base /\ [Next]_vars => Base'
BY TypesStep, StepEffect, QueueStep DEF Base, Effect

(* Whatever calls, releases, drains and timers do and in whatever order,   *)
(* capacityWaiters is the list of the parked calls, each in it once.       *)
THEOREM WaitersAreParked == Spec => []ParkedListed
<1>1. Base => ParkedListed
  BY DEF Base
<1> QED
  BY <1>1, BaseInit, BaseStep, PTL DEF Spec

(* In a bounded pool `reserved` is the number of factory calls under way:  *)
(* every path out of one gives its reservation back, once.                 *)
THEOREM ReservationsCounted ==
  ASSUME Max > 0
  PROVE  Spec => []ReservedExact
<1>1. Base /\ ReservedExact /\ [Next]_vars => Base' /\ ReservedExact'
  BY BaseStep, StepEffect, ReservedStep DEF Base, Effect
<1> QED
  BY <1>1, BaseInit, PTL DEF Spec

(* Every variable stays within its type, and a bounded pool never gives    *)
(* back more slots than it reserved.                                       *)
THEOREM TypeCorrect == Spec => []TypeOK
<1>1. Base => Types
  BY DEF Base
<1>2. CASE Max > 0
  <2>1. Types /\ ReservedExact => TypeOK
    <3>1. IsFiniteSet({c \in Calls : pc[c] = "creating"})
      BY CallsAssumption, FS_Subset
    <3> QED
      BY <3>1, FS_CardinalityType DEF ReservedExact, TypeOK
  <2>2. Spec => []ReservedExact
    BY <1>2, ReservationsCounted
  <2> QED
    BY <1>1, <2>1, <2>2, BaseInit, BaseStep, PTL DEF Spec
<1>3. CASE ~(Max > 0)
  <2>1. Types => TypeOK
    BY <1>3 DEF TypeOK
  <2> QED
    BY <1>1, <2>1, BaseInit, BaseStep, PTL DEF Spec
<1> QED
  BY <1>2, <1>3

(* runExclusive() runs one call of a key at a time: between the decision   *)
(* to create, validate or replace a resource and its end, no other call of *)
(* the key makes one.                                                      *)
MutualExclusion ==
  \A c, d \in Calls : KeyOf[c] = KeyOf[d] /\ pc[c] \in Running /\ pc[d] \in Running => c = d

THEOREM OneCallPerKey == Spec => []MutualExclusion
<1>1. Base => MutualExclusion
  BY DEF Base, QueueOk, MutualExclusion, atHead
<1> QED
  BY <1>1, BaseInit, BaseStep, PTL DEF Spec

-----------------------------------------------------------------------------
(* The resources: the invariant, reopenings included.                      *)

Vacant(k) == entries[k] = NoEntry /\ orphans[k] = NoEntry

(* The maps have nothing for c's key but c's resource.                     *)
OnlyMapped(c) ==
  /\ entries[KeyOf[c]] \in {ent[c], NoEntry}
  /\ orphans[KeyOf[c]] \in {ent[c], NoEntry}

(* What a call knows of the resource it looks at, and of the one it makes. *)
ClaimsOf(c) ==
  /\ pc[c] \in {"validating", "replacing", "got", "holding"}
       => KeyOf[ent[c]] = KeyOf[c] /\ status[ent[c]] # "absent"
  /\ status[c] # "absent" => pc[c] \in {"got", "holding", "done"}
  /\ status[c] = "absent" => refCount[c] = 0 /\ c \notin condemned
  /\ pc[c] = "validating" /\ status[ent[c]] = "usable" => refCount[ent[c]] = 0
  /\ pc[c] \in {"validating", "got"} => OnlyMapped(c)
  /\ pc[c] \in {"replacing", "parked", "woken", "creating"} => Vacant(KeyOf[c])
Claims == \A c \in Calls : ClaimsOf(c)

(* The maps hold usable resources, of their keys and in one map only.      *)
Maps ==
  \A k \in Keys :
    /\ entries[k] # NoEntry => KeyOf[entries[k]] = k /\ status[entries[k]] = "usable"
    /\ orphans[k] # NoEntry => KeyOf[orphans[k]] = k /\ status[orphans[k]] = "usable"
    /\ orphans[k] \in condemned \union {NoEntry}
    /\ entries[k] = NoEntry \/ orphans[k] = NoEntry

Listed ==
  \A e \in Elements(idle) :
    /\ e \notin condemned
    /\ status[e] # "absent"
    /\ status[e] = "usable" => refCount[e] = 0

Tables == Claims /\ Maps /\ Listed

-----------------------------------------------------------------------------
LEMMA PointTypes ==
  ASSUME Types
  PROVE  /\ KeyOf \in [Calls -> Keys] /\ NoEntry \notin Calls
         /\ pc \in [Calls -> PCs] /\ ent \in [Calls -> Entry]
         /\ entries \in [Keys -> Entry] /\ orphans \in [Keys -> Entry]
         /\ status \in [Calls -> Statuses] /\ refCount \in [Calls -> Nat]
         /\ idle \in Seq(Calls) /\ Elements(idle) \subseteq Calls
<1>1. idle \in Seq(Calls)
  BY DEF Types
<1>2. Elements(idle) \subseteq Calls
  BY <1>1, ElementOfSeq, LenProperties DEF Elements
<1> QED
  BY <1>1, <1>2, CallsAssumption DEF Types

(* The call whose turn it is, or which runs, is the only one of its key.   *)
LEMMA Alone ==
  ASSUME Base, NEW c \in Calls, pc[c] \in Running \/ Turn(c),
         NEW x \in Calls, KeyOf[x] = KeyOf[c], pc[x] \in Running
  PROVE  x = c
BY DEF Base, QueueOk, Turn, atHead

LEMMA FastStep ==
  ASSUME Base, Claims, Maps, Listed, NEW c \in Calls, AcquireFast(c)
  PROVE  Claims' /\ Maps' /\ Listed'
<1> DEFINE e == entries[KeyOf[c]]
<1>t. Types
  BY DEF Base
<1>1. e \in Calls /\ KeyOf[e] = KeyOf[c] /\ status[e] = "usable" /\ refCount[e] > 0
  BY <1>t, PointTypes DEF AcquireFast, Shareable, isUsable, Entry, Maps
<1>2. /\ pc[c] = "new" /\ pc' = Move(c, "holding") /\ ent' = [ent EXCEPT ![c] = e]
      /\ refCount' = [refCount EXCEPT ![e] = @ + 1] /\ idle' = idle
      /\ UNCHANGED <<entries, orphans, status, condemned>>
  BY <1>t, <1>1, PointTypes DEF AcquireFast, checkout
<1>3. Maps' /\ Listed'
  BY <1>t, <1>1, <1>2, PointTypes DEF Maps, Listed
<1>4. ASSUME NEW x \in Calls PROVE ClaimsOf(x)'
  BY <1>t, <1>1, <1>2, PointTypes DEF Claims, ClaimsOf, Move, OnlyMapped, Vacant, Statuses
<1> QED
  BY <1>3, <1>4 DEF Claims

LEMMA SettleStep ==
  ASSUME Base, Claims, Maps, Listed, NEW c \in Calls, Settle(c)
  PROVE  Claims' /\ Maps' /\ Listed'
<1> DEFINE e == ent[c]
<1>t. Types /\ pc[c] = "got" /\ pc[c] \in Running
  BY DEF Base, Settle, Running
<1>1. e \in Calls /\ KeyOf[e] = KeyOf[c] /\ status[e] # "absent"
  BY <1>t DEF Base, ClaimsReal, Claims, ClaimsOf
<1>2. /\ pc' = Move(c, "holding") /\ ent' = [ent EXCEPT ![c] = e]
      /\ refCount' = [refCount EXCEPT ![e] = @ + 1]
      /\ UNCHANGED <<entries, orphans, status, condemned>>
  BY <1>t, <1>1, PointTypes DEF Settle, checkout
<1>3. /\ Elements(idle') \subseteq Elements(idle)
      /\ e \in Elements(idle') => refCount[e] # 0
  <2>1. Elements(Without(idle, {e})) = Elements(idle) \ {e}
    BY <1>t, PointTypes, WithoutProperties
  <2> QED
    BY <2>1 DEF Settle, checkout
<1>4. Maps' /\ Listed'
  BY <1>t, <1>1, <1>2, <1>3, PointTypes DEF Maps, Listed
<1>5. ASSUME NEW x \in Calls PROVE ClaimsOf(x)'
  <2>1. pc[x] = "validating" => ent[x] # e
    BY <1>t, <1>1, Alone DEF Claims, ClaimsOf, Running
  <2> QED
    BY <1>t, <1>1, <1>2, <2>1, PointTypes DEF Claims, ClaimsOf, Move, OnlyMapped, Vacant, Statuses
<1> QED
  BY <1>4, <1>5 DEF Claims

(* The calls move on without taking a resource, and resources that are     *)
(* listed as idle (V) leave the pool.                                      *)
Moves(x) ==
  \/ pc'[x] = pc[x] /\ ent'[x] = ent[x]
  \/ /\ pc[x] \notin {"got", "holding", "done"}
     /\ \/ pc'[x] \in {"queued", "failed", "rejected", "discarding"}
        \/ pc'[x] \in {"parked", "woken", "creating"} /\ Vacant(KeyOf[x])
  \/ pc[x] = "validating" /\ pc'[x] = "got" /\ ent'[x] = ent[x]
Discards(V) ==
  /\ V \subseteq Elements(idle)
  /\ entries' = [k \in Keys |-> IF \E v \in V : KeyOf[v] = k THEN NoEntry ELSE entries[k]]
  /\ status' = Disposing(V)
  /\ Elements(idle') = Elements(idle) \ V

LEMMA DiscardStep ==
  ASSUME Types, ClaimsReal, Claims, Maps, Listed, NEW V, Discards(V), \A x \in Calls : Moves(x),
         UNCHANGED <<orphans, refCount, condemned>>
  PROVE  Claims' /\ Maps' /\ Listed'
<1>1. /\ V \subseteq Calls
      /\ \A e \in Calls : status'[e] = IF e \in V /\ status[e] = "usable"
                                      THEN "disposing" ELSE status[e]
      /\ \A k \in Keys : entries'[k] = IF \E v \in V : KeyOf[v] = k
                                       THEN NoEntry ELSE entries[k]
  BY PointTypes DEF Discards, Disposing
<1>2. \A k \in Keys : orphans[k] \notin V
  BY PointTypes DEF Discards, Maps, Listed
<1>3. Maps'
  BY <1>1, <1>2, PointTypes DEF Maps, Entry
<1>4. Listed'
  BY <1>1, PointTypes DEF Listed, Discards
<1>5. ASSUME NEW x \in Calls PROVE ClaimsOf(x)'
  <2>1. ClaimsOf(x) /\ KeyOf[x] \in Keys /\ Moves(x)
    BY PointTypes DEF Claims
  <2>2. Vacant(KeyOf[x]) => Vacant(KeyOf[x])'
    BY <1>1, <2>1 DEF Vacant
  <2>3. OnlyMapped(x) /\ ent'[x] = ent[x] => OnlyMapped(x)'
    BY <1>1, <2>1 DEF OnlyMapped
  <2>4. \A e \in Calls : status'[e] = "absent" <=> status[e] = "absent"
    BY <1>1
  <2>5. pc[x] \in {"validating", "replacing", "got", "holding"} => ent[x] \in Calls
    BY DEF ClaimsReal
  <2> QED
    BY <1>1, <2>1, <2>2, <2>3, <2>4, <2>5 DEF ClaimsOf, Moves
<1> QED
  BY <1>3, <1>4, <1>5 DEF Claims

(* The case of no such resource.                                           *)
LEMMA MovesStep ==
  ASSUME Types, ClaimsReal, Claims, Maps, Listed, \A x \in Calls : Moves(x),
         UNCHANGED <<tableVars, resVars>>
  PROVE  Claims' /\ Maps' /\ Listed'
<1>1. Disposing({}) = status /\ Elements(idle) \ {} = Elements(idle)
  BY PointTypes DEF Disposing
<1>2. entries = [k \in Keys |-> IF \E v \in {} : KeyOf[v] = k THEN NoEntry ELSE entries[k]]
  BY PointTypes
<1>3. Discards({})
  BY <1>1, <1>2 DEF Discards, tableVars, resVars
<1> QED
  BY <1>3, DiscardStep DEF tableVars, resVars

LEMMA SlotMoves ==
  ASSUME Base, Claims, Maps, Listed, NEW c \in Calls, acquireSlot(c),
         pc[c] \in {"queued", "replacing", "woken"}, Vacant(KeyOf[c]),
         \A x \in Calls \ {c} : ent'[x] = ent[x]
  PROVE  Claims' /\ Maps' /\ Listed'
<1>0. UNCHANGED <<orphans, refCount, condemned>> /\ Types /\ ClaimsReal /\ ParkedListed
  BY DEF acquireSlot, Base
<1>1. /\ pc'[c] \in {"creating", "failed", "parked"}
      /\ \A x \in Calls \ {c} : pc'[x] = pc[x]
  BY <1>0, SlotEffect
<1>2. \A x \in Calls : Moves(x)
  BY <1>1 DEF Moves
<1>3. CASE UNCHANGED <<entries, idle, status>>
  BY <1>0, <1>2, <1>3, MovesStep DEF tableVars, resVars
<1>4. CASE EvictFor(c)
  <2>1. PICK i \in Evictable :
          /\ idle' = Without(idle, {idle[i]})
          /\ entries' = [entries EXCEPT ![KeyOf[idle[i]]] = NoEntry]
          /\ status' = Disposing({idle[i]})
    BY <1>4 DEF EvictFor
  <2> DEFINE v == idle[i]
  <2>2. v \in Elements(idle) /\ v \in Calls
    BY <1>0, <2>1, PointTypes DEF Elements, Evictable
  <2>3. entries' = [k \in Keys |-> IF \E w \in {v} : KeyOf[w] = k THEN NoEntry ELSE entries[k]]
    BY <1>0, <2>1, PointTypes
  <2>4. Elements(idle') = Elements(idle) \ {v}
    BY <1>0, <2>1, PointTypes, WithoutProperties
  <2>5. Discards({v})
    BY <2>1, <2>2, <2>3, <2>4 DEF Discards
  <2> QED
    BY <1>0, <1>2, <2>5, DiscardStep
<1> QED
  BY <1>3, <1>4 DEF acquireSlot, Bounded, Reserve, EvictFor, ParkOrReject

LEMMA MissingMoves ==
  ASSUME Base, Claims, Maps, Listed, NEW c \in Calls, Missing(c),
         pc[c] \in {"queued", "replacing"}, pc[c] \in Running \/ Turn(c),
         entries[KeyOf[c]] = NoEntry
  PROVE  Claims' /\ Maps' /\ Listed'
<1> DEFINE k == KeyOf[c]  e == orphans[KeyOf[c]]
<1>t. Types /\ ClaimsReal
  BY DEF Base
<1>0. \A s : Move(c, s)[c] = s /\ \A x \in Calls \ {c} : Move(c, s)[x] = pc[x]
  BY <1>t DEF Types, Move
<1>1. CASE Resurrect(c)
  <2>1. /\ pc' = Move(c, "got") /\ ent' = [ent EXCEPT ![c] = e]
        /\ entries' = [entries EXCEPT ![k] = e] /\ orphans' = [orphans EXCEPT ![k] = NoEntry]
        /\ UNCHANGED <<idle, status, refCount, condemned>>
    BY <1>1 DEF Resurrect, resVars
  <2>2. e \in Calls /\ KeyOf[e] = k /\ status[e] = "usable" /\ k \in Keys
    BY <1>t, <1>1, PointTypes DEF Resurrect, isUsable, Entry, Maps
  <2>3. Maps' /\ Listed'
    BY <1>t, <2>1, <2>2, PointTypes DEF Maps, Listed
  <2>4. ASSUME NEW x \in Calls PROVE ClaimsOf(x)'
    <3>1. CASE x = c
      BY <1>t, <1>0, <2>1, <2>2, <3>1, PointTypes DEF ClaimsOf, Claims, OnlyMapped
    <3>2. CASE x # c
      <4>1. pc[x] \in Running => KeyOf[x] # k
        BY <3>2, Alone
      <4>2. ClaimsOf(x) /\ KeyOf[x] \in Keys /\ pc'[x] = pc[x] /\ ent'[x] = ent[x]
        BY <1>t, <1>0, <2>1, <3>2, PointTypes DEF Claims
      <4>3. KeyOf[x] # k => UNCHANGED <<entries[KeyOf[x]], orphans[KeyOf[x]]>>
        BY <1>t, <2>1, <4>2, PointTypes
      <4> QED
        BY <2>1, <4>1, <4>2, <4>3 DEF ClaimsOf, OnlyMapped, Vacant, Running
    <3> QED
      BY <3>1, <3>2
  <2> QED
    BY <2>3, <2>4 DEF Claims
<1>2. CASE Refuse(c)
  <2>1. \A x \in Calls : Moves(x)
    BY <1>t, <1>0, <1>2 DEF Refuse, Moves, Types
  <2> QED
    BY <1>t, <1>2, <2>1, MovesStep DEF Refuse
<1>3. CASE GoForSlot(c)
  <2>1. acquireSlot(c) /\ \A x \in Calls \ {c} : ent'[x] = ent[x]
    BY <1>t, <1>3 DEF GoForSlot, Types
  <2>2. Vacant(k)
    BY <1>t, <1>3, PointTypes DEF GoForSlot, isUsable, Maps, Vacant
  <2> QED
    BY <1>t, <2>1, <2>2, SlotMoves
<1> QED
  BY <1>1, <1>2, <1>3 DEF Missing

LEMMA ObtainLiveStep ==
  ASSUME Base, Claims, Maps, Listed, NEW c \in Calls, ObtainLive(c)
  PROVE  Claims' /\ Maps' /\ Listed'
<1> DEFINE e == entries[KeyOf[c]]
<1>t. Types
  BY DEF Base
<1>1. e \in Calls /\ KeyOf[e] = KeyOf[c] /\ status[e] = "usable" /\ orphans[KeyOf[c]] = NoEntry
  BY <1>t, PointTypes DEF ObtainLive, UseLive, isUsable, Entry, Maps
<1>2. /\ pc[c] = "queued" /\ pc' = Move(c, IF Validates(e) THEN "validating" ELSE "got")
      /\ ent' = [ent EXCEPT ![c] = e]
      /\ UNCHANGED <<entries, orphans, idle, status, refCount, condemned>>
  BY DEF ObtainLive, UseLive, Turn, tableVars, resVars
<1>3. Maps' /\ Listed'
  BY <1>2 DEF Maps, Listed
<1>4. ASSUME NEW x \in Calls PROVE ClaimsOf(x)'
  BY <1>t, <1>1, <1>2, PointTypes DEF Claims, ClaimsOf, Move, OnlyMapped, Vacant, Validates
<1> QED
  BY <1>3, <1>4 DEF Claims

(* What removeEntry(e) and a disposal of e leave.                          *)
LEMMA Removed ==
  ASSUME Types, Maps, NEW e \in Calls, removeEntry(e), status' = Disposing({e})
  PROVE  /\ \A k \in Keys : /\ entries'[k] = IF entries[k] = e THEN NoEntry ELSE entries[k]
                            /\ orphans'[k] = IF orphans[k] = e THEN NoEntry ELSE orphans[k]
         /\ \A x \in Calls : status'[x] = IF x = e /\ status[e] = "usable"
                                          THEN "disposing" ELSE status[x]
         /\ Elements(idle') = Elements(idle) \ {e}
<1>1. \A k \in Keys \ {KeyOf[e]} : entries[k] # e /\ orphans[k] # e
  BY PointTypes DEF Maps
<1>2. \A k \in Keys : /\ entries'[k] = IF entries[k] = e THEN NoEntry ELSE entries[k]
                      /\ orphans'[k] = IF orphans[k] = e THEN NoEntry ELSE orphans[k]
  BY <1>1, PointTypes DEF removeEntry
<1>3. Elements(idle') = Elements(idle) \ {e}
  BY PointTypes, WithoutProperties DEF removeEntry
<1> QED
  BY <1>2, <1>3 DEF Disposing

LEMMA StaleStep ==
  ASSUME Base, Claims, Maps, Listed, NEW c \in Calls, ValidateStale(c)
  PROVE  Claims' /\ Maps' /\ Listed'
<1> DEFINE e == ent[c]
<1>t. Types /\ e \in Calls
  BY DEF Base, ClaimsReal, ValidateStale
<1>1. /\ pc[c] = "validating" /\ pc' = Move(c, "replacing")
      /\ UNCHANGED <<ent, refCount, condemned>>
      /\ removeEntry(e) /\ status' = Disposing({e})
  BY DEF ValidateStale
<1>2. /\ \A k \in Keys : /\ entries'[k] = IF entries[k] = e THEN NoEntry ELSE entries[k]
                         /\ orphans'[k] = IF orphans[k] = e THEN NoEntry ELSE orphans[k]
      /\ \A x \in Calls : status'[x] = IF x = e /\ status[e] = "usable"
                                       THEN "disposing" ELSE status[x]
      /\ Elements(idle') = Elements(idle) \ {e}
  BY <1>t, <1>1, Removed
<1>3. Maps'
  <2>1. ASSUME NEW k \in Keys
        PROVE  /\ entries[k] # NoEntry => entries[k] \in Calls
               /\ orphans[k] # NoEntry => orphans[k] \in Calls
    BY <1>t, PointTypes DEF Entry
  <2> QED
    BY <1>1, <1>2, <2>1 DEF Maps
<1>4. Listed'
  BY <1>t, <1>1, <1>2, PointTypes DEF Listed
<1>5. ASSUME NEW x \in Calls PROVE ClaimsOf(x)'
  <2>1. /\ ClaimsOf(x) /\ ClaimsOf(c) /\ KeyOf[x] \in Keys
        /\ pc'[x] = IF x = c THEN "replacing" ELSE pc[x]
        /\ UNCHANGED <<ent, refCount, condemned>> /\ pc[c] = "validating"
    BY <1>t, <1>1, PointTypes DEF Claims, Move
  <2>2. \A y \in Calls : /\ status'[y] = "absent" <=> status[y] = "absent"
                         /\ status'[y] = "usable" => status[y] = "usable"
    BY <1>2
  <2>3. pc[x] \in {"validating", "replacing", "got", "holding"} => ent[x] \in Calls
    BY DEF Base, ClaimsReal
  <2>4. /\ OnlyMapped(x) => OnlyMapped(x)'
        /\ Vacant(KeyOf[x]) => Vacant(KeyOf[x])'
        /\ x = c => Vacant(KeyOf[x])'
    BY <1>1, <1>2, <2>1 DEF OnlyMapped, Vacant, ClaimsOf
  <2> QED
    BY <2>1, <2>2, <2>3, <2>4 DEF ClaimsOf
<1> QED
  BY <1>3, <1>4, <1>5 DEF Claims

LEMMA InsertStep ==
  ASSUME Base, Claims, Maps, Listed, NEW c \in Calls, FactoryResolves(c), insert(c)
  PROVE  Claims' /\ Maps' /\ Listed'
<1>t. Types /\ pc[c] = "creating" /\ pc[c] \in Running
  BY DEF Base, FactoryResolves, Running
<1>1. /\ pc' = Move(c, "got") /\ ent' = [ent EXCEPT ![c] = c]
      /\ entries' = [entries EXCEPT ![KeyOf[c]] = c]
      /\ status' = [status EXCEPT ![c] = "usable"]
      /\ UNCHANGED <<orphans, refCount, condemned>>
  BY DEF insert, FactoryResolves
<1>2. Vacant(KeyOf[c]) /\ status[c] = "absent" /\ refCount[c] = 0 /\ c \notin condemned
  BY <1>t DEF Claims, ClaimsOf
<1>3. Elements(idle') = Elements(idle) \union {c}
  BY <1>t, PointTypes, AppendElements DEF insert
<1>4. Maps' /\ Listed'
  BY <1>t, <1>1, <1>2, <1>3, PointTypes DEF Maps, Listed, Vacant
<1>5. ASSUME NEW x \in Calls PROVE ClaimsOf(x)'
  <2>1. x # c /\ pc[x] \in Running => KeyOf[x] # KeyOf[c]
    BY <1>t, Alone
  <2>2. ClaimsOf(x) /\ ClaimsOf(c)
    BY DEF Claims
  <2>3. CASE x = c
    BY <1>t, <1>1, <1>2, <2>2, <2>3, PointTypes DEF ClaimsOf, Move, OnlyMapped, Vacant
  <2>4. CASE x # c
    BY <1>t, <1>1, <1>2, <2>1, <2>2, <2>4, PointTypes DEF ClaimsOf, Move, OnlyMapped, Vacant, Running
  <2> QED
    BY <2>3, <2>4
<1> QED
  BY <1>4, <1>5 DEF Claims

(* releaseEntry() for a call c that holds a resource.                      *)
LEMMA ReleaseStep ==
  ASSUME Base, Claims, Maps, Listed, NEW c \in Calls, pc[c] = "holding", NEW e \in Calls,
         releaseEntry(e, Move(c, "done")), ent' = [ent EXCEPT ![c] = NoEntry],
         UNCHANGED condemned
  PROVE  Claims' /\ Maps' /\ Listed'
<1>t. Types /\ ParkedListed /\ ClaimsReal
  BY DEF Base
<1>1. /\ pc'[c] = "done"
      /\ \A x \in Calls \ {c} : /\ pc'[x] = pc[x] \/ (pc[x] = "parked" /\ pc'[x] = "woken")
                                /\ ent'[x] = ent[x]
  <2>1. \A x \in Calls \ {c} : ent'[x] = ent[x]
    BY <1>t, PointTypes
  <2> QED
    BY <1>t, <2>1, ReleaseEffect
<1>2. CASE UNCHANGED <<entries, orphans, idle, status>>
           /\ \/ UNCHANGED refCount
              \/ refCount[e] # 0 /\ refCount' = [refCount EXCEPT ![e] = @ - 1]
  <2>1. Maps'
    BY <1>2 DEF Maps
  <2>2. Listed'
    BY <1>t, <1>2, PointTypes DEF Listed
  <2>3. ASSUME NEW x \in Calls PROVE ClaimsOf(x)'
    BY <1>t, <1>1, <1>2, PointTypes DEF Claims, ClaimsOf, OnlyMapped, Vacant, ClaimsReal
  <2> QED
    BY <2>1, <2>2, <2>3 DEF Claims
<1>3. CASE /\ refCount[e] # 0 /\ refCount' = [refCount EXCEPT ![e] = @ - 1]
           /\ removeEntry(e) /\ status' = Disposing({e})
  <2>1. /\ \A k \in Keys : /\ entries'[k] = IF entries[k] = e THEN NoEntry ELSE entries[k]
                           /\ orphans'[k] = IF orphans[k] = e THEN NoEntry ELSE orphans[k]
        /\ \A x \in Calls : status'[x] = IF x = e /\ status[e] = "usable"
                                         THEN "disposing" ELSE status[x]
        /\ Elements(idle') = Elements(idle) \ {e}
    BY <1>t, <1>3, Removed
  <2>2. Maps'
    <3>1. ASSUME NEW k \in Keys
          PROVE  /\ entries[k] # NoEntry => entries[k] \in Calls
                 /\ orphans[k] # NoEntry => orphans[k] \in Calls
      BY <1>t, PointTypes DEF Entry
    <3> QED
      BY <2>1, <3>1 DEF Maps
  <2>3. Listed'
    BY <1>t, <1>3, <2>1, PointTypes DEF Listed
  <2>4. ASSUME NEW x \in Calls PROVE ClaimsOf(x)'
    <3>1. \A y \in Calls : /\ status'[y] = "absent" <=> status[y] = "absent"
                           /\ status'[y] = "usable" => status[y] = "usable"
                           /\ refCount[y] = 0 => refCount'[y] = 0
      BY <1>t, <1>3, <2>1, PointTypes
    <3>2. ClaimsOf(x) /\ KeyOf[x] \in Keys
      BY <1>t, PointTypes DEF Claims
    <3>3. pc[x] \in {"validating", "replacing", "got", "holding"} => ent[x] \in Calls
      BY <1>t DEF ClaimsReal
    <3>4. /\ OnlyMapped(x) /\ ent'[x] = ent[x] => OnlyMapped(x)'
          /\ Vacant(KeyOf[x]) => Vacant(KeyOf[x])'
      BY <2>1, <3>2 DEF OnlyMapped, Vacant
    <3> QED
      BY <1>1, <3>1, <3>2, <3>3, <3>4 DEF ClaimsOf
  <2> QED
    BY <2>2, <2>3, <2>4 DEF Claims
<1>4. CASE /\ refCount[e] = 1 /\ refCount' = [refCount EXCEPT ![e] = @ - 1]
           /\ e \notin condemned /\ idle' = Append(idle, e)
           /\ UNCHANGED <<entries, orphans, status>>
  <2>1. Elements(idle') = Elements(idle) \union {e}
    BY <1>t, <1>4, PointTypes, AppendElements
  <2>2. refCount'[e] = 0 /\ \A x \in Calls \ {e} : refCount'[x] = refCount[x]
    BY <1>t, <1>4, PointTypes
  <2>3. status[e] # "absent"
    BY <1>4 DEF Claims, ClaimsOf
  <2>4. Maps' /\ Listed'
    BY <1>t, <1>4, <2>1, <2>2, <2>3, PointTypes DEF Maps, Listed
  <2>5. ASSUME NEW x \in Calls PROVE ClaimsOf(x)'
    BY <1>t, <1>1, <1>4, <2>2, PointTypes DEF Claims, ClaimsOf, OnlyMapped, Vacant, ClaimsReal
  <2> QED
    BY <2>4, <2>5 DEF Claims
<1>5. CASE status[e] = "disposed" \/ refCount[e] = 0
  BY <1>2, <1>5 DEF releaseEntry, tableVars
<1>6. CASE ~(status[e] = "disposed" \/ refCount[e] = 0)
  <2>1. /\ refCount[e] # 0 /\ refCount' = [refCount EXCEPT ![e] = @ - 1]
        /\ IF LastRef(e) THEN LastRelease(e, Move(c, "done"))
           ELSE UNCHANGED <<tableVars, status, waiters>>
    BY <1>6 DEF releaseEntry
  <2>2. CASE LastRef(e) /\ isCondemned(e)
    BY <1>3, <2>1, <2>2 DEF LastRelease
  <2>3. CASE LastRef(e) /\ ~isCondemned(e)
    BY <1>4, <2>1, <2>3 DEF LastRelease, LastRef, isCondemned, BackToIdle
  <2>4. CASE ~LastRef(e)
    BY <1>2, <2>1, <2>4 DEF tableVars
  <2> QED
    BY <2>2, <2>3, <2>4
<1> QED
  BY <1>5, <1>6

LEMMA DisposeDoneStep ==
  ASSUME Base, Claims, Maps, Listed, NEW e \in Calls, DisposeDone(e)
  PROVE  Claims' /\ Maps' /\ Listed'
<1>t. Types /\ ClaimsReal
  BY DEF Base
<1>1. /\ status[e] = "disposing" /\ status' = [status EXCEPT ![e] = "disposed"]
      /\ UNCHANGED <<pc, ent, entries, orphans, idle, refCount, condemned>>
  BY DEF DisposeDone, callVars, tableVars
<1>2. Maps' /\ Listed'
  BY <1>t, <1>1, PointTypes DEF Maps, Listed, Entry
<1>3. ASSUME NEW x \in Calls PROVE ClaimsOf(x)'
  BY <1>t, <1>1, PointTypes DEF Claims, ClaimsOf, OnlyMapped, Vacant, ClaimsReal
<1> QED
  BY <1>2, <1>3 DEF Claims

(* What drain() leaves of the maps and the resources.                      *)
LEMMA Drained ==
  ASSUME Types, Maps, NEW d \in Drains, Drain(d)
  PROVE  /\ \A k \in Keys :
              /\ entries'[k] = NoEntry
              /\ orphans'[k] = IF entries[k] # NoEntry /\ refCount[entries[k]] # 0
                               THEN entries[k] ELSE orphans[k]
              /\ orphans'[k] \in condemned' \union {NoEntry}
         /\ \A e \in Calls :
              /\ status'[e] = IF entries[KeyOf[e]] = e /\ refCount[e] = 0
                              THEN "disposing" ELSE status[e]
              /\ e \in condemned' <=> e \in condemned \/ orphans'[KeyOf[e]] = e
         /\ idle' = <<>>
<1> DEFINE live == {entries[k] : k \in Live}
           held == InUse(live)
           orphan(k) == IF entries[k] \in held THEN entries[k] ELSE orphans[k]
           orphaned  == {orphan(k) : k \in Keys} \ {NoEntry}
<1>1. /\ entries' = [k \in Keys |-> NoEntry] /\ orphans' = [k \in Keys |-> orphan(k)]
      /\ idle' = <<>> /\ status' = Disposing(live \ held)
      /\ condemned' = condemned \union orphaned
  BY DEF Drain
<1>2. \A k \in Keys : /\ entries[k] \in held <=> entries[k] # NoEntry /\ refCount[entries[k]] # 0
                      /\ orphans'[k] = orphan(k)
  BY <1>1, PointTypes DEF Live, InUse, Entry
<1>3. \A e \in Calls : e \in live \ held <=> entries[KeyOf[e]] = e /\ refCount[e] = 0
  BY PointTypes DEF Live, InUse, Maps
<1>4. \A e \in Calls : e \in orphaned <=> orphans'[KeyOf[e]] = e
  <2>1. \A k \in Keys : orphan(k) # NoEntry => KeyOf[orphan(k)] = k
    BY PointTypes DEF Maps
  <2>2. \A k \in Keys : orphans'[k] = orphan(k)
    BY <1>2
  <2> HIDE DEF orphan
  <2> SUFFICES ASSUME NEW e \in Calls PROVE e \in orphaned <=> orphans'[KeyOf[e]] = e
    OBVIOUS
  <2>3. KeyOf[e] \in Keys /\ e # NoEntry
    BY PointTypes
  <2> QED
    BY <2>1, <2>2, <2>3
<1>5. \A e \in Calls : entries[KeyOf[e]] = e => status[e] = "usable"
  BY PointTypes DEF Maps
<1> HIDE DEF live, held
<1>6. \A e \in Calls : status'[e] = IF entries[KeyOf[e]] = e /\ refCount[e] = 0
                                    THEN "disposing" ELSE status[e]
  BY <1>1, <1>3, <1>5 DEF Disposing
<1>7. \A k \in Keys : orphans'[k] \in condemned' \union {NoEntry}
  BY <1>1, <1>2
<1> QED
  BY <1>1, <1>2, <1>4, <1>6, <1>7

LEMMA DrainStep ==
  ASSUME Base, Claims, Maps, Listed, NEW d \in Drains, Drain(d)
  PROVE  Claims' /\ Maps' /\ Listed'
<1>t. Types /\ ClaimsReal /\ ParkedListed
  BY DEF Base
<1>1. /\ \A x \in Calls : pc'[x] = IF pc[x] = "parked" THEN "failed" ELSE pc[x]
      /\ UNCHANGED <<ent, refCount>>
  BY <1>t DEF Drain, setClosed, ParkedListed
<1>2. /\ \A k \in Keys :
           /\ entries'[k] = NoEntry
           /\ orphans'[k] = IF entries[k] # NoEntry /\ refCount[entries[k]] # 0
                            THEN entries[k] ELSE orphans[k]
           /\ orphans'[k] \in condemned' \union {NoEntry}
      /\ \A e \in Calls :
           /\ status'[e] = IF entries[KeyOf[e]] = e /\ refCount[e] = 0
                           THEN "disposing" ELSE status[e]
           /\ e \in condemned' <=> e \in condemned \/ orphans'[KeyOf[e]] = e
      /\ idle' = <<>>
  BY <1>t, Drained
<1>3. Maps'
  <2>1. ASSUME NEW k \in Keys
        PROVE  /\ entries[k] # NoEntry => entries[k] \in Calls
               /\ orphans[k] # NoEntry => orphans[k] \in Calls
    BY <1>t, PointTypes DEF Entry
  <2> QED
    BY <1>2, <2>1 DEF Maps
<1>4. Listed'
  BY <1>2, EmptySeq DEF Listed, Elements
<1>5. ASSUME NEW x \in Calls PROVE ClaimsOf(x)'
  <2>1. ClaimsOf(x) /\ KeyOf[x] \in Keys
    BY <1>t, PointTypes DEF Claims
  <2>2. \A y \in Calls : /\ status'[y] = "absent" <=> status[y] = "absent"
                         /\ status'[y] = "usable" => status[y] = "usable"
                         /\ status[y] = "absent" /\ y \notin condemned => y \notin condemned'
    <3>1. \A y \in Calls : orphans'[KeyOf[y]] = y => orphans[KeyOf[y]] = y \/ entries[KeyOf[y]] = y
      BY <1>t, <1>2, PointTypes
    <3>2. \A y \in Calls : (entries[KeyOf[y]] = y \/ orphans[KeyOf[y]] = y) => status[y] = "usable"
      BY <1>t, PointTypes DEF Maps
    <3> QED
      BY <1>2, <3>1, <3>2
  <2>3. pc[x] \in {"validating", "replacing", "got", "holding"} => ent[x] \in Calls
    BY <1>t DEF ClaimsReal
  <2>4. /\ OnlyMapped(x) => OnlyMapped(x)'
        /\ Vacant(KeyOf[x]) => Vacant(KeyOf[x])'
    BY <1>1, <1>2, <2>1 DEF OnlyMapped, Vacant
  <2> QED
    BY <1>1, <2>1, <2>2, <2>3, <2>4 DEF ClaimsOf
<1> QED
  BY <1>3, <1>4, <1>5 DEF Claims

LEMMA SweepStep ==
  ASSUME Base, Claims, Maps, Listed, NEW n \in DOMAIN idle, Sweep(n)
  PROVE  Claims' /\ Maps' /\ Listed'
<1> DEFINE victims == {idle[i] : i \in Evictable \cap 1..n}
<1>t. Types /\ ClaimsReal /\ ParkedListed /\ pc \in [Calls -> PCs]
  BY DEF Base, Types
<1>1. /\ idle' = Without(idle, victims)
      /\ entries' = [k \in Keys |-> IF \E v \in victims : KeyOf[v] = k
                                    THEN NoEntry ELSE entries[k]]
      /\ status' = Disposing(victims)
      /\ Wake(pc, Cardinality(victims))
      /\ UNCHANGED <<ent, orphans, refCount, condemned>>
  BY DEF Sweep
<1>2. victims \subseteq Elements(idle)
  BY DEF Evictable, Elements
<1>3. Cardinality(victims) \in Nat
  <2>1. victims \subseteq Calls
    BY <1>t, <1>2, PointTypes
  <2> HIDE DEF victims
  <2> QED
    BY <2>1, CallsAssumption, FS_Subset, FS_CardinalityType
<1> HIDE DEF victims
<1>4. \A x \in Calls : pc'[x] = pc[x] \/ (pc[x] = "parked" /\ pc'[x] = "woken")
  BY <1>t, <1>1, <1>3, WakeEffect
<1>5. \A x \in Calls : Moves(x)
  BY <1>1, <1>4 DEF Moves, Claims, ClaimsOf
<1>6. Discards(victims)
  BY <1>t, <1>1, <1>2, PointTypes, WithoutProperties DEF Discards
<1> QED
  BY <1>t, <1>1, <1>5, <1>6, DiscardStep

LEMMA TablesStep ==
  ASSUME Base, Claims, Maps, Listed, [Next]_vars
  PROVE  Claims' /\ Maps' /\ Listed'
<1>t. Types /\ ClaimsReal /\ ParkedListed
  BY DEF Base
<1>m. \A c \in Calls : \A s : /\ Move(c, s)[c] = s
                              /\ \A x \in Calls \ {c} : Move(c, s)[x] = pc[x]
  BY <1>t DEF Types, Move
<1> DEFINE Inv == Claims' /\ Maps' /\ Listed'
<1>1. ASSUME NEW c \in Calls, AcquireQueued(c) PROVE Inv
  <2>1. \A x \in Calls : Moves(x)
    BY <1>m, <1>1 DEF AcquireQueued, Moves
  <2> QED
    BY <1>t, <1>1, <2>1, MovesStep DEF AcquireQueued
<1>2. ASSUME NEW c \in Calls, ObtainMissing(c) PROVE Inv
  <2>1. entries[KeyOf[c]] = NoEntry
    BY <1>t, <1>2, PointTypes DEF ObtainMissing, isUsable, Maps
  <2> QED
    BY <1>2, <2>1, MissingMoves DEF ObtainMissing, Turn
<1>3. ASSUME NEW c \in Calls, ValidateOk(c) \/ ValidateThrows(c) \/ DiscardDone(c) PROVE Inv
  <2>1. /\ \A x \in Calls : Moves(x)
        /\ UNCHANGED <<tableVars, resVars>>
    BY <1>m, <1>3 DEF ValidateOk, ValidateThrows, DiscardDone, Moves
  <2> QED
    BY <1>t, <2>1, MovesStep
<1>4. ASSUME NEW c \in Calls, Replace(c) PROVE Inv
  <2>1. pc[c] = "replacing" /\ Missing(c) /\ pc[c] \in Running
    BY <1>4 DEF Replace, Running
  <2>2. entries[KeyOf[c]] = NoEntry
    BY <2>1 DEF Claims, ClaimsOf, Vacant
  <2> QED
    BY <2>1, <2>2, MissingMoves
<1>5. ASSUME NEW c \in Calls, Retry(c) PROVE Inv
  <2>1. pc[c] = "woken" /\ acquireSlot(c) /\ UNCHANGED ent
    BY <1>5 DEF Retry
  <2>2. Vacant(KeyOf[c])
    BY <2>1 DEF Claims, ClaimsOf
  <2> QED
    BY <2>1, <2>2, SlotMoves
<1>6. ASSUME NEW c \in Calls, Timeout(c) PROVE Inv
  <2>1. \A x \in Calls : Moves(x)
    BY <1>m, <1>6 DEF Timeout, Moves
  <2> QED
    BY <1>t, <1>6, <2>1, MovesStep DEF Timeout
<1>7. ASSUME NEW c \in Calls, FactoryResolves(c) PROVE Inv
  <2>1. CASE ~closed
    BY <1>7, <2>1, InsertStep DEF FactoryResolves
  <2>2. CASE closed
    <3>1. /\ pc[c] = "creating" /\ releaseReservation(Move(c, "discarding"))
          /\ UNCHANGED <<ent, tableVars, resVars>>
          /\ "discarding" \in PCs
      BY <1>7, <2>2 DEF FactoryResolves, discard, resVars, PCs, InFlight, Running
    <3>2. /\ pc'[c] = "discarding"
          /\ \A x \in Calls \ {c} : pc'[x] = pc[x] \/ (pc[x] = "parked" /\ pc'[x] = "woken")
      BY <1>t, <3>1, ReservationEffect
    <3>3. \A x \in Calls : Moves(x)
      BY <3>1, <3>2 DEF Moves, Claims, ClaimsOf
    <3> QED
      BY <1>t, <3>1, <3>3, MovesStep
  <2> QED
    BY <2>1, <2>2
<1>8. ASSUME NEW c \in Calls, FactoryRejects(c) PROVE Inv
  <2>1. /\ pc[c] = "creating" /\ releaseReservation(Move(c, "failed"))
        /\ UNCHANGED <<ent, tableVars, resVars>>
        /\ "failed" \in PCs
    BY <1>8 DEF FactoryRejects, PCs, InFlight, Running
  <2>2. /\ pc'[c] = "failed"
        /\ \A x \in Calls \ {c} : pc'[x] = pc[x] \/ (pc[x] = "parked" /\ pc'[x] = "woken")
    BY <1>t, <2>1, ReservationEffect
  <2>3. \A x \in Calls : Moves(x)
    BY <2>1, <2>2 DEF Moves, Claims, ClaimsOf
  <2> QED
    BY <1>t, <2>1, <2>3, MovesStep
<1>9. ASSUME NEW c \in Calls, SettleFailed(c) PROVE Inv
  <2>1. \A x \in Calls : Moves(x)
    BY <1>m, <1>t, <1>9, PointTypes DEF SettleFailed, Moves
  <2> QED
    BY <1>t, <1>9, <2>1, MovesStep DEF SettleFailed
<1>10. ASSUME NEW c \in Calls, Release(c) PROVE Inv
  <2>1. pc[c] = "holding" /\ ent[c] \in Calls
    BY <1>t, <1>10 DEF Release, ClaimsReal
  <2> QED
    BY <1>10, <2>1, ReleaseStep DEF Release
<1>11. ASSUME NEW c \in Calls, ReleaseKey(c) PROVE Inv
  <2> DEFINE k == KeyOf[c]
             e == IF entries[k] # NoEntry THEN entries[k] ELSE orphans[k]
  <2>1. /\ pc[c] = "holding" /\ ent' = [ent EXCEPT ![c] = NoEntry]
        /\ UNCHANGED condemned
    BY <1>11 DEF ReleaseKey
  <2>2. CASE e = NoEntry
    <3>1. pc' = Move(c, "done") /\ UNCHANGED <<entries, orphans, idle, status, refCount>>
      BY <1>11, <2>2 DEF ReleaseKey, tableVars
    <3>2. Maps' /\ Listed'
      BY <2>1, <3>1 DEF Maps, Listed
    <3>3. ASSUME NEW x \in Calls PROVE ClaimsOf(x)'
      BY <1>t, <1>m, <2>1, <3>1, <3>3, PointTypes DEF Claims, ClaimsOf, OnlyMapped, Vacant
    <3> QED
      BY <3>2, <3>3 DEF Claims
  <2>3. CASE e # NoEntry
    <3>1. e \in Calls /\ releaseEntry(e, Move(c, "done"))
      BY <1>t, <1>11, <2>3, PointTypes DEF ReleaseKey, Entry
    <3> HIDE DEF e
    <3> QED
      BY <2>1, <3>1, ReleaseStep
  <2> QED
    BY <2>2, <2>3
<1>12. CASE UNCHANGED <<pc, ent, tableVars, resVars>>
  BY <1>t, <1>12, MovesStep DEF Moves
<1>13. ASSUME NEW d \in Drains, DrainDone(d) PROVE Inv
  BY <1>12, <1>13 DEF DrainDone, callVars
<1>14. CASE Start \/ UNCHANGED vars
  BY <1>12, <1>14 DEF Start, vars, callVars
<1> QED
  BY FastStep, ObtainLiveStep, StaleStep, SettleStep, DisposeDoneStep, DrainStep, SweepStep,
     <1>1, <1>2, <1>3, <1>4, <1>5, <1>6, <1>7, <1>8, <1>9, <1>10, <1>11, <1>13, <1>14
     DEF Next, Acquire, Obtain, Validated, Created, Settled, Released

-----------------------------------------------------------------------------
(* Every resource in use is in a map, and a holder's in that of its key.   *)
Reachable ==
  \A e \in Calls : status[e] = "usable" => \/ entries[KeyOf[e]] = e
                                           \/ orphans[KeyOf[e]] = e
HeldMapped == \A c \in Calls : pc[c] = "holding" => OnlyMapped(c)

-----------------------------------------------------------------------------
(* Holders and reference counts.                                           *)

HoldsOn(x) ==
  /\ pc'[x] = "holding" <=> pc[x] = "holding"
  /\ pc[x] = "holding" => ent'[x] = ent[x]
TakesRef(c, e) ==
  /\ pc[c] # "holding" /\ pc'[c] = "holding" /\ ent'[c] = e
  /\ e \in Calls /\ status[e] # "absent"
  /\ \A x \in Calls \ {c} : HoldsOn(x)
  /\ refCount' = [refCount EXCEPT ![e] = @ + 1]
DropsRef(c) ==
  /\ pc[c] = "holding" /\ pc'[c] # "holding"
  /\ \A x \in Calls \ {c} : HoldsOn(x)
  /\ \A e \in Calls : status[e] = "usable" =>
       refCount'[e] = IF e = ent[c] THEN refCount[e] - 1 ELSE refCount[e]
  /\ \A e \in Calls : status[e] = "absent" => refCount'[e] = refCount[e]
HolderStep ==
  \/ UNCHANGED refCount /\ \A x \in Calls : HoldsOn(x)
  \/ \E c, e \in Calls : TakesRef(c, e)
  \/ \E c \in Calls : DropsRef(c)

(* A resource leaves the pool when nobody counts on it any more.           *)
LeavesUnused ==
  \A e \in Calls : /\ status'[e] = "usable" => status[e] \in {"usable", "absent"}
                   /\ status[e] = "usable" /\ status'[e] # "usable" => refCount'[e] = 0

Uses == HolderStep /\ LeavesUnused

LEMMA HoldersFinite ==
  ASSUME NEW e \in Calls
  PROVE  /\ IsFiniteSet(Holders(e)) /\ Cardinality(Holders(e)) \in Nat
         /\ Cardinality(Holders(e)) = 0 <=> \A c \in Calls : ~(pc[c] = "holding" /\ ent[c] = e)
<1>1. IsFiniteSet(Holders(e)) /\ Cardinality(Holders(e)) \in Nat
  BY CallsAssumption, FS_Subset, FS_CardinalityType DEF Holders
<1>2. Cardinality(Holders(e)) = 0 <=> Holders(e) = {}
  BY <1>1, FS_EmptySet
<1> QED
  BY <1>1, <1>2 DEF Holders

(* The resources that the pool has, or may yet make, keep exact counts.    *)
CountOf(e) == refCount[e] = Cardinality(Holders(e))

LEMMA CountStep ==
  ASSUME Types, ClaimsReal, Claims, RefCountExact, HolderStep,
         NEW e \in Calls, status[e] \in {"usable", "absent"}
  PROVE  CountOf(e)'
<1>1. CountOf(e) /\ (status[e] = "absent" => Holders(e) = {})
  <2>1. CASE status[e] = "usable"
    BY <2>1 DEF RefCountExact, CountOf
  <2>2. CASE status[e] = "absent"
    <3>1. refCount[e] = 0 /\ \A c \in Calls : ~(pc[c] = "holding" /\ ent[c] = e)
      BY <2>2 DEF Claims, ClaimsOf
    <3> QED
      BY <3>1, HoldersFinite DEF CountOf, Holders
  <2> QED
    BY <2>1, <2>2
<1>2. IsFiniteSet(Holders(e)) /\ Cardinality(Holders(e)) \in Nat /\ refCount[e] \in Nat
  BY HoldersFinite, PointTypes
<1>3. CASE UNCHANGED refCount /\ \A x \in Calls : HoldsOn(x)
  <2>1. Holders(e)' = Holders(e)
    BY <1>3 DEF HoldsOn, Holders
  <2> QED
    BY <1>1, <1>3, <2>1 DEF CountOf
<1>4. ASSUME NEW c \in Calls, NEW r \in Calls, TakesRef(c, r) PROVE CountOf(e)'
  <2>1. CASE r = e
    <3>1. Holders(e)' = Holders(e) \union {c} /\ c \notin Holders(e)
      BY <1>4, <2>1 DEF TakesRef, HoldsOn, Holders
    <3>2. Cardinality(Holders(e)') = Cardinality(Holders(e)) + 1
      BY <1>2, <3>1, FS_AddElement
    <3>3. refCount'[e] = refCount[e] + 1
      BY <1>4, <2>1, PointTypes DEF TakesRef
    <3> QED
      BY <1>1, <3>2, <3>3 DEF CountOf
  <2>2. CASE r # e
    <3>1. Holders(e)' = Holders(e)
      BY <1>4, <2>2 DEF TakesRef, HoldsOn, Holders
    <3>2. refCount'[e] = refCount[e]
      BY <1>4, <2>2, PointTypes DEF TakesRef
    <3> QED
      BY <1>1, <3>1, <3>2 DEF CountOf
  <2> QED
    BY <2>1, <2>2
<1>5. ASSUME NEW c \in Calls, DropsRef(c) PROVE CountOf(e)'
  <2>1. CASE ent[c] = e
    <3>1. Holders(e)' = Holders(e) \ {c} /\ c \in Holders(e)
      BY <1>5, <2>1 DEF DropsRef, HoldsOn, Holders
    <3>2. Cardinality(Holders(e)') = Cardinality(Holders(e)) - 1
      BY <1>2, <3>1, FS_RemoveElement
    <3>3. refCount'[e] = refCount[e] - 1
      BY <1>1, <1>5, <2>1, <3>1 DEF DropsRef
    <3> QED
      BY <1>1, <3>2, <3>3 DEF CountOf
  <2>2. CASE ent[c] # e
    <3>1. Holders(e)' = Holders(e)
      BY <1>5, <2>2 DEF DropsRef, HoldsOn, Holders
    <3>2. refCount'[e] = refCount[e]
      BY <1>5, <2>2 DEF DropsRef
    <3> QED
      BY <1>1, <3>1, <3>2 DEF CountOf
  <2> QED
    BY <2>1, <2>2
<1> QED
  BY <1>3, <1>4, <1>5 DEF HolderStep

(* What those steps say of counts and disposals.                           *)
LEMMA CountsKept ==
  ASSUME Types, ClaimsReal, Claims, RefCountExact, Uses
  PROVE  /\ RefCountExact'
         /\ \A e \in Calls : status[e] = "usable" /\ status'[e] # "usable"
                               => \A c \in Holders(e) : pc'[c] # "holding"
<1>1. RefCountExact'
  BY CountStep DEF Uses, LeavesUnused, RefCountExact, CountOf
<1>2. ASSUME NEW e \in Calls, status[e] = "usable", status'[e] # "usable",
             NEW c \in Holders(e), pc'[c] = "holding"
      PROVE  FALSE
  <2>1. CountOf(e)' /\ refCount'[e] = 0
    BY <1>2, CountStep DEF Uses, LeavesUnused
  <2>2. c \in Calls /\ ent[c] = e /\ pc[c] = "holding"
    BY <1>2 DEF Holders
  <2>3. ent'[c] = e
    BY <1>2, <2>2 DEF Uses, HolderStep, TakesRef, DropsRef, HoldsOn
  <2>4. Cardinality(Holders(e)') # 0
    <3>1. c \in Holders(e)' /\ IsFiniteSet(Holders(e)')
      BY <1>2, <2>2, <2>3, CallsAssumption, FS_Subset DEF Holders
    <3> QED
      BY <3>1, FS_EmptySet
  <2> QED
    BY <2>1, <2>4 DEF CountOf
<1> QED
  BY <1>1, <1>2

LEMMA SlotUse ==
  ASSUME Types, Listed, NEW c \in Calls, acquireSlot(c)
  PROVE  UNCHANGED refCount /\ LeavesUnused
<1>1. UNCHANGED refCount
  BY DEF acquireSlot
<1>2. CASE UNCHANGED status
  BY <1>1, <1>2 DEF LeavesUnused
<1>3. CASE EvictFor(c)
  <2>1. PICK i \in Evictable : status' = Disposing({idle[i]})
    BY <1>3 DEF EvictFor
  <2>2. idle[i] \in Elements(idle)
    BY DEF Elements, Evictable
  <2> QED
    BY <1>1, <2>1, <2>2, PointTypes DEF Disposing, LeavesUnused, Listed
<1> QED
  BY <1>1, <1>2, <1>3 DEF acquireSlot, Bounded, ParkOrReject

LEMMA MissingUse ==
  ASSUME Base, Listed, NEW c \in Calls, Missing(c), pc[c] \in {"queued", "replacing"}
  PROVE  Uses
<1>t. Types /\ ParkedListed
  BY DEF Base
<1>1. /\ pc'[c] \in {"got", "creating", "parked", "failed"}
      /\ \A x \in Calls \ {c} : pc'[x] = pc[x] /\ ent'[x] = ent[x]
  BY <1>t, MissingEffect
<1>2. UNCHANGED refCount /\ LeavesUnused
  BY <1>t, SlotUse DEF Missing, Resurrect, Refuse, GoForSlot, resVars, LeavesUnused
<1> QED
  BY <1>1, <1>2 DEF Uses, HolderStep, HoldsOn

LEMMA ReleaseUse ==
  ASSUME Base, Claims, RefCountExact, NEW c \in Calls, pc[c] = "holding",
         releaseEntry(ent[c], Move(c, "done")), ent' = [ent EXCEPT ![c] = NoEntry]
  PROVE  Uses
<1> DEFINE e == ent[c]
<1>t. Types /\ ParkedListed /\ e \in Calls
  BY DEF Base, ClaimsReal
<1>1. /\ pc'[c] = "done"
      /\ \A x \in Calls \ {c} : /\ pc'[x] = pc[x] \/ (pc[x] = "parked" /\ pc'[x] = "woken")
                                /\ ent'[x] = ent[x]
  <2>1. \A x \in Calls \ {c} : ent'[x] = ent[x]
    BY <1>t, PointTypes
  <2> QED
    BY <1>t, <2>1, ReleaseEffect
<1>2. \A x \in Calls \ {c} : HoldsOn(x)
  BY <1>1 DEF HoldsOn
<1>3. CASE status[e] = "disposed" \/ refCount[e] = 0
  <2>1. status[e] # "usable"
    <3>1. Cardinality(Holders(e)) # 0
      BY <1>t, HoldersFinite
    <3> QED
      BY <1>t, <1>3, <3>1 DEF RefCountExact
  <2>2. UNCHANGED <<status, refCount>>
    BY <1>3 DEF releaseEntry
  <2> QED
    BY <1>1, <1>2, <2>1, <2>2 DEF Uses, HolderStep, DropsRef, LeavesUnused
<1>4. CASE ~(status[e] = "disposed" \/ refCount[e] = 0)
  <2>1. /\ refCount' = [refCount EXCEPT ![e] = @ - 1]
        /\ IF LastRef(e) THEN LastRelease(e, Move(c, "done")) ELSE UNCHANGED status
    BY <1>4 DEF releaseEntry
  <2>2. \/ UNCHANGED status
        \/ LastRef(e) /\ status' = Disposing({e})
    BY <2>1 DEF LastRelease, BackToIdle
  <2>3. LeavesUnused
    BY <1>t, <2>1, <2>2, PointTypes DEF LeavesUnused, Disposing, LastRef
  <2>4. \A y \in Calls : refCount'[y] = IF y = e THEN refCount[e] - 1 ELSE refCount[y]
    BY <1>t, <2>1, PointTypes
  <2>5. status[e] # "absent"
    BY <1>t, <1>4 DEF Claims, ClaimsOf
  <2> QED
    BY <1>1, <1>2, <2>3, <2>4, <2>5 DEF Uses, HolderStep, DropsRef
<1> QED
  BY <1>3, <1>4

(* release(key) drops the reference of the handle it stands for: the maps  *)
(* have nothing else for the key.                                          *)
LEMMA ReleaseKeyIsRelease ==
  ASSUME Base, Reachable, HeldMapped, Maps, Claims, RefCountExact,
         NEW c \in Calls, ReleaseKey(c)
  PROVE  Uses
<1> DEFINE k == KeyOf[c]
           e == IF entries[k] # NoEntry THEN entries[k] ELSE orphans[k]
<1>t. Types /\ pc[c] = "holding" /\ ent[c] \in Calls
  BY DEF Base, ClaimsReal, ReleaseKey
<1>1. e \in {ent[c], NoEntry} /\ ent' = [ent EXCEPT ![c] = NoEntry]
  BY <1>t DEF HeldMapped, OnlyMapped, ReleaseKey
<1>2. CASE e = NoEntry
  <2>1. pc' = Move(c, "done") /\ UNCHANGED <<status, refCount>>
    BY <1>2 DEF ReleaseKey
  <2>2. status[ent[c]] # "usable"
    BY <1>t, <1>2, CallsAssumption DEF Reachable, Claims, ClaimsOf
  <2>3. status[ent[c]] # "absent"
    BY <1>t DEF Claims, ClaimsOf
  <2>4. DropsRef(c)
    BY <1>t, <1>1, <2>1, <2>2, <2>3, PointTypes DEF DropsRef, HoldsOn, Move
  <2> QED
    BY <2>1, <2>4 DEF Uses, HolderStep, LeavesUnused
<1>3. CASE e = ent[c] /\ e # NoEntry
  <2>1. releaseEntry(ent[c], Move(c, "done"))
    BY <1>3 DEF ReleaseKey
  <2> QED
    BY <1>t, <1>1, <2>1, ReleaseUse
<1> QED
  BY <1>1, <1>2, <1>3

LEMMA UsesStep ==
  ASSUME Base, Claims, Maps, Listed, RefCountExact,
         ReleaseByKey => Reachable /\ HeldMapped, [Next]_vars
  PROVE  Uses
<1>t. Types /\ ClaimsReal /\ ParkedListed
  BY DEF Base
<1>m. \A c \in Calls : \A s : /\ Move(c, s)[c] = s
                              /\ \A x \in Calls \ {c} : Move(c, s)[x] = pc[x]
  BY <1>t DEF Types, Move
<1>q. CASE /\ \A x \in Calls : HoldsOn(x)
           /\ UNCHANGED <<status, refCount>>
  BY <1>q DEF Uses, HolderStep, LeavesUnused
<1>1. ASSUME NEW c \in Calls, NEW e \in Calls, checkout(c, e), pc[c] # "holding",
             status[e] # "absent", UNCHANGED status
      PROVE  Uses
  <2>1. TakesRef(c, e)
    BY <1>t, <1>m, <1>1, PointTypes DEF checkout, TakesRef, HoldsOn
  <2> QED
    BY <1>1, <2>1 DEF Uses, HolderStep, LeavesUnused
<1>2. ASSUME NEW c \in Calls, AcquireFast(c) PROVE Uses
  <2>1. entries[KeyOf[c]] \in Calls /\ status[entries[KeyOf[c]]] = "usable"
    BY <1>t, <1>2, PointTypes DEF AcquireFast, Shareable, isUsable, Entry, Maps
  <2> QED
    BY <1>1, <1>2, <2>1 DEF AcquireFast
<1>3. ASSUME NEW c \in Calls, Settle(c) PROVE Uses
  <2>1. ent[c] \in Calls /\ status[ent[c]] # "absent"
    BY <1>t, <1>3 DEF Settle, ClaimsReal, Claims, ClaimsOf
  <2> QED
    BY <1>1, <1>3, <2>1 DEF Settle
<1>4. ASSUME NEW c \in Calls, AcquireQueued(c) \/ ValidateOk(c) \/ ValidateThrows(c)
                              \/ DiscardDone(c) \/ Timeout(c)
      PROVE  Uses
  <2>1. /\ \A x \in Calls : HoldsOn(x)
        /\ UNCHANGED <<status, refCount>>
    BY <1>m, <1>4 DEF AcquireQueued, ValidateOk, ValidateThrows, DiscardDone, Timeout,
                      HoldsOn, resVars
  <2> QED
    BY <1>q, <2>1
<1>5. ASSUME NEW c \in Calls, ObtainLive(c) \/ SettleFailed(c) PROVE Uses
  <2>1. /\ pc[c] \in {"queued", "failed"} /\ \A x \in Calls \ {c} : ent'[x] = ent[x]
        /\ UNCHANGED <<status, refCount>>
        /\ \/ pc' = Move(c, "got") \/ pc' = Move(c, "validating")
           \/ pc' = Move(c, "rejected")
    BY <1>t, <1>5, PointTypes DEF ObtainLive, UseLive, Turn, SettleFailed, resVars
  <2> QED
    BY <1>m, <1>q, <2>1 DEF HoldsOn
<1>6. ASSUME NEW c \in Calls, ObtainMissing(c) \/ Replace(c) PROVE Uses
  BY <1>6, MissingUse DEF ObtainMissing, Replace, Turn
<1>7. ASSUME NEW c \in Calls, ValidateStale(c) PROVE Uses
  <2>1. /\ pc[c] = "validating" /\ pc' = Move(c, "replacing") /\ UNCHANGED <<ent, refCount>>
        /\ status' = Disposing({ent[c]})
    BY <1>7 DEF ValidateStale
  <2>2. ent[c] \in Calls /\ (status[ent[c]] = "usable" => refCount[ent[c]] = 0)
    BY <1>t, <2>1 DEF ClaimsReal, Claims, ClaimsOf
  <2> QED
    BY <1>m, <2>1, <2>2, PointTypes DEF Disposing, Uses, LeavesUnused, HolderStep, HoldsOn
<1>8. ASSUME NEW c \in Calls, Retry(c) PROVE Uses
  <2>1. pc[c] = "woken" /\ acquireSlot(c) /\ UNCHANGED ent
    BY <1>8 DEF Retry
  <2>2. /\ \A x \in Calls \ {c} : pc'[x] = pc[x]
        /\ pc'[c] \in {"creating", "parked", "failed"}
    BY <1>t, <2>1, SlotEffect
  <2> QED
    BY <1>t, <2>1, <2>2, SlotUse DEF Uses, HolderStep, HoldsOn
<1>9. ASSUME NEW c \in Calls, FactoryResolves(c), insert(c) PROVE Uses
  <2>1. /\ pc[c] = "creating" /\ pc' = Move(c, "got") /\ ent' = [ent EXCEPT ![c] = c]
        /\ status' = [status EXCEPT ![c] = "usable"] /\ UNCHANGED refCount
    BY <1>9 DEF FactoryResolves, insert
  <2>2. status[c] = "absent"
    BY <2>1 DEF Claims, ClaimsOf
  <2> QED
    BY <1>t, <1>m, <2>1, <2>2, PointTypes DEF Uses, LeavesUnused, HolderStep, HoldsOn
<1>10. ASSUME NEW c \in Calls, NEW s \in {"discarding", "failed"}, pc[c] = "creating",
              releaseReservation(Move(c, s)), UNCHANGED <<ent, resVars>>
       PROVE  Uses
  <2>1. s \in PCs
    BY DEF PCs, InFlight, Running
  <2>2. /\ pc'[c] = s
        /\ \A x \in Calls \ {c} : pc'[x] = pc[x] \/ (pc[x] = "parked" /\ pc'[x] = "woken")
    BY <1>t, <1>10, <2>1, ReservationEffect
  <2> QED
    BY <1>q, <1>10, <2>2 DEF HoldsOn, resVars
<1>11. ASSUME NEW c \in Calls, FactoryResolves(c) \/ FactoryRejects(c) PROVE Uses
  BY <1>9, <1>10, <1>11 DEF FactoryResolves, discard, FactoryRejects, resVars
<1>12. ASSUME NEW c \in Calls, Release(c) PROVE Uses
  BY <1>12, ReleaseUse DEF Release
<1>13. ASSUME NEW c \in Calls, ReleaseKey(c) PROVE Uses
  BY <1>13, ReleaseKeyIsRelease DEF ReleaseKey
<1>14. ASSUME NEW e \in Calls, DisposeDone(e) PROVE Uses
  <2>1. /\ status[e] = "disposing" /\ status' = [status EXCEPT ![e] = "disposed"]
        /\ UNCHANGED <<pc, ent, refCount>>
    BY <1>14 DEF DisposeDone, callVars
  <2> QED
    BY <1>t, <2>1, PointTypes DEF Uses, LeavesUnused, HolderStep, HoldsOn
<1>15. ASSUME NEW d \in Drains, Drain(d) PROVE Uses
  <2>1. /\ \A x \in Calls : pc'[x] = IF pc[x] = "parked" THEN "failed" ELSE pc[x]
        /\ UNCHANGED <<ent, refCount>>
    BY <1>t, <1>15 DEF Drain, setClosed, ParkedListed
  <2>2. \A e \in Calls : status'[e] = IF entries[KeyOf[e]] = e /\ refCount[e] = 0
                                      THEN "disposing" ELSE status[e]
    BY <1>t, <1>15, Drained
  <2> QED
    BY <2>1, <2>2 DEF Uses, LeavesUnused, HolderStep, HoldsOn
<1>16. ASSUME NEW n \in DOMAIN idle, Sweep(n) PROVE Uses
  <2>1. PICK V : /\ V \subseteq Elements(idle) /\ status' = Disposing(V)
                 /\ Wake(pc, Cardinality(V))
    BY <1>16 DEF Sweep, Evictable, Elements
  <2>2. Cardinality(V) \in Nat
    <3>1. V \subseteq Calls
      BY <1>t, <2>1, PointTypes
    <3> QED
      BY <3>1, CallsAssumption, FS_Subset, FS_CardinalityType
  <2>3. pc \in [Calls -> PCs] /\ UNCHANGED <<ent, refCount>>
    BY <1>t, <1>16 DEF Types, Sweep
  <2>4. \A x \in Calls : pc'[x] = pc[x] \/ (pc[x] = "parked" /\ pc'[x] = "woken")
    BY <1>t, <2>1, <2>2, <2>3, WakeEffect
  <2>5. LeavesUnused
    BY <1>t, <2>1, <2>3, PointTypes DEF LeavesUnused, Disposing, Listed
  <2> QED
    BY <2>3, <2>4, <2>5 DEF Uses, HolderStep, HoldsOn
<1>17. ASSUME NEW d \in Drains, DrainDone(d) PROVE Uses
  BY <1>q, <1>17 DEF DrainDone, callVars, resVars, HoldsOn
<1>18. CASE Start \/ UNCHANGED vars
  BY <1>q, <1>18 DEF Start, vars, callVars, resVars, HoldsOn
<1> QED
  BY <1>2, <1>3, <1>4, <1>5, <1>6, <1>7, <1>8, <1>11, <1>12, <1>13, <1>14, <1>15, <1>16,
     <1>17, <1>18
     DEF Next, Acquire, Obtain, Validated, Created, Settled, Released

-----------------------------------------------------------------------------
(* The maps.                                                               *)

TablesKept ==
  \A k \in Keys : /\ entries[k] # NoEntry => entries'[k] \in {entries[k], NoEntry}
                  /\ orphans[k] # NoEntry => orphans'[k] \in {orphans[k], NoEntry}

LEMMA SlotKeeps ==
  ASSUME Types, NEW c \in Calls, acquireSlot(c)
  PROVE  TablesKept
<1>1. CASE UNCHANGED <<entries, orphans>>
  BY <1>1 DEF TablesKept
<1>2. CASE EvictFor(c)
  <2>1. PICK k : entries' = [entries EXCEPT ![k] = NoEntry]
    BY <1>2 DEF EvictFor
  <2>2. UNCHANGED orphans
    BY DEF acquireSlot
  <2> QED
    BY <2>1, <2>2, PointTypes DEF TablesKept
<1> QED
  BY <1>1, <1>2 DEF acquireSlot, Bounded, ParkOrReject

LEMMA MissingKeeps ==
  ASSUME Types, NEW c \in Calls, Missing(c), entries[KeyOf[c]] = NoEntry
  PROVE  TablesKept
<1>1. CASE Resurrect(c)
  BY <1>1, PointTypes DEF Resurrect, TablesKept
<1>2. CASE Refuse(c)
  BY <1>2 DEF Refuse, tableVars, TablesKept
<1>3. CASE GoForSlot(c)
  BY <1>3, SlotKeeps DEF GoForSlot
<1> QED
  BY <1>1, <1>2, <1>3 DEF Missing

LEMMA ReleaseKeeps ==
  ASSUME Types, Maps, NEW e \in Calls, NEW f, releaseEntry(e, f)
  PROVE  TablesKept
<1>1. CASE UNCHANGED <<entries, orphans>>
  BY <1>1 DEF TablesKept
<1>2. CASE removeEntry(e) /\ status' = Disposing({e})
  BY <1>2, Removed DEF TablesKept
<1> QED
  BY <1>1, <1>2 DEF releaseEntry, LastRelease, BackToIdle, tableVars

LEMMA TablesKeptStep ==
  ASSUME Base, Claims, Maps, [Next]_vars
  PROVE  TablesKept
<1>t. Types /\ ClaimsReal
  BY DEF Base
<1>1. CASE UNCHANGED <<entries, orphans>>
  BY <1>1 DEF TablesKept
<1>2. ASSUME NEW c \in Calls, Replace(c) \/ ObtainMissing(c) PROVE TablesKept
  <2>1. entries[KeyOf[c]] = NoEntry
    BY <1>t, <1>2, PointTypes DEF Replace, ObtainMissing, isUsable, Maps, Claims, ClaimsOf, Vacant
  <2> QED
    BY <1>t, <1>2, <2>1, MissingKeeps DEF Replace, ObtainMissing
<1>3. ASSUME NEW c \in Calls, ValidateStale(c) PROVE TablesKept
  BY <1>t, <1>3, Removed DEF ValidateStale, ClaimsReal, TablesKept
<1>4. ASSUME NEW c \in Calls, Retry(c) PROVE TablesKept
  BY <1>t, <1>4, SlotKeeps DEF Retry
<1>5. ASSUME NEW c \in Calls, FactoryResolves(c) PROVE TablesKept
  <2>1. CASE insert(c)
    <3>1. Vacant(KeyOf[c])
      BY <1>5 DEF FactoryResolves, Claims, ClaimsOf
    <3> QED
      BY <1>t, <2>1, <3>1, PointTypes DEF insert, Vacant, TablesKept
  <2>2. CASE discard(c)
    BY <1>1, <2>2 DEF discard, tableVars
  <2> QED
    BY <1>5, <2>1, <2>2 DEF FactoryResolves
<1>6. ASSUME NEW c \in Calls, Release(c) PROVE TablesKept
  BY <1>t, <1>6, ReleaseKeeps DEF Release, ClaimsReal
<1>7. ASSUME NEW c \in Calls, ReleaseKey(c) PROVE TablesKept
  <2> DEFINE k == KeyOf[c]
             e == IF entries[k] # NoEntry THEN entries[k] ELSE orphans[k]
  <2>1. CASE e = NoEntry
    BY <1>1, <1>7, <2>1 DEF ReleaseKey, tableVars
  <2>2. CASE e # NoEntry
    <3>1. e \in Calls /\ releaseEntry(e, Move(c, "done"))
      BY <1>t, <1>7, <2>2, PointTypes DEF ReleaseKey, Entry
    <3> HIDE DEF e
    <3> QED
      BY <1>t, <3>1, ReleaseKeeps
  <2> QED
    BY <2>1, <2>2
<1>8. ASSUME NEW d \in Drains, Drain(d) PROVE TablesKept
  BY <1>t, <1>8, Drained DEF TablesKept, Maps
<1>9. ASSUME NEW n \in DOMAIN idle, Sweep(n) PROVE TablesKept
  BY <1>9 DEF Sweep, TablesKept
<1>10. ASSUME NEW c \in Calls, \/ AcquireFast(c) \/ AcquireQueued(c) \/ ObtainLive(c)
                               \/ ValidateOk(c) \/ ValidateThrows(c) \/ Timeout(c)
                               \/ FactoryRejects(c) \/ DiscardDone(c) \/ Settle(c)
                               \/ SettleFailed(c) \/ DisposeDone(c)
       PROVE TablesKept
  BY <1>1, <1>10
     DEF AcquireFast, AcquireQueued, ObtainLive, UseLive, ValidateOk, ValidateThrows, Timeout,
         FactoryRejects, DiscardDone, Settle, SettleFailed, DisposeDone, tableVars
<1>11. ASSUME NEW d \in Drains, DrainDone(d) PROVE TablesKept
  BY <1>1, <1>11 DEF DrainDone, tableVars
<1>12. CASE Start \/ UNCHANGED vars
  BY <1>1, <1>12 DEF Start, vars, tableVars
<1> QED
  BY <1>2, <1>3, <1>4, <1>5, <1>6, <1>7, <1>8, <1>9, <1>10, <1>11, <1>12
     DEF Next, Acquire, Obtain, Validated, Created, Settled, Released

LEMMA TablesInit == Init => Tables
<1> SUFFICES ASSUME Init PROVE Tables
  OBVIOUS
<1>1. Claims /\ Maps
  BY CallsAssumption DEF Init, Claims, ClaimsOf, Maps
<1>2. Listed
  BY EmptySeq DEF Init, Listed, Elements
<1> QED
  BY <1>1, <1>2 DEF Tables

(* No entry of the live map and no orphan is ever overwritten by another   *)
(* resource: not by an insert after the factory's await, not by a          *)
(* resurrection, not by a drain, through any number of reopenings.         *)
THEOREM NothingOverwritten == Spec => NeverOverwritten
<1>1. Base /\ Tables /\ [Next]_vars => Base' /\ Tables'
  BY BaseStep, TablesStep DEF Tables
<1>2. Base /\ Tables /\ [Next]_vars => TablesKept
  BY TablesKeptStep DEF Tables
<1>3. TablesKept => [\A k \in Keys :
                        /\ entries[k] # NoEntry => entries'[k] \in {entries[k], NoEntry}
                        /\ orphans[k] # NoEntry => orphans'[k] \in {orphans[k], NoEntry}]_vars
  BY DEF TablesKept
<1> QED
  BY <1>1, <1>2, <1>3, BaseInit, TablesInit, PTL DEF Spec, NeverOverwritten
=============================================================================
