--------------------------- MODULE RefPoolService ---------------------------
(***************************************************************************)
(* Theorems about what the pool promises until a start() follows a drain:  *)
(* resources stay with their holders, one per key and never too many, the  *)
(* idle list is exact, no wakeup is lost, a closed pool forgets nothing,   *)
(* and the pool is the broker of ResourceBroker, its shutdown included.    *)
(***************************************************************************)
EXTENDS RefPoolProofs

-----------------------------------------------------------------------------
(* The invariant.                                                          *)

(* No drain() has been called yet.                                         *)
Undrained == \A d \in Drains : draining[d] = "idle"

(* No drain() has been called, or none that a start() may follow.          *)
NotReopened == Undrained \/ ~MayReopen

Lifecycle ==
  /\ ~closed => Undrained
  /\ closed => ~started
  /\ ~closed => condemned = {} /\ \A k \in Keys : orphans[k] = NoEntry

(* The calls that are to use, or use, a resource.                          *)
Users == {"validating", "got", "holding"}
UsersLive == \A c \in Calls : pc[c] \in Users => entries[KeyOf[c]] = ent[c]

AllCondemned == \A e \in Calls : status[e] = "usable" => e \in condemned

Grounded ==
  /\ Lifecycle /\ Reachable /\ HeldMapped
  /\ ~closed => UsersLive
  /\ closed => AllCondemned
  /\ CapacityBound

Kept == Grounded /\ (~closed => IdleMembership)

(* Counts are exact after a reopening too, unless release(key) is used:    *)
(* its comment says that it cannot tell whose reference it drops.          *)
Counted == (ReleaseByKey => NotReopened) => RefCountExact
Closing == Undrained => ~closed
NobodyParked == closed \/ Max <= 0 => waiters = <<>>

PoolInv ==
  /\ Base /\ Tables
  /\ Counted /\ Closing /\ NobodyParked
  /\ NotReopened => Kept

-----------------------------------------------------------------------------
(* What a step of such a pool does to the maps, other than a drain().      *)

Flags ==
  /\ UNCHANGED <<closed, condemned>>
  /\ closed => UNCHANGED started
  /\ ~closed => UNCHANGED draining
Slots(V) ==
  \/ reserved' <= reserved
  \/ /\ ~closed /\ reserved' = reserved + 1
     /\ Room \/ \E k \in Keys : entries[k] \in V
Removes(V) ==
  /\ V \subseteq Calls
  /\ \A k \in Keys : /\ entries'[k] = IF entries[k] \in V THEN NoEntry ELSE entries[k]
                     /\ orphans'[k] = IF orphans[k] \in V THEN NoEntry ELSE orphans[k]
  /\ \A e \in Calls : status'[e] = "usable" <=> status[e] = "usable" /\ e \notin V
  /\ ~closed => \A x \in Calls : pc'[x] \in Users => ent'[x] \notin V
  /\ Max > 0 => Slots(V)
Inserts(c) ==
  /\ ~closed /\ c \in Calls /\ Vacant(KeyOf[c])
  /\ entries' = [entries EXCEPT ![KeyOf[c]] = c]
  /\ status' = [status EXCEPT ![c] = "usable"]
  /\ UNCHANGED orphans /\ reserved' = reserved - 1
Resurrects(k) ==
  /\ k \in Keys /\ entries[k] = NoEntry /\ orphans[k] # NoEntry
  /\ entries' = [entries EXCEPT ![k] = orphans[k]]
  /\ orphans' = [orphans EXCEPT ![k] = NoEntry]
  /\ UNCHANGED <<status, reserved>>
UserStep ==
  \A x \in Calls : pc'[x] \in Users => \/ pc[x] \in Users /\ ent'[x] = ent[x]
                                       \/ entries'[KeyOf[x]] = ent'[x]
TableStep ==
  /\ Flags /\ UserStep
  /\ \/ \E V \in SUBSET Calls : Removes(V)
     \/ \E c \in Calls : Inserts(c)
     \/ \E k \in Keys : Resurrects(k)

LEMMA NothingRemoved ==
  ASSUME Types, Flags, UserStep, UNCHANGED <<entries, orphans>>,
         \A e \in Calls : status'[e] = "usable" <=> status[e] = "usable",
         Max > 0 => Slots({})
  PROVE  TableStep
<1>1. Removes({})
  BY DEF Removes
<1> QED
  BY <1>1 DEF TableStep

(* A resource without holders may be removed: of the calls that do not     *)
(* run, only holders use one.                                              *)
LEMMA UnusedIdle ==
  ASSUME Types, ClaimsReal, Maps, RefCountExact, Kept, ~closed,
         NEW e \in Calls, e \in Elements(idle), ~isPending(KeyOf[e]),
         NEW x \in Calls, pc[x] \in Users
  PROVE  ent[x] # e
<1>1. entries[KeyOf[e]] = e /\ refCount[e] = 0 /\ status[e] = "usable"
  BY PointTypes DEF Kept, Grounded, IdleMembership, Maps
<1>2. \A y \in Calls : ~(pc[y] = "holding" /\ ent[y] = e)
  BY <1>1, HoldersFinite DEF RefCountExact
<1>3. ASSUME ent[x] = e PROVE FALSE
  <2>1. pc[x] \in {"validating", "got"} /\ pc[x] \in InFlight
    BY <1>2, <1>3 DEF Users, InFlight, Running
  <2>2. entries[KeyOf[x]] = e
    BY <1>3 DEF Kept, Grounded, UsersLive
  <2>3. KeyOf[e] = KeyOf[x]
    BY <1>1, <2>2, PointTypes DEF Maps
  <2> QED
    BY <2>1, <2>3 DEF isPending
<1> QED
  BY <1>3

LEMMA SlotTables ==
  ASSUME Base, Tables, RefCountExact, Kept, NEW c \in Calls, acquireSlot(c),
         pc[c] \in {"queued", "replacing", "woken"},
         \A x \in Calls \ {c} : ent'[x] = ent[x]
  PROVE  TableStep
<1>t. Types /\ ParkedListed /\ ClaimsReal /\ Maps
  BY DEF Base, Tables
<1>1. /\ \A x \in Calls \ {c} : pc'[x] = pc[x]
      /\ pc'[c] \in {"creating", "parked", "failed"}
  BY <1>t, SlotEffect
<1>2. Flags /\ UNCHANGED orphans
  BY DEF acquireSlot, Flags, lifeVars
<1>3. \A x \in Calls : pc'[x] \in Users => pc[x] \in Users /\ ent'[x] = ent[x]
  BY <1>1 DEF Users
<1>4. UserStep
  BY <1>3 DEF UserStep
<1>5. CASE UNCHANGED <<entries, status>> /\ (Max > 0 => Slots({}))
  BY <1>t, <1>2, <1>4, <1>5, NothingRemoved
<1>6. CASE ~closed /\ EvictFor(c)
  <2>1. PICK i \in Evictable :
          /\ entries' = [entries EXCEPT ![KeyOf[idle[i]]] = NoEntry]
          /\ status' = Disposing({idle[i]})
          /\ Reserve(c)
    BY <1>6 DEF EvictFor
  <2> DEFINE v == idle[i]
  <2>2. v \in Elements(idle) /\ v \in Calls /\ ~isPending(KeyOf[v])
    BY <1>t, <2>1, PointTypes DEF Elements, Evictable
  <2>3. entries[KeyOf[v]] = v
    BY <1>6, <2>2 DEF Kept, Grounded, IdleMembership
  <2>4. /\ \A k \in Keys : /\ entries'[k] = IF entries[k] \in {v} THEN NoEntry ELSE entries[k]
                           /\ orphans'[k] = IF orphans[k] \in {v} THEN NoEntry ELSE orphans[k]
    BY <1>t, <1>2, <1>6, <2>1, <2>2, <2>3, PointTypes DEF Maps, Kept, Grounded, Lifecycle
  <2>5. \A e \in Calls : status'[e] = "usable" <=> status[e] = "usable" /\ e \notin {v}
    BY <2>1 DEF Disposing
  <2>6. \A x \in Calls : pc'[x] \in Users => ent'[x] \notin {v}
    BY <1>t, <1>3, <1>6, <2>2, UnusedIdle
  <2>7. Slots({v})
    BY <1>t, <1>6, <2>1, <2>2, <2>3, PointTypes DEF Slots, Reserve
  <2> HIDE DEF v
  <2>8. Removes({v})
    BY <2>2, <2>4, <2>5, <2>6, <2>7 DEF Removes
  <2> QED
    BY <1>2, <1>4, <2>2, <2>8 DEF TableStep
<1>7. CASE Max <= 0
  <2>1. ~(Max > 0)
    BY <1>7, OptionsAssumption
  <2> QED
    BY <1>5, <1>7, <2>1 DEF acquireSlot
<1>8. CASE Max > 0 /\ Bounded(c)
  <2>1. reserved \in Int
    BY <1>t DEF Types
  <2>2. CASE reserved' = reserved /\ UNCHANGED <<entries, status>>
    BY <1>5, <2>1, <2>2 DEF Slots
  <2>3. CASE ~closed /\ Room /\ Reserve(c) /\ UNCHANGED <<entries, status>>
    BY <1>5, <2>1, <2>3 DEF Slots, Reserve
  <2> QED
    BY <1>6, <1>8, <2>2, <2>3 DEF Bounded, ParkOrReject
<1> QED
  BY <1>7, <1>8, OptionsAssumption DEF acquireSlot

LEMMA MissingTables ==
  ASSUME Base, Tables, RefCountExact, Kept, NEW c \in Calls, Missing(c),
         pc[c] \in {"queued", "replacing"}, entries[KeyOf[c]] = NoEntry
  PROVE  TableStep
<1>t. Types /\ ParkedListed /\ ClaimsReal /\ Maps
  BY DEF Base, Tables
<1>0. /\ \A x \in Calls \ {c} : pc'[x] = pc[x] /\ ent'[x] = ent[x]
      /\ pc'[c] \in {"got", "creating", "parked", "failed"}
  BY <1>t, MissingEffect
<1>1. CASE Resurrect(c)
  <2> DEFINE k == KeyOf[c]
  <2>1. k \in Keys /\ entries[k] = NoEntry /\ orphans[k] # NoEntry
    BY <1>t, <1>1, PointTypes DEF Resurrect, isUsable
  <2>2. /\ entries' = [entries EXCEPT ![k] = orphans[k]]
        /\ orphans' = [orphans EXCEPT ![k] = NoEntry]
        /\ ent' = [ent EXCEPT ![c] = orphans[k]]
        /\ UNCHANGED <<status, reserved>>
    BY <1>1 DEF Resurrect, resVars, slotVars
  <2>3. Resurrects(k) /\ Flags
    BY <1>1, <2>1, <2>2 DEF Resurrects, Flags, Resurrect, resVars, lifeVars
  <2>4. UserStep
    BY <1>t, <1>0, <2>1, <2>2, PointTypes DEF UserStep
  <2> QED
    BY <2>1, <2>3, <2>4 DEF TableStep
<1>2. CASE Refuse(c)
  <2>1. UserStep
    BY <1>t, <1>0, <1>2 DEF Refuse, UserStep, Users, Move, Types
  <2>2. reserved \in Int
    BY <1>t DEF Types
  <2>3. Flags /\ UNCHANGED <<entries, orphans, status, reserved>>
    BY <1>2 DEF Refuse, Flags, tableVars, resVars, slotVars, lifeVars
  <2> QED
    BY <1>t, <2>1, <2>2, <2>3, NothingRemoved DEF Slots
<1>3. CASE GoForSlot(c)
  BY <1>0, <1>3, SlotTables DEF GoForSlot
<1> QED
  BY <1>1, <1>2, <1>3 DEF Missing

(* A release removes at most its own resource, once nobody holds it.       *)
LEMMA ReleaseTables ==
  ASSUME Base, Tables, Grounded, NEW c \in Calls, pc[c] = "holding",
         releaseEntry(ent[c], Move(c, "done")), ent' = [ent EXCEPT ![c] = NoEntry],
         UNCHANGED <<condemned, reserved, lifeVars>>
  PROVE  TableStep
<1> DEFINE e == ent[c]
<1>t. Types /\ ParkedListed /\ Maps /\ e \in Calls /\ reserved \in Int
  BY DEF Base, Tables, ClaimsReal, Types
<1>1. /\ pc'[c] = "done"
      /\ \A x \in Calls \ {c} : /\ pc'[x] = pc[x] \/ (pc[x] = "parked" /\ pc'[x] = "woken")
                                /\ ent'[x] = ent[x]
  <2>1. \A x \in Calls \ {c} : ent'[x] = ent[x]
    BY <1>t, PointTypes
  <2> QED
    BY <1>t, <2>1, ReleaseEffect
<1>2. UserStep
  BY <1>1 DEF UserStep, Users
<1>3. Flags /\ Slots({}) /\ Slots({e})
  BY <1>t DEF Flags, Slots, lifeVars
<1>4. CASE UNCHANGED <<entries, orphans, status>>
  BY <1>t, <1>2, <1>3, <1>4, NothingRemoved
<1>5. CASE removeEntry(e) /\ status' = Disposing({e}) /\ isCondemned(e)
  <2>1. /\ \A k \in Keys : /\ entries'[k] = IF entries[k] \in {e} THEN NoEntry ELSE entries[k]
                           /\ orphans'[k] = IF orphans[k] \in {e} THEN NoEntry ELSE orphans[k]
        /\ \A x \in Calls : status'[x] = "usable" <=> status[x] = "usable" /\ x \notin {e}
    BY <1>t, <1>5, Removed
  <2>2. closed
    BY <1>t, <1>5, PointTypes DEF isCondemned, Grounded, Lifecycle
  <2> HIDE DEF e
  <2>3. Removes({e})
    BY <1>t, <1>3, <2>1, <2>2 DEF Removes
  <2> QED
    BY <1>2, <1>3, <2>3, <1>t DEF TableStep
<1> QED
  BY <1>4, <1>5 DEF releaseEntry, LastRelease, BackToIdle, tableVars

(* A quiet step of the maps: calls move, and what they come to use is live.*)
LEMMA MapsAlone ==
  ASSUME Types, UserStep,
         UNCHANGED <<entries, orphans, status, reserved, condemned, lifeVars>>
  PROVE  TableStep
<1>1. reserved \in Int
  BY DEF Types
<1> QED
  BY <1>1, NothingRemoved DEF Flags, Slots, lifeVars

LEMMA AcquireTables ==
  ASSUME Base, Tables, NEW c \in Calls, Acquire(c)
  PROVE  TableStep
<1>t. Types
  BY DEF Base
<1>m. \A s : /\ Move(c, s)[c] = s
            /\ \A x \in Calls \ {c} : Move(c, s)[x] = pc[x]
  BY <1>t DEF Types, Move
<1>1. CASE AcquireFast(c)
  <2>1. /\ pc' = Move(c, "holding") /\ ent' = [ent EXCEPT ![c] = entries[KeyOf[c]]]
        /\ UNCHANGED <<entries, orphans, status, reserved, condemned, lifeVars>>
    BY <1>1 DEF AcquireFast, checkout, slotVars
  <2>2. UserStep
    BY <1>t, <1>m, <2>1, PointTypes DEF UserStep
  <2> QED
    BY <1>t, <2>1, <2>2, MapsAlone DEF lifeVars
<1>2. CASE AcquireQueued(c)
  <2>1. /\ pc' = Move(c, "queued")
        /\ UNCHANGED <<ent, entries, orphans, status, reserved, condemned, lifeVars>>
    BY <1>2 DEF AcquireQueued, tableVars, resVars, slotVars
  <2>2. UserStep
    BY <1>m, <2>1 DEF UserStep, Users
  <2> QED
    BY <1>t, <2>1, <2>2, MapsAlone DEF lifeVars
<1> QED
  BY <1>1, <1>2 DEF Acquire

LEMMA TableSteps ==
  ASSUME Base, Tables, RefCountExact, Kept, [Next]_vars, Start => ~closed
  PROVE  TableStep \/ \E d \in Drains : Drain(d)
<1>t. Types /\ ClaimsReal /\ ParkedListed /\ Claims /\ Maps /\ Listed /\ reserved \in Int
  BY DEF Base, Tables, Types
<1>m. \A c \in Calls : \A s : /\ Move(c, s)[c] = s
                              /\ \A x \in Calls \ {c} : Move(c, s)[x] = pc[x]
  BY <1>t DEF Types, Move
<1>q. ASSUME UserStep, UNCHANGED <<entries, orphans, status, reserved, condemned, lifeVars>>
      PROVE  TableStep
  BY <1>t, <1>q, MapsAlone
<1>1. ASSUME NEW c \in Calls, Acquire(c) PROVE TableStep
  BY <1>1, AcquireTables
<1>2. ASSUME NEW c \in Calls, \/ ValidateOk(c) \/ ValidateThrows(c) \/ DiscardDone(c)
                              \/ Timeout(c) \/ Settle(c) \/ SettleFailed(c)
      PROVE TableStep
  <2>1. /\ pc'[c] \in Users => pc[c] \in Users /\ ent'[c] = ent[c]
        /\ \A x \in Calls \ {c} : pc'[x] = pc[x] /\ ent'[x] = ent[x]
    BY <1>t, <1>m, <1>2, PointTypes
       DEF ValidateOk, ValidateThrows, DiscardDone, Timeout, Settle, checkout,
           SettleFailed, Users
  <2>2. UNCHANGED <<entries, orphans, status, reserved, condemned, lifeVars>>
    BY <1>2
       DEF ValidateOk, ValidateThrows, DiscardDone, Timeout, Settle, checkout,
           SettleFailed, tableVars, resVars, slotVars
  <2> QED
    BY <1>q, <2>1, <2>2 DEF UserStep, lifeVars
<1>3. ASSUME NEW c \in Calls, ObtainLive(c) PROVE TableStep
  <2>1. /\ ent' = [ent EXCEPT ![c] = entries[KeyOf[c]]]
        /\ \A x \in Calls \ {c} : pc'[x] = pc[x]
        /\ UNCHANGED <<entries, orphans, status, reserved, condemned, lifeVars>>
    BY <1>m, <1>3 DEF ObtainLive, UseLive, tableVars, resVars, slotVars
  <2>2. UserStep
    BY <1>t, <2>1, PointTypes DEF UserStep
  <2> QED
    BY <1>q, <2>1, <2>2 DEF lifeVars
<1>4. ASSUME NEW c \in Calls, ObtainMissing(c) \/ Replace(c) PROVE TableStep
  <2>1. entries[KeyOf[c]] = NoEntry
    BY <1>t, <1>4, PointTypes DEF Replace, ObtainMissing, isUsable, Maps, Claims, ClaimsOf, Vacant
  <2> QED
    BY <1>4, <2>1, MissingTables DEF Replace, ObtainMissing, Turn
<1>5. ASSUME NEW c \in Calls, ValidateStale(c) PROVE TableStep
  <2> DEFINE e == ent[c]
  <2>1. /\ e \in Calls /\ pc[c] = "validating" /\ pc' = Move(c, "replacing")
        /\ removeEntry(e) /\ status' = Disposing({e})
        /\ UNCHANGED <<ent, reserved, condemned, lifeVars>>
    BY <1>t, <1>5 DEF ValidateStale, ClaimsReal, slotVars
  <2>2. /\ \A k \in Keys : /\ entries'[k] = IF entries[k] \in {e} THEN NoEntry ELSE entries[k]
                           /\ orphans'[k] = IF orphans[k] \in {e} THEN NoEntry ELSE orphans[k]
        /\ \A x \in Calls : status'[x] = "usable" <=> status[x] = "usable" /\ x \notin {e}
    BY <1>t, <2>1, Removed
  <2>3. ASSUME ~closed, NEW x \in Calls, pc'[x] \in Users PROVE ent'[x] # e
    <3>1. x # c /\ pc[x] \in Users /\ ent'[x] = ent[x]
      BY <1>m, <2>1, <2>3 DEF Users
    <3>2. entries[KeyOf[c]] = e /\ status[e] = "usable" /\ refCount[e] = 0 /\ KeyOf[e] = KeyOf[c]
      BY <1>t, <2>1, <2>3, PointTypes DEF Kept, Grounded, UsersLive, Users, Maps, Claims, ClaimsOf
    <3>3. pc[x] = "holding" => ent[x] # e
      BY <2>1, <3>2, HoldersFinite DEF RefCountExact
    <3>4. pc[x] \in {"validating", "got"} => KeyOf[x] # KeyOf[c]
      BY <2>1, <3>1, Alone DEF Running
    <3>5. pc[x] \in {"validating", "got"} /\ ent[x] = e => KeyOf[e] = KeyOf[x]
      BY <1>t DEF Claims, ClaimsOf
    <3> QED
      BY <3>1, <3>2, <3>3, <3>4, <3>5 DEF Users
  <2>4. UserStep
    BY <1>m, <2>1 DEF UserStep, Users
  <2>5. Flags /\ Slots({e})
    BY <1>t, <2>1 DEF Flags, Slots, lifeVars
  <2> HIDE DEF e
  <2>6. Removes({e})
    BY <2>1, <2>2, <2>3, <2>5 DEF Removes
  <2> QED
    BY <2>1, <2>4, <2>5, <2>6 DEF TableStep
<1>6. ASSUME NEW c \in Calls, Retry(c) PROVE TableStep
  BY <1>6, SlotTables DEF Retry
<1>7. ASSUME NEW c \in Calls, NEW s \in {"discarding", "failed"}, pc[c] = "creating",
             releaseReservation(Move(c, s)), UNCHANGED <<ent, tableVars, resVars, lifeVars>>
       PROVE  TableStep
  <2>1. s \in PCs
    BY DEF PCs, InFlight, Running
  <2>2. /\ pc'[c] = s
        /\ \A x \in Calls \ {c} : pc'[x] = pc[x] \/ (pc[x] = "parked" /\ pc'[x] = "woken")
    BY <1>t, <1>7, <2>1, ReservationEffect
  <2>3. UserStep
    BY <1>7, <2>2 DEF UserStep, Users
  <2>4. Slots({})
    BY <1>t, <1>7 DEF Slots, releaseReservation
  <2> QED
    BY <1>t, <1>7, <2>3, <2>4, NothingRemoved DEF Flags, tableVars, resVars, lifeVars
<1>8. ASSUME NEW c \in Calls, FactoryResolves(c) \/ FactoryRejects(c) PROVE TableStep
  <2>1. CASE FactoryRejects(c)
    BY <1>7, <2>1 DEF FactoryRejects
  <2>2. CASE FactoryResolves(c) /\ closed
    BY <1>7, <2>2 DEF FactoryResolves, discard, resVars
  <2>3. CASE FactoryResolves(c) /\ ~closed
    <3>1. pc[c] = "creating" /\ insert(c) /\ UNCHANGED <<condemned, lifeVars>>
      BY <2>3 DEF FactoryResolves
    <3>2. Inserts(c)
      BY <1>t, <2>3, <3>1 DEF Inserts, insert, Claims, ClaimsOf
    <3>3. UserStep
      BY <1>t, <1>m, <3>1, PointTypes DEF insert, UserStep
    <3> QED
      BY <3>1, <3>2, <3>3 DEF TableStep, Flags, lifeVars
  <2> QED
    BY <1>8, <2>1, <2>2, <2>3
<1>9. ASSUME NEW c \in Calls, Release(c) PROVE TableStep
  BY <1>9, ReleaseTables DEF Release, Kept
<1>10. ASSUME NEW c \in Calls, ReleaseKey(c) PROVE TableStep
  <2> DEFINE k == KeyOf[c]
             e == IF entries[k] # NoEntry THEN entries[k] ELSE orphans[k]
  <2>1. /\ pc[c] = "holding" /\ e \in {ent[c], NoEntry}
        /\ ent' = [ent EXCEPT ![c] = NoEntry] /\ UNCHANGED <<condemned, reserved, lifeVars>>
    BY <1>10 DEF ReleaseKey, Kept, Grounded, HeldMapped, OnlyMapped
  <2>2. CASE e = NoEntry
    <3>1. pc' = Move(c, "done") /\ UNCHANGED <<entries, orphans, status>>
      BY <1>10, <2>2 DEF ReleaseKey, tableVars
    <3>2. UserStep
      BY <1>t, <1>m, <2>1, <3>1, PointTypes DEF UserStep, Users
    <3> QED
      BY <1>q, <2>1, <3>1, <3>2 DEF lifeVars
  <2>3. CASE e = ent[c] /\ e # NoEntry
    <3>1. releaseEntry(ent[c], Move(c, "done"))
      BY <1>10, <2>3 DEF ReleaseKey
    <3> QED
      BY <2>1, <3>1, ReleaseTables DEF Kept
  <2> QED
    BY <2>1, <2>2, <2>3
<1>11. ASSUME NEW e \in Calls, DisposeDone(e) PROVE TableStep
  <2>1. /\ status[e] = "disposing" /\ status' = [status EXCEPT ![e] = "disposed"]
        /\ UNCHANGED <<pc, ent, entries, orphans, reserved, condemned, lifeVars>>
    BY <1>11 DEF DisposeDone, callVars, tableVars, slotVars
  <2>2. \A x \in Calls : status'[x] = "usable" <=> status[x] = "usable"
    BY <1>t, <2>1, PointTypes
  <2> QED
    BY <1>t, <2>1, <2>2, NothingRemoved DEF Flags, UserStep, Slots, lifeVars
<1>12. ASSUME NEW n \in DOMAIN idle, Sweep(n) PROVE TableStep
  <2> DEFINE V == {idle[i] : i \in Evictable \cap 1..n}
  <2>1. /\ entries' = [k \in Keys |-> IF \E v \in V : KeyOf[v] = k
                                      THEN NoEntry ELSE entries[k]]
        /\ status' = Disposing(V)
        /\ Wake(pc, Cardinality(V))
        /\ started
        /\ UNCHANGED <<ent, orphans, condemned, reserved, lifeVars>>
    BY <1>12 DEF Sweep
  <2>2. /\ V \subseteq Elements(idle) /\ V \subseteq Calls
        /\ \A v \in V : ~isPending(KeyOf[v])
    BY <1>t, PointTypes DEF Elements, Evictable
  <2>3. ~closed
    BY <2>1 DEF Kept, Grounded, Lifecycle
  <2> HIDE DEF V
  <2>4. Cardinality(V) \in Nat
    BY <2>2, CallsAssumption, FS_Subset, FS_CardinalityType
  <2>5. \A x \in Calls : pc'[x] = pc[x] \/ (pc[x] = "parked" /\ pc'[x] = "woken")
    <3>1. pc \in [Calls -> PCs]
      BY <1>t DEF Types
    <3> QED
      BY <1>t, <2>1, <2>4, <3>1, WakeEffect
  <2>6. UserStep
    BY <2>1, <2>5 DEF UserStep, Users
  <2>7. Flags /\ Slots(V)
    BY <1>t, <2>1 DEF Flags, Slots, lifeVars
  <2>8. \A v \in V : entries[KeyOf[v]] = v
    BY <2>2, <2>3 DEF Kept, Grounded, IdleMembership
  <2>9. \A k \in Keys : /\ entries'[k] = IF entries[k] \in V THEN NoEntry ELSE entries[k]
                        /\ orphans'[k] = IF orphans[k] \in V THEN NoEntry ELSE orphans[k]
    <3> SUFFICES ASSUME NEW k \in Keys
                 PROVE  /\ entries'[k] = IF entries[k] \in V THEN NoEntry ELSE entries[k]
                        /\ orphans'[k] = IF orphans[k] \in V THEN NoEntry ELSE orphans[k]
      OBVIOUS
    <3>1. entries[k] \in V <=> \E v \in V : KeyOf[v] = k
      BY <1>t, <2>2, <2>8, PointTypes DEF Maps
    <3>2. orphans[k] = NoEntry /\ NoEntry \notin V
      BY <1>t, <2>2, <2>3, PointTypes DEF Kept, Grounded, Lifecycle
    <3> QED
      BY <2>1, <3>1, <3>2
  <2>10. \A e \in Calls : status'[e] = "usable" <=> status[e] = "usable" /\ e \notin V
    BY <2>1 DEF Disposing
  <2>11. \A x \in Calls : pc'[x] \in Users => ent'[x] \notin V
    <3> SUFFICES ASSUME NEW x \in Calls, pc'[x] \in Users PROVE ent'[x] \notin V
      OBVIOUS
    <3>1. pc[x] \in Users /\ ent'[x] = ent[x]
      BY <2>1, <2>5 DEF Users
    <3> QED
      BY <1>t, <2>2, <2>3, <3>1, UnusedIdle
  <2>12. Removes(V)
    BY <2>2, <2>7, <2>9, <2>10, <2>11 DEF Removes
  <2> QED
    BY <2>2, <2>6, <2>7, <2>12 DEF TableStep
<1>13. ASSUME NEW d \in Drains, DrainDone(d) PROVE TableStep
  <2>1. /\ UNCHANGED <<pc, ent, entries, orphans, status, condemned, reserved, closed, started>>
        /\ draining[d] = "draining"
    BY <1>13 DEF DrainDone, callVars, tableVars, resVars, slotVars
  <2>2. closed
    BY <2>1 DEF Kept, Grounded, Lifecycle, Undrained
  <2> QED
    BY <1>t, <2>1, <2>2, NothingRemoved DEF Flags, UserStep, Slots
<1>14. CASE Start
  <2>1. /\ UNCHANGED <<pc, ent, entries, orphans, status, condemned, reserved, draining>>
        /\ closed' = FALSE
    BY <1>14 DEF Start, callVars, tableVars, resVars, slotVars
  <2>2. ~closed /\ closed \in BOOLEAN
    BY <1>t, <1>14 DEF Types
  <2>3. Flags
    BY <2>1, <2>2 DEF Flags
  <2> QED
    BY <1>t, <2>1, <2>3, NothingRemoved DEF UserStep, Slots
<1>15. CASE UNCHANGED vars
  BY <1>q, <1>15 DEF vars, callVars, tableVars, resVars, slotVars, UserStep
<1> QED
  BY <1>1, <1>2, <1>3, <1>4, <1>5, <1>6, <1>8, <1>9, <1>10, <1>11, <1>12, <1>13, <1>14, <1>15
     DEF Next, Acquire, Obtain, Validated, Created, Settled, Released

-----------------------------------------------------------------------------
(* What such a step keeps.                                                 *)

LEMMA TableStepKeeps ==
  ASSUME Base, Base', Tables, Tables', Grounded, TableStep
  PROVE  /\ Lifecycle' /\ Reachable' /\ HeldMapped'
         /\ ~closed' => UsersLive'
         /\ closed' => AllCondemned'
<1>t. Flags /\ UserStep /\ Claims /\ Claims' /\ Maps /\ Maps' /\ Lifecycle /\ Reachable /\ HeldMapped
      /\ (~closed => UsersLive) /\ (closed => AllCondemned)
      /\ Types /\ Types' /\ ClaimsReal /\ ClaimsReal'
  BY DEF Base, Tables, TableStep, Grounded
<1>1. ASSUME NEW x \in Calls, pc'[x] \in Users, pc[x] \in Users, ent'[x] = ent[x]
      PROVE  OnlyMapped(x)
  BY <1>t, <1>1 DEF Users, HeldMapped, Claims, ClaimsOf
<1>2. ASSUME NEW x \in Calls, pc'[x] = "holding", entries'[KeyOf[x]] = ent'[x]
      PROVE  OnlyMapped(x)'
  <2>1. ent'[x] \in Calls /\ KeyOf[x] \in Keys
    BY <1>t, <1>2, PointTypes DEF ClaimsReal
  <2> QED
    BY <1>t, <1>2, <2>1, PointTypes DEF Maps, OnlyMapped
<1>3. CASE \E V \in SUBSET Calls : Removes(V)
  <2>1. PICK V \in SUBSET Calls : Removes(V)
    BY <1>3
  <2>2. Lifecycle'
    BY <1>t, <2>1 DEF Removes, Lifecycle, Flags, Undrained
  <2>3. Reachable'
    BY <1>t, <2>1, PointTypes DEF Removes, Reachable
  <2>4. HeldMapped'
    <3> SUFFICES ASSUME NEW x \in Calls, pc'[x] = "holding" PROVE OnlyMapped(x)'
      BY DEF HeldMapped
    <3>2. KeyOf[x] \in Keys
      BY <1>t, PointTypes
    <3>3. CASE pc[x] \in Users /\ ent'[x] = ent[x]
      BY <1>1, <2>1, <3>2, <3>3 DEF Users, OnlyMapped, Removes
    <3>4. CASE entries'[KeyOf[x]] = ent'[x]
      BY <1>2, <3>4
    <3> QED
      BY <1>t, <3>3, <3>4 DEF UserStep, Users
  <2>5. ~closed' => UsersLive'
    BY <1>t, <2>1, PointTypes DEF Removes, UsersLive, UserStep, Flags
  <2>6. closed' => AllCondemned'
    BY <1>t, <2>1 DEF Removes, AllCondemned, Flags
  <2> QED
    BY <2>2, <2>3, <2>4, <2>5, <2>6
<1>4. CASE \E c \in Calls : Inserts(c)
  <2>1. PICK c \in Calls : Inserts(c)
    BY <1>4
  <2>2. Lifecycle'
    BY <1>t, <2>1 DEF Inserts, Lifecycle, Flags, Undrained
  <2>3. Reachable'
    BY <1>t, <2>1, PointTypes DEF Inserts, Reachable, Vacant
  <2>4. \A x \in Calls : pc'[x] \in Users => entries'[KeyOf[x]] = ent'[x]
    <3> SUFFICES ASSUME NEW x \in Calls, pc'[x] \in Users, pc[x] \in Users, ent'[x] = ent[x]
                 PROVE  entries'[KeyOf[x]] = ent'[x]
      BY <1>t DEF UserStep
    <3>1. /\ entries[KeyOf[x]] = ent[x] /\ ent[x] \in Calls
          /\ KeyOf[x] \in Keys /\ KeyOf[c] \in Keys
      BY <1>t, <2>1, PointTypes DEF Inserts, UsersLive, ClaimsReal, Users
    <3>2. KeyOf[x] # KeyOf[c]
      BY <1>t, <2>1, <3>1, PointTypes DEF Inserts, Vacant
    <3> QED
      BY <1>t, <2>1, <3>1, <3>2, PointTypes DEF Inserts
  <2>5. HeldMapped'
    BY <1>2, <2>4 DEF HeldMapped, Users
  <2>6. ~closed' => UsersLive'
    BY <2>4 DEF UsersLive
  <2>7. closed' => AllCondemned'
    BY <1>t, <2>1 DEF Inserts, Flags
  <2> QED
    BY <2>2, <2>3, <2>5, <2>6, <2>7
<1>5. CASE \E k \in Keys : Resurrects(k)
  <2>1. PICK k \in Keys : Resurrects(k)
    BY <1>5
  <2>2. closed /\ closed'
    BY <1>t, <2>1 DEF Resurrects, Lifecycle, Flags
  <2>3. Lifecycle'
    BY <1>t, <2>2 DEF Lifecycle, Flags
  <2>4. Reachable'
    BY <1>t, <2>1, PointTypes DEF Resurrects, Reachable
  <2>5. HeldMapped'
    <3> SUFFICES ASSUME NEW x \in Calls, pc'[x] = "holding" PROVE OnlyMapped(x)'
      BY DEF HeldMapped
    <3>2. KeyOf[x] \in Keys
      BY <1>t, PointTypes
    <3>3. CASE pc[x] \in Users /\ ent'[x] = ent[x]
      BY <1>1, <2>1, <3>2, <3>3, PointTypes DEF Users, OnlyMapped, Resurrects
    <3>4. CASE entries'[KeyOf[x]] = ent'[x]
      BY <1>2, <3>4
    <3> QED
      BY <1>t, <3>3, <3>4 DEF UserStep, Users
  <2>6. closed' => AllCondemned'
    BY <1>t, <2>1, <2>2 DEF Resurrects, AllCondemned, Flags
  <2> QED
    BY <2>2, <2>3, <2>4, <2>5, <2>6
<1> QED
  BY <1>3, <1>4, <1>5 DEF TableStep

LEMMA DrainKeeps ==
  ASSUME Base, Base', Tables, Tables', Grounded, NEW d \in Drains, Drain(d)
  PROVE  /\ Lifecycle' /\ Reachable' /\ HeldMapped'
         /\ closed' /\ AllCondemned'
<1>t. /\ Types /\ ClaimsReal /\ ClaimsReal' /\ ParkedListed /\ Maps /\ Claims
      /\ Reachable /\ HeldMapped
  BY DEF Base, Tables, Grounded
<1>1. /\ \A x \in Calls : pc'[x] = IF pc[x] = "parked" THEN "failed" ELSE pc[x]
      /\ UNCHANGED ent
      /\ closed' = TRUE /\ started' = FALSE
  BY <1>t DEF Drain, setClosed, stopTimers, ParkedListed
<1>2. /\ \A k \in Keys :
           /\ entries'[k] = NoEntry
           /\ orphans'[k] = IF entries[k] # NoEntry /\ refCount[entries[k]] # 0
                            THEN entries[k] ELSE orphans[k]
           /\ orphans'[k] \in condemned' \union {NoEntry}
      /\ \A e \in Calls :
           /\ status'[e] = IF entries[KeyOf[e]] = e /\ refCount[e] = 0
                           THEN "disposing" ELSE status[e]
           /\ e \in condemned' <=> e \in condemned \/ orphans'[KeyOf[e]] = e
  BY <1>t, Drained
<1>3. \A e \in Calls : status'[e] = "usable" => orphans'[KeyOf[e]] = e
  BY <1>t, <1>2, PointTypes DEF Reachable, Maps
<1>4. Reachable' /\ AllCondemned'
  BY <1>2, <1>3 DEF Reachable, AllCondemned
<1>5. HeldMapped'
  BY <1>t, <1>1, <1>2, PointTypes DEF HeldMapped, OnlyMapped
<1>6. Lifecycle'
  BY <1>1 DEF Lifecycle
<1> QED
  BY <1>1, <1>4, <1>5, <1>6

-----------------------------------------------------------------------------
(* The bound.                                                              *)

LEMMA MapSizes ==
  /\ IsFiniteSet(Live) /\ Cardinality(Live) \in Nat
  /\ IsFiniteSet(Orphans) /\ Cardinality(Orphans) \in Nat
<1>1. IsFiniteSet(Live) /\ IsFiniteSet(Orphans)
  BY CallsAssumption, FS_Subset DEF Live, Orphans
<1> QED
  BY <1>1, FS_CardinalityType

(* A map that loses entries, some or one at least.                         *)
LEMMA RemovedSizes ==
  ASSUME NEW V, Removes(V)
  PROVE  /\ Cardinality(Live') <= Cardinality(Live)
         /\ Cardinality(Orphans') <= Cardinality(Orphans)
         /\ (\E k \in Keys : entries[k] \in V) => Cardinality(Live') < Cardinality(Live)
<1>1. Live' \subseteq Live /\ Orphans' \subseteq Orphans
  BY DEF Removes, Live, Orphans
<1>2. /\ Cardinality(Live') <= Cardinality(Live)
      /\ Cardinality(Orphans') <= Cardinality(Orphans)
  BY <1>1, MapSizes, FS_Subset
<1>3. ASSUME NEW k \in Keys, entries[k] \in V PROVE Cardinality(Live') < Cardinality(Live)
  <2>1. k \in Live /\ Live' \subseteq Live \ {k}
    BY <1>1, <1>3, CallsAssumption DEF Removes, Live
  <2>2. IsFiniteSet(Live \ {k}) /\ Cardinality(Live \ {k}) = Cardinality(Live) - 1
    BY <2>1, MapSizes, FS_RemoveElement
  <2>3. Cardinality(Live') <= Cardinality(Live \ {k}) /\ Cardinality(Live') \in Nat
    BY <2>1, <2>2, FS_Subset, FS_CardinalityType
  <2> QED
    BY <2>2, <2>3, MapSizes
<1> QED
  BY <1>2, <1>3

LEMMA CapacityStep ==
  ASSUME Types, Types', Tables, Grounded, TableStep \/ \E d \in Drains : Drain(d)
  PROVE  CapacityBound'
<1> SUFFICES ASSUME Max > 0
             PROVE  Cardinality(Live') + Cardinality(Orphans') + reserved' <= Max
  BY DEF CapacityBound
<1>t. /\ Cardinality(Live) + Cardinality(Orphans) + reserved <= Max
      /\ reserved \in Int /\ reserved' \in Int /\ Max \in Int
      /\ IsFiniteSet(Live) /\ Cardinality(Live) \in Nat
      /\ IsFiniteSet(Orphans) /\ Cardinality(Orphans) \in Nat
      /\ Maps
  BY MapSizes, OptionsAssumption DEF Grounded, CapacityBound, Types, Tables
<1>p. Cardinality(Live') \in Nat /\ Cardinality(Orphans') \in Nat
  <2>1. IsFiniteSet(Live') /\ IsFiniteSet(Orphans')
    BY CallsAssumption, FS_Subset DEF Live, Orphans
  <2> QED
    BY <2>1, FS_CardinalityType
<1>1. ASSUME NEW V \in SUBSET Calls, Removes(V)
      PROVE  Cardinality(Live') + Cardinality(Orphans') + reserved' <= Max
  <2>0. /\ Cardinality(Live') <= Cardinality(Live)
        /\ Cardinality(Orphans') <= Cardinality(Orphans)
        /\ (\E k \in Keys : entries[k] \in V) => Cardinality(Live') < Cardinality(Live)
    BY <1>1, RemovedSizes
  <2>1. CASE reserved' <= reserved
    BY <1>t, <1>p, <2>0, <2>1
  <2>2. CASE reserved' = reserved + 1 /\ \E k \in Keys : entries[k] \in V
    BY <1>t, <1>p, <2>0, <2>2
  <2>3. CASE ~closed /\ reserved' = reserved + 1 /\ Room
    <3>1. Cardinality(Orphans) = 0
      <4>1. Orphans = {}
        BY <2>3 DEF Grounded, Lifecycle, Orphans
      <4> QED
        BY <4>1, FS_EmptySet
    <3>2. Cardinality(Live) + reserved < Max
      BY <2>3 DEF Room
    <3> QED
      BY <1>t, <1>p, <2>0, <2>3, <3>1, <3>2
  <2> QED
    BY <1>1, <2>1, <2>2, <2>3 DEF Removes, Slots
<1>2. ASSUME NEW c \in Calls, Inserts(c)
      PROVE  Cardinality(Live') + Cardinality(Orphans') + reserved' <= Max
  <2>1. Live' = Live \union {KeyOf[c]} /\ KeyOf[c] \notin Live /\ Orphans' = Orphans
    BY <1>2, PointTypes DEF Inserts, Live, Orphans, Vacant
  <2>2. Cardinality(Live') = Cardinality(Live) + 1
    BY <1>t, <2>1, FS_AddElement
  <2> QED
    BY <1>t, <1>2, <2>1, <2>2 DEF Inserts
<1>3. ASSUME NEW k \in Keys, Resurrects(k)
      PROVE  Cardinality(Live') + Cardinality(Orphans') + reserved' <= Max
  <2>1. /\ Live' = Live \union {k} /\ k \notin Live
        /\ Orphans' = Orphans \ {k} /\ k \in Orphans
    BY <1>3, PointTypes DEF Resurrects, Live, Orphans
  <2>2. /\ Cardinality(Live') = Cardinality(Live) + 1
        /\ Cardinality(Orphans') = Cardinality(Orphans) - 1
    BY <1>t, <2>1, FS_AddElement, FS_RemoveElement
  <2> QED
    BY <1>t, <1>3, <2>2 DEF Resurrects
<1>4. ASSUME NEW d \in Drains, Drain(d)
      PROVE  Cardinality(Live') + Cardinality(Orphans') + reserved' <= Max
  <2>1. Live' = {} /\ Orphans' \subseteq Live \union Orphans /\ UNCHANGED reserved
    BY <1>t, <1>4, Drained DEF Live, Orphans, Drain
  <2>2. /\ IsFiniteSet(Live \union Orphans)
        /\ Cardinality(Live \union Orphans) <= Cardinality(Live) + Cardinality(Orphans)
    <3>1. Live \cap Orphans = {}
      BY <1>t DEF Maps, Live, Orphans
    <3>2. /\ IsFiniteSet(Live \union Orphans)
          /\ Cardinality(Live \union Orphans)
               = Cardinality(Live) + Cardinality(Orphans) - Cardinality(Live \cap Orphans)
      BY <1>t, FS_Union
    <3>3. Cardinality(Live \cap Orphans) = 0
      BY <3>1, FS_EmptySet
    <3> QED
      BY <1>t, <3>2, <3>3
  <2>3. Cardinality(Orphans') <= Cardinality(Live \union Orphans)
    BY <2>1, <2>2, FS_Subset
  <2>4. Cardinality(Live \union Orphans) \in Nat /\ Cardinality(Live') = 0
    BY <2>1, <2>2, FS_CardinalityType, FS_EmptySet
  <2> QED
    BY <1>t, <1>p, <2>1, <2>2, <2>3, <2>4
<1> QED
  BY <1>1, <1>2, <1>3, <1>4 DEF TableStep

-----------------------------------------------------------------------------
(* The idle list of an open pool.                                          *)

LEMMA IdleWithout ==
  ASSUME Types, IdleMembership, NEW V, idle' = Without(idle, V), UNCHANGED refCount,
         \A e \in Calls : entries'[KeyOf[e]] = e <=> entries[KeyOf[e]] = e /\ e \notin V
  PROVE  IdleMembership'
<1>1. Elements(idle') = Elements(idle) \ V /\ (Distinct(idle) => Distinct(idle'))
  BY PointTypes, WithoutProperties
<1> QED
  BY <1>1 DEF IdleMembership

LEMMA IdleEvict ==
  ASSUME Types, Maps, IdleMembership, NEW c \in Calls, acquireSlot(c)
  PROVE  IdleMembership'
<1>1. CASE UNCHANGED <<idle, entries>>
  BY <1>1 DEF acquireSlot, IdleMembership
<1>2. CASE EvictFor(c)
  <2>1. PICK i \in Evictable :
          /\ idle' = Without(idle, {idle[i]})
          /\ entries' = [entries EXCEPT ![KeyOf[idle[i]]] = NoEntry]
    BY <1>2 DEF EvictFor
  <2>2. idle[i] \in Elements(idle) /\ idle[i] \in Calls
    BY PointTypes DEF Elements, Evictable
  <2>3. \A e \in Calls : entries'[KeyOf[e]] = e
                           <=> entries[KeyOf[e]] = e /\ e \notin {idle[i]}
    BY <2>1, <2>2, PointTypes DEF IdleMembership
  <2> QED
    BY <2>1, <2>3, IdleWithout DEF acquireSlot
<1> QED
  BY <1>1, <1>2 DEF acquireSlot, Bounded, ParkOrReject

LEMMA IdleCheckout ==
  ASSUME Types, IdleMembership, NEW c \in Calls, NEW e \in Calls, checkout(c, e),
         entries[KeyOf[e]] = e, UNCHANGED entries
  PROVE  IdleMembership'
<1>1. /\ refCount'[e] = refCount[e] + 1 /\ refCount[e] \in Nat
      /\ \A x \in Calls \ {e} : refCount'[x] = refCount[x]
  BY PointTypes DEF checkout
<1>2. refCount'[e] # 0
  BY <1>1
<1>3. Elements(idle') = Elements(idle) \ {e} /\ Distinct(idle')
  <2>1. CASE refCount[e] = 0
    BY <2>1, PointTypes, WithoutProperties DEF checkout, IdleMembership
  <2>2. CASE refCount[e] # 0
    BY <2>2 DEF checkout, IdleMembership
  <2> QED
    BY <2>1, <2>2
<1> QED
  BY <1>1, <1>2, <1>3 DEF IdleMembership

LEMMA IdleRelease ==
  ASSUME Base, Tables, Kept, ~closed, NEW c \in Calls, pc[c] = "holding",
         releaseEntry(ent[c], Move(c, "done"))
  PROVE  IdleMembership'
<1> DEFINE e == ent[c]
<1>t. Types /\ ClaimsReal /\ IdleMembership /\ UsersLive /\ Lifecycle
  BY DEF Base, Kept, Grounded
<1>1. e \in Calls /\ entries[KeyOf[c]] = e /\ ~isCondemned(e)
  <2>1. e \in Calls /\ entries[KeyOf[c]] = e
    BY <1>t DEF ClaimsReal, UsersLive, Users
  <2> QED
    BY <1>t, <2>1, PointTypes DEF isCondemned, Lifecycle
<1>2. CASE status[e] = "disposed" \/ refCount[e] = 0
  BY <1>t, <1>2 DEF releaseEntry, tableVars, IdleMembership
<1>3. CASE ~(status[e] = "disposed" \/ refCount[e] = 0)
  <2>1. /\ refCount'[e] = refCount[e] - 1 /\ refCount[e] \in Nat \ {0}
        /\ \A x \in Calls \ {e} : refCount'[x] = refCount[x]
    BY <1>t, <1>1, <1>3, PointTypes DEF releaseEntry
  <2>2. CASE refCount[e] = 1
    <3>1. idle' = Append(idle, e) /\ UNCHANGED entries
      BY <1>1, <1>3, <2>2 DEF releaseEntry, LastRef, LastRelease, BackToIdle
    <3>2. e \notin Elements(idle) /\ Distinct(idle)
      BY <1>t, <1>1, <2>2 DEF IdleMembership
    <3>3. Elements(idle') = Elements(idle) \union {e} /\ Distinct(idle')
      BY <1>t, <1>1, <3>1, <3>2, PointTypes, AppendElements
    <3>4. refCount'[e] = 0
      BY <2>1, <2>2
    <3>5. entries[KeyOf[e]] = e
      BY <1>t, <1>1 DEF Tables, Claims, ClaimsOf
    <3> QED
      BY <1>t, <1>1, <2>1, <3>1, <3>3, <3>4, <3>5 DEF IdleMembership
  <2>3. CASE refCount[e] # 1
    <3>1. refCount'[e] # 0 /\ UNCHANGED <<idle, entries>>
      BY <1>3, <2>1, <2>3 DEF releaseEntry, LastRef, tableVars
    <3> QED
      BY <1>t, <2>1, <3>1 DEF IdleMembership
  <2> QED
    BY <2>2, <2>3
<1> QED
  BY <1>2, <1>3

LEMMA IdleStep ==
  ASSUME Base, Tables, RefCountExact, Kept, ~closed, ~closed', [Next]_vars
  PROVE  IdleMembership'
<1>t. /\ Types /\ ClaimsReal /\ Claims /\ Maps /\ Listed
      /\ IdleMembership /\ UsersLive /\ HeldMapped /\ Lifecycle
  BY DEF Base, Tables, Kept, Grounded
<1>q. ASSUME UNCHANGED <<idle, entries, refCount>> PROVE IdleMembership'
  BY <1>t, <1>q DEF IdleMembership
<1>1. ASSUME NEW c \in Calls, AcquireFast(c) PROVE IdleMembership'
  <2> DEFINE e == entries[KeyOf[c]]
  <2>1. e \in Calls /\ entries[KeyOf[e]] = e
    BY <1>t, <1>1, PointTypes DEF AcquireFast, Shareable, isUsable, Entry, Maps
  <2>2. checkout(c, e) /\ UNCHANGED entries
    BY <1>1 DEF AcquireFast
  <2> HIDE DEF e
  <2> QED
    BY <1>t, <2>1, <2>2, IdleCheckout
<1>2. ASSUME NEW c \in Calls, Settle(c) PROVE IdleMembership'
  <2>1. ent[c] \in Calls /\ entries[KeyOf[ent[c]]] = ent[c]
    BY <1>t, <1>2 DEF Settle, ClaimsReal, UsersLive, Users, Claims, ClaimsOf
  <2> QED
    BY <1>t, <1>2, <2>1, IdleCheckout DEF Settle
<1>3. ASSUME NEW c \in Calls, ObtainMissing(c) \/ Replace(c) PROVE IdleMembership'
  <2>1. Missing(c)
    BY <1>3 DEF ObtainMissing, Replace
  <2>2. CASE Resurrect(c)
    BY <1>t, <2>2, PointTypes DEF Resurrect, isUsable, Lifecycle
  <2>3. CASE Refuse(c)
    BY <1>q, <2>3 DEF Refuse, tableVars, resVars
  <2>4. CASE GoForSlot(c)
    BY <1>t, <2>4, IdleEvict DEF GoForSlot
  <2> QED
    BY <2>1, <2>2, <2>3, <2>4 DEF Missing
<1>4. ASSUME NEW c \in Calls, Retry(c) PROVE IdleMembership'
  BY <1>t, <1>4, IdleEvict DEF Retry
<1>5. ASSUME NEW c \in Calls, ValidateStale(c) PROVE IdleMembership'
  <2> DEFINE e == ent[c]
  <2>1. e \in Calls /\ removeEntry(e) /\ status' = Disposing({e}) /\ UNCHANGED refCount
    BY <1>t, <1>5 DEF ValidateStale, ClaimsReal
  <2>2. \A k \in Keys : entries'[k] = IF entries[k] = e THEN NoEntry ELSE entries[k]
    BY <1>t, <2>1, Removed
  <2>3. idle' = Without(idle, {e})
    BY <2>1 DEF removeEntry
  <2>4. \A x \in Calls : entries'[KeyOf[x]] = x <=> entries[KeyOf[x]] = x /\ x \notin {e}
    BY <1>t, <2>2, PointTypes
  <2> HIDE DEF e
  <2> QED
    BY <1>t, <2>1, <2>3, <2>4, IdleWithout
<1>6. ASSUME NEW c \in Calls, FactoryResolves(c) PROVE IdleMembership'
  <2>1. /\ pc[c] = "creating"
        /\ entries' = [entries EXCEPT ![KeyOf[c]] = c]
        /\ idle' = Append(idle, c)
        /\ UNCHANGED refCount
    BY <1>6 DEF FactoryResolves, insert
  <2>2. status[c] = "absent" /\ Vacant(KeyOf[c]) /\ refCount[c] = 0
    BY <1>t, <2>1 DEF Claims, ClaimsOf
  <2>3. c \notin Elements(idle)
    BY <1>t, <2>2 DEF Listed
  <2>4. Elements(idle') = Elements(idle) \union {c} /\ Distinct(idle')
    BY <1>t, <2>1, <2>3, PointTypes, AppendElements DEF IdleMembership
  <2>5. \A x \in Calls : entries'[KeyOf[x]] = x <=> entries[KeyOf[x]] = x \/ x = c
    BY <1>t, <2>1, <2>2, PointTypes DEF Vacant
  <2> QED
    BY <1>t, <2>1, <2>2, <2>4, <2>5 DEF IdleMembership
<1>7. ASSUME NEW c \in Calls, Release(c) PROVE IdleMembership'
  BY <1>7, IdleRelease DEF Release
<1>8. ASSUME NEW c \in Calls, ReleaseKey(c) PROVE IdleMembership'
  <2> DEFINE k == KeyOf[c]
             e == IF entries[k] # NoEntry THEN entries[k] ELSE orphans[k]
  <2>1. pc[c] = "holding" /\ e \in {ent[c], NoEntry}
    BY <1>t, <1>8 DEF ReleaseKey, HeldMapped, OnlyMapped
  <2>2. CASE e = NoEntry
    BY <1>q, <1>8, <2>2 DEF ReleaseKey, tableVars
  <2>3. CASE e = ent[c] /\ e # NoEntry
    <3>1. releaseEntry(ent[c], Move(c, "done"))
      BY <1>8, <2>3 DEF ReleaseKey
    <3> QED
      BY <2>1, <3>1, IdleRelease
  <2> QED
    BY <2>1, <2>2, <2>3
<1>9. ASSUME NEW n \in DOMAIN idle, Sweep(n) PROVE IdleMembership'
  <2> DEFINE V == {idle[i] : i \in Evictable \cap 1..n}
  <2>1. /\ idle' = Without(idle, V) /\ UNCHANGED refCount
        /\ entries' = [k \in Keys |-> IF \E v \in V : KeyOf[v] = k
                                      THEN NoEntry ELSE entries[k]]
    BY <1>9 DEF Sweep
  <2>2. V \subseteq Elements(idle) /\ V \subseteq Calls
    BY <1>t, PointTypes DEF Elements, Evictable
  <2> HIDE DEF V
  <2>3. \A v \in V : entries[KeyOf[v]] = v
    BY <1>t, <2>2 DEF IdleMembership
  <2>4. \A x \in Calls : entries'[KeyOf[x]] = x <=> entries[KeyOf[x]] = x /\ x \notin V
    BY <1>t, <2>1, <2>2, <2>3, PointTypes
  <2> QED
    BY <1>t, <2>1, <2>4, IdleWithout
<1>10. ASSUME NEW d \in Drains, Drain(d) PROVE IdleMembership'
  BY <1>10 DEF Drain, setClosed
<1>11. ASSUME NEW c \in Calls, \/ AcquireQueued(c) \/ ObtainLive(c) \/ ValidateOk(c)
                               \/ ValidateThrows(c) \/ Timeout(c) \/ FactoryRejects(c)
                               \/ DiscardDone(c) \/ SettleFailed(c) \/ DisposeDone(c)
       PROVE IdleMembership'
  BY <1>q, <1>11
     DEF AcquireQueued, ObtainLive, UseLive, ValidateOk, ValidateThrows, Timeout,
         FactoryRejects, DiscardDone, SettleFailed, DisposeDone, tableVars, resVars
<1>12. ASSUME NEW d \in Drains, DrainDone(d) PROVE IdleMembership'
  BY <1>q, <1>12 DEF DrainDone, tableVars, resVars
<1>13. CASE Start \/ UNCHANGED vars
  BY <1>q, <1>13 DEF Start, vars, tableVars, resVars
<1> QED
  BY <1>1, <1>2, <1>3, <1>4, <1>5, <1>6, <1>7, <1>8, <1>9, <1>10, <1>11, <1>12, <1>13
     DEF Next, Acquire, Obtain, Validated, Created, Settled, Released

-----------------------------------------------------------------------------
(* The invariant is one.                                                   *)

LEMMA LifeStep ==
  ASSUME [Next]_vars
  PROVE  \/ UNCHANGED lifeVars
         \/ Start
         \/ \E d \in Drains : Drain(d) \/ DrainDone(d)
<1>1. ASSUME NEW c \in Calls, \/ Acquire(c) \/ Obtain(c) \/ Validated(c) \/ Replace(c)
                              \/ Retry(c) \/ Timeout(c) \/ Created(c) \/ DiscardDone(c)
                              \/ Settled(c) \/ Released(c) \/ DisposeDone(c)
      PROVE  UNCHANGED lifeVars
  BY <1>1
     DEF Acquire, AcquireFast, AcquireQueued, Obtain, ObtainLive, UseLive, ObtainMissing,
         Validated, ValidateOk, ValidateStale, ValidateThrows, Replace, Missing, Resurrect,
         Refuse, GoForSlot, acquireSlot, Retry, Timeout, Created, FactoryResolves,
         FactoryRejects, DiscardDone, Settled, Settle, SettleFailed, Released, Release,
         ReleaseKey, DisposeDone
<1>2. ASSUME NEW n \in DOMAIN idle, Sweep(n) PROVE UNCHANGED lifeVars
  BY <1>2 DEF Sweep
<1>3. CASE UNCHANGED vars
  BY <1>3 DEF vars
<1> QED
  BY <1>1, <1>2, <1>3 DEF Next

(* A drain() call is never undone, and closes the pool.                    *)
LEMMA DrainsStayBegun ==
  ASSUME Types, [Next]_vars, Undrained'
  PROVE  Undrained /\ ~\E d \in Drains : Drain(d)
<1>1. draining \in [Drains -> {"idle", "draining", "done"}]
  BY DEF Types
<1> QED
  BY <1>1, LifeStep DEF Undrained, Drain, DrainDone, Start, lifeVars

LEMMA ClosingStep ==
  ASSUME Types, Closing, [Next]_vars
  PROVE  /\ Closing'
         /\ NotReopened' => NotReopened /\ (Start => ~closed)
<1>2. Undrained' => Undrained /\ ~\E d \in Drains : Drain(d)
  BY DrainsStayBegun
<1>3. ASSUME Undrained' PROVE ~closed'
  BY <1>2, <1>3, LifeStep DEF Closing, Drain, DrainDone, Start, lifeVars
<1>4. ASSUME NotReopened', Start, closed PROVE FALSE
  BY <1>2, <1>4 DEF NotReopened, Start, Closing
<1> QED
  BY <1>2, <1>3, <1>4 DEF Closing, NotReopened

LEMMA NobodyWaits ==
  ASSUME waiters = <<>>, NEW n \in Nat
  PROVE  SubSeq(waiters, n + 1, Len(waiters)) = <<>>
OBVIOUS

LEMMA ParkedStep ==
  ASSUME Types, ParkedListed, NobodyParked, [Next]_vars
  PROVE  NobodyParked'
<1> SUFFICES ASSUME closed' \/ Max <= 0 PROVE waiters' = <<>>
  BY DEF NobodyParked
<1>1. CASE \E d \in Drains : Drain(d)
  BY <1>1 DEF Drain, setClosed
<1>2. CASE ~\E d \in Drains : Drain(d)
  <2>0. (closed \/ Max <= 0) /\ waiters = <<>>
    BY <1>2, LifeStep DEF Start, DrainDone, lifeVars, NobodyParked
  <2>q. ASSUME UNCHANGED waiters PROVE waiters' = <<>>
    BY <2>0, <2>q
  <2>w. ASSUME NEW f, NEW n \in Nat, Wake(f, n) PROVE waiters' = <<>>
    BY <2>0, <2>w, NobodyWaits DEF Wake
  <2>1. ASSUME NEW c \in Calls, acquireSlot(c) PROVE waiters' = <<>>
    BY <2>0, <2>1 DEF acquireSlot, Bounded
  <2>2. ASSUME NEW c \in Calls, Missing(c) PROVE waiters' = <<>>
    BY <2>0, <2>1, <2>2 DEF Missing, Resurrect, Refuse, GoForSlot, slotVars
  <2>3. ASSUME NEW c \in Calls, NEW e, NEW f, releaseEntry(e, f) PROVE waiters' = <<>>
    BY <2>q, <2>w, <2>3 DEF releaseEntry, LastRelease, BackToIdle
  <2>4. ASSUME NEW c \in Calls, Timeout(c) PROVE waiters' = <<>>
    <3>1. pc[c] = "parked" /\ c \in Elements(waiters)
      BY <2>4 DEF Timeout, ParkedListed
    <3> QED
      BY <2>0, <3>1, EmptySeq DEF Elements
  <2>5. ASSUME NEW n \in DOMAIN idle, Sweep(n) PROVE waiters' = <<>>
    <3> DEFINE V == {idle[i] : i \in Evictable \cap 1..n}
    <3>1. Wake(pc, Cardinality(V)) /\ V \subseteq Calls
      BY <2>5, PointTypes DEF Sweep, Evictable, Elements
    <3>2. Cardinality(V) \in Nat
      BY <3>1, CallsAssumption, FS_Subset, FS_CardinalityType
    <3> HIDE DEF V
    <3> QED
      BY <2>w, <3>1, <3>2
  <2>6. ASSUME NEW c \in Calls, Created(c) PROVE waiters' = <<>>
    BY <2>q, <2>w, <2>6
       DEF Created, FactoryResolves, FactoryRejects, insert, discard, releaseReservation
  <2>7. ASSUME NEW c \in Calls, \/ Acquire(c) \/ ObtainLive(c) \/ Validated(c)
                                \/ DiscardDone(c) \/ Settled(c) \/ DisposeDone(c)
        PROVE  waiters' = <<>>
    BY <2>q, <2>7
       DEF Acquire, AcquireFast, AcquireQueued, ObtainLive, UseLive, Validated, ValidateOk,
           ValidateStale, ValidateThrows, DiscardDone, Settled, Settle, SettleFailed,
           DisposeDone, slotVars
  <2>8. ASSUME NEW c \in Calls, Released(c) PROVE waiters' = <<>>
    BY <2>q, <2>3, <2>8 DEF Released, Release, ReleaseKey
  <2>9. CASE Start \/ UNCHANGED vars \/ \E d \in Drains : DrainDone(d)
    BY <2>q, <2>9 DEF Start, vars, DrainDone, slotVars
  <2> QED
    BY <1>2, <2>1, <2>2, <2>4, <2>5, <2>6, <2>7, <2>8, <2>9
       DEF Next, Obtain, ObtainMissing, Replace, Retry
<1> QED
  BY <1>1, <1>2

LEMMA PoolStep == PoolInv /\ [Next]_vars => PoolInv'
<1> SUFFICES ASSUME PoolInv, [Next]_vars PROVE PoolInv'
  OBVIOUS
<1>t. /\ Base /\ Base' /\ Types /\ Types' /\ ParkedListed /\ ClaimsReal
      /\ Tables /\ Tables' /\ Claims /\ Maps /\ Listed
  BY BaseStep, TablesStep DEF PoolInv, Base, Tables
<1>1. Closing' /\ (NotReopened' => NotReopened /\ (Start => ~closed))
  BY <1>t, ClosingStep DEF PoolInv
<1>2. NobodyParked'
  BY <1>t, ParkedStep DEF PoolInv
<1>3. Counted'
  <2> SUFFICES ASSUME ReleaseByKey => NotReopened' PROVE RefCountExact'
    BY DEF Counted
  <2>1. RefCountExact /\ (ReleaseByKey => Reachable /\ HeldMapped)
    BY <1>1 DEF PoolInv, Counted, Kept, Grounded
  <2>2. Uses
    BY <1>t, <2>1, UsesStep
  <2> QED
    BY <1>t, <2>1, <2>2, CountsKept
<1>4. ASSUME NotReopened' PROVE Kept'
  <2>1. Kept /\ Grounded /\ RefCountExact /\ (Start => ~closed)
    BY <1>1, <1>4 DEF PoolInv, Counted, Kept
  <2>2. TableStep \/ \E d \in Drains : Drain(d)
    BY <1>t, <2>1, TableSteps
  <2>3. CapacityBound'
    BY <1>t, <2>1, <2>2, CapacityStep
  <2>4. /\ Lifecycle' /\ Reachable' /\ HeldMapped'
        /\ ~closed' => UsersLive'
        /\ closed' => AllCondemned'
    BY <1>t, <2>1, <2>2, TableStepKeeps, DrainKeeps
  <2>5. ASSUME ~closed' PROVE IdleMembership'
    <3>1. ~closed
      BY <2>2, <2>5 DEF TableStep, Flags, Drain, setClosed
    <3> QED
      BY <1>t, <2>1, <2>5, <3>1, IdleStep
  <2> QED
    BY <2>3, <2>4, <2>5 DEF Kept, Grounded
<1> QED
  BY <1>t, <1>1, <1>2, <1>3, <1>4 DEF PoolInv

LEMMA PoolInit == Init => PoolInv
<1> SUFFICES ASSUME Init PROVE PoolInv
  OBVIOUS
<1>1. Base /\ Tables
  BY BaseInit, TablesInit
<1>2. RefCountExact /\ Closing /\ NobodyParked
  BY DEF Init, RefCountExact, Closing, NobodyParked
<1>3. Lifecycle /\ Reachable /\ HeldMapped /\ UsersLive /\ ~closed
  BY CallsAssumption DEF Init, Lifecycle, Undrained, Reachable, HeldMapped, UsersLive, Users
<1>4. IdleMembership
  BY CallsAssumption, EmptySeq DEF Init, IdleMembership, Elements, Distinct
<1>5. CapacityBound
  <2>1. Live = {} /\ Orphans = {} /\ reserved = 0
    BY DEF Init, Live, Orphans
  <2> QED
    BY <2>1, FS_EmptySet, OptionsAssumption DEF CapacityBound
<1> QED
  BY <1>1, <1>2, <1>3, <1>4, <1>5 DEF PoolInv, Counted, Kept, Grounded

-----------------------------------------------------------------------------
(* The theorems.                                                           *)

LEMMA PoolAlways == Spec => []PoolInv
BY PoolInit, PoolStep, PTL DEF Spec

(* The reference count of a resource that is not disposed of is the number *)
(* of its holders, through drains and reopenings.  release(key) cannot     *)
(* tell whose reference it drops, so a pool that is used that way is not   *)
(* to be reopened over held resources.                                     *)
THEOREM CountsExact ==
  ASSUME ReleaseByKey => ~MayReopen
  PROVE  Spec => []RefCountExact
<1>1. PoolInv => RefCountExact
  BY DEF PoolInv, Counted, NotReopened
<1> QED
  BY <1>1, PoolAlways, PTL

(* Nothing that starts a disposal does so under a holder: not a release,   *)
(* an eviction, the sweep, a failed validation or a drain.                 *)
THEOREM NotUnderHolders ==
  ASSUME ReleaseByKey => ~MayReopen
  PROVE  Spec => NoDisposeUnderHolder
<1> DEFINE Safe == \A e \in Calls : status[e] = "usable" /\ status'[e] # "usable"
                                      => \A c \in Holders(e) : pc'[c] # "holding"
<1>1. ASSUME PoolInv, [Next]_vars PROVE Safe
  <2>1. /\ Base /\ Types /\ ClaimsReal /\ Claims /\ Maps /\ Listed /\ RefCountExact
        /\ (ReleaseByKey => Reachable /\ HeldMapped)
    BY <1>1 DEF PoolInv, Base, Tables, Counted, NotReopened, Kept, Grounded
  <2>2. Uses
    BY <1>1, <2>1, UsesStep
  <2> QED
    BY <2>1, <2>2, CountsKept
<1>2. PoolInv /\ [Next]_vars => [Safe]_vars
  BY <1>1
<1> QED
  BY <1>2, PoolAlways, PTL DEF Spec, NoDisposeUnderHolder

LEMMA OneEach ==
  ASSUME Base, Claims, Maps, Reachable
  PROVE  SingleResource
<1> SUFFICES ASSUME NEW c \in Calls, NEW e \in Calls, KeyOf[c] = KeyOf[e], c # e,
                    status[c] = "usable" \/ pc[c] = "creating",
                    status[e] = "usable" \/ pc[e] = "creating"
             PROVE  FALSE
  BY DEF SingleResource
<1>1. \A x \in Calls : pc[x] = "creating" => Vacant(KeyOf[x])
  BY DEF Claims, ClaimsOf
<1>2. \A x \in Calls : status[x] = "usable"
                         => x = entries[KeyOf[x]] \/ x = orphans[KeyOf[x]]
  BY DEF Reachable
<1>3. ~(pc[c] = "creating" /\ pc[e] = "creating")
  BY Alone DEF Running
<1> QED
  BY <1>1, <1>2, <1>3, CallsAssumption DEF Maps, Vacant

(* Single creation: until a start() follows a drain, a key never has two   *)
(* resources, nor one and a factory call that makes another.               *)
THEOREM OneResourcePerKey == Spec => [](NotReopened => SingleResource)
<1>1. PoolInv => (NotReopened => SingleResource)
  BY OneEach DEF PoolInv, Tables, Kept, Grounded
<1> QED
  BY <1>1, PoolAlways, PTL

(* options.max: until a start() follows a drain, the live resources, those *)
(* that a drain left to their holders and the creations under way are no   *)
(* more than that, whatever is evicted, resurrected or discarded.          *)
THEOREM NeverTooMany == Spec => [](NotReopened => CapacityBound)
<1>1. PoolInv => (NotReopened => CapacityBound)
  BY DEF PoolInv, Kept, Grounded
<1> QED
  BY <1>1, PoolAlways, PTL

(* A closed pool that is not to be reopened has nobody parked, and every   *)
(* resource it still keeps is one that its last holder's release disposes  *)
(* of.                                                                     *)
THEOREM NothingForgotten == Spec => [](NotReopened => ClosedLeaksNothing)
<1>1. PoolInv => (NotReopened => ClosedLeaksNothing)
  BY DEF PoolInv, Kept, Grounded, NobodyParked, AllCondemned, ClosedLeaksNothing
<1> QED
  BY <1>1, PoolAlways, PTL

(* No request has its connection pulled out from under it: until a drain   *)
(* begins, what a caller holds is usable and is the live resource of the   *)
(* caller's key.  (A drain breaks it: it disposes of a resource that a     *)
(* call has found and not yet counted a reference to.)                     *)
HoldersServed ==
  HeldResourceIntact /\ \A c \in Calls : pc[c] = "holding" => entries[KeyOf[c]] = ent[c]

LEMMA Served ==
  ASSUME Base, Maps, UsersLive
  PROVE  HoldersServed
<1>1. Types /\ ClaimsReal
  BY DEF Base
<1>2. \A c \in Calls : pc[c] = "holding" => entries[KeyOf[c]] = ent[c] /\ ent[c] \in Calls
  BY <1>1 DEF UsersLive, Users, ClaimsReal
<1> QED
  BY <1>1, <1>2, PointTypes DEF HoldersServed, HeldResourceIntact, Maps

(* That is so at every step.                                               *)
THEOREM HoldersKeepTheirs == Spec => [](Undrained => HoldersServed)
<1>1. ASSUME PoolInv, Undrained PROVE HoldersServed
  BY <1>1, Served DEF PoolInv, Tables, Kept, Grounded, Closing, NotReopened
<1>2. PoolInv => (Undrained => HoldersServed)
  BY <1>1
<1> QED
  BY <1>2, PoolAlways, PTL

(* Entry.inIdle: until a drain begins, the idle list has exactly the live  *)
(* resources without holders, each once.                                   *)
THEOREM IdleListExact == Spec => [](Undrained => IdleMembership)
<1>1. PoolInv => (Undrained => IdleMembership)
  BY DEF PoolInv, Kept, Grounded, Closing, NotReopened
<1> QED
  BY <1>1, PoolAlways, PTL

(* In a pool that is never drained, those two hold always, with any number *)
(* of calls, keys and slots.                                               *)
COROLLARY NeverDrained ==
  ASSUME Drains = {}
  PROVE  Spec => [](HeldResourceIntact /\ IdleMembership)
<1>1. Undrained
  BY DEF Undrained
<1>2. HoldersServed => HeldResourceIntact
  BY DEF HoldersServed
<1> QED
  BY <1>1, <1>2, HoldersKeepTheirs, IdleListExact, PTL

(* The same of a pool that is drained and never started again.             *)
COROLLARY NeverReopened ==
  ASSUME ~MayReopen
  PROVE  Spec => [](SingleResource /\ CapacityBound /\ ClosedLeaksNothing)
<1>1. NotReopened
  BY DEF NotReopened
<1> QED
  BY <1>1, OneResourcePerKey, NeverTooMany, NothingForgotten, PTL

-----------------------------------------------------------------------------
(* No wakeup is lost.                                                      *)

(* The key's slot is in use, or a call is under way that will use it or    *)
(* pass it on.                                                             *)
Taken(k) ==
  \/ entries[k] # NoEntry /\ (refCount[entries[k]] # 0 \/ isPending(k))
  \/ \E c \in Calls : KeyOf[c] = k /\ pc[c] \in {"creating", "woken", "replacing"}
TakenKeys == {k \in Keys : Taken(k)}

NoneFree ==
  /\ \A c \in Calls : pc[c] # "discarding" /\ (pc[c] = "failed" => entries[KeyOf[c]] = NoEntry)
  /\ waiters # <<>> => Cardinality(TakenKeys) >= Max

(* The pool is open and as the invariant has it.                           *)
Open == Base /\ Tables /\ RefCountExact /\ Kept /\ ~closed

LEMMA OpenFacts ==
  ASSUME Open
  PROVE  /\ Types /\ ClaimsReal /\ ParkedListed /\ Claims /\ Maps /\ Listed
         /\ UsersLive /\ IdleMembership /\ CapacityBound /\ Reachable /\ HeldMapped
         /\ condemned = {} /\ \A k \in Keys : orphans[k] = NoEntry
BY DEF Open, Base, Tables, Kept, Grounded, Lifecycle

(* A parked call does not hold its key's slot.                             *)
LEMMA WaiterFree ==
  ASSUME Base, NEW w \in Calls, pc[w] = "parked", entries[KeyOf[w]] = NoEntry
  PROVE  ~Taken(KeyOf[w])
BY Alone DEF Taken, Running

LEMMA TakenStays ==
  ASSUME NEW k \in Keys, Taken(k),
         entries[k] # NoEntry
           => entries'[k] = entries[k] /\ (refCount[entries[k]] # 0 => refCount'[entries[k]] # 0),
         \A x \in Calls : KeyOf[x] = k
           => /\ pc[x] \in InFlight => pc'[x] \in InFlight
              /\ pc[x] \in {"creating", "woken", "replacing"}
                   => pc'[x] \in {"creating", "woken", "replacing"}
  PROVE  Taken(k)'
BY DEF Taken, isPending

LEMMA TakenFinite ==
  /\ IsFiniteSet(TakenKeys) /\ Cardinality(TakenKeys) \in Nat
  /\ IsFiniteSet(TakenKeys') /\ Cardinality(TakenKeys') \in Nat
<1>1. IsFiniteSet(TakenKeys) /\ IsFiniteSet(TakenKeys')
  BY CallsAssumption, FS_Subset DEF TakenKeys
<1> QED
  BY <1>1, FS_CardinalityType

(* What a step does to the calls that have failed.                         *)
Failing ==
  /\ \A k \in Keys : entries[k] = NoEntry
       => entries'[k] = NoEntry \/ \E c \in Calls : pc[c] = "creating" /\ KeyOf[c] = k
  /\ \A x \in Calls : \/ pc'[x] = pc[x]
                      \/ pc'[x] \notin {"failed", "discarding"}
                      \/ pc'[x] = "failed" /\ entries'[KeyOf[x]] = NoEntry

NoneFailed ==
  \A c \in Calls : pc[c] # "discarding" /\ (pc[c] = "failed" => entries[KeyOf[c]] = NoEntry)

LEMMA FailingStep ==
  ASSUME Base, NoneFailed, Failing
  PROVE  NoneFailed'
<1>1. ASSUME NEW c \in Calls, pc[c] = "failed", pc'[c] = "failed" PROVE entries'[KeyOf[c]] = NoEntry
  <2>1. entries[KeyOf[c]] = NoEntry /\ KeyOf[c] \in Keys
    BY <1>1, PointTypes DEF Base, NoneFailed
  <2>2. \A x \in Calls : ~(pc[x] = "creating" /\ KeyOf[x] = KeyOf[c])
    BY <1>1, Alone DEF Running
  <2> QED
    BY <2>1, <2>2 DEF Failing
<1> QED
  BY <1>1 DEF Failing, NoneFailed

(* S are the keys whose slots are taken, and T those that are afterwards.  *)
LEMMA SlotsKept ==
  ASSUME NEW S, NEW T \in SUBSET Keys, S \subseteq T, Max > 0,
         waiters # <<>> => Cardinality(S) >= Max,
         waiters' # <<>> => waiters # <<>>
  PROVE  waiters' # <<>> => Cardinality(T) >= Max
<1>1. /\ IsFiniteSet(S) /\ Cardinality(S) \in Nat
      /\ IsFiniteSet(T) /\ Cardinality(T) \in Nat
  <2>1. IsFiniteSet(T) /\ IsFiniteSet(S)
    BY CallsAssumption, FS_Subset
  <2> QED
    BY <2>1, FS_CardinalityType
<1>2. Cardinality(S) <= Cardinality(T)
  BY <1>1, FS_Subset
<1> QED
  BY <1>1, <1>2, OptionsAssumption

(* One slot, of key k, is freed and the call that has waited longest is    *)
(* woken for it.                                                           *)
LEMMA SlotPassed ==
  ASSUME Types, ParkedListed, Claims, Max > 0, NEW f, Wake(f, 1), NEW k \in Keys,
         NEW S \in SUBSET Keys, NEW T \in SUBSET Keys, S \ {k} \subseteq T,
         waiters # <<>> => Cardinality(S) >= Max,
         \A w \in Calls : pc[w] = "parked" /\ entries[KeyOf[w]] = NoEntry => KeyOf[w] \notin S,
         \A w \in Calls : pc'[w] = "woken" => KeyOf[w] \in T
  PROVE  waiters' # <<>> => Cardinality(T) >= Max
<1> SUFFICES ASSUME waiters' # <<>> PROVE Cardinality(T) >= Max
  OBVIOUS
<1>1. waiters # <<>> /\ 1 \in DOMAIN waiters
  <2>1. waiters # <<>>
    BY NobodyWaits DEF Wake
  <2> QED
    BY <2>1, LenProperties, EmptySeq DEF Types
<1>2. PICK w \in Calls : w \in Elements(waiters) /\ w \in FirstWaiters(1)
  <2>1. waiters \in Seq(Calls)
    BY DEF Types
  <2> QED
    BY <1>1, <2>1, ElementOfSeq, LenProperties DEF Elements, FirstWaiters
<1> DEFINE j == KeyOf[w]
<1>3. pc[w] = "parked" /\ pc'[w] = "woken" /\ entries[j] = NoEntry
  BY <1>2 DEF ParkedListed, Wake, Claims, ClaimsOf, Vacant
<1>4. j \in Keys /\ j \notin S /\ j \in T
  BY <1>2, <1>3, CallsAssumption
<1>5. Cardinality(S) >= Max
  BY <1>1
<1> HIDE DEF j
<1>6. /\ IsFiniteSet(S) /\ Cardinality(S) \in Nat
      /\ IsFiniteSet(T) /\ Cardinality(T) \in Nat
  <2>1. IsFiniteSet(S) /\ IsFiniteSet(T)
    BY CallsAssumption, FS_Subset
  <2> QED
    BY <2>1, FS_CardinalityType
<1>7. /\ IsFiniteSet(S \ {k}) /\ Cardinality(S \ {k}) \in Nat
      /\ Cardinality(S \ {k}) >= Cardinality(S) - 1
  <2>1. /\ IsFiniteSet(S \ {k})
        /\ Cardinality(S \ {k}) = IF k \in S THEN Cardinality(S) - 1 ELSE Cardinality(S)
    BY <1>6, FS_RemoveElement
  <2>2. Cardinality(S \ {k}) \in Nat
    BY <2>1, FS_CardinalityType
  <2> QED
    BY <1>6, <2>1, <2>2
<1>8. Cardinality((S \ {k}) \union {j}) = Cardinality(S \ {k}) + 1
  BY <1>4, <1>7, FS_AddElement
<1>9. Cardinality((S \ {k}) \union {j}) <= Cardinality(T)
  BY <1>4, <1>6, FS_Subset
<1> QED
  BY <1>5, <1>6, <1>7, <1>8, <1>9, OptionsAssumption

LEMMA NoneFreed ==
  ASSUME Open, NoneFree, Failing, Max > 0, \A k \in Keys : Taken(k) => Taken(k)',
         waiters' # <<>> => waiters # <<>>
  PROVE  NoneFree'
<1>1. TakenKeys \subseteq TakenKeys' /\ TakenKeys' \in SUBSET Keys
  BY DEF TakenKeys
<1>2. waiters' # <<>> => Cardinality(TakenKeys') >= Max
  BY <1>1, SlotsKept DEF NoneFree
<1> QED
  BY <1>2, FailingStep DEF NoneFree, NoneFailed, Open

LEMMA HandedOn ==
  ASSUME Open, NoneFree, Failing, Max > 0, NEW f, Wake(f, 1),
         NEW k \in Keys, \A j \in Keys \ {k} : Taken(j) => Taken(j)'
  PROVE  NoneFree'
<1>1. /\ TakenKeys \in SUBSET Keys /\ TakenKeys' \in SUBSET Keys
      /\ TakenKeys \ {k} \subseteq TakenKeys'
  BY DEF TakenKeys
<1>2. \A w \in Calls : pc[w] = "parked" /\ entries[KeyOf[w]] = NoEntry => KeyOf[w] \notin TakenKeys
  BY WaiterFree DEF TakenKeys, Open
<1>3. \A w \in Calls : pc'[w] = "woken" => KeyOf[w] \in TakenKeys'
  BY CallsAssumption DEF TakenKeys, Taken
<1>4. waiters' # <<>> => Cardinality(TakenKeys') >= Max
  BY <1>1, <1>2, <1>3, SlotPassed, OpenFacts DEF NoneFree
<1> QED
  BY <1>4, FailingStep DEF NoneFree, NoneFailed, Open

(* A full pool with nothing to evict has all its slots taken.              *)
Creations == {c \in Calls : pc[c] = "creating"}
CreatedKeys == {KeyOf[c] : c \in Creations}

LEMMA SlotsUsed ==
  ASSUME Open, ReservedExact
  PROVE  /\ IsFiniteSet(Live \union CreatedKeys)
         /\ Cardinality(Live \union CreatedKeys) = Cardinality(Live) + reserved
         /\ Live \union CreatedKeys \subseteq Keys
<1> DEFINE f == [c \in Creations |-> KeyOf[c]]
<1>1. Live \cap CreatedKeys = {} /\ Live \union CreatedKeys \subseteq Keys
  BY OpenFacts, CallsAssumption DEF Live, CreatedKeys, Creations, Claims, ClaimsOf, Vacant
<1>2. IsFiniteSet(Creations)
  BY CallsAssumption, FS_Subset DEF Creations
<1>3. \A a, b \in Creations : KeyOf[a] = KeyOf[b] => a = b
  BY Alone DEF Creations, Open, Running
<1>4. f \in Bijection(Creations, CreatedKeys)
  BY <1>3, Fun_IsBij DEF CreatedKeys
<1>5. IsFiniteSet(CreatedKeys) /\ Cardinality(CreatedKeys) = reserved
  <2>1. ExistsBijection(Creations, CreatedKeys)
    BY <1>4, Fun_ExistsBij
  <2>2. Cardinality(Creations) = reserved
    BY DEF ReservedExact, Creations
  <2> QED
    BY <1>2, <2>1, <2>2, FS_Bijection
<1>6. Cardinality(Live \cap CreatedKeys) = 0
  BY <1>1, FS_EmptySet
<1>7. reserved \in Int
  BY OpenFacts DEF Types
<1>8. /\ IsFiniteSet(Live \union CreatedKeys)
      /\ Cardinality(Live \union CreatedKeys)
           = Cardinality(Live) + Cardinality(CreatedKeys) - Cardinality(Live \cap CreatedKeys)
  BY <1>5, MapSizes, FS_Union
<1> QED
  BY <1>1, <1>5, <1>6, <1>7, <1>8, MapSizes

LEMMA AllTaken ==
  ASSUME Open, ReservedExact, Max > 0, ~Room, Evictable = {}
  PROVE  /\ \A k \in Live : refCount[entries[k]] # 0 \/ isPending(k)
         /\ Cardinality(Live \union CreatedKeys) >= Max
<1>1. ASSUME NEW k \in Live, refCount[entries[k]] = 0 PROVE isPending(k)
  <2> DEFINE e == entries[k]
  <2>1. k \in Keys /\ e \in Calls /\ KeyOf[e] = k
    BY <1>1, OpenFacts, PointTypes DEF Live, Maps, Entry
  <2>2. e \in Elements(idle)
    BY <1>1, <2>1, OpenFacts DEF IdleMembership
  <2>3. PICK i \in DOMAIN idle : idle[i] = e
    BY <2>2 DEF Elements
  <2> QED
    BY <2>1, <2>3 DEF Evictable
<1>2. Cardinality(Live) + reserved >= Max
  <2>1. reserved \in Int
    BY OpenFacts DEF Types
  <2> QED
    BY <2>1, MapSizes, OptionsAssumption DEF Room
<1> QED
  BY <1>1, <1>2, SlotsUsed

LEMMA ParkNoneFree ==
  ASSUME Open, NoneFree, ReservedExact, Max > 0, ~Room, Evictable = {}, Failing,
         UNCHANGED <<entries, refCount>>,
         \A x \in Calls : /\ pc[x] \in InFlight => pc'[x] \in InFlight
                          /\ pc[x] = "creating" => pc'[x] = "creating"
  PROVE  NoneFree'
<1>1. Live \union CreatedKeys \subseteq TakenKeys'
  <2>1. \A k \in Live : k \in Keys /\ Taken(k)'
    BY AllTaken DEF Live, Taken, isPending
  <2>2. \A k \in CreatedKeys : k \in Keys /\ Taken(k)'
    BY CallsAssumption DEF CreatedKeys, Creations, Taken
  <2> QED
    BY <2>1, <2>2 DEF TakenKeys
<1>2. Cardinality(Live \union CreatedKeys) <= Cardinality(TakenKeys')
  BY <1>1, TakenFinite, FS_Subset
<1>3. IsFiniteSet(Live \union CreatedKeys) /\ Cardinality(Live \union CreatedKeys) \in Nat
  BY SlotsUsed, FS_CardinalityType
<1>4. Cardinality(TakenKeys') >= Max
  BY <1>2, <1>3, AllTaken, TakenFinite, OptionsAssumption
<1> QED
  BY <1>4, FailingStep DEF NoneFree, NoneFailed, Open

LEMMA SlotNoneFree ==
  ASSUME Open, NoneFree, ReservedExact, Max > 0, NEW c \in Calls, acquireSlot(c),
         pc[c] \in {"queued", "replacing", "woken"}, entries[KeyOf[c]] = NoEntry
  PROVE  NoneFree'
<1>t. Types /\ ParkedListed /\ Maps /\ IdleMembership /\ ~closed
  BY OpenFacts DEF Open
<1>1. /\ \A x \in Calls \ {c} : pc'[x] = pc[x]
      /\ pc'[c] \in {"creating", "parked", "failed"}
      /\ UNCHANGED refCount
  BY <1>t, SlotEffect DEF acquireSlot
<1>2. \A x \in Calls : /\ pc[x] \in InFlight => pc'[x] \in InFlight
                       /\ pc[x] = "creating" => pc'[x] = "creating"
  BY <1>1 DEF InFlight, Running
<1>3. Bounded(c)
  BY OptionsAssumption DEF acquireSlot
<1>4. CASE UNCHANGED entries
  <2>1. Failing
    BY <1>1, <1>4 DEF Failing
  <2>2. CASE Reserve(c) /\ UNCHANGED waiters
    <3>1. pc'[c] = "creating"
      BY <1>t, <2>2, PointTypes DEF Reserve, Move
    <3>2. ASSUME NEW k \in Keys, Taken(k) PROVE Taken(k)'
      BY <1>1, <1>2, <1>4, <3>1, <3>2, TakenStays
    <3> QED
      BY <2>1, <2>2, <3>2, NoneFreed
  <2>3. CASE ~Room /\ Evictable = {}
    BY <1>1, <1>2, <1>4, <2>1, <2>3, ParkNoneFree
  <2> QED
    BY <1>3, <1>4, <1>t, <2>2, <2>3 DEF Bounded, EvictFor
<1>5. CASE EvictFor(c)
  <2>1. PICK i \in Evictable :
          /\ entries' = [entries EXCEPT ![KeyOf[idle[i]]] = NoEntry]
          /\ Reserve(c) /\ UNCHANGED waiters
    BY <1>5 DEF EvictFor
  <2>2. PICK v \in Calls : v = idle[i] /\ v \in Elements(idle) /\ ~isPending(KeyOf[v])
    BY <1>t, <2>1, PointTypes DEF Elements, Evictable
  <2>3. entries[KeyOf[v]] = v /\ refCount[v] = 0
    BY <1>t, <2>2 DEF IdleMembership
  <2>4. ~Taken(KeyOf[v])
    BY <2>2, <2>3 DEF Taken, isPending, InFlight, Running
  <2>5. pc'[c] = "creating"
    BY <1>t, <2>1, PointTypes DEF Reserve, Move
  <2>6. \A k \in Keys : entries'[k] = IF k = KeyOf[v] THEN NoEntry ELSE entries[k]
    BY <1>t, <2>1, <2>2, PointTypes
  <2>7. ASSUME NEW k \in Keys, Taken(k) PROVE Taken(k)'
    BY <1>1, <1>2, <2>4, <2>5, <2>6, <2>7, TakenStays
  <2>8. Failing
    BY <1>1, <2>5, <2>6 DEF Failing
  <2> QED
    BY <2>1, <2>7, <2>8, NoneFreed
<1> QED
  BY <1>3, <1>4, <1>5 DEF Bounded, ParkOrReject

LEMMA ReleaseNoneFree ==
  ASSUME Open, NoneFree, Max > 0, NEW c \in Calls, pc[c] = "holding",
         releaseEntry(ent[c], Move(c, "done"))
  PROVE  NoneFree'
<1> DEFINE e == ent[c]
<1>t. /\ Types /\ ParkedListed /\ Maps
      /\ condemned = {} /\ \A k \in Keys : orphans[k] = NoEntry
  BY OpenFacts
<1>1. e \in Calls /\ KeyOf[e] = KeyOf[c] /\ KeyOf[c] \in Keys
  BY OpenFacts, PointTypes DEF ClaimsReal, Claims, ClaimsOf
<1>2. ~isCondemned(e)
  BY <1>t, <1>1, CallsAssumption DEF isCondemned
<1>3. UNCHANGED entries
  BY <1>2 DEF releaseEntry, LastRelease, BackToIdle, tableVars
<1>4. /\ pc'[c] = "done"
      /\ \A x \in Calls \ {c} : pc'[x] = pc[x] \/ (pc[x] = "parked" /\ pc'[x] = "woken")
  BY <1>t, <1>1, ReleaseEffect
<1>5. Failing
  BY <1>3, <1>4 DEF Failing
<1>6. \A x \in Calls : /\ pc[x] \in InFlight => pc'[x] \in InFlight
                       /\ pc[x] \in {"creating", "woken", "replacing"}
                            => pc'[x] \in {"creating", "woken", "replacing"}
  BY <1>4 DEF InFlight, Running
<1>7. CASE refCount[e] = 1 /\ status[e] # "disposed"
  <2>1. Wake(Move(c, "done"), 1) /\ refCount' = [refCount EXCEPT ![e] = @ - 1]
    BY <1>2, <1>7 DEF releaseEntry, LastRef, LastRelease, BackToIdle
  <2>2. ASSUME NEW k \in Keys \ {KeyOf[c]}, Taken(k) PROVE Taken(k)'
    <3>1. entries[k] # e
      BY <1>t, <1>1, <2>2, PointTypes DEF Maps
    <3>2. entries[k] # NoEntry => refCount'[entries[k]] = refCount[entries[k]]
      BY <1>t, <1>1, <2>1, <2>2, <3>1, PointTypes
    <3> QED
      BY <1>3, <1>6, <2>2, <3>2, TakenStays
  <2> QED
    BY <1>1, <1>5, <2>1, <2>2, HandedOn
<1>8. CASE ~(refCount[e] = 1 /\ status[e] # "disposed")
  <2>1. /\ UNCHANGED waiters
        /\ \A x \in Calls : refCount[x] # 0 => refCount'[x] # 0
    BY <1>t, <1>1, <1>8, PointTypes DEF releaseEntry, LastRef
  <2>2. ASSUME NEW k \in Keys, Taken(k) PROVE Taken(k)'
    <3>1. entries[k] # NoEntry => entries[k] \in Calls
      BY <1>t, PointTypes DEF Entry
    <3> QED
      BY <1>3, <1>6, <2>1, <2>2, <3>1, TakenStays
  <2> QED
    BY <1>5, <2>1, <2>2, NoneFreed
<1> QED
  BY <1>7, <1>8

LEMMA NoneFreeStep ==
  ASSUME Open, ~closed', NoneFree, ReservedExact, Max > 0, "throws" \notin ValidateOutcomes,
         [Next]_vars
  PROVE  NoneFree'
<1>t. /\ Types /\ ClaimsReal /\ ParkedListed /\ Claims /\ Maps /\ UsersLive /\ IdleMembership
      /\ HeldMapped /\ ~closed /\ \A k \in Keys : orphans[k] = NoEntry
  BY OpenFacts DEF Open
<1>m. \A c \in Calls : \A s : /\ Move(c, s)[c] = s
                              /\ \A x \in Calls \ {c} : Move(c, s)[x] = pc[x]
  BY <1>t DEF Types, Move
<1>k. KeyOf \in [Calls -> Keys] /\ \A k \in Keys : entries[k] # NoEntry => entries[k] \in Calls
  BY <1>t, PointTypes DEF Entry
(* Call c moves on; its key's resource, if any, stays as it is. *)
<1>q. ASSUME NEW c \in Calls, \A x \in Calls \ {c} : pc'[x] = pc[x],
             entries' = entries, waiters' # <<>> => waiters # <<>>,
             \A e \in Calls : refCount[e] # 0 => refCount'[e] # 0,
             pc[c] \notin {"creating", "woken", "replacing"},
             \/ pc'[c] \in {"queued", "validating", "got"}
             \/ pc'[c] = "holding" /\ refCount'[entries[KeyOf[c]]] # 0
             \/ pc'[c] \in {"failed", "rejected"} /\ entries[KeyOf[c]] = NoEntry
      PROVE  NoneFree'
  <2>1. Failing
    BY <1>q DEF Failing
  <2>2. ASSUME NEW k \in Keys, Taken(k) PROVE Taken(k)'
    <3>1. CASE \E x \in Calls : KeyOf[x] = k /\ pc[x] \in {"creating", "woken", "replacing"}
      BY <1>q, <3>1 DEF Taken
    <3>2. CASE entries[k] # NoEntry /\ refCount[entries[k]] # 0
      BY <1>k, <1>q, <3>2 DEF Taken
    <3>3. CASE entries[k] # NoEntry /\ isPending(k)
      <4>1. PICK x \in Calls : KeyOf[x] = k /\ pc[x] \in InFlight
        BY <3>3 DEF isPending
      <4> QED
        BY <1>q, <3>3, <4>1 DEF Taken, isPending, InFlight, Running
    <3> QED
      BY <2>2, <3>1, <3>2, <3>3 DEF Taken
  <2> QED
    BY <1>q, <2>1, <2>2, NoneFreed
<1>1. ASSUME NEW c \in Calls, AcquireFast(c) \/ Settle(c) PROVE NoneFree'
  <2> DEFINE e == entries[KeyOf[c]]
  <2>1. /\ e \in Calls /\ checkout(c, e) /\ UNCHANGED <<entries, waiters>>
        /\ pc[c] \in {"new", "got"}
    <3>1. CASE AcquireFast(c)
      BY <1>k, <3>1 DEF AcquireFast, Shareable, isUsable, slotVars
    <3>2. CASE Settle(c)
      <4>1. e = ent[c] /\ ent[c] \in Calls
        BY <1>t, <3>2 DEF Settle, UsersLive, Users, ClaimsReal
      <4> QED
        BY <3>2, <4>1 DEF Settle, slotVars
    <3> QED
      BY <1>1, <3>1, <3>2
  <2>2. refCount'[e] # 0 /\ \A x \in Calls : refCount[x] # 0 => refCount'[x] # 0
    <3>1. \A x \in Calls : refCount[x] \in Nat
      BY <1>t, PointTypes
    <3>2. \A x \in Calls : refCount'[x] = IF x = e THEN refCount[x] + 1 ELSE refCount[x]
      BY <1>t, <2>1, PointTypes DEF checkout
    <3> QED
      BY <2>1, <3>1, <3>2
  <2>3. pc'[c] = "holding" /\ \A x \in Calls \ {c} : pc'[x] = pc[x]
    BY <1>m, <2>1 DEF checkout
  <2> QED
    BY <1>q, <2>1, <2>2, <2>3
<1>2. ASSUME NEW c \in Calls, AcquireQueued(c) \/ ObtainLive(c) \/ ValidateOk(c) PROVE NoneFree'
  <2>1. /\ pc'[c] \in {"queued", "validating", "got"}
        /\ pc[c] \in {"new", "queued", "validating"}
        /\ \A x \in Calls \ {c} : pc'[x] = pc[x]
    BY <1>m, <1>2 DEF AcquireQueued, ObtainLive, UseLive, ValidateOk, Turn
  <2>2. UNCHANGED <<entries, waiters, refCount>>
    BY <1>2 DEF AcquireQueued, ObtainLive, UseLive, ValidateOk, tableVars, resVars, slotVars
  <2> QED
    BY <1>q, <2>1, <2>2
<1>3. ASSUME NEW c \in Calls, ObtainMissing(c) \/ Replace(c) PROVE NoneFree'
  <2>1. Missing(c) /\ pc[c] \in {"queued", "replacing"} /\ entries[KeyOf[c]] = NoEntry
    BY <1>t, <1>3, PointTypes
       DEF Replace, ObtainMissing, Turn, isUsable, Maps, Claims, ClaimsOf, Vacant
  <2>2. acquireSlot(c)
    BY <1>t, <1>k, <2>1 DEF Missing, Resurrect, Refuse, GoForSlot, isUsable
  <2> QED
    BY <2>1, <2>2, SlotNoneFree
<1>4. ASSUME NEW c \in Calls, Retry(c) PROVE NoneFree'
  BY <1>t, <1>4, SlotNoneFree DEF Retry, Claims, ClaimsOf, Vacant
<1>5. ASSUME NEW c \in Calls, ValidateStale(c) PROVE NoneFree'
  <2> DEFINE e == ent[c]
  <2>1. /\ e \in Calls /\ removeEntry(e) /\ status' = Disposing({e})
        /\ pc'[c] = "replacing" /\ pc[c] = "validating"
        /\ \A x \in Calls \ {c} : pc'[x] = pc[x]
        /\ UNCHANGED <<waiters, refCount>>
    BY <1>t, <1>m, <1>5 DEF ValidateStale, ClaimsReal, slotVars
  <2>2. \A k \in Keys : entries'[k] = IF entries[k] = e THEN NoEntry ELSE entries[k]
    BY <1>t, <2>1, Removed
  <2>3. KeyOf[e] = KeyOf[c]
    BY <1>t, <2>1 DEF Claims, ClaimsOf
  <2>4. \A k \in Keys : k # KeyOf[c] => entries[k] # e
    BY <1>t, <2>1, <2>3, PointTypes DEF Maps
  <2> HIDE DEF e
  <2>5. Failing
    BY <2>1, <2>2 DEF Failing
  <2>6. ASSUME NEW k \in Keys, Taken(k) PROVE Taken(k)'
    <3>1. CASE k = KeyOf[c]
      BY <2>1, <3>1 DEF Taken
    <3>2. CASE k # KeyOf[c]
      BY <2>1, <2>2, <2>4, <2>6, <3>2, TakenStays
    <3> QED
      BY <3>1, <3>2
  <2> QED
    BY <2>1, <2>5, <2>6, NoneFreed
<1>6. ASSUME NEW c \in Calls, Timeout(c) PROVE NoneFree'
  <2>1. pc[c] = "parked" /\ pc'[c] = "failed" /\ \A x \in Calls \ {c} : pc'[x] = pc[x]
    BY <1>m, <1>6 DEF Timeout
  <2>2. entries[KeyOf[c]] = NoEntry
    BY <1>t, <2>1 DEF Claims, ClaimsOf, Vacant
  <2>3. waiters # <<>>
    BY <1>t, <2>1, EmptySeq DEF ParkedListed, Elements
  <2>4. UNCHANGED <<entries, refCount>>
    BY <1>6 DEF Timeout, tableVars, resVars
  <2> QED
    BY <1>q, <2>1, <2>2, <2>3, <2>4
<1>7. ASSUME NEW c \in Calls, FactoryResolves(c) PROVE NoneFree'
  <2>1. /\ pc[c] = "creating" /\ pc'[c] = "got" /\ \A x \in Calls \ {c} : pc'[x] = pc[x]
        /\ entries' = [entries EXCEPT ![KeyOf[c]] = c] /\ UNCHANGED <<waiters, refCount>>
    BY <1>t, <1>m, <1>7 DEF FactoryResolves, insert
  <2>2. \A k \in Keys : entries'[k] = IF k = KeyOf[c] THEN c ELSE entries[k]
    BY <1>t, <2>1, PointTypes
  <2>3. Failing
    BY <2>1, <2>2 DEF Failing
  <2>4. ASSUME NEW k \in Keys, Taken(k) PROVE Taken(k)'
    <3>1. CASE k = KeyOf[c]
      BY <2>1, <2>2, <3>1, CallsAssumption DEF Taken, isPending, InFlight, Running
    <3>2. CASE k # KeyOf[c]
      BY <2>1, <2>2, <2>4, <3>2, TakenStays DEF InFlight, Running
    <3> QED
      BY <3>1, <3>2
  <2> QED
    BY <2>1, <2>3, <2>4, NoneFreed
<1>8. ASSUME NEW c \in Calls, FactoryRejects(c) PROVE NoneFree'
  <2>1. /\ pc[c] = "creating" /\ releaseReservation(Move(c, "failed"))
        /\ UNCHANGED <<entries, refCount>>
    BY <1>8 DEF FactoryRejects, tableVars, resVars
  <2>2. /\ pc'[c] = "failed"
        /\ \A x \in Calls \ {c} : pc'[x] = pc[x] \/ (pc[x] = "parked" /\ pc'[x] = "woken")
    <3>1. "failed" \in PCs
      BY DEF PCs, InFlight, Running
    <3> QED
      BY <1>t, <2>1, <3>1, ReservationEffect
  <2>3. entries[KeyOf[c]] = NoEntry /\ KeyOf[c] \in Keys
    BY <1>t, <1>k, <2>1 DEF Claims, ClaimsOf, Vacant
  <2>4. Failing
    BY <2>1, <2>2, <2>3 DEF Failing
  <2>5. ASSUME NEW k \in Keys \ {KeyOf[c]}, Taken(k) PROVE Taken(k)'
    BY <2>1, <2>2, <2>5, TakenStays DEF InFlight, Running
  <2> QED
    BY <2>1, <2>3, <2>4, <2>5, HandedOn DEF releaseReservation
<1>9. ASSUME NEW c \in Calls, SettleFailed(c) PROVE NoneFree'
  <2>1. /\ pc[c] = "failed" /\ pc'[c] = "rejected" /\ \A x \in Calls \ {c} : pc'[x] = pc[x]
        /\ UNCHANGED <<entries, waiters, refCount>>
    BY <1>m, <1>9 DEF SettleFailed, tableVars, resVars, slotVars
  <2>2. entries[KeyOf[c]] = NoEntry
    BY <2>1 DEF NoneFree
  <2> QED
    BY <1>q, <2>1, <2>2
<1>10. ASSUME NEW c \in Calls, Release(c) PROVE NoneFree'
  BY <1>10, ReleaseNoneFree DEF Release
<1>11. ASSUME NEW c \in Calls, ReleaseKey(c) PROVE NoneFree'
  <2>1. pc[c] = "holding" /\ entries[KeyOf[c]] = ent[c] /\ ent[c] # NoEntry
    BY <1>t, <1>11, CallsAssumption DEF ReleaseKey, UsersLive, Users, ClaimsReal
  <2> QED
    BY <1>11, <2>1, ReleaseNoneFree DEF ReleaseKey
<1>12. ASSUME NEW n \in DOMAIN idle, Sweep(n) PROVE NoneFree'
  <2> DEFINE V == {idle[i] : i \in Evictable \cap 1..n}
  <2>1. /\ entries' = [k \in Keys |-> IF \E v \in V : KeyOf[v] = k
                                      THEN NoEntry ELSE entries[k]]
        /\ Wake(pc, Cardinality(V)) /\ UNCHANGED refCount
    BY <1>12 DEF Sweep
  <2>2. /\ V \subseteq Elements(idle) /\ V \subseteq Calls
        /\ \A v \in V : ~isPending(KeyOf[v])
    BY <1>t, PointTypes DEF Elements, Evictable
  <2> HIDE DEF V
  <2>3. Cardinality(V) \in Nat
    BY <2>2, CallsAssumption, FS_Subset, FS_CardinalityType
  <2>4. \A x \in Calls : pc'[x] = pc[x] \/ (pc[x] = "parked" /\ pc'[x] = "woken")
    <3>1. pc \in [Calls -> PCs]
      BY <1>t DEF Types
    <3> QED
      BY <1>t, <2>1, <2>3, <3>1, WakeEffect
  <2>5. \A v \in V : entries[KeyOf[v]] = v /\ refCount[v] = 0
    BY <1>t, <2>2 DEF IdleMembership
  <2>6. \A v \in V : ~Taken(KeyOf[v])
    BY <2>2, <2>5 DEF Taken, isPending, InFlight, Running
  <2>7. Failing
    BY <2>1, <2>4 DEF Failing
  <2>8. ASSUME NEW k \in Keys, Taken(k) PROVE Taken(k)'
    <3>1. entries'[k] = entries[k]
      BY <2>1, <2>6, <2>8
    <3> QED
      BY <2>1, <2>4, <2>8, <3>1, TakenStays DEF InFlight, Running
  <2>9. waiters' # <<>> => waiters # <<>>
    BY <2>1, <2>3, NobodyWaits DEF Wake
  <2> QED
    BY <2>7, <2>8, <2>9, NoneFreed
<1>13. ASSUME NEW c \in Calls, ValidateThrows(c) \/ DiscardDone(c) PROVE NoneFree'
  BY <1>13 DEF ValidateThrows, DiscardDone, NoneFree
<1>14. ASSUME NEW d \in Drains, Drain(d) PROVE NoneFree'
  BY <1>14 DEF Drain, setClosed
<1>15. CASE \/ \E e \in Calls : DisposeDone(e)
            \/ \E d \in Drains : DrainDone(d)
            \/ Start \/ UNCHANGED vars
  <2>1. UNCHANGED <<pc, entries, waiters, refCount>>
    BY <1>15
       DEF DisposeDone, DrainDone, Start, vars, callVars, tableVars, resVars, slotVars
  <2>2. Failing
    BY <2>1 DEF Failing
  <2>3. \A k \in Keys : Taken(k) => Taken(k)'
    BY <2>1 DEF Taken, isPending
  <2> QED
    BY <2>1, <2>2, <2>3, NoneFreed
<1> QED
  BY <1>1, <1>2, <1>3, <1>4, <1>5, <1>6, <1>7, <1>8, <1>9, <1>10, <1>11, <1>12, <1>13, <1>14, <1>15
     DEF Next, Acquire, Obtain, Validated, Created, Settled, Released

(* Then there is neither room nor an idle resource to evict.               *)
LEMMA NothingLost ==
  ASSUME Open, Max > 0, ReservedExact, NoneFree, waiters # <<>>, ~MicrotaskReady, ~Replacing
  PROVE  ~Room /\ Evictable = {}
<1>1. Cardinality(TakenKeys) >= Max
  BY DEF NoneFree
<1>2. TakenKeys \subseteq Live \union CreatedKeys
  BY DEF TakenKeys, Taken, Live, CreatedKeys, Creations, MicrotaskReady, Replacing
<1>3. Cardinality(TakenKeys) <= Cardinality(Live) + reserved
  BY <1>2, SlotsUsed, FS_Subset
<1>4. ~Room
  BY <1>1, <1>3, TakenFinite, MapSizes, OpenFacts, OptionsAssumption DEF Room, Types
<1>5. ASSUME NEW i \in Evictable PROVE FALSE
  <2>1. PICK v \in Calls : v \in Elements(idle) /\ ~isPending(KeyOf[v])
    BY <1>5, OpenFacts, PointTypes DEF Elements, Evictable
  <2>2. entries[KeyOf[v]] = v /\ refCount[v] = 0 /\ KeyOf[v] \in Keys
    BY <2>1, OpenFacts, CallsAssumption DEF IdleMembership
  <2>3. KeyOf[v] \in Live /\ KeyOf[v] \notin TakenKeys
    BY <2>1, <2>2, CallsAssumption
       DEF Live, TakenKeys, Taken, isPending, InFlight, Running
  <2>4. TakenKeys \subseteq (Live \union CreatedKeys) \ {KeyOf[v]}
    BY <1>2, <2>3
  <2>5. /\ IsFiniteSet((Live \union CreatedKeys) \ {KeyOf[v]})
        /\ Cardinality((Live \union CreatedKeys) \ {KeyOf[v]})
             = Cardinality(Live) + reserved - 1
    <3>1. /\ IsFiniteSet(Live \union CreatedKeys)
          /\ Cardinality(Live \union CreatedKeys) = Cardinality(Live) + reserved
      BY SlotsUsed
    <3>2. KeyOf[v] \in Live \union CreatedKeys
      BY <2>3
    <3>3. /\ IsFiniteSet((Live \union CreatedKeys) \ {KeyOf[v]})
          /\ Cardinality((Live \union CreatedKeys) \ {KeyOf[v]})
               = Cardinality(Live \union CreatedKeys) - 1
      BY <3>1, <3>2, FS_RemoveElement
    <3>4. Cardinality(Live) \in Nat /\ reserved \in Int
      BY MapSizes, OpenFacts DEF Types
    <3> QED
      BY <3>1, <3>3, <3>4
  <2>6. Cardinality(TakenKeys) <= Cardinality(Live) + reserved - 1
    <3>1. Cardinality(TakenKeys) <= Cardinality((Live \union CreatedKeys) \ {KeyOf[v]})
      BY <2>4, <2>5, FS_Subset
    <3> QED
      BY <2>5, <3>1
  <2>7. Cardinality(Live) + Cardinality(Orphans) + reserved <= Max
    BY OpenFacts DEF CapacityBound
  <2>8. reserved \in Int
    BY OpenFacts DEF Types
  <2> QED
    BY <1>1, <2>6, <2>7, <2>8, TakenFinite, MapSizes, OptionsAssumption
<1> QED
  BY <1>4, <1>5

(* A wakeup always reaches a call that waits, and as long as one is parked *)
(* at least max keys have their slot in use or about to be: when nothing   *)
(* is under way there is neither room nor an idle resource to evict.  (A   *)
(* validate that throws breaks it: it leaves an idle resource, and tells   *)
(* nobody.)                                                                *)
THEOREM NoWakeupLost ==
  ASSUME "throws" \notin ValidateOutcomes
  PROVE  Spec => [](NotReopened => NoLostWakeup)
<1>1. CASE Max > 0
  <2> DEFINE WakeInv == NotReopened /\ ~closed => NoneFree
  <2>1. Init => WakeInv
    BY CallsAssumption DEF Init, NoneFree
  <2>2. ASSUME PoolInv, PoolInv', ReservedExact, WakeInv, [Next]_vars PROVE WakeInv'
    <3> SUFFICES ASSUME NotReopened', ~closed' PROVE NoneFree'
      OBVIOUS
    <3>1. NotReopened /\ (Start => ~closed)
      BY <2>2, ClosingStep DEF PoolInv, Base
    <3>2. ~closed
      BY <2>2, <3>1, LifeStep DEF Drain, DrainDone, setClosed, lifeVars
    <3>3. Open
      BY <2>2, <3>1, <3>2 DEF PoolInv, Counted, Open
    <3> QED
      BY <1>1, <2>2, <3>1, <3>2, <3>3, NoneFreeStep
  <2>3. ASSUME PoolInv, ReservedExact, WakeInv, NotReopened PROVE NoLostWakeup
    <3>1. waiters # <<>> => ~closed
      BY <2>3 DEF PoolInv, NobodyParked
    <3>2. ~closed => Open
      BY <2>3 DEF PoolInv, Counted, Open
    <3> QED
      BY <1>1, <2>3, <3>1, <3>2, NothingLost DEF NoLostWakeup
  <2>4. Spec => []ReservedExact
    BY <1>1, ReservationsCounted
  <2>5. PoolInv /\ ReservedExact /\ WakeInv => (NotReopened => NoLostWakeup)
    BY <2>3
  <2> HIDE DEF WakeInv
  <2> QED
    BY <2>1, <2>2, <2>4, <2>5, PoolAlways, PTL DEF Spec
<1>2. CASE ~(Max > 0)
  <2>1. PoolInv => (NotReopened => NoLostWakeup)
    BY <1>2, OptionsAssumption DEF PoolInv, NobodyParked, NoLostWakeup
  <2> QED
    BY <2>1, PoolAlways, PTL
<1> QED
  BY <1>1, <1>2

-----------------------------------------------------------------------------
(* The pool implements ResourceBroker.                                     *)

Want == [c \in Calls |-> CASE pc[c] = "new" -> "idle"
                           [] pc[c] \in InFlight -> "waiting"
                           [] pc[c] = "holding" -> "granted"
                           [] OTHER -> "ended"]
Granted == [c \in Calls |-> IF pc[c] = "holding" THEN ent[c] ELSE NoEntry]
Life == [e \in Calls |-> CASE status[e] = "absent" -> "none"
                           [] status[e] = "usable" -> "open"
                           [] status[e] = "disposing" -> "closing"
                           [] status[e] = "disposed" -> "gone"]

WantOf(s) == IF s = "new" THEN "idle" ELSE IF s \in InFlight THEN "waiting"
             ELSE IF s = "holding" THEN "granted" ELSE "ended"
LifeOf(s) == IF s = "absent" THEN "none" ELSE IF s = "usable" THEN "open"
             ELSE IF s = "disposing" THEN "closing" ELSE "gone"

LEMMA BrokerView ==
  ASSUME Types, Types'
  PROVE  /\ Want = [c \in Calls |-> WantOf(pc[c])] /\ Want' = [c \in Calls |-> WantOf(pc'[c])]
         /\ Life = [e \in Calls |-> LifeOf(status[e])]
         /\ Life' = [e \in Calls |-> LifeOf(status'[e])]
<1>1. Want = [c \in Calls |-> WantOf(pc[c])] /\ Want' = [c \in Calls |-> WantOf(pc'[c])]
  BY DEF Want, WantOf, InFlight, Running
<1>2. \A e \in Calls : status[e] \in Statuses /\ status'[e] \in Statuses
  BY DEF Types
<1> QED
  BY <1>1, <1>2 DEF Life, LifeOf, Statuses

(* A step that the caller of x does not see.                               *)
Unseen(x) ==
  /\ WantOf(pc'[x]) = WantOf(pc[x])
  /\ pc[x] = "holding" => ent'[x] = ent[x]

LEMMA UnseenStep ==
  ASSUME Types, Types', \A x \in Calls : Unseen(x)
  PROVE  UNCHANGED <<Want, Granted>>
<1>1. \A x \in Calls : pc'[x] = "holding" <=> pc[x] = "holding"
  BY DEF Unseen, WantOf, InFlight, Running
<1> QED
  BY <1>1, BrokerView DEF Granted, Unseen

LEMMA SeenStep ==
  ASSUME Types, Types', NEW c \in Calls, \A x \in Calls \ {c} : Unseen(x)
  PROVE  /\ Want' = [Want EXCEPT ![c] = WantOf(pc'[c])]
         /\ Granted' = [Granted EXCEPT ![c] = IF pc'[c] = "holding" THEN ent'[c] ELSE NoEntry]
         /\ Want[c] = WantOf(pc[c])
         /\ Granted[c] = IF pc[c] = "holding" THEN ent[c] ELSE NoEntry
<1>1. \A x \in Calls \ {c} : pc'[x] = "holding" <=> pc[x] = "holding"
  BY DEF Unseen, WantOf, InFlight, Running
<1> QED
  BY <1>1, BrokerView DEF Granted, Unseen

LEMMA StutterStep ==
  ASSUME Types, Types', \A x \in Calls : Unseen(x), UNCHANGED <<status, closed>>
  PROVE  UNCHANGED Broker!brokerVars
<1>1. UNCHANGED <<Want, Granted>>
  BY UnseenStep
<1>2. Life' = Life
  BY BrokerView
<1> QED
  BY <1>1, <1>2 DEF Broker!brokerVars, Want, Granted, Life

(* The resources of V go, unused, and nobody's call ends.                  *)
LEMMA RetireStep ==
  ASSUME Open, Types', NEW V \in SUBSET Calls, status' = Disposing(V),
         \A x \in Calls : Unseen(x), UNCHANGED closed,
         \A v \in V : status[v] = "usable" /\ refCount[v] = 0 /\ pc[v] \notin InFlight
  PROVE  Broker!BrokerNext \/ UNCHANGED Broker!brokerVars
<1>t. Types /\ RefCountExact
  BY OpenFacts DEF Open
<1>1. UNCHANGED <<Want, Granted>>
  BY <1>t, UnseenStep
<1>2. CASE V = {}
  <2>1. UNCHANGED status
    BY <1>t, <1>2, PointTypes DEF Disposing
  <2> QED
    BY <1>t, <2>1, StutterStep
<1>3. CASE V # {}
  <2>1. Life' = [e \in Calls |-> IF e \in V THEN "closing" ELSE Life[e]]
    BY <1>t, BrokerView DEF Disposing, LifeOf
  <2>2. ASSUME NEW v \in V
        PROVE  Life[v] = "open" /\ Want[v] # "waiting"
               /\ \A c \in Calls : ~(Want[c] = "granted" /\ Granted[c] = v)
    <3>1. \A c \in Calls : ~(pc[c] = "holding" /\ ent[c] = v)
      BY <1>t, HoldersFinite DEF RefCountExact
    <3>2. \A c \in Calls : Want[c] = "granted" => pc[c] = "holding"
      BY <1>t, BrokerView DEF WantOf
    <3>3. Life[v] = "open" /\ Want[v] # "waiting"
      BY <1>t, BrokerView DEF WantOf, LifeOf
    <3> QED
      BY <3>1, <3>2, <3>3 DEF Granted
  <2>3. Broker!Retire(V)
    <3>1. /\ V # {}
          /\ \A e \in V : /\ Life[e] = "open"
                         /\ {c \in Calls : Want[c] = "granted" /\ Granted[c] = e} = {}
                         /\ Want[e] # "waiting"
          /\ Life' = [e \in Calls |-> IF e \in V THEN "closing" ELSE Life[e]]
          /\ UNCHANGED <<Want, Granted, closed>> /\ ~closed
      BY <1>1, <1>3, <2>1, <2>2 DEF Open
    <3> QED
      BY <3>1 DEF Broker!Retire, Broker!GrantedTo, Broker!Closing, Want, Granted, Life
  <2>4. V \in SUBSET Broker!OpenOnes
    BY <2>2 DEF Broker!OpenOnes, Life
  <2> QED
    BY <2>3, <2>4 DEF Broker!BrokerNext
<1> QED
  BY <1>2, <1>3

LEMMA BrokerInit == Init => Broker!BrokerInit
<1> SUFFICES ASSUME Init PROVE Broker!BrokerInit
  OBVIOUS
<1>1. Want = [c \in Calls |-> "idle"]
  BY DEF Init, Want, InFlight, Running
<1>2. Granted = [c \in Calls |-> NoEntry]
  BY DEF Init, Granted
<1>3. Life = [e \in Calls |-> "none"]
  BY DEF Init, Life
<1>4. closed = FALSE
  BY Zenon DEF Init
<1> QED
  BY <1>1, <1>2, <1>3, <1>4, Zenon DEF Broker!BrokerInit, Want, Granted, Life

LEMMA RoomToOpen ==
  ASSUME Open, ReservedExact, Max > 0, NEW c \in Calls, pc[c] = "creating"
  PROVE  Cardinality({e \in Calls : status[e] = "usable"}) < Max
<1> DEFINE U == {e \in Calls : status[e] = "usable"}
           f == [k \in Live |-> entries[k]]
<1>1. f \in [Live -> U]
  BY OpenFacts, PointTypes DEF Live, Maps, Entry
<1>2. \A e \in U : \E k \in Live : f[k] = e
  BY OpenFacts, CallsAssumption DEF Live, Reachable
<1>3. f \in Surjection(Live, U)
  BY <1>1, <1>2, Fun_IsSurj
<1>4. IsFiniteSet(U) /\ Cardinality(U) <= Cardinality(Live) /\ Cardinality(U) \in Nat
  BY <1>3, MapSizes, FS_Surjection, FS_CardinalityType
<1>5. IsFiniteSet(Creations) /\ Cardinality(Creations) \in Nat /\ Cardinality(Creations) # 0
  <2>1. c \in Creations /\ IsFiniteSet(Creations)
    BY CallsAssumption, FS_Subset DEF Creations
  <2> QED
    BY <2>1, FS_EmptySet, FS_CardinalityType
<1>6. reserved = Cardinality(Creations)
  BY DEF ReservedExact, Creations
<1>7. Cardinality(Live) + Cardinality(Orphans) + reserved <= Max
  BY OpenFacts DEF CapacityBound
<1> QED
  BY <1>4, <1>5, <1>6, <1>7, MapSizes, OptionsAssumption

LEMMA SlotBroker ==
  ASSUME Open, Types', NEW c \in Calls, acquireSlot(c),
         pc[c] \in {"queued", "replacing", "woken"}, \A x \in Calls \ {c} : ent'[x] = ent[x]
  PROVE  Broker!BrokerNext \/ UNCHANGED Broker!brokerVars
<1>t. Types /\ ParkedListed /\ Maps /\ IdleMembership
  BY OpenFacts
<1>1. \A x \in Calls : Unseen(x)
  <2>1. /\ \A x \in Calls \ {c} : pc'[x] = pc[x]
        /\ pc'[c] \in {"creating", "parked", "failed"}
    BY <1>t, SlotEffect
  <2> QED
    BY <2>1 DEF Unseen, WantOf, InFlight, Running
<1>2. UNCHANGED closed
  BY DEF acquireSlot, lifeVars
<1>3. CASE UNCHANGED status
  BY <1>t, <1>1, <1>2, <1>3, StutterStep
<1>4. CASE EvictFor(c)
  <2>1. PICK i \in Evictable : status' = Disposing({idle[i]})
    BY <1>4 DEF EvictFor
  <2>2. PICK v \in Calls : v = idle[i] /\ v \in Elements(idle) /\ ~isPending(KeyOf[v])
    BY <1>t, <2>1, PointTypes DEF Elements, Evictable
  <2>3. status[v] = "usable" /\ refCount[v] = 0 /\ pc[v] \notin InFlight
    BY <1>t, <2>2, PointTypes DEF IdleMembership, Maps, isPending
  <2> QED
    BY <1>1, <1>2, <2>1, <2>2, <2>3, RetireStep
<1> QED
  BY <1>3, <1>4 DEF acquireSlot, Bounded, ParkOrReject

(* checkout() in a closed pool: e may be disposed of.                      *)
LEMMA GrantStep ==
  ASSUME Types, Types', NEW c \in Calls, NEW e \in Calls, checkout(c, e),
         KeyOf[e] = KeyOf[c], status[e] = "usable" \/ (closed /\ status[e] # "absent"),
         pc[c] \in {"new", "got"}, UNCHANGED <<status, closed>>
  PROVE  Broker!BrokerNext
<1>1. /\ pc'[c] = "holding" /\ ent'[c] = e
      /\ \A x \in Calls \ {c} : Unseen(x)
  BY PointTypes DEF checkout, Move, Unseen
<1>2. /\ Life[e] = "open" \/ (closed /\ Life[e] # "none")
      /\ Want' = [Want EXCEPT ![c] = "granted"]
      /\ Granted' = [Granted EXCEPT ![c] = e]
      /\ UNCHANGED <<Life, closed>>
  <2>1. Life' = Life
    BY BrokerView
  <2>2. Life[e] = "open" \/ (closed /\ Life[e] # "none")
    BY BrokerView, PointTypes DEF LifeOf, Statuses
  <2> QED
    BY <1>1, <2>1, <2>2, SeenStep DEF WantOf, InFlight, Running
<1>3. Want[c] = "idle" \/ Want[c] = "waiting"
  BY BrokerView DEF WantOf, InFlight, Running
<1>4. Broker!Grant(c, e) \/ Broker!GrantAtOnce(c, e)
  BY <1>2, <1>3
     DEF Broker!Grant, Broker!GrantAtOnce, Broker!Give, Broker!Found, Want, Granted, Life
<1> QED
  BY <1>4 DEF Broker!BrokerNext

LEMMA AskStep ==
  ASSUME Types, Types', NEW c \in Calls, AcquireQueued(c), UNCHANGED closed
  PROVE  Broker!BrokerNext
<1>1. /\ pc[c] = "new" /\ pc'[c] = "queued" /\ \A x \in Calls \ {c} : Unseen(x)
      /\ UNCHANGED status
  BY PointTypes DEF AcquireQueued, Unseen, resVars, Move
<1>2. /\ Want[c] = "idle" /\ Want' = [Want EXCEPT ![c] = "waiting"]
      /\ UNCHANGED <<Granted, Life, closed>>
  <2>1. Life' = Life
    BY <1>1, BrokerView
  <2> QED
    BY <1>1, <2>1, SeenStep, BrokerView DEF WantOf, InFlight, Running, Granted
<1>3. Broker!Ask(c)
  BY <1>2 DEF Broker!Ask, Want, Granted, Life
<1> QED
  BY <1>3 DEF Broker!BrokerNext

(* In a closed pool the last holder's release disposes of the resource.    *)
LEMMA HandleBack ==
  ASSUME Types, Types', NEW c \in Calls, pc[c] = "holding", pc'[c] = "done",
         \A x \in Calls \ {c} : Unseen(x), UNCHANGED closed,
         ~closed => UNCHANGED status,
         closed => \A e \in Calls :
           status'[e] = IF status[e] = "usable" /\ Holders(e) = {c} THEN "disposing" ELSE status[e]
  PROVE  Broker!BrokerNext
<1> DEFINE U == {e \in Calls : Life[e] = "open"}
           G(e) == {x \in Calls : Want[x] = "granted" /\ Granted[x] = e}
           S == {e \in U : G(e) # {} /\ G(e) \subseteq {c}}
<1>1. DOMAIN Want = Calls /\ DOMAIN Granted = Calls /\ Life = [e \in Calls |-> Life[e]]
  <2>1. Life = [e \in Calls |-> Life[e]]
    BY BrokerView
  <2> QED
    BY <2>1 DEF Want, Granted
<1>2. /\ Want[c] = "granted"
      /\ Want' = [x \in Calls |-> IF x \in {c} THEN "ended" ELSE Want[x]]
      /\ Granted' = [x \in Calls |-> IF x \in {c} THEN NoEntry ELSE Granted[x]]
  <2>1. Want[c] = "granted" /\ Want' = [Want EXCEPT ![c] = "ended"]
    BY SeenStep DEF WantOf, InFlight, Running
  <2>2. Granted' = [Granted EXCEPT ![c] = NoEntry]
    BY SeenStep
  <2>3. [Want EXCEPT ![c] = "ended"] = [x \in Calls |-> IF x \in {c} THEN "ended" ELSE Want[x]]
    BY <1>1
  <2>4. [Granted EXCEPT ![c] = NoEntry]
        = [x \in Calls |-> IF x \in {c} THEN NoEntry ELSE Granted[x]]
    BY <1>1
  <2> QED
    BY <2>1, <2>2, <2>3, <2>4
<1>3. Life' = IF closed THEN [e \in Calls |-> IF e \in S THEN "closing" ELSE Life[e]] ELSE Life
  <2>1. CASE ~closed
    BY <2>1, BrokerView
  <2>2. CASE closed
    <3>1. \A e \in Calls : e \in S <=> status[e] = "usable" /\ Holders(e) = {c}
      <4> TAKE e \in Calls
      <4>1. Life[e] = "open" <=> status[e] = "usable"
        BY BrokerView DEF LifeOf
      <4>2. G(e) = Holders(e)
        <5>1. \A x \in Calls : Want[x] = "granted" <=> pc[x] = "holding"
          BY BrokerView DEF WantOf, InFlight, Running
        <5> QED
          BY <5>1 DEF Holders, Granted
      <4> QED
        BY <4>1, <4>2
    <3> HIDE DEF S
    <3>2. \A e \in Calls : LifeOf(status'[e]) = IF e \in S THEN "closing" ELSE LifeOf(status[e])
      BY <2>2, <3>1 DEF LifeOf
    <3>3. \A e \in Calls : Life[e] = LifeOf(status[e])
      BY BrokerView
    <3> QED
      BY <2>2, <3>2, <3>3, BrokerView
  <2> QED
    BY <2>1, <2>2
<1>4. Broker!GiveBack({c})
  BY <1>2, <1>3
     DEF Broker!GiveBack, Broker!HandleDropped, Broker!Closing, Broker!LastOf, Broker!OpenOnes,
         Broker!GrantedTo, Want, Granted, Life
<1> QED
  BY <1>4 DEF Broker!BrokerNext

LEMMA SameCardinality == \A S : Broker!Cardinality(S) = Cardinality(S)
BY DEF Broker!Cardinality, Cardinality

LEMMA BrokerStep ==
  ASSUME Open, Types', ~closed', Max > 0 => ReservedExact, [Next]_vars
  PROVE  Broker!BrokerNext \/ UNCHANGED Broker!brokerVars
<1>t. /\ Types /\ ClaimsReal /\ ParkedListed /\ Claims /\ Maps /\ UsersLive /\ IdleMembership
      /\ Reachable /\ condemned = {} /\ \A k \in Keys : orphans[k] = NoEntry
      /\ closed = FALSE /\ closed' = FALSE
  BY OpenFacts DEF Open, Types
<1>m. \A c \in Calls : \A s : /\ Move(c, s)[c] = s
                              /\ \A x \in Calls \ {c} : Move(c, s)[x] = pc[x]
  BY <1>t DEF Types, Move
<1>s. UNCHANGED status => Life' = Life
  BY <1>t, BrokerView
<1>1. ASSUME NEW c \in Calls, AcquireFast(c) \/ Settle(c)
      PROVE  Broker!BrokerNext
  <2>1. PICK e \in Calls : /\ checkout(c, e) /\ entries[KeyOf[c]] = e /\ UNCHANGED status
                           /\ pc[c] \in {"new", "got"}
    <3>1. CASE AcquireFast(c)
      BY <1>t, <3>1, PointTypes DEF AcquireFast, Shareable, isUsable, Entry
    <3>2. CASE Settle(c)
      BY <1>t, <3>2 DEF Settle, UsersLive, Users, ClaimsReal
    <3> QED
      BY <1>1, <3>1, <3>2
  <2>2. KeyOf[e] = KeyOf[c] /\ status[e] = "usable"
    BY <1>t, <2>1, PointTypes DEF Maps
  <2> QED
    BY <1>t, <2>1, <2>2, GrantStep
<1>2. ASSUME NEW c \in Calls, AcquireQueued(c) PROVE Broker!BrokerNext
  BY <1>t, <1>2, AskStep
<1>3. ASSUME NEW c \in Calls, \/ ObtainLive(c) \/ ValidateOk(c) \/ ValidateThrows(c)
                              \/ Timeout(c) \/ DiscardDone(c)
      PROVE  UNCHANGED Broker!brokerVars
  <2>1. /\ pc[c] \in InFlight /\ pc'[c] \in InFlight
        /\ \A x \in Calls \ {c} : pc'[x] = pc[x] /\ ent'[x] = ent[x]
    BY <1>t, <1>m, <1>3, PointTypes
       DEF ObtainLive, Turn, UseLive, ValidateOk, ValidateThrows, Timeout, DiscardDone,
           InFlight, Running
  <2>2. UNCHANGED <<status, closed>>
    BY <1>3
       DEF ObtainLive, UseLive, ValidateOk, ValidateThrows, Timeout, DiscardDone, resVars,
           lifeVars
  <2>3. \A x \in Calls : Unseen(x)
    BY <2>1 DEF Unseen, WantOf, InFlight, Running
  <2> QED
    BY <1>t, <2>2, <2>3, StutterStep
<1>4. ASSUME NEW c \in Calls, ObtainMissing(c) \/ Replace(c) \/ Retry(c)
      PROVE  Broker!BrokerNext \/ UNCHANGED Broker!brokerVars
  <2>1. /\ pc[c] \in {"queued", "replacing", "woken"} /\ acquireSlot(c)
        /\ \A x \in Calls \ {c} : ent'[x] = ent[x]
    BY <1>t, <1>4, PointTypes
       DEF ObtainMissing, Turn, Replace, Retry, Missing, Resurrect, Refuse, GoForSlot, isUsable
  <2> QED
    BY <2>1, SlotBroker
<1>5. ASSUME NEW c \in Calls, ValidateStale(c)
      PROVE  Broker!BrokerNext \/ UNCHANGED Broker!brokerVars
  <2>1. PICK e \in Calls : e = ent[c]
    BY <1>t, <1>5 DEF ValidateStale, ClaimsReal
  <2>2. /\ status' = Disposing({e}) /\ pc[c] = "validating" /\ pc'[c] = "replacing"
        /\ \A x \in Calls \ {c} : pc'[x] = pc[x] /\ ent'[x] = ent[x]
    BY <1>m, <1>5, <2>1 DEF ValidateStale
  <2>3. status[e] = "usable" /\ refCount[e] = 0 /\ KeyOf[e] = KeyOf[c]
    BY <1>t, <2>1, <2>2, PointTypes DEF UsersLive, Users, Maps, Claims, ClaimsOf
  <2>4. pc[e] \notin InFlight
    <3>1. pc[e] \in {"got", "holding", "done"}
      BY <1>t, <2>3 DEF Claims, ClaimsOf
    <3>2. pc[e] # "got"
      BY <2>2, <2>3, Alone DEF Open, Running
    <3> QED
      BY <3>1, <3>2 DEF InFlight, Running
  <2>5. \A x \in Calls : Unseen(x)
    BY <2>2 DEF Unseen, WantOf, InFlight, Running
  <2>6. {e} \in SUBSET Calls
    OBVIOUS
  <2>7. \A v \in {e} : status[v] = "usable" /\ refCount[v] = 0 /\ pc[v] \notin InFlight
    BY <2>3, <2>4
  <2> QED
    BY <1>t, <2>2, <2>5, <2>6, <2>7, RetireStep
<1>6. ASSUME NEW c \in Calls, FactoryResolves(c) PROVE Broker!BrokerNext
  <2>1. /\ pc[c] = "creating" /\ pc'[c] = "got"
        /\ \A x \in Calls \ {c} : pc'[x] = pc[x] /\ ent'[x] = ent[x]
        /\ status' = [status EXCEPT ![c] = "usable"]
    BY <1>t, <1>m, <1>6, PointTypes DEF FactoryResolves, insert
  <2>2. UNCHANGED <<Want, Granted>> /\ Want[c] = "waiting"
    <3>1. \A x \in Calls : Unseen(x)
      BY <2>1 DEF Unseen, WantOf, InFlight, Running
    <3> QED
      BY <1>t, <2>1, <3>1, UnseenStep, BrokerView DEF WantOf, InFlight, Running
  <2>3. Life[c] = "none" /\ Life' = [Life EXCEPT ![c] = "open"]
    <3>1. status[c] = "absent"
      BY <1>t, <2>1 DEF Claims, ClaimsOf
    <3> QED
      BY <1>t, <2>1, <3>1, PointTypes, BrokerView DEF LifeOf
  <2>4. {e \in Calls : Life[e] = "open"} = {e \in Calls : status[e] = "usable"}
    <3>1. \A e \in Calls : Life[e] = "open" <=> status[e] = "usable"
      BY <1>t, BrokerView DEF LifeOf
    <3> QED
      BY <3>1
  <2>5. \A e \in {x \in Calls : Life[x] = "open"} : KeyOf[e] # KeyOf[c]
    <3> SUFFICES ASSUME NEW e \in Calls, Life[e] = "open" PROVE KeyOf[e] # KeyOf[c]
      OBVIOUS
    <3>1. status[e] = "usable"
      BY <2>4
    <3>2. e = entries[KeyOf[e]] /\ KeyOf[e] \in Keys
      BY <1>t, <3>1, CallsAssumption DEF Reachable
    <3>3. entries[KeyOf[c]] = NoEntry
      BY <1>t, <2>1 DEF Claims, ClaimsOf, Vacant
    <3> QED
      BY <3>2, <3>3, CallsAssumption
  <2>6. Max > 0 => Cardinality({e \in Calls : Life[e] = "open"}) < Max
    <3>1. Max > 0 => Cardinality({e \in Calls : status[e] = "usable"}) < Max
      BY <2>1, RoomToOpen
    <3> QED
      BY <2>4, <3>1
  <2>7. Broker!Open(c)
    <3>1. /\ Want[c] = "waiting" /\ Life[c] = "none" /\ ~closed
          /\ \A e \in {x \in Calls : Life[x] = "open"} : KeyOf[e] # KeyOf[c]
          /\ Max > 0 => Cardinality({e \in Calls : Life[e] = "open"}) < Max
          /\ Life' = [Life EXCEPT ![c] = "open"]
          /\ UNCHANGED <<Want, Granted, closed>>
      BY <1>t, <2>2, <2>3, <2>5, <2>6
    <3>2. Broker!OpenOnes = {e \in Calls : Life[e] = "open"}
      BY DEF Broker!OpenOnes, Life
    <3>3. Max > 0 => Broker!Cardinality(Broker!OpenOnes) < Max
      BY <3>1, <3>2, SameCardinality
    <3>4. \A e \in Broker!OpenOnes : KeyOf[e] # KeyOf[c]
      BY <3>1, <3>2
    <3> QED
      BY <3>1, <3>3, <3>4, Zenon DEF Broker!Open, Want, Granted, Life
  <2> QED
    BY <2>7 DEF Broker!BrokerNext
<1>7. ASSUME NEW c \in Calls, FactoryRejects(c) PROVE UNCHANGED Broker!brokerVars
  <2>1. /\ pc[c] = "creating" /\ releaseReservation(Move(c, "failed"))
        /\ UNCHANGED <<ent, status>>
    BY <1>7 DEF FactoryRejects, resVars
  <2>2. /\ pc'[c] = "failed"
        /\ \A x \in Calls \ {c} : pc'[x] = pc[x] \/ (pc[x] = "parked" /\ pc'[x] = "woken")
    <3>1. "failed" \in PCs
      BY DEF PCs, InFlight, Running
    <3> QED
      BY <1>t, <2>1, <3>1, ReservationEffect
  <2>3. \A x \in Calls : Unseen(x)
    BY <2>1, <2>2 DEF Unseen, WantOf, InFlight, Running
  <2> QED
    BY <1>t, <2>1, <2>3, StutterStep
<1>8. ASSUME NEW c \in Calls, SettleFailed(c) PROVE Broker!BrokerNext
  <2>1. /\ pc[c] = "failed" /\ pc'[c] = "rejected" /\ UNCHANGED status
        /\ \A x \in Calls \ {c} : pc'[x] = pc[x] /\ ent'[x] = ent[x]
    BY <1>t, <1>m, <1>8, PointTypes DEF SettleFailed, resVars
  <2>2. \A x \in Calls \ {c} : Unseen(x)
    BY <2>1 DEF Unseen
  <2>3. /\ Want[c] = "waiting" /\ Want' = [Want EXCEPT ![c] = "ended"]
        /\ UNCHANGED <<Granted, Life, closed>>
    BY <1>t, <1>s, <2>1, <2>2, SeenStep, BrokerView DEF WantOf, InFlight, Running, Granted
  <2>4. Broker!Refuse(c)
    BY <2>3 DEF Broker!Refuse, Want, Granted, Life
  <2> QED
    BY <2>4 DEF Broker!BrokerNext
<1>9. ASSUME NEW c \in Calls, Release(c) \/ ReleaseKey(c) PROVE Broker!BrokerNext
  <2>1. /\ pc[c] = "holding" /\ ent[c] \in Calls /\ releaseEntry(ent[c], Move(c, "done"))
        /\ \A x \in Calls \ {c} : ent'[x] = ent[x]
    BY <1>t, <1>9, PointTypes DEF Release, ReleaseKey, UsersLive, Users, ClaimsReal
  <2>2. UNCHANGED status
    BY <1>t, <2>1, PointTypes
       DEF releaseEntry, LastRelease, isCondemned, BackToIdle, Claims, ClaimsOf
  <2>3. /\ pc'[c] = "done"
        /\ \A x \in Calls \ {c} : pc'[x] = pc[x] \/ (pc[x] = "parked" /\ pc'[x] = "woken")
    BY <1>t, <2>1, ReleaseEffect
  <2>4. \A x \in Calls \ {c} : Unseen(x)
    BY <2>1, <2>3 DEF Unseen, WantOf, InFlight, Running
  <2> QED
    BY <1>t, <2>1, <2>2, <2>3, <2>4, HandleBack
<1>10. ASSUME NEW e \in Calls, DisposeDone(e) PROVE Broker!BrokerNext
  <2>1. /\ status[e] = "disposing" /\ status' = [status EXCEPT ![e] = "disposed"]
        /\ \A x \in Calls : Unseen(x)
    BY <1>10 DEF DisposeDone, callVars, Unseen
  <2>2. /\ Life[e] = "closing" /\ Life' = [Life EXCEPT ![e] = "gone"]
        /\ UNCHANGED <<Want, Granted, closed>>
    BY <1>t, <2>1, PointTypes, UnseenStep, BrokerView DEF LifeOf
  <2>3. Broker!Gone(e)
    BY <2>2 DEF Broker!Gone, Want, Granted, Life
  <2> QED
    BY <2>3 DEF Broker!BrokerNext
<1>11. ASSUME NEW n \in DOMAIN idle, Sweep(n)
       PROVE  Broker!BrokerNext \/ UNCHANGED Broker!brokerVars
  <2>1. PICK V : /\ V \subseteq Elements(idle) /\ \A v \in V : ~isPending(KeyOf[v])
                 /\ status' = Disposing(V) /\ Wake(pc, Cardinality(V)) /\ UNCHANGED ent
    BY <1>11 DEF Sweep, Elements, Evictable
  <2>2. V \in SUBSET Calls /\ Cardinality(V) \in Nat
    BY <1>t, <2>1, PointTypes, CallsAssumption, FS_Subset, FS_CardinalityType
  <2>3. \A x \in Calls : pc'[x] = pc[x] \/ (pc[x] = "parked" /\ pc'[x] = "woken")
    <3>1. pc \in [Calls -> PCs]
      BY <1>t DEF Types
    <3> QED
      BY <1>t, <2>1, <2>2, <3>1, WakeEffect
  <2>4. \A x \in Calls : Unseen(x)
    BY <2>1, <2>3 DEF Unseen, WantOf, InFlight, Running
  <2>5. \A v \in V : status[v] = "usable" /\ refCount[v] = 0 /\ pc[v] \notin InFlight
    BY <1>t, <2>1, <2>2, PointTypes DEF IdleMembership, Maps, isPending
  <2> QED
    BY <1>t, <2>1, <2>2, <2>4, <2>5, RetireStep
<1>12. CASE Start \/ UNCHANGED vars \/ \E d \in Drains : DrainDone(d)
  <2>1. UNCHANGED <<pc, ent, status>>
    BY <1>12 DEF Start, DrainDone, vars, callVars, resVars
  <2> QED
    BY <1>t, <2>1, StutterStep DEF Unseen
<1>13. ASSUME NEW d \in Drains, Drain(d) PROVE FALSE
  BY <1>t, <1>13 DEF Drain, setClosed
<1> QED
  BY <1>1, <1>2, <1>3, <1>4, <1>5, <1>6, <1>7, <1>8, <1>9, <1>10, <1>11, <1>12, <1>13
     DEF Next, Acquire, Obtain, Validated, Created, Settled, Released

-----------------------------------------------------------------------------
(* So does a closed one, and the drain that closes it.                     *)

(* What a closed pool keeps has holders.                                   *)
Used == closed => \A e \in Calls : status[e] = "usable" => refCount[e] # 0

LEMMA UsedStep ==
  ASSUME PoolInv, NotReopened, Used, [Next]_vars
  PROVE  Used'
<1>t. /\ Types /\ ClaimsReal /\ Claims /\ Maps /\ Reachable
      /\ ~closed => \A k \in Keys : orphans[k] = NoEntry
      /\ closed => ~started /\ AllCondemned
  BY DEF PoolInv, Base, Tables, Kept, Grounded, Lifecycle
<1>1. ASSUME NEW d \in Drains, Drain(d) PROVE Used'
  <2> SUFFICES ASSUME NEW e \in Calls, status'[e] = "usable", refCount'[e] = 0 PROVE FALSE
    BY DEF Used
  <2>1. status[e] = "usable" /\ ~(entries[KeyOf[e]] = e /\ refCount[e] = 0)
    BY <1>t, <1>1, Drained
  <2>2. refCount[e] = 0
    BY <1>1 DEF Drain
  <2> QED
    BY <1>t, <2>1, <2>2, PointTypes DEF Used, Reachable
<1>2. CASE closed /\ ~\E d \in Drains : Drain(d)
  <2>k. ASSUME \A e \in Calls : status'[e] = "usable" =>
                 status[e] = "usable" /\ (refCount'[e] = refCount[e] \/ refCount'[e] # 0)
        PROVE  Used'
    BY <1>2, <2>k DEF Used
  <2>d. ASSUME NEW S, status' = Disposing(S), UNCHANGED refCount PROVE Used'
    BY <1>t, <2>d, <2>k, PointTypes DEF Disposing
  <2>u. ASSUME UNCHANGED <<status, refCount>> PROVE Used'
    BY <2>u, <2>k
  <2>1. ASSUME NEW c \in Calls, AcquireFast(c) \/ Settle(c) PROVE Used'
    <3>1. PICK e \in Calls : checkout(c, e) /\ UNCHANGED status
      BY <1>t, <2>1, PointTypes
         DEF AcquireFast, Settle, Shareable, isUsable, Entry, ClaimsReal
    <3> QED
      BY <1>t, <2>k, <3>1, PointTypes DEF checkout
  <2>2. ASSUME NEW c \in Calls, Release(c) \/ ReleaseKey(c) PROVE Used'
    <3>1. ASSUME NEW e \in Calls, releaseEntry(e, Move(c, "done")) PROVE Used'
      <4>1. CASE UNCHANGED <<status, refCount>>
        BY <2>u, <4>1
      <4>2. CASE /\ refCount' = [refCount EXCEPT ![e] = @ - 1]
                 /\ IF LastRef(e) THEN LastRelease(e, Move(c, "done")) ELSE UNCHANGED status
        <5>1. CASE status[e] = "usable" /\ LastRef(e)
          <6>1. status' = Disposing({e})
            BY <1>t, <1>2, <4>2, <5>1 DEF LastRelease, isCondemned, AllCondemned
          <6> QED
            BY <1>t, <2>k, <4>2, <6>1, PointTypes DEF Disposing
        <5>2. CASE ~(status[e] = "usable" /\ LastRef(e))
          <6>1. UNCHANGED status \/ status' = Disposing({e})
            BY <4>2 DEF LastRelease, BackToIdle
          <6>2. \A x \in Calls : status'[x] = "usable" => status[x] = "usable"
            BY <1>t, <6>1, PointTypes DEF Disposing
          <6>3. ~LastRef(e) => refCount'[e] # 0
            BY <1>t, <4>2, PointTypes DEF LastRef
          <6> QED
            BY <1>t, <2>k, <4>2, <5>2, <6>2, <6>3, PointTypes
        <5> QED
          BY <5>1, <5>2
      <4> QED
        BY <3>1, <4>1, <4>2 DEF releaseEntry
    <3>2. CASE Release(c)
      BY <1>t, <3>1, <3>2 DEF Release, ClaimsReal
    <3>3. CASE ReleaseKey(c)
      BY <1>t, <2>u, <3>1, <3>3, PointTypes DEF ReleaseKey, Entry
    <3> QED
      BY <2>2, <3>2, <3>3
  <2>3. ASSUME NEW c \in Calls, \/ AcquireQueued(c) \/ Obtain(c) \/ ValidateOk(c)
                                \/ ValidateThrows(c) \/ Replace(c) \/ Retry(c) \/ Timeout(c)
                                \/ Created(c) \/ DiscardDone(c) \/ SettleFailed(c)
        PROVE  Used'
    BY <1>2, <2>3, <2>u
       DEF AcquireQueued, Obtain, ObtainLive, UseLive, ObtainMissing, Missing, Resurrect, Refuse,
           GoForSlot, acquireSlot, Bounded, ValidateOk, ValidateThrows, Replace, Retry, Timeout,
           Created, FactoryResolves, FactoryRejects, discard, DiscardDone, SettleFailed, resVars
  <2>4. ASSUME NEW c \in Calls, ValidateStale(c) PROVE Used'
    BY <2>4, <2>d DEF ValidateStale
  <2>5. ASSUME NEW e \in Calls, DisposeDone(e) PROVE Used'
    BY <1>t, <2>5, <2>k, PointTypes DEF DisposeDone
  <2>6. ASSUME NEW n \in DOMAIN idle, Sweep(n) PROVE Used'
    BY <1>t, <1>2, <2>6 DEF Sweep
  <2>7. CASE Start \/ UNCHANGED vars \/ \E d \in Drains : DrainDone(d)
    BY <2>7, <2>u DEF Start, vars, DrainDone, resVars
  <2> QED
    BY <1>2, <2>1, <2>2, <2>3, <2>4, <2>5, <2>6, <2>7
       DEF Next, Acquire, Validated, Settled, Released
<1>3. CASE ~closed /\ ~\E d \in Drains : Drain(d)
  BY <1>3, LifeStep DEF Used, Start, DrainDone, lifeVars
<1> QED
  BY <1>1, <1>2, <1>3

LEMMA UsedAlways == Spec => [](NotReopened => Used)
<1>1. Init => Used
  BY DEF Init, Used
<1>2. ASSUME PoolInv, NotReopened => Used, [Next]_vars PROVE NotReopened' => Used'
  BY <1>2, ClosingStep, UsedStep DEF PoolInv, Base
<1>3. PoolInv /\ (NotReopened => Used) /\ [Next]_vars => (NotReopened => Used)'
  BY <1>2
<1> QED
  BY <1>1, <1>3, PoolAlways, PTL DEF Spec

(* A drain disposes of what has no holders, and of nothing else.           *)
LEMMA DrainBroker ==
  ASSUME PoolInv, Types', NotReopened, Used, NEW d \in Drains, Drain(d)
  PROVE  Broker!BrokerNext
<1>t. /\ Types /\ ParkedListed /\ Maps /\ Reachable /\ RefCountExact
      /\ ~closed => \A k \in Keys : orphans[k] = NoEntry
  BY DEF PoolInv, Base, Tables, Counted, Kept, Grounded, Lifecycle
<1>1. UNCHANGED <<Want, Granted>>
  <2>1. \A x \in Calls : pc'[x] = IF pc[x] = "parked" THEN "failed" ELSE pc[x]
    BY <1>t DEF Drain, setClosed, ParkedListed
  <2>2. \A x \in Calls : Unseen(x)
    BY <2>1 DEF Drain, Unseen, WantOf, InFlight, Running
  <2> QED
    BY <1>t, <2>2, UnseenStep
<1> DEFINE G(e) == {x \in Calls : Want[x] = "granted" /\ Granted[x] = e}
           S == {e \in {x \in Calls : Life[x] = "open"} : G(e) = {}}
<1>2. \A e \in Calls : e \in S <=> status[e] = "usable" /\ refCount[e] = 0
  <2> TAKE e \in Calls
  <2>1. Life[e] = "open" <=> status[e] = "usable"
    BY <1>t, BrokerView DEF LifeOf
  <2>2. \A x \in Calls : Want[x] = "granted" <=> pc[x] = "holding"
    BY <1>t, BrokerView DEF WantOf, InFlight, Running
  <2>3. G(e) = {} <=> \A x \in Calls : ~(pc[x] = "holding" /\ ent[x] = e)
    BY <2>2 DEF Granted
  <2>4. status[e] = "usable" => (refCount[e] = 0 <=> G(e) = {})
    BY <1>t, <2>3, HoldersFinite DEF RefCountExact
  <2> QED
    BY <2>1, <2>4
<1> HIDE DEF S
<1>3. \A e \in Calls : status'[e] = IF e \in S THEN "disposing" ELSE status[e]
  <2> TAKE e \in Calls
  <2>1. status'[e] = IF entries[KeyOf[e]] = e /\ refCount[e] = 0 THEN "disposing" ELSE status[e]
    BY <1>t, Drained
  <2>2. entries[KeyOf[e]] = e => status[e] = "usable"
    BY <1>t, PointTypes DEF Maps
  <2>3. status[e] = "usable" /\ refCount[e] = 0 => entries[KeyOf[e]] = e
    BY <1>t, PointTypes DEF Used, Reachable
  <2> QED
    BY <1>2, <2>1, <2>2, <2>3
<1>4. Life' = [e \in Calls |-> IF e \in S THEN "closing" ELSE Life[e]]
  <2>1. \A e \in Calls : LifeOf(status'[e]) = IF e \in S THEN "closing" ELSE LifeOf(status[e])
    BY <1>3 DEF LifeOf
  <2>2. \A e \in Calls : Life[e] = LifeOf(status[e])
    BY <1>t, BrokerView
  <2> QED
    BY <1>t, <2>1, <2>2, BrokerView
<1>5. closed' = TRUE
  BY DEF Drain, setClosed
<1>6. Broker!Shut
  BY <1>1, <1>4, <1>5
     DEF S, Broker!Shut, Broker!Closing, Broker!OpenOnes, Broker!GrantedTo, Want, Granted, Life
<1> QED
  BY <1>6 DEF Broker!BrokerNext

LEMMA ClosedStep ==
  ASSUME PoolInv, Types', NotReopened, NotReopened', closed, Used, [Next]_vars
  PROVE  Broker!BrokerNext \/ UNCHANGED Broker!brokerVars
<1>t. /\ Types /\ ClaimsReal /\ ParkedListed /\ Claims /\ Maps /\ RefCountExact /\ HeldMapped
      /\ AllCondemned /\ ~started
  BY DEF PoolInv, Base, Tables, Counted, Kept, Grounded, Lifecycle
<1>m. \A c \in Calls : \A s : /\ Move(c, s)[c] = s
                              /\ \A x \in Calls \ {c} : Move(c, s)[x] = pc[x]
  BY <1>t DEF Types, Move
<1>i. ASSUME NEW c \in Calls, pc[c] \in InFlight, pc'[c] \in InFlight,
             \A x \in Calls \ {c} : pc'[x] = pc[x] \/ (pc[x] = "parked" /\ pc'[x] = "woken"),
             \A x \in Calls \ {c} : ent'[x] = ent[x], UNCHANGED <<status, closed>>
      PROVE  UNCHANGED Broker!brokerVars
  <2>1. \A x \in Calls : Unseen(x)
    BY <1>i DEF Unseen, WantOf, InFlight, Running
  <2> QED
    BY <1>t, <1>i, <2>1, StutterStep
<1>1. ASSUME NEW c \in Calls, AcquireFast(c) \/ Settle(c) PROVE Broker!BrokerNext
  <2>1. PICK e \in Calls : /\ checkout(c, e) /\ UNCHANGED <<status, closed>>
                           /\ KeyOf[e] = KeyOf[c] /\ status[e] # "absent"
                           /\ pc[c] \in {"new", "got"}
    <3>1. CASE AcquireFast(c)
      BY <1>t, <3>1, PointTypes DEF AcquireFast, Shareable, isUsable, Entry, Maps, lifeVars
    <3>2. CASE Settle(c)
      BY <1>t, <3>2 DEF Settle, Claims, ClaimsOf, ClaimsReal, lifeVars
    <3> QED
      BY <1>1, <3>1, <3>2
  <2> QED
    BY <1>t, <2>1, GrantStep
<1>2. ASSUME NEW c \in Calls, AcquireQueued(c) PROVE Broker!BrokerNext
  BY <1>t, <1>2, AskStep DEF AcquireQueued, lifeVars
<1>3. ASSUME NEW c \in Calls, \/ ObtainLive(c) \/ ValidateOk(c) \/ ValidateThrows(c)
                              \/ Timeout(c) \/ DiscardDone(c)
      PROVE  UNCHANGED Broker!brokerVars
  <2>1. /\ pc[c] \in InFlight /\ pc'[c] \in InFlight
        /\ \A x \in Calls \ {c} : pc'[x] = pc[x] /\ ent'[x] = ent[x]
    BY <1>t, <1>m, <1>3, PointTypes
       DEF ObtainLive, Turn, UseLive, ValidateOk, ValidateThrows, Timeout, DiscardDone,
           InFlight, Running
  <2>2. UNCHANGED <<status, closed>>
    BY <1>3
       DEF ObtainLive, UseLive, ValidateOk, ValidateThrows, Timeout, DiscardDone, resVars,
           lifeVars
  <2> QED
    BY <1>i, <2>1, <2>2
<1>4. ASSUME NEW c \in Calls, ObtainMissing(c) \/ Replace(c) \/ Retry(c)
      PROVE  UNCHANGED Broker!brokerVars
  <2>1. pc[c] \in {"queued", "replacing", "woken"}
    BY <1>4 DEF ObtainMissing, Turn, Replace, Retry
  <2>2. /\ pc'[c] \in {"got", "failed", "creating", "parked"}
        /\ \A x \in Calls \ {c} : pc'[x] = pc[x] /\ ent'[x] = ent[x]
        /\ UNCHANGED <<status, closed>>
    <3>1. CASE Missing(c)
      <4>1. UNCHANGED <<status, closed>>
        BY <3>1 DEF Missing, Resurrect, Refuse, GoForSlot, resVars, lifeVars
      <4> QED
        BY <1>t, <2>1, <3>1, <4>1, MissingEffect
    <3>2. CASE acquireSlot(c) /\ UNCHANGED ent
      <4>1. UNCHANGED <<status, closed>>
        BY <3>2 DEF acquireSlot, Bounded, lifeVars
      <4> QED
        BY <1>t, <2>1, <3>2, <4>1, SlotEffect
    <3> QED
      BY <1>4, <3>1, <3>2 DEF ObtainMissing, Replace, Retry
  <2> QED
    BY <1>i, <2>1, <2>2 DEF InFlight, Running
<1>5. ASSUME NEW c \in Calls, ValidateStale(c) PROVE UNCHANGED Broker!brokerVars
  <2>1. pc[c] = "validating" /\ status[ent[c]] # "usable" /\ ent[c] \in Calls
    BY <1>t, <1>5 DEF ValidateStale, Claims, ClaimsOf, ClaimsReal, Used
  <2>2. /\ pc'[c] = "replacing" /\ \A x \in Calls \ {c} : pc'[x] = pc[x] /\ ent'[x] = ent[x]
        /\ UNCHANGED closed
    BY <1>m, <1>5 DEF ValidateStale, lifeVars
  <2>3. UNCHANGED status
    BY <1>t, <1>5, <2>1, PointTypes DEF ValidateStale, Disposing
  <2> QED
    BY <1>i, <2>1, <2>2, <2>3 DEF InFlight, Running
<1>6. ASSUME NEW c \in Calls, Created(c) PROVE UNCHANGED Broker!brokerVars
  <2>1. PICK s \in {"discarding", "failed"} :
          pc[c] = "creating" /\ releaseReservation(Move(c, s)) /\ UNCHANGED <<ent, status, closed>>
    BY <1>6 DEF Created, FactoryResolves, discard, FactoryRejects, resVars, lifeVars
  <2>2. s \in PCs /\ s \notin {"parked", "creating"} /\ s \in InFlight
    BY DEF PCs, InFlight, Running
  <2>3. /\ pc'[c] = s
        /\ \A x \in Calls \ {c} : pc'[x] = pc[x] \/ (pc[x] = "parked" /\ pc'[x] = "woken")
    BY <1>t, <2>1, <2>2, ReservationEffect
  <2> QED
    BY <1>i, <2>1, <2>2, <2>3 DEF InFlight, Running
<1>8. ASSUME NEW c \in Calls, SettleFailed(c) PROVE Broker!BrokerNext
  <2>1. /\ pc[c] = "failed" /\ pc'[c] = "rejected" /\ UNCHANGED <<status, closed>>
        /\ \A x \in Calls \ {c} : pc'[x] = pc[x] /\ ent'[x] = ent[x]
    BY <1>t, <1>m, <1>8, PointTypes DEF SettleFailed, resVars, lifeVars
  <2>2. \A x \in Calls \ {c} : Unseen(x)
    BY <2>1 DEF Unseen
  <2>3. /\ Want[c] = "waiting" /\ Want' = [Want EXCEPT ![c] = "ended"]
        /\ UNCHANGED <<Granted, Life, closed>>
    <3>1. Life' = Life
      BY <1>t, <2>1, BrokerView
    <3> QED
      BY <1>t, <2>1, <2>2, <3>1, SeenStep, BrokerView DEF WantOf, InFlight, Running, Granted
  <2>4. Broker!Refuse(c)
    BY <2>3 DEF Broker!Refuse, Want, Granted, Life
  <2> QED
    BY <2>4 DEF Broker!BrokerNext
<1>9. ASSUME NEW c \in Calls, Release(c) \/ ReleaseKey(c) PROVE Broker!BrokerNext
  <2> DEFINE h == ent[c]
             lost(e) == status[e] = "usable" /\ Holders(e) = {c}
  <2>1. /\ pc[c] = "holding" /\ h \in Calls /\ KeyOf[h] = KeyOf[c] /\ UNCHANGED closed
        /\ \A x \in Calls \ {c} : ent'[x] = ent[x]
    BY <1>t, <1>9, PointTypes DEF Release, ReleaseKey, ClaimsReal, Claims, ClaimsOf, lifeVars
  <2>2. \A e \in Calls \ {h} : ~lost(e)
    BY <2>1 DEF Holders
  <2>3. lost(h) <=> status[h] = "usable" /\ refCount[h] = 1
    <3>1. c \in Holders(h) /\ IsFiniteSet(Holders(h))
      BY <2>1, HoldersFinite DEF Holders
    <3>2. Cardinality(Holders(h)) = 1 <=> Holders(h) = {c}
      BY <3>1, FS_Singleton
    <3> QED
      BY <1>t, <2>1, <3>2 DEF RefCountExact
  <2> HIDE DEF lost
  <2>4. \/ releaseEntry(h, Move(c, "done"))
        \/ /\ status[h] # "usable" /\ pc' = Move(c, "done") /\ UNCHANGED status
    <3>1. CASE Release(c)
      BY <3>1 DEF Release
    <3>2. CASE ReleaseKey(c)
      <4>1. /\ entries[KeyOf[c]] \in {h, NoEntry} /\ orphans[KeyOf[c]] \in {h, NoEntry}
        BY <1>t, <2>1 DEF HeldMapped, OnlyMapped
      <4>2. status[h] = "usable" => entries[KeyOf[c]] = h \/ orphans[KeyOf[c]] = h
        BY <2>1 DEF PoolInv, Kept, Grounded, Reachable
      <4>3. h # NoEntry
        BY <1>t, <2>1, PointTypes
      <4> QED
        BY <3>2, <4>1, <4>2, <4>3 DEF ReleaseKey
    <3> QED
      BY <1>9, <3>1, <3>2
  <2>5. /\ pc'[c] = "done"
        /\ \A x \in Calls \ {c} : pc'[x] = pc[x] \/ (pc[x] = "parked" /\ pc'[x] = "woken")
    BY <1>t, <1>m, <2>1, <2>4, ReleaseEffect
  <2>6. \A e \in Calls : status'[e] = IF lost(e) THEN "disposing" ELSE status[e]
    <3>1. CASE releaseEntry(h, Move(c, "done"))
      <4>1. CASE status[h] = "usable" /\ refCount[h] = 1
        <5>1. status' = Disposing({h})
          BY <1>t, <2>1, <3>1, <4>1 DEF releaseEntry, LastRef, LastRelease, isCondemned, AllCondemned
        <5> QED
          BY <1>t, <2>1, <2>2, <2>3, <4>1, <5>1, PointTypes DEF Disposing
      <4>2. CASE ~(status[h] = "usable" /\ refCount[h] = 1)
        <5>1. UNCHANGED status \/ (status' = Disposing({h}) /\ status[h] # "usable")
          BY <3>1, <4>2 DEF releaseEntry, LastRef, LastRelease, BackToIdle
        <5>2. \A e \in Calls : status'[e] = status[e]
          BY <1>t, <5>1, PointTypes DEF Disposing
        <5> QED
          BY <2>2, <2>3, <4>2, <5>2
      <4> QED
        BY <4>1, <4>2
    <3>2. CASE status[h] # "usable" /\ UNCHANGED status
      BY <2>2, <2>3, <3>2
    <3> QED
      BY <2>4, <3>1, <3>2
  <2>7. \A x \in Calls \ {c} : Unseen(x)
    BY <2>1, <2>5 DEF Unseen, WantOf, InFlight, Running
  <2> QED
    BY <1>t, <2>1, <2>5, <2>6, <2>7, HandleBack DEF lost
<1>10. ASSUME NEW e \in Calls, DisposeDone(e) PROVE Broker!BrokerNext
  <2>1. /\ status[e] = "disposing" /\ status' = [status EXCEPT ![e] = "disposed"]
        /\ UNCHANGED closed /\ \A x \in Calls : Unseen(x)
    BY <1>10 DEF DisposeDone, callVars, lifeVars, Unseen
  <2>2. /\ Life[e] = "closing" /\ Life' = [Life EXCEPT ![e] = "gone"]
        /\ UNCHANGED <<Want, Granted, closed>>
    BY <1>t, <2>1, PointTypes, UnseenStep, BrokerView DEF LifeOf
  <2>3. Broker!Gone(e)
    BY <2>2 DEF Broker!Gone, Want, Granted, Life
  <2> QED
    BY <2>3 DEF Broker!BrokerNext
<1>11. ASSUME NEW n \in DOMAIN idle, Sweep(n) PROVE FALSE
  BY <1>t, <1>11 DEF Sweep
<1>12. CASE UNCHANGED vars \/ \E d \in Drains : DrainDone(d)
  <2>1. UNCHANGED <<pc, ent, status, closed>>
    BY <1>12 DEF DrainDone, vars, callVars, resVars, lifeVars
  <2> QED
    BY <1>t, <2>1, StutterStep DEF Unseen
<1>13. ASSUME NEW d \in Drains, Drain(d) PROVE Broker!BrokerNext
  BY <1>13, DrainBroker
<1>14. ~Start
  BY <1>t, ClosingStep DEF PoolInv
<1> QED
  BY <1>1, <1>2, <1>3, <1>4, <1>5, <1>6, <1>8, <1>9, <1>10, <1>11, <1>12, <1>13, <1>14
     DEF Next, Acquire, Obtain, Validated, Settled, Released

(* Until a start() follows a drain, a pool does what ResourceBroker allows  *)
(* and nothing else: it grants a call its key's one resource or refuses it, *)
(* opens one only below the bound, and closes it only when nobody has it.   *)
AsTheBroker == Broker!BrokerNext \/ UNCHANGED Broker!brokerVars

THEOREM BrokerUntilReopened ==
  Spec => Broker!BrokerInit /\ [][NotReopened' => AsTheBroker]_vars
<1>1. ASSUME PoolInv, PoolInv', Max > 0 => ReservedExact, NotReopened => Used, [Next]_vars,
             NotReopened'
      PROVE  AsTheBroker
  <2>1. Types /\ Types' /\ NotReopened /\ Used
    BY <1>1, ClosingStep DEF PoolInv, Base
  <2>2. CASE closed
    BY <1>1, <2>1, <2>2, ClosedStep DEF AsTheBroker
  <2>3. CASE ~closed /\ ~closed'
    <3>1. Open
      BY <1>1, <2>1, <2>3 DEF PoolInv, Open, Counted
    <3> QED
      BY <1>1, <2>1, <2>3, <3>1, BrokerStep DEF AsTheBroker
  <2>4. CASE ~closed /\ closed'
    <3>1. PICK d \in Drains : Drain(d)
      BY <1>1, <2>1, <2>4, LifeStep DEF Start, DrainDone, lifeVars
    <3> QED
      BY <1>1, <2>1, <3>1, DrainBroker DEF AsTheBroker
  <2> QED
    BY <2>2, <2>3, <2>4
<1>2. Spec => [](Max > 0 => ReservedExact)
  <2>1. CASE Max > 0
    BY <2>1, ReservationsCounted, PTL
  <2>2. CASE ~(Max > 0)
    <3>1. Max > 0 => ReservedExact
      BY <2>2
    <3> QED
      BY <3>1, PTL
  <2> QED
    BY <2>1, <2>2
<1>3. PoolInv /\ PoolInv' /\ (Max > 0 => ReservedExact) /\ (NotReopened => Used) /\ [Next]_vars
        => [NotReopened' => AsTheBroker]_vars
  BY <1>1
<1> QED
  BY <1>2, <1>3, BrokerInit, PoolAlways, UsedAlways, PTL DEF Spec

(* One that is never drained, or never started again, is that broker: a    *)
(* refinement.                                                             *)
THEOREM PoolIsABroker ==
  ASSUME Drains = {} \/ ~MayReopen
  PROVE  Spec => KeepsBrokerPromise
<1>1. NotReopened'
  BY DEF NotReopened, Undrained
<1>2. UNCHANGED vars => UNCHANGED Broker!brokerVars
  BY DEF vars, callVars, resVars, lifeVars, Broker!brokerVars
<1>3. [NotReopened' => AsTheBroker]_vars => [Broker!BrokerNext]_Broker!brokerVars
  BY <1>1, <1>2 DEF AsTheBroker
<1> QED
  BY <1>3, BrokerUntilReopened, PTL DEF KeepsBrokerPromise, Broker!BrokerSpec
=============================================================================
