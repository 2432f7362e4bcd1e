--------------------------- MODULE ListenersProofs ---------------------------
(***************************************************************************)
(* Theorems about the pool with listeners that call back into it while a   *)
(* release is half done: what acquire(), release() and drain() find there  *)
(* is a state that none of the other theorems speaks of.                   *)
(***************************************************************************)
EXTENDS Listeners, PoolInternalsProofs

-----------------------------------------------------------------------------
(* The invariant.                                                          *)

(* The resources whose releases are under way.                             *)
Emitting == Elements(releasing)

(* IdleMembership between the halves of releases: an unheld live entry may *)
(* still be on its way to the list.                                        *)
Midway ==
  /\ Distinct(idle)
  /\ \A e \in Elements(idle) : entries[KeyOf[e]] = e /\ refCount[e] = 0
  /\ \A e \in Calls : entries[KeyOf[e]] = e /\ refCount[e] = 0
                        => e \in Elements(idle) \union Emitting
  /\ \A e \in Emitting : entries[KeyOf[e]] = e

Stack == releasing \in Seq(Calls) /\ \A e \in Emitting : status[e] # "absent"

ListenerInv ==
  /\ Base /\ Tables /\ MutexInv /\ Stack
  /\ Counted /\ Closing /\ NobodyParked
  /\ NotReopened => Grounded /\ (~closed => Midway)

LEMMA NoneEmitting == releasing = <<>> => releasing \in Seq(Calls) /\ Emitting = {}
BY EmptySeq DEF Emitting, Elements

(* Between releases it is the invariant of the pool.                       *)
LEMMA QuietPool ==
  ASSUME ListenerInv, Quiet
  PROVE  PoolInv
<1>1. Emitting = {}
  BY NoneEmitting DEF Quiet
<1>2. Types
  BY DEF ListenerInv, Base
<1>3. Midway => IdleMembership
  BY <1>1, <1>2, PointTypes DEF Midway, IdleMembership
<1> QED
  BY <1>3 DEF ListenerInv, PoolInv, Kept

LEMMA PoolQuiet ==
  ASSUME PoolInv', MutexInv', Quiet'
  PROVE  ListenerInv'
<1>1. Emitting' = {} /\ releasing' \in Seq(Calls)
  BY EmptySeq DEF Quiet, Emitting, Elements
<1>2. Types'
  BY DEF PoolInv, Base
<1>3. Elements(idle') \subseteq Calls
  BY <1>2, ElementOfSeq, LenProperties DEF Types, Elements
<1>4. IdleMembership' => Midway'
  BY <1>1, <1>3 DEF Midway, IdleMembership
<1>5. Stack'
  BY <1>1 DEF Stack
<1> QED
  BY <1>4, <1>5 DEF ListenerInv, PoolInv, Kept

LEMMA ListenerStart == ListenerInit => ListenerInv
<1> SUFFICES ASSUME ListenerInit PROVE ListenerInv
  OBVIOUS
<1>1. Emitting = {} /\ releasing \in Seq(Calls)
  BY NoneEmitting DEF ListenerInit
<1>2. PoolInv /\ MutexInv
  BY PoolInit, MutexStart DEF ListenerInit, InternalInit
<1>3. Types
  BY <1>2 DEF PoolInv, Base
<1>4. IdleMembership => Midway
  BY <1>1, <1>3, PointTypes DEF Midway, IdleMembership
<1>5. Stack
  BY <1>1 DEF Stack
<1> QED
  BY <1>2, <1>4, <1>5 DEF ListenerInv, PoolInv, Kept

-----------------------------------------------------------------------------
(* What a step has to keep.                                                *)

LEMMA InvStep ==
  ASSUME ListenerInv, Base', Tables', MutexInv', Stack', Closing', NobodyParked',
         NotReopened' => NotReopened,
         (ReleaseByKey => NotReopened) => Uses,
         NotReopened => TableStep \/ \E d \in Drains : Drain(d),
         NotReopened /\ ~closed' => Midway'
  PROVE  ListenerInv'
<1>t. Base /\ Types /\ Types' /\ ClaimsReal /\ Tables /\ Claims
  BY DEF ListenerInv, Base, Tables
<1>1. Counted'
  <2> SUFFICES ASSUME ReleaseByKey => NotReopened' PROVE RefCountExact'
    BY DEF Counted
  <2>1. RefCountExact /\ Uses
    BY DEF ListenerInv, Counted
  <2> QED
    BY <1>t, <2>1, CountsKept
<1>2. ASSUME NotReopened' PROVE Grounded' /\ (~closed' => Midway')
  <2>1. NotReopened /\ Grounded
    BY <1>2 DEF ListenerInv
  <2>2. CapacityBound'
    BY <1>t, <2>1, CapacityStep
  <2>3. /\ Lifecycle' /\ Reachable' /\ HeldMapped'
        /\ ~closed' => UsersLive'
        /\ closed' => AllCondemned'
    BY <1>t, <2>1, TableStepKeeps, DrainKeeps
  <2> QED
    BY <2>1, <2>2, <2>3 DEF Grounded
<1> QED
  BY <1>1, <1>2 DEF ListenerInv

-----------------------------------------------------------------------------
(* The steps of the pool.                                                  *)

LEMMA OutsideKeeps ==
  ASSUME ListenerInv, OutsideStep
  PROVE  ListenerInv'
<1>1. PoolInv /\ Base /\ MutexInv /\ [InternalNext]_allVars
  BY QuietPool DEF OutsideStep, ListenerInv
<1>2. MutexInv' /\ [Next]_vars
  BY <1>1, InternalStep
<1>3. PoolInv' /\ Quiet'
  BY <1>1, <1>2, PoolStep DEF OutsideStep, Quiet
<1> QED
  BY <1>2, <1>3, PoolQuiet

(* One that a listener takes. *)
LEMMA NestedStep ==
  ASSUME ListenerInv, InternalNext, UNCHANGED releasing,
         \A e \in Calls : status'[e] = "absent" => status[e] = "absent",
         NotReopened => TableStep \/ \E d \in Drains : Drain(d),
         NotReopened /\ ~closed' => Midway'
  PROVE  ListenerInv'
<1>t. /\ Base /\ Types /\ ParkedListed /\ Tables /\ Claims /\ Maps /\ Listed /\ MutexInv
      /\ [InternalNext]_allVars
  BY DEF ListenerInv, Base, Tables
<1>1. Base' /\ MutexInv' /\ [Next]_vars
  BY <1>t, InternalStep
<1>2. Tables'
  BY <1>t, <1>1, TablesStep DEF Tables
<1>3. /\ Closing' /\ NobodyParked'
      /\ NotReopened' => NotReopened
  BY <1>t, <1>1, ClosingStep, ParkedStep DEF ListenerInv
<1>4. ASSUME ReleaseByKey => NotReopened PROVE Uses
  <2>1. RefCountExact /\ (ReleaseByKey => Reachable /\ HeldMapped)
    BY <1>4 DEF ListenerInv, Counted, Grounded
  <2> QED
    BY <1>t, <1>1, <2>1, UsesStep
<1>5. Stack'
  <2>1. Emitting \subseteq Calls /\ releasing \in Seq(Calls)
    BY ElementOfSeq, LenProperties DEF ListenerInv, Stack, Emitting, Elements
  <2>2. Emitting' = Emitting
    BY DEF Emitting
  <2> QED
    BY <2>1, <2>2 DEF ListenerInv, Stack
<1> QED
  BY <1>1, <1>2, <1>3, <1>4, <1>5, InvStep

LEMMA AcquireKeeps ==
  ASSUME ListenerInv, NEW c \in Calls, IAcquireFast(c) \/ IAcquireQueued(c),
         UNCHANGED releasing
  PROVE  ListenerInv'
<1>t. Base /\ Types /\ Tables /\ Maps
  BY DEF ListenerInv, Base, Tables
<1>1. Acquire(c) /\ InternalNext
  BY DEF Acquire, IAcquireFast, IAcquireQueued, InternalNext
<1>2. UNCHANGED <<status, entries, closed>> /\ Emitting' = Emitting
  BY <1>1 DEF Acquire, AcquireFast, AcquireQueued, tableVars, resVars, lifeVars, Emitting
<1>3. /\ idle' = idle
      /\ \A e \in Calls : refCount'[e] = 0 <=> refCount[e] = 0
  <2>1. CASE AcquireFast(c)
    <3>1. entries[KeyOf[c]] \in Calls /\ refCount[entries[KeyOf[c]]] # 0
      BY <1>t, <2>1, PointTypes DEF AcquireFast, Shareable, isUsable, Entry
    <3>2. refCount[entries[KeyOf[c]]] + 1 # 0
      BY <1>t, <3>1, PointTypes
    <3> QED
      BY <1>t, <2>1, <3>1, <3>2, PointTypes DEF AcquireFast, checkout
  <2>2. CASE AcquireQueued(c)
    BY <2>2 DEF AcquireQueued, tableVars, resVars
  <2> QED
    BY <1>1, <2>1, <2>2 DEF Acquire
<1>4. Midway => Midway'
  BY <1>t, <1>2, <1>3, PointTypes DEF Midway
<1>5. TableStep
  BY <1>t, <1>1, AcquireTables
<1> QED
  BY <1>1, <1>2, <1>4, <1>5, NestedStep DEF ListenerInv

LEMMA DrainInside ==
  ASSUME ListenerInv, NEW d \in Drains, IDrain(d), UNCHANGED releasing
  PROVE  ListenerInv'
<1>1. InternalNext /\ Drain(d)
  BY DEF InternalNext, IDrain
<1>2. closed' /\ \A e \in Calls : status'[e] = "absent" => status[e] = "absent"
  BY <1>1 DEF Drain, setClosed, Disposing
<1> QED
  BY <1>1, <1>2, NestedStep

LEMMA EmptyReleaseKeeps ==
  ASSUME ListenerInv, NEW c \in Calls, EmptyRelease(c)
  PROVE  ListenerInv'
<1>1. InternalNext /\ Release(c) /\ pc[c] = "holding"
  BY DEF EmptyRelease, IRelease, InternalNext
<1>2. UNCHANGED <<status, entries, idle, refCount, closed, releasing>>
  BY <1>1 DEF Release, releaseEntry, EmptyRelease, Spent, tableVars, lifeVars
<1>3. Midway => Midway'
  BY <1>2 DEF Midway, Emitting
<1>4. NotReopened => TableStep
  BY <1>1, ReleaseTables DEF ListenerInv, Release
<1> QED
  BY <1>1, <1>2, <1>3, <1>4, NestedStep DEF ListenerInv

-----------------------------------------------------------------------------
(* The halves of a release.                                                *)

LEMMA BeginKeeps ==
  ASSUME ListenerInv, NEW c \in Calls, BeginRelease(c)
  PROVE  ListenerInv' /\ Uses
<1> DEFINE e == ent[c]
<1>t. /\ Base /\ Types /\ ParkedListed /\ ClaimsReal /\ Tables /\ Claims /\ Maps /\ Listed
      /\ MutexInv /\ QueuesKeyed /\ Stack
  BY BaseQueues DEF ListenerInv, Base, Tables
<1>1. /\ e \in Calls /\ KeyOf[e] = KeyOf[c] /\ status[e] # "absent"
      /\ pc[c] = "holding" /\ refCount[e] \in Nat \ {0}
  BY <1>t, PointTypes DEF BeginRelease, Spent, ClaimsReal, Claims, ClaimsOf
<1>2. /\ pc'[c] = "done" /\ ent'[c] = NoEntry
      /\ \A x \in Calls \ {c} : pc'[x] = pc[x] /\ ent'[x] = ent[x]
  BY <1>t, PointTypes DEF BeginRelease, Move
<1>3. /\ refCount'[e] = refCount[e] - 1
      /\ \A x \in Calls \ {e} : refCount'[x] = refCount[x]
  BY <1>t, <1>1, PointTypes DEF BeginRelease
<1>4. UNCHANGED <<queue, entries, orphans, idle, status, condemned, waiters, reserved,
                  closed, started, draining, awaited>>
  BY DEF BeginRelease, tableVars, slotVars, lifeVars
<1>5. Types'
  <2>1. pc' \in [Calls -> PCs] /\ ent' \in [Calls -> Entry]
    BY <1>t, MoveTypes DEF BeginRelease, Types, Entry
  <2>2. refCount' \in [Calls -> Nat]
    BY <1>t, <1>1 DEF BeginRelease, Types
  <2> QED
    BY <1>t, <1>4, <2>1, <2>2 DEF Types
<1>6. Base'
  <2>1. Keeps(c)
    BY <1>1, <1>2 DEF Keeps, InFlight, Running
  <2>2. Effect
    BY <1>t, <1>1, <1>2, <1>4, <2>1, OwnStep
  <2> QED
    BY <1>t, <1>5, <2>2, QueueStep DEF Effect, Base
<1>7. Tables'
  <2>0. UNCHANGED <<entries, orphans, idle, status, condemned>>
    BY <1>4
  <2>1. Maps'
    BY <1>t, <2>0 DEF Maps
  <2>2. Listed'
    BY <1>t, <1>1, <1>3, <2>0, PointTypes DEF Listed
  <2>3. ASSUME NEW x \in Calls PROVE ClaimsOf(x)'
    BY <1>t, <1>1, <1>2, <1>3, <2>0, PointTypes DEF Claims, ClaimsOf, OnlyMapped, Vacant, ClaimsReal
  <2> QED
    BY <2>1, <2>2, <2>3 DEF Claims, Tables
<1>8. MutexInv'
  <2>1. SameMutex
    BY DEF BeginRelease, internals, SameMutex
  <2> QED
    BY <1>t, <1>4, <2>1, IdleKeeps
<1>9. releasing' \in Seq(Calls) /\ Emitting' = Emitting \union {e}
  BY <1>t, <1>1, AppendElements DEF Stack, Emitting, BeginRelease
<1>10. Stack'
  BY <1>t, <1>1, <1>4, <1>9 DEF Stack
<1>11. Closing' /\ NobodyParked' /\ (NotReopened' => NotReopened)
  BY <1>4 DEF ListenerInv, Closing, Undrained, NobodyParked, NotReopened
<1>12. Uses
  <2>1. DropsRef(c)
    BY <1>t, <1>1, <1>2, <1>3 DEF DropsRef, HoldsOn
  <2>2. LeavesUnused
    BY <1>4 DEF LeavesUnused
  <2> QED
    BY <2>1, <2>2 DEF Uses, HolderStep
<1>13. TableStep
  <2>1. UserStep
    BY <1>2 DEF UserStep, Users
  <2>2. Flags /\ Slots({})
    BY <1>t, <1>4 DEF Flags, Slots, Types
  <2> QED
    BY <1>t, <1>4, <2>1, <2>2, NothingRemoved
<1>14. ASSUME NotReopened, ~closed' PROVE Midway'
  <2>1. Midway /\ entries[KeyOf[e]] = e
    BY <1>1, <1>4, <1>14 DEF ListenerInv, Grounded, UsersLive, Users
  <2>2. e \notin Elements(idle)
    BY <1>1, <2>1 DEF Midway
  <2> HIDE DEF e
  <2>3. \A x \in Elements(idle) : entries[KeyOf[x]] = x /\ refCount'[x] = 0
    BY <1>t, <1>3, <2>1, <2>2, PointTypes DEF Midway
  <2>4. \A x \in Calls : entries[KeyOf[x]] = x /\ refCount'[x] = 0
                           => x \in Elements(idle) \union Emitting'
    BY <1>3, <1>9, <2>1 DEF Midway
  <2>5. \A x \in Emitting' : entries[KeyOf[x]] = x
    BY <1>9, <2>1 DEF Midway
  <2> QED
    BY <1>4, <2>1, <2>3, <2>4, <2>5 DEF Midway
<1> QED
  BY <1>6, <1>7, <1>8, <1>10, <1>11, <1>12, <1>13, <1>14, InvStep

(* A stack without its top. *)
LEMMA Popped ==
  ASSUME NEW A, NEW s \in Seq(A), s # <<>>
  PROVE  LET t == SubSeq(s, 1, Len(s) - 1)
         IN  /\ s[Len(s)] \in A /\ s[Len(s)] \in Elements(s)
             /\ t \in Seq(A) /\ Elements(t) \subseteq Elements(s)
             /\ Elements(s) \subseteq Elements(t) \union {s[Len(s)]}
<1> DEFINE t == SubSeq(s, 1, Len(s) - 1)
<1>1. Len(s) \in Nat \ {0} /\ DOMAIN s = 1..Len(s)
  BY LenProperties, EmptySeq
<1>2. \A i \in 1..Len(s) : s[i] \in A
  BY <1>1, ElementOfSeq
<1>3. t \in Seq(A) /\ DOMAIN t = 1..(Len(s) - 1) /\ \A i \in 1..(Len(s) - 1) : t[i] = s[i]
  BY <1>1, <1>2, SubSeqProperties
<1>4. s[Len(s)] \in A /\ s[Len(s)] \in Elements(s)
  BY <1>1, <1>2 DEF Elements
<1> HIDE DEF t
<1>5. Elements(t) \subseteq Elements(s)
  BY <1>1, <1>3 DEF Elements
<1>6. ASSUME NEW i \in 1..Len(s) PROVE s[i] \in Elements(t) \union {s[Len(s)]}
  <2>1. CASE i = Len(s)
    BY <2>1
  <2>2. CASE i \in 1..(Len(s) - 1)
    BY <1>3, <2>2 DEF Elements
  <2>3. i = Len(s) \/ i \in 1..(Len(s) - 1)
    <3>1. \A n \in Nat : i \in 1..n => i = n \/ i \in 1..(n - 1)
      OBVIOUS
    <3> QED
      BY <1>1, <3>1
  <2> QED
    BY <2>1, <2>2, <2>3
<1>7. Elements(s) \subseteq Elements(t) \union {s[Len(s)]}
  BY <1>1, <1>6 DEF Elements
<1> QED
  BY <1>3, <1>4, <1>5, <1>7 DEF t

(* A step that at most wakes parked calls, and leaves the mutexes alone.   *)
LEMMA WokenBase ==
  ASSUME Base, Types', ParkedListed', UNCHANGED <<queue, ent>>,
         \A x \in Calls : pc'[x] = pc[x] \/ (pc[x] = "parked" /\ pc'[x] = "woken")
  PROVE  Base'
<1>1. MutexStep
  BY DEF MutexStep, Keeps, Running
<1>2. ClaimsReal'
  BY DEF Base, ClaimsReal
<1> QED
  BY <1>1, <1>2, QueueStep DEF Base

(* What the rest of a release does to the pool: nothing, as others hold or *)
(* took the resource again; its end; or its return to the idle list.       *)
Remains(e) ==
  \/ refCount[e] # 0 /\ UNCHANGED <<pc, tableVars, status, waiters>>
  \/ /\ removeEntry(e) /\ status' = Disposing({e}) /\ isCondemned(e)
     /\ refCount[e] = 0 /\ UNCHANGED <<pc, waiters>>
  \/ /\ idle' = IF e \in Elements(idle) THEN idle ELSE Append(idle, e)
     /\ Wake(pc, 1)
     /\ refCount[e] = 0 /\ ~isCondemned(e)
     /\ UNCHANGED <<entries, orphans, status>>

LEMMA RestBase ==
  ASSUME Base, NEW e \in Calls, Remains(e),
         UNCHANGED <<ent, queue, refCount, condemned, reserved, lifeVars>>
  PROVE  /\ Base' /\ Types'
         /\ \A x \in Calls : pc'[x] = pc[x] \/ (pc[x] = "parked" /\ pc'[x] = "woken")
<1>t. Types /\ ParkedListed /\ pc \in [Calls -> PCs] /\ 1 \in Nat
  BY DEF Base, Types
<1>1. CASE UNCHANGED <<pc, waiters>>
  <2>1. idle' \in Seq(Calls) /\ entries' \in [Keys -> Entry] /\ orphans' \in [Keys -> Entry]
        /\ status' \in [Calls -> Statuses]
    <3>1. CASE UNCHANGED <<tableVars, status>>
      BY <1>t, <3>1 DEF tableVars, Types
    <3>2. CASE removeEntry(e) /\ status' = Disposing({e})
      BY <1>t, <3>2, RemoveEntryTypes, DisposingTypes
    <3>3. CASE /\ idle' = IF e \in Elements(idle) THEN idle ELSE Append(idle, e)
               /\ UNCHANGED <<entries, orphans, status>>
      BY <1>t, <3>3, AppendElements DEF Types
    <3> QED
      BY <3>1, <3>2, <3>3 DEF Remains
  <2>2. Types'
    BY <1>t, <1>1, <2>1 DEF Types, lifeVars
  <2>3. ParkedListed'
    BY <1>t, <1>1, ParkedKept
  <2> QED
    BY <1>1, <2>2, <2>3, WokenBase
<1>2. CASE /\ Wake(pc, 1) /\ UNCHANGED <<entries, orphans, status>>
           /\ idle' = IF e \in Elements(idle) THEN idle ELSE Append(idle, e)
  <2>1. /\ ParkedListed'
        /\ \A x \in Calls : pc'[x] = pc[x] \/ (pc[x] = "parked" /\ pc'[x] = "woken")
    BY <1>t, <1>2, WakeEffect
  <2>2. pc' \in [Calls -> PCs] /\ waiters' \in Seq(Calls)
    BY <1>t, <1>2, WakeTypes
  <2>3. idle' \in Seq(Calls)
    BY <1>t, <1>2, AppendElements DEF Types
  <2>4. Types'
    BY <1>t, <1>2, <2>2, <2>3 DEF Types, lifeVars
  <2> QED
    BY <2>1, <2>4, WokenBase
<1> QED
  BY <1>1, <1>2 DEF Remains

LEMMA RestTables ==
  ASSUME Base, Tables, NEW e \in Calls, Remains(e), status[e] # "absent",
         UNCHANGED <<ent, refCount, condemned>>,
         \A x \in Calls : pc'[x] = pc[x] \/ (pc[x] = "parked" /\ pc'[x] = "woken")
  PROVE  Tables'
<1>t. Types /\ ClaimsReal /\ Claims /\ Maps /\ Listed
  BY DEF Base, Tables
<1>1. CASE UNCHANGED <<entries, orphans, status>> /\ Elements(idle') \subseteq Elements(idle) \union {e}
           /\ (e \in Elements(idle') => e \in Elements(idle) \/ (refCount[e] = 0 /\ e \notin condemned))
  <2>1. Maps'
    BY <1>t, <1>1 DEF Maps
  <2>2. Listed'
    BY <1>t, <1>1 DEF Listed
  <2>3. ASSUME NEW x \in Calls PROVE ClaimsOf(x)'
    BY <1>t, <1>1 DEF Claims, ClaimsOf, OnlyMapped, Vacant
  <2> QED
    BY <2>1, <2>2, <2>3 DEF Claims, Tables
<1>2. CASE removeEntry(e) /\ status' = Disposing({e}) /\ UNCHANGED pc
  <2>1. /\ \A k \in Keys : /\ entries'[k] = IF entries[k] = e THEN NoEntry ELSE entries[k]
                           /\ orphans'[k] = IF orphans[k] = e THEN NoEntry ELSE orphans[k]
        /\ \A x \in Calls : status'[x] = IF x = e /\ status[e] = "usable"
                                         THEN "disposing" ELSE status[x]
        /\ Elements(idle') = Elements(idle) \ {e}
    BY <1>t, <1>2, Removed
  <2>2. Maps'
    <3>1. ASSUME NEW k \in Keys
          PROVE  /\ entries[k] # NoEntry => entries[k] \in Calls
                 /\ orphans[k] # NoEntry => orphans[k] \in Calls
      BY <1>t, PointTypes DEF Entry
    <3> QED
      BY <1>t, <2>1, <3>1 DEF Maps
  <2>3. Listed'
    BY <1>t, <2>1, PointTypes DEF Listed
  <2>4. ASSUME NEW x \in Calls PROVE ClaimsOf(x)'
    <3>1. \A y \in Calls : /\ status'[y] = "absent" <=> status[y] = "absent"
                           /\ status'[y] = "usable" => status[y] = "usable"
      BY <2>1
    <3>2. ClaimsOf(x) /\ KeyOf[x] \in Keys
      BY <1>t, PointTypes DEF Claims
    <3>3. pc[x] \in {"validating", "replacing", "got", "holding"} => ent[x] \in Calls
      BY <1>t DEF ClaimsReal
    <3>4. /\ OnlyMapped(x) => OnlyMapped(x)'
          /\ Vacant(KeyOf[x]) => Vacant(KeyOf[x])'
      BY <2>1, <3>2 DEF OnlyMapped, Vacant
    <3> QED
      BY <1>2, <3>1, <3>2, <3>3, <3>4 DEF ClaimsOf
  <2> QED
    BY <2>2, <2>3, <2>4 DEF Claims, Tables
<1>3. CASE UNCHANGED tableVars /\ UNCHANGED status
  BY <1>1, <1>3 DEF tableVars
<1>4. CASE /\ idle' = IF e \in Elements(idle) THEN idle ELSE Append(idle, e)
           /\ refCount[e] = 0 /\ ~isCondemned(e)
           /\ UNCHANGED <<entries, orphans, status>>
  <2>1. Elements(idle') \subseteq Elements(idle) \union {e}
    BY <1>t, <1>4, PointTypes, AppendElements
  <2> QED
    BY <1>1, <1>4, <2>1 DEF isCondemned
<1> QED
  BY <1>2, <1>3, <1>4 DEF Remains

(* In the terms of the maps and of the counts.                             *)
LEMMA RestEffect ==
  ASSUME Base, Tables, NEW e \in Calls, Remains(e),
         UNCHANGED <<ent, refCount, condemned, reserved, lifeVars>>,
         \A x \in Calls : pc'[x] = pc[x] \/ (pc[x] = "parked" /\ pc'[x] = "woken")
  PROVE  Uses /\ (Lifecycle => TableStep)
<1>t. Types /\ Maps
  BY DEF Base, Tables
<1>1. (\A x \in Calls : HoldsOn(x)) /\ UserStep
  BY DEF HoldsOn, UserStep, Users
<1>2. Flags /\ Slots({}) /\ Slots({e})
  BY <1>t DEF Flags, Slots, lifeVars, Types
<1>3. CASE UNCHANGED <<entries, orphans, status>>
  <2>1. LeavesUnused
    BY <1>3 DEF LeavesUnused
  <2> QED
    BY <1>t, <1>1, <1>2, <1>3, <2>1, NothingRemoved DEF Uses, HolderStep
<1>4. CASE removeEntry(e) /\ status' = Disposing({e}) /\ isCondemned(e) /\ refCount[e] = 0
  <2>1. /\ \A k \in Keys : /\ entries'[k] = IF entries[k] \in {e} THEN NoEntry ELSE entries[k]
                           /\ orphans'[k] = IF orphans[k] \in {e} THEN NoEntry ELSE orphans[k]
        /\ \A x \in Calls : status'[x] = IF x = e /\ status[e] = "usable"
                                         THEN "disposing" ELSE status[x]
    BY <1>t, <1>4, Removed
  <2>2. LeavesUnused
    BY <1>4, <2>1 DEF LeavesUnused
  <2>3. Lifecycle => closed
    BY <1>t, <1>4, PointTypes DEF isCondemned, Lifecycle
  <2>4. closed => Removes({e})
    BY <1>2, <2>1 DEF Removes
  <2> QED
    BY <1>1, <1>2, <2>2, <2>3, <2>4 DEF Uses, HolderStep, TableStep
<1> QED
  BY <1>3, <1>4 DEF Remains, tableVars

LEMMA EndKeeps ==
  ASSUME ListenerInv, EndRelease
  PROVE  ListenerInv' /\ Uses
<1> DEFINE e == Innermost
<1>t. /\ Base /\ Types /\ Tables /\ MutexInv /\ QueuesKeyed /\ Stack
      /\ releasing \in Seq(Calls) /\ releasing # <<>>
  BY BaseQueues DEF ListenerInv, Base, Stack, EndRelease, Quiet
<1>1. /\ e \in Calls /\ e \in Emitting
      /\ releasing' \in Seq(Calls) /\ Emitting' \subseteq Emitting
      /\ Emitting \subseteq Emitting' \union {e}
  BY <1>t, Popped DEF EndRelease, Innermost, Emitting
<1>2. status[e] # "absent"
  BY <1>t, <1>1 DEF Stack
<1>3. Remains(e) /\ SameMutex
      /\ UNCHANGED <<ent, queue, refCount, condemned, reserved, lifeVars>>
  BY DEF EndRelease, Rest, dispose, idleAppend, Remains
<1>4. UNCHANGED <<closed, started, draining, awaited>>
  BY <1>3 DEF lifeVars
<1> HIDE DEF e
<1>5. /\ Base' /\ Types'
      /\ \A x \in Calls : pc'[x] = pc[x] \/ (pc[x] = "parked" /\ pc'[x] = "woken")
  BY <1>t, <1>1, <1>3, RestBase
<1>6. Tables'
  BY <1>t, <1>1, <1>2, <1>3, <1>5, RestTables
<1>7. Uses /\ (Lifecycle => TableStep)
  BY <1>t, <1>1, <1>3, <1>5, RestEffect
<1>8. MutexInv'
  BY <1>t, <1>3, IdleKeeps
<1>9. Stack'
  <2>1. \A x \in Calls : status'[x] = "absent" => status[x] = "absent"
    BY <1>3 DEF Remains, Disposing
  <2>2. Emitting \subseteq Calls
    BY <1>t, ElementOfSeq, LenProperties DEF Emitting, Elements
  <2> QED
    BY <1>t, <1>1, <2>1, <2>2 DEF Stack
<1>10. Closing' /\ (NotReopened' => NotReopened)
  BY <1>4 DEF ListenerInv, Closing, Undrained, NotReopened
<1>11. NobodyParked'
  <2>1. waiters = <<>> /\ Wake(pc, 1) => waiters' = <<>>
    BY NobodyWaits DEF Wake
  <2> QED
    BY <1>3, <1>4, <2>1 DEF ListenerInv, NobodyParked, Remains
<1>12. ASSUME NotReopened, ~closed' PROVE Midway'
  <2>1. Midway /\ ~isCondemned(e) /\ entries[KeyOf[e]] = e
    BY <1>t, <1>1, <1>4, <1>12, PointTypes
       DEF ListenerInv, Grounded, Lifecycle, isCondemned, Midway
  <2>2. CASE refCount[e] # 0
    <3>1. UNCHANGED <<entries, idle>>
      BY <1>3, <2>2 DEF Remains, tableVars
    <3> QED
      BY <1>1, <1>3, <2>1, <2>2, <3>1 DEF Midway
  <2>3. CASE UNCHANGED entries /\ refCount[e] = 0
             /\ idle' = IF e \in Elements(idle) THEN idle ELSE Append(idle, e)
    <3>1. Elements(idle') = Elements(idle) \union {e} /\ Distinct(idle')
      BY <1>t, <1>1, <2>1, <2>3, PointTypes, AppendElements DEF Midway
    <3> QED
      BY <1>1, <1>3, <2>1, <2>3, <3>1 DEF Midway
  <2> QED
    BY <1>3, <2>1, <2>2, <2>3 DEF Remains, tableVars
<1> QED
  BY <1>5, <1>6, <1>7, <1>8, <1>9, <1>10, <1>11, <1>12, InvStep DEF ListenerInv, Grounded

-----------------------------------------------------------------------------
(* The theorems.                                                           *)

LEMMA ListenerInvStep == ListenerInv /\ [ListenerNext]_listenerVars => ListenerInv'
<1> SUFFICES ASSUME ListenerInv, [ListenerNext]_listenerVars PROVE ListenerInv'
  OBVIOUS
<1>1. CASE OutsideStep
  BY <1>1, OutsideKeeps
<1>2. CASE ListenerStep
  BY <1>2, AcquireKeeps, DrainInside DEF ListenerStep
<1>3. CASE EndRelease
  BY <1>3, EndKeeps
<1>4. CASE \E c \in Calls : BeginRelease(c) \/ EmptyRelease(c)
  BY <1>4, BeginKeeps, EmptyReleaseKeeps
<1>5. CASE UNCHANGED listenerVars
  <2>1. /\ [InternalNext]_allVars /\ UNCHANGED vars /\ UNCHANGED releasing
        /\ UNCHANGED <<entries, orphans, idle, refCount, status, condemned, pc, ent,
                       reserved, waiters, closed, started, draining>>
    BY <1>5 DEF listenerVars, allVars, vars, callVars, tableVars, resVars, slotVars, lifeVars
  <2>2. Base' /\ MutexInv' /\ [Next]_vars
    BY <2>1, InternalStep DEF ListenerInv
  <2>3. Tables'
    BY <2>1, <2>2, TablesStep DEF ListenerInv, Base, Tables
  <2>4. Stack' /\ Counted' /\ Closing' /\ NobodyParked'
    BY <2>1 DEF ListenerInv, Stack, Emitting, Counted, RefCountExact, CountOf, Holders,
                Closing, Undrained, NotReopened, NobodyParked
  <2>5. Grounded => Grounded'
    <3>1. Live' = Live /\ Orphans' = Orphans
      BY <2>1 DEF Live, Orphans
    <3>2. CapacityBound => CapacityBound'
      BY <2>1, <3>1 DEF CapacityBound
    <3>3. Lifecycle /\ Reachable /\ HeldMapped => Lifecycle' /\ Reachable' /\ HeldMapped'
      BY <2>1 DEF Lifecycle, Undrained, Reachable, HeldMapped, OnlyMapped
    <3>4. UsersLive' = UsersLive /\ AllCondemned' = AllCondemned
      BY <2>1 DEF UsersLive, AllCondemned
    <3> QED
      BY <2>1, <3>2, <3>3, <3>4 DEF Grounded
  <2>6. Midway => Midway'
    BY <2>1 DEF Midway, Emitting
  <2>7. NotReopened' = NotReopened /\ closed' = closed
    BY <2>1 DEF NotReopened, Undrained
  <2> QED
    BY <2>2, <2>3, <2>4, <2>5, <2>6, <2>7 DEF ListenerInv
<1> QED
  BY <1>1, <1>2, <1>3, <1>4, <1>5 DEF ListenerNext

LEMMA ListenerAlways == ListenerSpec => []ListenerInv
BY ListenerStart, ListenerInvStep, PTL DEF ListenerSpec

(* Whatever a listener of the release event calls, acquire(), release() of *)
(* another handle or drain(), and however deep those calls nest: once the  *)
(* releases have returned, the idle list of an open pool is its unheld     *)
(* live entries, each once.                                                *)
THEOREM ListedOnceReturned == ListenerSpec => [](NotReopened => IdleListKept)
<1>1. ASSUME ListenerInv, NotReopened PROVE IdleListKept
  BY <1>1, QuietPool DEF IdleListKept, PoolInv, Kept
<1>2. ListenerInv => (NotReopened => IdleListKept)
  BY <1>1
<1> QED
  BY <1>2, ListenerAlways, PTL

(* The reference counts are exact at every call that a listener makes, as  *)
(* the decrement comes before the event.                                   *)
THEOREM ListenersSeeExactCounts ==
  ASSUME ReleaseByKey => ~MayReopen
  PROVE  ListenerSpec => []RefCountExact
<1>1. ListenerInv => RefCountExact
  BY DEF ListenerInv, Counted, NotReopened
<1> QED
  BY <1>1, ListenerAlways, PTL

(* A release whose listener took the resource again leaves it alone, and   *)
(* one whose listener let go of it, or drained the pool, disposes of it no *)
(* earlier than its last holder is gone.                                   *)
THEOREM NotUnderNestedHolders ==
  ASSUME ReleaseByKey => ~MayReopen
  PROVE  ListenerSpec => NoDisposeUnderHolder
<1> DEFINE Safe == \A e \in Calls : status[e] = "usable" /\ status'[e] # "usable"
                                      => \A c \in Holders(e) : pc'[c] # "holding"
<1>1. ASSUME ListenerInv, ListenerNext PROVE Safe
  <2>t. /\ Base /\ Types /\ ClaimsReal /\ Claims /\ Maps /\ Listed /\ MutexInv
        /\ RefCountExact /\ (ReleaseByKey => Reachable /\ HeldMapped)
    BY <1>1 DEF ListenerInv, Base, Tables, Counted, NotReopened, Grounded
  <2>1. CASE InternalNext
    <3>1. [Next]_vars
      BY <2>t, <2>1, InternalStep
    <3> QED
      BY <2>t, <3>1, UsesStep, CountsKept
  <2>2. CASE EndRelease
    BY <1>1, <2>t, <2>2, EndKeeps, CountsKept
  <2>3. CASE \E c \in Calls : BeginRelease(c)
    BY <1>1, <2>t, <2>3, BeginKeeps, CountsKept
  <2>4. ListenerNext => InternalNext \/ EndRelease \/ \E c \in Calls : BeginRelease(c)
    BY DEF ListenerNext, OutsideStep, ListenerStep, EmptyRelease, IRelease, InternalNext
  <2> QED
    BY <1>1, <2>1, <2>2, <2>3, <2>4
<1>2. ListenerInv /\ [ListenerNext]_listenerVars => [Safe]_vars
  BY <1>1 DEF listenerVars, allVars
<1> QED
  BY <1>2, ListenerAlways, PTL DEF ListenerSpec, NoDisposeUnderHolder

(* What the pool promises without listeners it promises at every call that *)
(* one makes: one resource per key, never too many, nothing forgotten by a *)
(* closed pool, and until a drain begins the holders' resources intact.    *)
THEOREM ListenersFindThePoolWhole ==
  ListenerSpec => [](/\ NotReopened => SingleResource /\ CapacityBound /\ ClosedLeaksNothing
                     /\ Undrained => HoldersServed)
<1> DEFINE Whole == /\ NotReopened => SingleResource /\ CapacityBound /\ ClosedLeaksNothing
                    /\ Undrained => HoldersServed
<1>1. ASSUME ListenerInv, NotReopened
      PROVE  SingleResource /\ CapacityBound /\ ClosedLeaksNothing
  BY <1>1, OneEach DEF ListenerInv, Tables, Grounded, NobodyParked, AllCondemned, ClosedLeaksNothing
<1>2. ASSUME ListenerInv, Undrained PROVE HoldersServed
  BY <1>2, Served DEF ListenerInv, Tables, Grounded, Closing, NotReopened
<1>3. ListenerInv => Whole
  BY <1>1, <1>2
<1> QED
  BY <1>3, ListenerAlways, PTL

-----------------------------------------------------------------------------
(* The linked list, until a drain begins.                                  *)

LEMMA HalfFates ==
  ASSUME Types,
         \A x \in Calls : pc'[x] \in Lookers => pc[x] \in Lookers /\ ent'[x] = ent[x],
         \A x \in Calls : refCount'[x] <= refCount[x],
         UNCHANGED status \/ \E S : status' = Disposing(S)
  PROVE  Fates
BY DEF Fates, Lookers, Ending, Disposing

LEMMA NestedFates ==
  ASSUME ListenerInv, ListenerNext
  PROVE  Fates
<1>t. Types /\ Base /\ Tables /\ MutexInv /\ \A x \in Calls : refCount[x] \in Nat
  BY DEF ListenerInv, Base, Types
<1>1. CASE InternalNext
  BY <1>t, <1>1, InternalStep, FateStep
<1>2. ASSUME NEW c \in Calls, BeginRelease(c) PROVE Fates
  <2>1. ent[c] \in Calls /\ UNCHANGED status
    BY <1>t, <1>2 DEF BeginRelease, Base, ClaimsReal
  <2>2. \A x \in Calls : pc'[x] \in Lookers => pc[x] \in Lookers /\ ent'[x] = ent[x]
    BY <1>t, <1>2, PointTypes DEF BeginRelease, Move, Lookers
  <2>3. \A x \in Calls : refCount'[x] <= refCount[x]
    BY <1>t, <1>2, PointTypes DEF BeginRelease
  <2> QED
    BY <1>t, <2>1, <2>2, <2>3, HalfFates
<1>3. CASE EndRelease
  <2>1. Innermost \in Calls
    BY <1>3, Popped DEF ListenerInv, Stack, EndRelease, Quiet, Innermost
  <2>2. /\ Remains(Innermost)
        /\ UNCHANGED <<ent, queue, refCount, condemned, reserved, lifeVars>>
    BY <1>3 DEF EndRelease, Rest, dispose, idleAppend, Remains
  <2>3. \A x \in Calls : pc'[x] = pc[x] \/ (pc[x] = "parked" /\ pc'[x] = "woken")
    BY <1>t, <2>1, <2>2, RestBase
  <2>4. UNCHANGED status \/ \E S : status' = Disposing(S)
    BY <2>2 DEF Remains
  <2>5. \A x \in Calls : refCount'[x] <= refCount[x]
    BY <1>t, <2>2
  <2>6. \A x \in Calls : pc'[x] \in Lookers => pc[x] \in Lookers /\ ent'[x] = ent[x]
    BY <2>2, <2>3 DEF Lookers
  <2> QED
    BY <1>t, <2>4, <2>5, <2>6, HalfFates
<1> QED
  BY <1>1, <1>2, <1>3
     DEF ListenerNext, OutsideStep, ListenerStep, EmptyRelease, IRelease, InternalNext

LEMMA ListenerLinks ==
  ASSUME ListenerInv, LinksInv, Undrained', ~closed, NotReopened, [ListenerNext]_listenerVars
  PROVE  Distinct(idle) /\ LinkStep
<1>t. /\ Base /\ Types /\ Tables /\ Maps /\ ClaimsReal /\ Midway /\ Lifecycle /\ Distinct(idle)
  BY DEF ListenerInv, Base, Tables, Grounded, Midway
<1>1. ASSUME OutsideStep PROVE LinkStep
  BY <1>1, QuietPool, InternalLinks DEF OutsideStep, Ends
<1>2. ASSUME NEW c \in Calls, IAcquireFast(c) \/ IAcquireQueued(c) PROVE LinkStep
  <2>1. CASE IAcquireFast(c)
    <3>1. entries[KeyOf[c]] \in Calls /\ status[entries[KeyOf[c]]] = "usable"
      BY <1>t, <2>1, PointTypes DEF IAcquireFast, AcquireFast, Shareable, isUsable, Entry, Maps
    <3> QED
      BY <2>1, <3>1, CheckoutLinks DEF IAcquireFast, AcquireFast, Finished, Ending
  <2>2. CASE IAcquireQueued(c)
    BY <2>2 DEF IAcquireQueued, AcquireQueued, SameLinks, tableVars, LinkStep
  <2> QED
    BY <1>2, <2>1, <2>2
<1>3. ASSUME NEW d \in Drains, IDrain(d) PROVE FALSE
  BY <1>t, <1>3 DEF IDrain, Drain, Undrained, Types
<1>4. ASSUME NEW c \in Calls, EmptyRelease(c) PROVE LinkStep
  <2>1. links' = links
    BY <1>4 DEF EmptyRelease, Spent, IRelease, relist
  <2>2. idle' = idle
    BY <1>4 DEF EmptyRelease, Spent, IRelease, Release, releaseEntry, tableVars
  <2> QED
    BY <2>1, <2>2 DEF LinkStep
<1>5. ASSUME NEW c \in Calls, BeginRelease(c) PROVE LinkStep
  BY <1>5 DEF BeginRelease, tableVars, internals, LinkStep
<1>6. ASSUME EndRelease PROVE LinkStep
  <2> DEFINE e == Innermost
  <2>1. e \in Calls /\ e \in Emitting
    BY <1>6, Popped DEF ListenerInv, Stack, EndRelease, Quiet, Innermost, Emitting
  <2>2. Rest(e)
    BY <1>6 DEF EndRelease
  <2> HIDE DEF e
  <2>3. ~isCondemned(e) /\ status[e] = "usable" /\ entries[KeyOf[e]] = e
    BY <1>t, <2>1, PointTypes DEF Lifecycle, isCondemned, Midway, Maps
  <2>4. CASE UNCHANGED <<tableVars, links>>
    BY <2>4 DEF tableVars, LinkStep
  <2>5. CASE idleAppend(e)
    <3>1. CASE e \in Elements(idle)
      <4>1. e \in links.inIdle
        BY <3>1 DEF LinksInv, List!Represents, List!Elements, Elements
      <4>2. links' = links /\ idle' = idle
        BY <2>5, <3>1, <4>1 DEF idleAppend, List!idleAppend
      <4> QED
        BY <4>2 DEF LinkStep
    <3>2. CASE e \notin Elements(idle)
      BY <2>1, <2>3, <2>5, <3>2 DEF idleAppend, LinkStep, Finished, Ending
    <3> QED
      BY <3>1, <3>2
  <2> QED
    BY <2>2, <2>3, <2>4, <2>5 DEF Rest
<1>7. ASSUME UNCHANGED listenerVars PROVE LinkStep
  <2>1. links' = links /\ idle' = idle
    BY <1>7 DEF listenerVars, allVars, vars, tableVars, internals
  <2> QED
    BY <2>1 DEF LinkStep
<1> QED
  BY <1>t, <1>1, <1>2, <1>3, <1>4, <1>5, <1>6, <1>7 DEF ListenerNext, ListenerStep

LEMMA StillUndrained ==
  ASSUME Base, MutexInv, [ListenerNext]_listenerVars, Undrained'
  PROVE  Undrained
<1>1. CASE [InternalNext]_allVars
  BY <1>1, InternalStep, DrainsStayBegun DEF Base
<1>2. CASE UNCHANGED lifeVars
  BY <1>2 DEF Undrained, lifeVars
<1> QED
  BY <1>1, <1>2
     DEF ListenerNext, OutsideStep, ListenerStep, EmptyRelease, IRelease, InternalNext,
         BeginRelease, EndRelease, listenerVars

ListenerList == ListenerInv /\ (Undrained => LinksInv)

LEMMA ListenerListStep == ListenerList /\ [ListenerNext]_listenerVars => ListenerList'
<1> SUFFICES ASSUME ListenerList, [ListenerNext]_listenerVars PROVE ListenerList'
  OBVIOUS
<1>1. ListenerInv /\ ListenerInv' /\ Types /\ Types'
  BY ListenerInvStep DEF ListenerList, ListenerInv, Base
<1>2. ASSUME Undrained' PROVE LinksInv'
  <2>1. Undrained /\ LinksInv /\ ~closed /\ NotReopened
    BY <1>1, <1>2, StillUndrained DEF ListenerList, ListenerInv, Closing, NotReopened
  <2>2. Fates
    <3>1. UNCHANGED listenerVars => UNCHANGED vars
      BY DEF listenerVars, allVars
    <3> QED
      BY <1>1, <3>1, NestedFates, FateStep DEF ListenerInv
  <2> QED
    BY <1>1, <1>2, <2>1, <2>2, ListenerLinks, LinksStep
<1> QED
  BY <1>1, <1>2 DEF ListenerList

LEMMA ListenerListAlways == ListenerSpec => []ListenerList
<1>1. ListenerInit => ListenerList
  BY ListenerStart, ListStart DEF ListenerInit, ListenerList, ListInv, NotReopened
<1> QED
  BY <1>1, ListenerListStep, PTL DEF ListenerSpec

(* In the middle of releases too the links, the ends and the count are the *)
(* idle list: no order in which nested releases end links an entry twice,  *)
(* or one that a listener has taken.  (A drain that a listener calls may   *)
(* let an entry that it disposes of be linked, for getStats() to count.)   *)
THEOREM LinksSurviveListeners == ListenerSpec => [](Undrained => LinksRepresentIdle)
<1>1. ListenerList => (Undrained => LinksRepresentIdle)
  BY DEF ListenerList, LinksInv, LinksRepresentIdle, Finished, Ending
<1> QED
  BY <1>1, ListenerListAlways, PTL

(* Once releases have returned, the gauges of an open pool tell how many   *)
(* resources are held and how many are not, whatever listeners called.     *)
THEOREM GaugesSurviveListeners == ListenerSpec => [](Undrained /\ Quiet => GaugesExact)
<1>1. ASSUME ListenerList, Undrained, Quiet PROVE GaugesExact
  <2>1. PoolInv /\ ~closed /\ NotReopened /\ LinksInv
    BY <1>1, QuietPool DEF ListenerList, ListenerInv, Closing, NotReopened
  <2> QED
    BY <2>1, GaugesTell DEF ListInv, Ends
<1>2. ListenerList => (Undrained /\ Quiet => GaugesExact)
  BY <1>1
<1> QED
  BY <1>2, ListenerListAlways, PTL

-----------------------------------------------------------------------------
(* The broker that callers and listeners see, until a drain begins.        *)

LEMMA NestedReservations ==
  ASSUME Max > 0, ListenerInv, ReservedExact, [ListenerNext]_listenerVars
  PROVE  ReservedExact'
<1>t. Types /\ Base /\ MutexInv
  BY DEF ListenerInv, Base
<1>1. CASE [InternalNext]_allVars
  <2>1. [Next]_vars
    BY <1>t, <1>1, InternalStep
  <2>2. Balanced
    BY <1>t, <2>1, StepEffect DEF Effect
  <2> QED
    BY <1>t, <2>2, ReservedStep
<1>2. CASE UNCHANGED reserved /\ \A x \in Calls : pc'[x] = "creating" <=> pc[x] = "creating"
  <2>1. {c \in Calls : pc'[c] = "creating"} = {c \in Calls : pc[c] = "creating"}
    BY <1>2
  <2> QED
    BY <1>2, <2>1 DEF ReservedExact
<1>3. ASSUME NEW c \in Calls, BeginRelease(c)
      PROVE  UNCHANGED reserved /\ \A x \in Calls : pc'[x] = "creating" <=> pc[x] = "creating"
  BY <1>t, <1>3, PointTypes DEF BeginRelease, slotVars, Move
<1>4. CASE EndRelease
  <2>1. Innermost \in Calls
    BY <1>4, Popped DEF ListenerInv, Stack, EndRelease, Quiet, Innermost
  <2>2. /\ Remains(Innermost)
        /\ UNCHANGED <<ent, queue, refCount, condemned, reserved, lifeVars>>
    BY <1>4 DEF EndRelease, Rest, dispose, idleAppend, Remains
  <2> QED
    BY <1>t, <1>2, <2>1, <2>2, RestBase
<1> QED
  BY <1>1, <1>2, <1>3, <1>4
     DEF ListenerNext, OutsideStep, ListenerStep, EmptyRelease, IRelease, InternalNext,
         listenerVars

LEMMA ListenerBroker ==
  ASSUME ListenerInv, ListenerInv', Max > 0 => ReservedExact, [ListenerNext]_listenerVars,
         Undrained'
  PROVE  AsTheBroker
<1>t. /\ Base /\ Types /\ Types' /\ Tables /\ MutexInv /\ Maps /\ ClaimsReal /\ Undrained /\ ~closed'
      /\ Midway /\ condemned = {} /\ \A k \in Keys : orphans[k] = NoEntry
      /\ closed = FALSE /\ closed' = FALSE
  <2>1. Types /\ Types' /\ Undrained
    BY StillUndrained DEF ListenerInv, Base
  <2> QED
    BY <2>1 DEF ListenerInv, Base, Tables, Closing, NotReopened, Grounded, Lifecycle, Types
<1>1. CASE OutsideStep
  <2>1. PoolInv /\ [Next]_vars
    BY <1>t, <1>1, QuietPool, InternalStep DEF OutsideStep
  <2>2. Open
    BY <1>t, <2>1 DEF PoolInv, Open, Counted, NotReopened
  <2> QED
    BY <1>t, <2>1, <2>2, BrokerStep DEF AsTheBroker
<1>2. ASSUME NEW c \in Calls, IAcquireFast(c) PROVE AsTheBroker
  <2>1. /\ AcquireFast(c) /\ entries[KeyOf[c]] \in Calls
        /\ checkout(c, entries[KeyOf[c]]) /\ pc[c] = "new" /\ UNCHANGED status
    BY <1>t, <1>2, PointTypes DEF IAcquireFast, AcquireFast, Shareable, isUsable, Entry
  <2>2. /\ KeyOf[entries[KeyOf[c]]] = KeyOf[c]
        /\ status[entries[KeyOf[c]]] = "usable"
    BY <1>t, <2>1, PointTypes DEF Maps
  <2> QED
    BY <1>t, <2>1, <2>2, GrantStep DEF AsTheBroker
<1>3. ASSUME NEW c \in Calls, IAcquireQueued(c) PROVE AsTheBroker
  BY <1>t, <1>3, AskStep DEF IAcquireQueued, AsTheBroker
<1>4. ASSUME NEW d \in Drains, IDrain(d) PROVE FALSE
  BY <1>t, <1>4 DEF IDrain, Drain, Undrained, Types
<1>5. ASSUME NEW c \in Calls, pc[c] = "holding", pc' = Move(c, "done"),
             ent' = [ent EXCEPT ![c] = NoEntry], UNCHANGED status
      PROVE  AsTheBroker
  <2>1. pc'[c] = "done" /\ \A x \in Calls \ {c} : Unseen(x)
    BY <1>t, <1>5, PointTypes DEF Move, Unseen
  <2> QED
    BY <1>t, <1>5, <2>1, HandleBack DEF AsTheBroker
<1>6. ASSUME NEW c \in Calls, BeginRelease(c) \/ EmptyRelease(c) PROVE AsTheBroker
  BY <1>5, <1>6 DEF BeginRelease, EmptyRelease, Spent, IRelease, Release, releaseEntry
<1>7. CASE EndRelease
  <2> DEFINE e == Innermost
  <2>1. e \in Calls
    BY <1>7, Popped DEF ListenerInv, Stack, EndRelease, Quiet, Innermost
  <2>2. Remains(e) /\ UNCHANGED <<ent, queue, refCount, condemned, reserved, lifeVars>>
    BY <1>7 DEF EndRelease, Rest, dispose, idleAppend, Remains
  <2> HIDE DEF e
  <2>3. UNCHANGED status
    BY <1>t, <2>1, <2>2, PointTypes DEF Remains, isCondemned
  <2>4. \A x \in Calls : pc'[x] = pc[x] \/ (pc[x] = "parked" /\ pc'[x] = "woken")
    BY <1>t, <2>1, <2>2, RestBase
  <2>5. \A x \in Calls : Unseen(x)
    BY <2>2, <2>4 DEF Unseen, WantOf, InFlight, Running
  <2> QED
    BY <1>t, <2>3, <2>5, StutterStep DEF AsTheBroker
<1>8. CASE UNCHANGED listenerVars
  <2>1. UNCHANGED <<pc, ent, status, closed>>
    BY <1>8 DEF listenerVars, allVars, vars, callVars, resVars, lifeVars
  <2> QED
    BY <1>t, <2>1, StutterStep DEF Unseen, AsTheBroker
<1> QED
  BY <1>1, <1>2, <1>3, <1>4, <1>6, <1>7, <1>8 DEF ListenerNext, ListenerStep

(* Listeners that call back do not change what callers may count on: until *)
(* a drain begins, every step that they, the pool or its callers take is   *)
(* one of ResourceBroker's, and the event of a release finds the handle    *)
(* given back.                                                             *)
THEOREM ListenersMeetTheBroker ==
  ListenerSpec => Broker!BrokerInit /\ [][Undrained' => AsTheBroker]_listenerVars
<1>1. ListenerInit => Broker!BrokerInit /\ ListenerInv /\ (Max > 0 => ReservedExact)
  BY BrokerInit, BaseInit, ListenerStart DEF ListenerInit, InternalInit
<1>2. ListenerInv /\ (Max > 0 => ReservedExact) /\ [ListenerNext]_listenerVars
        => ListenerInv' /\ (Max > 0 => ReservedExact)'
  BY ListenerInvStep, NestedReservations
<1>3. ListenerInv /\ ListenerInv' /\ (Max > 0 => ReservedExact) /\ [ListenerNext]_listenerVars
        => [Undrained' => AsTheBroker]_listenerVars
  BY ListenerBroker
<1> QED
  BY <1>1, <1>2, <1>3, PTL DEF ListenerSpec

(* A pool without drains keeps the whole promise, whatever its listeners   *)
(* acquire and release.                                                    *)
COROLLARY ListenersKeepThePromise ==
  ASSUME Drains = {}
  PROVE  ListenerSpec => KeepsBrokerPromise
<1>1. Undrained'
  BY DEF Undrained
<1>2. UNCHANGED listenerVars => UNCHANGED Broker!brokerVars
  BY DEF listenerVars, allVars, vars, callVars, resVars, lifeVars, Broker!brokerVars
<1>3. [Undrained' => AsTheBroker]_listenerVars => [Broker!BrokerNext]_Broker!brokerVars
  BY <1>1, <1>2 DEF AsTheBroker
<1> QED
  BY <1>3, ListenersMeetTheBroker, PTL DEF KeepsBrokerPromise, Broker!BrokerSpec

-----------------------------------------------------------------------------
(* No wakeup is lost.                                                      *)

(* The slot of a resource whose release is under way is spoken for: the    *)
(* rest of the release wakes the call that gets it, if anyone waits.       *)
HalfTaken(k) == Taken(k) \/ (entries[k] # NoEntry /\ entries[k] \in Emitting)
HalfKeys == {k \in Keys : HalfTaken(k)}

NestedFree == NoneFailed /\ (waiters # <<>> => Cardinality(HalfKeys) >= Max)

LEMMA NestedFreed ==
  ASSUME Base, NestedFree, Failing, Max > 0,
         \A k \in Keys : HalfTaken(k) => HalfTaken(k)',
         waiters' # <<>> => waiters # <<>>
  PROVE  NestedFree'
<1>1. HalfKeys \subseteq HalfKeys' /\ HalfKeys' \in SUBSET Keys
  BY DEF HalfKeys
<1>2. waiters' # <<>> => Cardinality(HalfKeys') >= Max
  BY <1>1, SlotsKept DEF NestedFree
<1> QED
  BY <1>2, FailingStep DEF NestedFree

(* Between releases nothing is spoken for in that way.                     *)
LEMMA QuietFree ==
  /\ Quiet => HalfKeys = TakenKeys /\ (NestedFree <=> NoneFree)
  /\ Quiet' => HalfKeys' = TakenKeys' /\ (NestedFree' <=> NoneFree')
<1>1. /\ Quiet => Emitting = {}
      /\ Quiet' => Emitting' = {}
  BY EmptySeq DEF Quiet, Emitting, Elements
<1>2. /\ Quiet => HalfKeys = TakenKeys
      /\ Quiet' => HalfKeys' = TakenKeys'
  BY <1>1 DEF HalfKeys, HalfTaken, TakenKeys
<1> QED
  BY <1>2 DEF NestedFree, NoneFree, NoneFailed

(* The listener acquires, or a release begins.                             *)
LEMMA NestedMoveFree ==
  ASSUME ListenerInv, NestedFree, Max > 0, ~closed, NEW c \in Calls,
         \/ (IAcquireFast(c) \/ IAcquireQueued(c)) /\ UNCHANGED releasing
         \/ BeginRelease(c)
         \/ EmptyRelease(c)
  PROVE  NestedFree'
<1>t. Base /\ Types /\ ClaimsReal /\ Maps /\ KeyOf \in [Calls -> Keys]
  BY PointTypes DEF ListenerInv, Base, Tables
<1>1. /\ UNCHANGED <<entries, waiters>>
      /\ Emitting \subseteq Emitting'
      /\ pc[c] \notin InFlight /\ pc'[c] \notin {"failed", "discarding"}
      /\ \A x \in Calls \ {c} : pc'[x] = pc[x]
      /\ \A e \in Calls : refCount[e] # 0 => refCount'[e] # 0 \/ e \in Emitting'
  <2>1. CASE (IAcquireFast(c) \/ IAcquireQueued(c)) /\ UNCHANGED releasing
    <3>1. Acquire(c) /\ pc[c] = "new" /\ Emitting' = Emitting
      BY <2>1 DEF Acquire, IAcquireFast, IAcquireQueued, AcquireFast, AcquireQueued, Emitting
    <3>2. UNCHANGED <<entries, waiters>> /\ pc'[c] \in {"queued", "holding", "rejected"}
          /\ \A x \in Calls \ {c} : pc'[x] = pc[x]
      BY <1>t, <3>1, PointTypes
         DEF Acquire, AcquireFast, AcquireQueued, checkout, tableVars, resVars, slotVars, Move
    <3>3. \A e \in Calls : refCount[e] # 0 => refCount'[e] # 0
      <4>1. CASE AcquireFast(c)
        <5>1. entries[KeyOf[c]] \in Calls
          BY <1>t, <4>1, PointTypes DEF AcquireFast, Shareable, isUsable, Entry
        <5>2. refCount[entries[KeyOf[c]]] + 1 # 0
          BY <1>t, <5>1, PointTypes
        <5> QED
          BY <1>t, <4>1, <5>1, <5>2, PointTypes DEF AcquireFast, checkout
      <4>2. CASE AcquireQueued(c)
        BY <4>2 DEF AcquireQueued, resVars
      <4> QED
        BY <3>1, <4>1, <4>2 DEF Acquire
    <3> QED
      BY <3>1, <3>2, <3>3 DEF InFlight, Running
  <2>2. CASE BeginRelease(c)
    <3>1. ent[c] \in Calls /\ releasing \in Seq(Calls)
      BY <1>t, <2>2, PointTypes DEF BeginRelease, ClaimsReal, ListenerInv, Stack
    <3>2. Emitting' = Emitting \union {ent[c]}
      BY <2>2, <3>1, AppendElements DEF Emitting, BeginRelease
    <3>3. /\ UNCHANGED <<entries, waiters>>
          /\ pc[c] = "holding" /\ pc'[c] = "done"
          /\ \A x \in Calls \ {c} : pc'[x] = pc[x]
      BY <1>t, <2>2, PointTypes DEF BeginRelease, tableVars, slotVars, Move
    <3>4. \A e \in Calls \ {ent[c]} : refCount'[e] = refCount[e]
      BY <1>t, <2>2, <3>1, PointTypes DEF BeginRelease
    <3> QED
      BY <3>2, <3>3, <3>4 DEF InFlight, Running
  <2>3. CASE EmptyRelease(c)
    <3>1. /\ UNCHANGED <<entries, waiters, refCount, releasing>>
          /\ pc[c] = "holding" /\ pc' = Move(c, "done")
      BY <2>3 DEF EmptyRelease, Spent, IRelease, Release, releaseEntry, tableVars
    <3>2. pc'[c] = "done" /\ \A x \in Calls \ {c} : pc'[x] = pc[x]
      BY <1>t, <3>1, PointTypes DEF Move
    <3> QED
      BY <3>1, <3>2 DEF Emitting, InFlight, Running
  <2> QED
    BY <2>1, <2>2, <2>3
<1>2. Failing
  BY <1>1 DEF Failing
<1>3. ASSUME NEW k \in Keys, HalfTaken(k) PROVE HalfTaken(k)'
  <2>1. CASE entries[k] # NoEntry /\ entries[k] \in Emitting
    BY <1>1, <2>1 DEF HalfTaken
  <2>2. CASE entries[k] # NoEntry /\ refCount[entries[k]] # 0
    <3>1. entries[k] \in Calls
      BY <1>t, <2>2, PointTypes DEF Entry
    <3> QED
      BY <1>1, <2>2, <3>1 DEF HalfTaken, Taken
  <2>3. CASE \/ entries[k] # NoEntry /\ isPending(k)
             \/ \E x \in Calls : KeyOf[x] = k /\ pc[x] \in {"creating", "woken", "replacing"}
    BY <1>1, <2>3 DEF HalfTaken, Taken, isPending, InFlight, Running
  <2> QED
    BY <1>3, <2>1, <2>2, <2>3 DEF HalfTaken, Taken
<1> QED
  BY <1>t, <1>1, <1>2, <1>3, NestedFreed

LEMMA EndFree ==
  ASSUME ListenerInv, NestedFree, Max > 0, NotReopened, ~closed, EndRelease
  PROVE  NestedFree'
<1> DEFINE e == Innermost
<1>t. /\ Base /\ Types /\ ParkedListed /\ Claims /\ Maps /\ KeyOf \in [Calls -> Keys]
      /\ releasing \in Seq(Calls) /\ releasing # <<>>
  BY PointTypes DEF ListenerInv, Base, Tables, Stack, EndRelease, Quiet
<1>1. e \in Calls /\ e \in Emitting /\ Emitting \subseteq Emitting' \union {e}
  BY <1>t, Popped DEF EndRelease, Innermost, Emitting
<1>2. /\ Remains(e) /\ refCount' = refCount
      /\ UNCHANGED <<ent, queue, refCount, condemned, reserved, lifeVars>>
  BY DEF EndRelease, Rest, dispose, idleAppend, Remains
<1> HIDE DEF e
<1>3. \A x \in Calls : pc'[x] = pc[x] \/ (pc[x] = "parked" /\ pc'[x] = "woken")
  BY <1>t, <1>1, <1>2, RestBase
<1>4. ~isCondemned(e)
  BY <1>t, <1>1, PointTypes DEF ListenerInv, Grounded, Lifecycle, isCondemned
<1>5. UNCHANGED entries
  BY <1>2, <1>4 DEF Remains, tableVars
<1>6. Failing
  BY <1>3, <1>5 DEF Failing
<1>7. ASSUME NEW k \in Keys, Taken(k) PROVE Taken(k)'
  BY <1>2, <1>3, <1>5, <1>7, TakenStays DEF InFlight, Running
<1>8. CASE refCount[e] # 0 /\ UNCHANGED waiters
  <2>1. ASSUME NEW k \in Keys, HalfTaken(k) PROVE HalfTaken(k)'
    <3>1. CASE entries[k] # NoEntry /\ entries[k] \in Emitting'
      BY <1>5, <3>1 DEF HalfTaken
    <3>2. CASE entries[k] # NoEntry /\ entries[k] = e
      BY <1>2, <1>5, <1>8, <3>2 DEF HalfTaken, Taken
    <3>3. CASE Taken(k)
      BY <1>7, <3>3 DEF HalfTaken
    <3> QED
      BY <1>1, <2>1, <3>1, <3>2, <3>3 DEF HalfTaken
  <2> QED
    BY <1>t, <1>6, <1>8, <2>1, NestedFreed
<1>9. CASE Wake(pc, 1)
  <2>1. ASSUME NEW k \in Keys \ {KeyOf[e]}, HalfTaken(k) PROVE HalfTaken(k)'
    <3>1. CASE entries[k] # NoEntry /\ entries[k] \in Emitting
      <4>1. entries[k] # e
        BY <1>t, <1>1, <2>1, <3>1 DEF Maps
      <4> QED
        BY <1>1, <1>5, <3>1, <4>1 DEF HalfTaken
    <3>2. CASE Taken(k)
      BY <1>7, <2>1, <3>2 DEF HalfTaken
    <3> QED
      BY <2>1, <3>1, <3>2 DEF HalfTaken
  <2>2. /\ HalfKeys \in SUBSET Keys /\ HalfKeys' \in SUBSET Keys
        /\ HalfKeys \ {KeyOf[e]} \subseteq HalfKeys'
    BY <2>1 DEF HalfKeys
  <2>3. ASSUME NEW w \in Calls, pc[w] = "parked", entries[KeyOf[w]] = NoEntry
        PROVE  KeyOf[w] \notin HalfKeys
    BY <1>t, <2>3, WaiterFree DEF HalfKeys, HalfTaken
  <2>4. \A w \in Calls : pc'[w] = "woken" => KeyOf[w] \in HalfKeys'
    BY <1>t DEF HalfKeys, HalfTaken, Taken
  <2>5. KeyOf[e] \in Keys
    BY <1>t, <1>1
  <2>6. waiters' # <<>> => Cardinality(HalfKeys') >= Max
    BY <1>t, <1>9, <2>2, <2>3, <2>4, <2>5, SlotPassed DEF NestedFree
  <2> QED
    BY <1>t, <1>6, <2>6, FailingStep DEF NestedFree
<1> QED
  BY <1>2, <1>4, <1>8, <1>9 DEF Remains

LEMMA NestedFreeStep ==
  ASSUME ListenerInv, ReservedExact, Max > 0, "throws" \notin ValidateOutcomes,
         NotReopened /\ ~closed => NestedFree, [ListenerNext]_listenerVars,
         NotReopened', ~closed'
  PROVE  NestedFree'
<1>1. NotReopened /\ ~closed
  <2>1. CASE OutsideStep
    <3>1. PoolInv /\ [Next]_vars
      BY <2>1, QuietPool, InternalStep DEF OutsideStep, ListenerInv
    <3>2. NotReopened /\ (Start => ~closed)
      BY <3>1, ClosingStep DEF PoolInv, Base
    <3>3. ~closed
      BY <3>1, <3>2, LifeStep DEF Drain, DrainDone, setClosed, lifeVars
    <3> QED
      BY <3>2, <3>3
  <2>2. CASE UNCHANGED <<closed, started, draining>>
    BY <2>2 DEF NotReopened, Undrained
  <2>3. ASSUME NEW c \in Calls, IAcquireFast(c) \/ IAcquireQueued(c)
        PROVE  UNCHANGED <<closed, started, draining>>
    BY <2>3 DEF IAcquireFast, IAcquireQueued, AcquireFast, AcquireQueued, lifeVars
  <2>4. ASSUME NEW d \in Drains, IDrain(d) PROVE FALSE
    BY <2>4 DEF IDrain, Drain, setClosed
  <2>5. ASSUME EndRelease \/ UNCHANGED listenerVars
               \/ \E c \in Calls : BeginRelease(c) \/ EmptyRelease(c)
        PROVE  UNCHANGED <<closed, started, draining>>
    BY <2>5 DEF EndRelease, BeginRelease, EmptyRelease, IRelease, Release, lifeVars,
                listenerVars, allVars, vars
  <2> QED
    BY <2>1, <2>2, <2>3, <2>4, <2>5 DEF ListenerNext, ListenerStep
<1>2. CASE OutsideStep
  <2>1. PoolInv /\ NoneFree /\ Quiet /\ Quiet' /\ [Next]_vars
    BY <1>1, <1>2, QuietPool, QuietFree, InternalStep DEF OutsideStep, ListenerInv, Quiet
  <2>2. Open
    BY <1>1, <2>1 DEF PoolInv, Counted, Open
  <2> QED
    BY <2>1, <2>2, NoneFreeStep, QuietFree
<1>3. ASSUME NEW c \in Calls,
             \/ (IAcquireFast(c) \/ IAcquireQueued(c)) /\ UNCHANGED releasing
             \/ BeginRelease(c)
             \/ EmptyRelease(c)
      PROVE  NestedFree'
  BY <1>1, <1>3, NestedMoveFree
<1>4. CASE EndRelease
  BY <1>1, <1>4, EndFree
<1>5. ASSUME NEW d \in Drains, IDrain(d) PROVE FALSE
  BY <1>5 DEF IDrain, Drain, setClosed
<1>6. CASE UNCHANGED listenerVars
  <2>1. UNCHANGED <<pc, entries, refCount, waiters, releasing>>
    BY <1>6 DEF listenerVars, allVars, vars, callVars, tableVars, resVars, slotVars
  <2>2. Failing /\ \A k \in Keys : HalfTaken(k) => HalfTaken(k)'
    BY <2>1 DEF Failing, HalfTaken, Taken, isPending, Emitting
  <2> QED
    BY <1>1, <2>1, <2>2, NestedFreed DEF ListenerInv
<1> QED
  BY <1>2, <1>3, <1>4, <1>5, <1>6 DEF ListenerNext, ListenerStep

(* A call that parks while a listener runs, for the slot of a resource     *)
(* that is neither held nor yet listed as idle, is woken when the release  *)
(* ends: once the releases have returned no call is parked beside a slot   *)
(* that it could have.                                                     *)
THEOREM ListenersLoseNoWakeup ==
  ASSUME "throws" \notin ValidateOutcomes
  PROVE  ListenerSpec => [](NotReopened /\ Quiet => NoLostWakeup)
<1>1. CASE Max > 0
  <2> DEFINE WakeInv == NotReopened /\ ~closed => NestedFree
             Inv == ListenerInv /\ ReservedExact /\ WakeInv
  <2>1. ListenerInit => Inv
    <3> SUFFICES ASSUME ListenerInit PROVE Inv
      OBVIOUS
    <3>1. ListenerInv /\ ReservedExact
      BY <1>1, ListenerStart, BaseInit DEF ListenerInit, InternalInit
    <3>2. NestedFree
      BY CallsAssumption
         DEF ListenerInit, InternalInit, Init, NestedFree, NoneFailed
    <3> QED
      BY <3>1, <3>2
  <2>2. Inv /\ [ListenerNext]_listenerVars => Inv'
    BY <1>1, ListenerInvStep, NestedReservations, NestedFreeStep
  <2>3. ASSUME Inv, NotReopened, Quiet PROVE NoLostWakeup
    <3>1. PoolInv
      BY <2>3, QuietPool
    <3>2. waiters # <<>> => ~closed
      BY <3>1 DEF PoolInv, NobodyParked
    <3>3. ~closed => Open /\ NoneFree
      BY <2>3, <3>1, QuietFree DEF PoolInv, Counted, Open
    <3> QED
      BY <1>1, <2>3, <3>2, <3>3, NothingLost DEF NoLostWakeup
  <2>4. Inv => (NotReopened /\ Quiet => NoLostWakeup)
    BY <2>3
  <2> HIDE DEF Inv
  <2> QED
    BY <2>1, <2>2, <2>4, PTL DEF ListenerSpec
<1>2. CASE ~(Max > 0)
  <2>1. ListenerInv => (NotReopened /\ Quiet => NoLostWakeup)
    BY <1>2, OptionsAssumption DEF ListenerInv, NobodyParked, NoLostWakeup
  <2> QED
    BY <2>1, ListenerAlways, PTL
<1> QED
  BY <1>1, <1>2

(* The pool's other structures survive listeners too: through drains and   *)
(* reopenings the chains are the queues, capacityWaiters is the parked     *)
(* calls, each once, and a bounded pool reserves for its creations alone.  *)
THEOREM StructuresSurviveListeners ==
  ListenerSpec => [](MutexRepresentsQueue /\ ParkedListed /\ (Max > 0 => ReservedExact))
<1>1. ListenerInit => ListenerInv /\ (Max > 0 => ReservedExact)
  BY ListenerStart, BaseInit DEF ListenerInit, InternalInit
<1>2. ListenerInv /\ (Max > 0 => ReservedExact) /\ [ListenerNext]_listenerVars
        => ListenerInv' /\ (Max > 0 => ReservedExact)'
  BY ListenerInvStep, NestedReservations
<1>3. ListenerInv => MutexRepresentsQueue /\ ParkedListed
  BY DEF ListenerInv, MutexInv, Base
<1> QED
  BY <1>1, <1>2, <1>3, PTL DEF ListenerSpec

(* Nor does what a listener calls in the middle of a release put another   *)
(* resource over one in the live map or among the orphans.                 *)
THEOREM NothingOverwrittenInside == ListenerSpec => NeverOverwritten
<1>1. ASSUME ListenerInv, [ListenerNext]_listenerVars PROVE TablesKept
  <2>t. Types /\ Base /\ Tables /\ Claims /\ Maps /\ Listed /\ MutexInv
    BY <1>1 DEF ListenerInv, Base, Tables
  <2>1. CASE [InternalNext]_allVars
    <3>1. [Next]_vars
      BY <2>t, <2>1, InternalStep
    <3> QED
      BY <2>t, <3>1, TablesKeptStep
  <2>2. CASE UNCHANGED <<entries, orphans>>
    BY <2>2 DEF TablesKept
  <2>3. ASSUME NEW c \in Calls, BeginRelease(c) PROVE UNCHANGED <<entries, orphans>>
    BY <2>3 DEF BeginRelease, tableVars
  <2>4. CASE EndRelease
    <3>1. Innermost \in Calls
      BY <1>1, <2>4, Popped DEF ListenerInv, Stack, EndRelease, Quiet, Innermost
    <3>2. CASE removeEntry(Innermost) /\ status' = Disposing({Innermost})
      <4>1. \A k \in Keys :
              /\ entries'[k] = IF entries[k] = Innermost THEN NoEntry ELSE entries[k]
              /\ orphans'[k] = IF orphans[k] = Innermost THEN NoEntry ELSE orphans[k]
        BY <2>t, <3>1, <3>2, Removed
      <4> QED
        BY <4>1 DEF TablesKept
    <3> QED
      BY <2>2, <2>4, <3>2 DEF EndRelease, Rest, dispose, idleAppend, tableVars
  <2> QED
    BY <1>1, <2>1, <2>2, <2>3, <2>4
       DEF ListenerNext, OutsideStep, ListenerStep, EmptyRelease, IRelease, InternalNext,
           listenerVars
<1>2. ListenerInv /\ [ListenerNext]_listenerVars => TablesKept
  BY <1>1
<1>3. TablesKept => [\A k \in Keys :
                        /\ entries[k] # NoEntry => entries'[k] \in {entries[k], NoEntry}
                        /\ orphans[k] # NoEntry => orphans'[k] \in {orphans[k], NoEntry}]_vars
  BY DEF TablesKept
<1> QED
  BY <1>2, <1>3, ListenerAlways, PTL DEF ListenerSpec, NeverOverwritten
=============================================================================
