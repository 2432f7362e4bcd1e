------------------------- MODULE PoolInternalsProofs -------------------------
(***************************************************************************)
(* Theorems about the pool with its mutex and its idle list in the form    *)
(* that the code gives them.  The chained promises keep each key's calls   *)
(* in order, so that the pool is the one of RefPool; the links, as long as *)
(* no drain is followed by a start, stand for its idle list.               *)
(***************************************************************************)
EXTENDS PoolInternals, RefPoolService

-----------------------------------------------------------------------------
(* The per-key mutex.                                                      *)

MutexTypes ==
  /\ mutexes \in [Keys -> Cells \union {NoEntry}]
  /\ tail \in [Keys -> [Cells -> Entry]]
  /\ pending \in [Keys -> [Cells -> Nat]]
  /\ cellOf \in [Calls -> Cells \union {NoEntry}]
  /\ after \in [Calls -> Entry]

(* A call has a cell only while it is queued or runs, and a cell that is   *)
(* not in the map is as new.                                               *)
CellsFreed ==
  /\ \A c \in Calls : cellOf[c] # NoEntry => c \in Elements(queue[KeyOf[c]])
  /\ \A k \in Keys, m \in Cells :
       m # mutexes[k] => pending[k][m] = 0 /\ tail[k][m] = NoEntry

(* What the mutex relies on in the queues. *)
QueuesKeyed ==
  /\ queue \in [Keys -> Seq(Calls)]
  /\ \A k \in Keys : \A i \in DOMAIN queue[k] : KeyOf[queue[k][i]] = k
  /\ \A k \in Keys : Distinct(queue[k])

MutexInv == MutexTypes /\ CellsFreed /\ MutexRepresentsQueue

LEMMA QueueItems ==
  ASSUME QueuesKeyed, NEW k \in Keys
  PROVE  /\ queue[k] \in Seq(Calls) /\ Len(queue[k]) \in Nat
         /\ DOMAIN queue[k] = 1..Len(queue[k])
         /\ \A i \in 1..Len(queue[k]) : queue[k][i] \in Calls /\ KeyOf[queue[k][i]] = k
         /\ queue[k] = <<>> <=> Len(queue[k]) = 0
<1>1. queue[k] \in Seq(Calls)
  BY DEF QueuesKeyed
<1>2. /\ Len(queue[k]) \in Nat /\ DOMAIN queue[k] = 1..Len(queue[k])
      /\ queue[k] = <<>> <=> Len(queue[k]) = 0
  BY <1>1, LenProperties, EmptySeq
<1>3. \A i \in 1..Len(queue[k]) : queue[k][i] \in Calls
  BY <1>1, <1>2, ElementOfSeq
<1> QED
  BY <1>1, <1>2, <1>3 DEF QueuesKeyed

(* The cell of a call that joins, and what it finds there.                 *)
CellFor(k) == IF mutexes[k] = NoEntry THEN Mutex!NewCell(k) ELSE mutexes[k]

LEMMA CellFound ==
  ASSUME MutexInv, QueuesKeyed, NEW k \in Keys
  PROVE  LET m == CellFor(k)
             q == queue[k]
         IN  /\ m \in Cells /\ m # NoEntry
             /\ pending[k][m] = Len(q)
             /\ tail[k][m] = IF q = <<>> THEN NoEntry ELSE q[Len(q)]
             /\ mutexes[k] = IF q = <<>> THEN NoEntry ELSE m
             /\ \A i \in 1..Len(q) : /\ cellOf[q[i]] = m
                                     /\ after[q[i]] = IF i = 1 THEN NoEntry ELSE q[i - 1]
             /\ \A n \in Cells \ {m} : pending[k][n] = 0 /\ tail[k][n] = NoEntry
<1>1. Mutex!Chains(k, queue[k])
  BY DEF MutexInv, MutexRepresentsQueue
<1>2. CASE queue[k] = <<>>
  <2>1. mutexes[k] = NoEntry /\ Len(queue[k]) = 0
    BY <1>1, <1>2, QueueItems DEF Mutex!Chains
  <2>2. \A c \in Calls : KeyOf[c] = k => cellOf[c] = NoEntry
    BY <1>2 DEF MutexInv, CellsFreed, Elements
  <2>3. \E m \in Cells : m \notin Mutex!InUse(k)
    BY <2>1, <2>2, CellsAssumption DEF Mutex!InUse
  <2>4. CellFor(k) \in Cells
    BY <2>1, <2>3 DEF CellFor, Mutex!NewCell
  <2> QED
    BY <1>2, <2>1, <2>4, CellsAssumption DEF MutexInv, CellsFreed
<1>3. CASE queue[k] # <<>>
  <2>1. /\ mutexes[k] # NoEntry /\ CellFor(k) = mutexes[k] /\ mutexes[k] \in Cells
        /\ pending[k][mutexes[k]] = Len(queue[k])
        /\ tail[k][mutexes[k]] = queue[k][Len(queue[k])]
        /\ \A i \in DOMAIN queue[k] :
             /\ cellOf[queue[k][i]] = mutexes[k]
             /\ after[queue[k][i]] = IF i = 1 THEN NoEntry ELSE queue[k][i - 1]
    BY <1>1, <1>3 DEF Mutex!Chains, CellFor, MutexInv, MutexTypes
  <2> QED
    BY <1>3, <2>1, QueueItems DEF MutexInv, CellsFreed
<1> QED
  BY <1>2, <1>3

(* How the structures of key k stand for q, with cell m. *)
Stands(k, m, q) ==
  /\ mutexes[k] = IF q = <<>> THEN NoEntry ELSE m
  /\ pending[k][m] = Len(q)
  /\ tail[k][m] = IF q = <<>> THEN NoEntry ELSE q[Len(q)]
  /\ \A i \in 1..Len(q) : /\ cellOf[q[i]] = m
                          /\ after[q[i]] = IF i = 1 THEN NoEntry ELSE q[i - 1]
  /\ \A n \in Cells \ {m} : pending[k][n] = 0 /\ tail[k][n] = NoEntry

(* What makes the invariant hold after a step.                             *)
LEMMA MutexInvNext ==
  ASSUME MutexTypes', QueuesKeyed',
         \A k \in Keys : \E m \in Cells : Stands(k, m, queue[k])',
         \A c \in Calls : cellOf'[c] # NoEntry => c \in Elements(queue'[KeyOf[c]])
  PROVE  MutexInv'
<1>1. \A k \in Keys : queue'[k] \in Seq(Calls)
  BY DEF QueuesKeyed
<1>2. \A k \in Keys : /\ Mutex!Chains(k, queue[k])'
                      /\ \A n \in Cells : n # mutexes'[k] => pending'[k][n] = 0 /\ tail'[k][n] = NoEntry
  <2> SUFFICES ASSUME NEW k \in Keys
               PROVE  /\ Mutex!Chains(k, queue[k])'
                      /\ \A n \in Cells : n # mutexes'[k] => pending'[k][n] = 0 /\ tail'[k][n] = NoEntry
    OBVIOUS
  <2>1. PICK m \in Cells : Stands(k, m, queue[k])'
    OBVIOUS
  <2>2. queue'[k] \in Seq(Calls) /\ m # NoEntry
    BY <1>1, CellsAssumption
  <2>3. /\ DOMAIN queue'[k] = 1..Len(queue'[k])
        /\ queue'[k] = <<>> <=> Len(queue'[k]) = 0
    BY <2>2, LenProperties, EmptySeq
  <2>4. Mutex!Chains(k, queue[k])'
    BY <2>1, <2>2, <2>3 DEF Mutex!Chains, Stands
  <2>5. ASSUME NEW n \in Cells, n # mutexes'[k]
        PROVE  pending'[k][n] = 0 /\ tail'[k][n] = NoEntry
    BY <2>1, <2>3, <2>5 DEF Stands
  <2> QED
    BY <2>4, <2>5
<1> QED
  BY <1>2 DEF MutexInv, CellsFreed, MutexRepresentsQueue

LEMMA OtherKey ==
  ASSUME NEW j \in Keys, NEW n \in Cells, Stands(j, n, queue[j]),
         queue'[j] = queue[j], mutexes'[j] = mutexes[j], pending'[j] = pending[j],
         tail'[j] = tail[j],
         \A i \in 1..Len(queue[j]) : /\ cellOf'[queue[j][i]] = cellOf[queue[j][i]]
                                     /\ after'[queue[j][i]] = after[queue[j][i]]
  PROVE  Stands(j, n, queue[j])'
<1>1. PICK q : q = queue[j]
  OBVIOUS
<1>2. \A i \in 1..Len(q) : /\ cellOf'[q[i]] = n
                          /\ after'[q[i]] = IF i = 1 THEN NoEntry ELSE q[i - 1]
  BY <1>1 DEF Stands
<1>3. /\ mutexes'[j] = IF q = <<>> THEN NoEntry ELSE n
      /\ pending'[j][n] = Len(q)
      /\ tail'[j][n] = IF q = <<>> THEN NoEntry ELSE q[Len(q)]
      /\ \A l \in Cells \ {n} : pending'[j][l] = 0 /\ tail'[j][l] = NoEntry
  BY <1>1 DEF Stands
<1> QED
  <2>1. q = queue'[j]
    BY <1>1
  <2> HIDE <1>1
  <2> QED
    BY <1>2, <1>3, <2>1 DEF Stands

LEMMA JoinKeeps ==
  ASSUME MutexInv, QueuesKeyed, QueuesKeyed', NEW c \in Calls,
         c \notin Elements(queue[KeyOf[c]]), Mutex!runExclusive(c),
         queue' = [queue EXCEPT ![KeyOf[c]] = Append(@, c)]
  PROVE  MutexInv'
<1>1. PICK k \in Keys : k = KeyOf[c]
  BY CallsAssumption
<1>2. PICK m \in Cells : m = CellFor(k) /\ Stands(k, m, queue[k]) /\ m # NoEntry
  <2>1. CellFor(k) \in Cells /\ CellFor(k) # NoEntry /\ Stands(k, CellFor(k), queue[k])
    BY CellFound DEF Stands
  <2> QED
    BY <2>1
<1>t. MutexTypes /\ QueuesKeyed /\ queue \in [Keys -> Seq(Calls)]
  BY DEF MutexInv, QueuesKeyed
<1>3. /\ mutexes' = [mutexes EXCEPT ![k] = m]
      /\ cellOf' = [cellOf EXCEPT ![c] = m]
      /\ pending' = [pending EXCEPT ![k][m] = @ + 1]
      /\ after' = [after EXCEPT ![c] = tail[k][m]]
      /\ tail' = [tail EXCEPT ![k][m] = c]
  BY <1>1, <1>2 DEF Mutex!runExclusive, CellFor
<1>4. MutexTypes'
  BY <1>t, <1>3 DEF MutexTypes, Entry
<1>5. /\ mutexes'[k] = m /\ cellOf'[c] = m /\ pending'[k][m] = pending[k][m] + 1
      /\ after'[c] = tail[k][m] /\ tail'[k][m] = c
      /\ \A x \in Calls \ {c} : cellOf'[x] = cellOf[x] /\ after'[x] = after[x]
      /\ \A n \in Cells \ {m} : pending'[k][n] = pending[k][n] /\ tail'[k][n] = tail[k][n]
      /\ \A j \in Keys \ {k} : /\ mutexes'[j] = mutexes[j] /\ pending'[j] = pending[j]
                               /\ tail'[j] = tail[j]
  BY <1>t, <1>3 DEF MutexTypes
<1>6. /\ queue'[k] = Append(queue[k], c)
      /\ \A j \in Keys \ {k} : queue'[j] = queue[j]
  BY <1>1, <1>t
<1>7. /\ Len(queue'[k]) = Len(queue[k]) + 1 /\ Len(queue[k]) \in Nat
      /\ queue'[k][Len(queue[k]) + 1] = c
      /\ \A i \in 1..Len(queue[k]) : queue'[k][i] = queue[k][i] /\ queue[k][i] \in Calls \ {c}
      /\ queue'[k] # <<>>
  <2>1. queue[k] \in Seq(Calls)
    BY <1>t
  <2>2. \A i \in 1..Len(queue[k]) : queue[k][i] \in Calls /\ queue[k][i] # c
    BY <1>1, <1>t, QueueItems DEF Elements
  <2> QED
    BY <1>6, <2>1, <2>2, AppendProperties, EmptySeq
<1>8. Stands(k, m, queue[k])'
  <2>1. queue[k] = <<>> <=> Len(queue[k]) = 0
    BY <1>t, QueueItems
  <2>2. ASSUME NEW i \in 1..Len(queue'[k])
        PROVE  /\ cellOf'[queue'[k][i]] = m
               /\ after'[queue'[k][i]] = IF i = 1 THEN NoEntry ELSE queue'[k][i - 1]
    <3>1. CASE i = Len(queue[k]) + 1
      <4>1. i # 1 => i - 1 \in 1..Len(queue[k])
        BY <1>7, <3>1
      <4> QED
        BY <1>2, <1>5, <1>7, <2>1, <3>1, <4>1 DEF Stands
    <3>2. CASE i # Len(queue[k]) + 1
      <4>1. i \in 1..Len(queue[k]) /\ (i # 1 => i - 1 \in 1..Len(queue[k]))
        BY <1>7, <3>2
      <4> QED
        BY <1>2, <1>5, <1>7, <4>1 DEF Stands
    <3> QED
      BY <3>1, <3>2
  <2>3. /\ mutexes'[k] = m /\ pending'[k][m] = Len(queue'[k])
        /\ tail'[k][m] = queue'[k][Len(queue'[k])]
        /\ \A n \in Cells \ {m} : pending'[k][n] = 0 /\ tail'[k][n] = NoEntry
    BY <1>2, <1>5, <1>7 DEF Stands
  <2> QED
    BY <1>7, <2>2, <2>3 DEF Stands
<1>9. ASSUME NEW j \in Keys \ {k} PROVE \E n \in Cells : Stands(j, n, queue[j])'
  <2>1. PICK n \in Cells : Stands(j, n, queue[j])
    BY CellFound DEF Stands
  <2>2. \A i \in 1..Len(queue[j]) : queue[j][i] \in Calls \ {c}
    BY <1>1, <1>t, QueueItems
  <2>3. /\ queue'[j] = queue[j] /\ mutexes'[j] = mutexes[j] /\ pending'[j] = pending[j]
        /\ tail'[j] = tail[j]
        /\ \A i \in 1..Len(queue[j]) : /\ cellOf'[queue[j][i]] = cellOf[queue[j][i]]
                                      /\ after'[queue[j][i]] = after[queue[j][i]]
    BY <1>5, <1>6, <2>2
  <2>4. Stands(j, n, queue[j])'
    BY <2>1, <2>3, OtherKey
  <2> QED
    BY <2>4
<1>10. ASSUME NEW x \in Calls, cellOf'[x] # NoEntry PROVE x \in Elements(queue'[KeyOf[x]])
  <2>1. CASE x = c
    <3>1. DOMAIN queue'[k] = 1..Len(queue'[k])
      BY QueueItems, <1>6, <1>t, AppendProperties
    <3> QED
      BY <1>1, <1>7, <2>1, <3>1 DEF Elements
  <2>2. CASE x # c
    <3>1. x \in Elements(queue[KeyOf[x]])
      BY <1>5, <1>10, <2>2 DEF MutexInv, CellsFreed
    <3>2. KeyOf[x] \in Keys \ {k} => queue'[KeyOf[x]] = queue[KeyOf[x]]
      BY <1>6
    <3>3. KeyOf[x] = k => x \in Elements(queue'[k])
      BY <1>6, <1>t, <3>1, AppendElements
    <3> QED
      BY <3>1, <3>2, <3>3, CallsAssumption
  <2> QED
    BY <2>1, <2>2
<1> QED
  BY <1>4, <1>8, <1>9, <1>10, MutexInvNext

LEMMA LeaveKeeps ==
  ASSUME MutexInv, QueuesKeyed, QueuesKeyed', NEW c \in Calls,
         atHead(c), Mutex!leave(c), queue' = [queue EXCEPT ![KeyOf[c]] = Tail(@)]
  PROVE  MutexInv'
<1> DEFINE done(p) == IF p = c THEN NoEntry ELSE p
<1>1. PICK k \in Keys : k = KeyOf[c]
  BY CallsAssumption
<1>t. MutexTypes /\ QueuesKeyed /\ queue \in [Keys -> Seq(Calls)]
  BY DEF MutexInv, QueuesKeyed
<1>q. PICK q : q = queue[k]
  OBVIOUS
<1>2. /\ q \in Seq(Calls) /\ q # <<>> /\ Len(q) \in Nat \ {0} /\ q[1] = c
      /\ \A i, j \in 1..Len(q) : q[i] = q[j] => i = j
      /\ \A i \in 1..Len(q) : q[i] \in Calls
  <2>1. q \in Seq(Calls) /\ q # <<>> /\ Head(q) = c
    BY <1>1, <1>t, <1>q DEF atHead
  <2>2. Distinct(q) /\ DOMAIN q = 1..Len(q) /\ Len(q) \in Nat
        /\ \A i \in 1..Len(q) : q[i] \in Calls
    BY <1>t, <1>q, QueueItems DEF QueuesKeyed
  <2> QED
    BY <2>1, <2>2, EmptySeq DEF Distinct
<1>3. PICK m \in Cells : m = CellFor(k) /\ Stands(k, m, q) /\ m # NoEntry
  <2>1. CellFor(k) \in Cells /\ CellFor(k) # NoEntry /\ Stands(k, CellFor(k), queue[k])
    BY CellFound DEF Stands
  <2> QED
    BY <1>q, <2>1
<1>4. cellOf[c] = m /\ mutexes[k] = m /\ pending[k][m] = Len(q)
  BY <1>2, <1>3 DEF Stands
<1>5. /\ pending' = [pending EXCEPT ![k][m] = @ - 1]
      /\ mutexes' = IF Len(q) = 1 THEN [mutexes EXCEPT ![k] = NoEntry] ELSE mutexes
      /\ tail' = [tail EXCEPT ![k] = [n \in Cells |-> done(@[n])]]
      /\ after' = [d \in Calls |-> done(after[d])]
      /\ cellOf' = [cellOf EXCEPT ![c] = NoEntry]
  BY <1>1, <1>4 DEF Mutex!leave, Mutex!settled
<1>6. /\ mutexes'[k] = IF Len(q) = 1 THEN NoEntry ELSE m
      /\ pending'[k][m] = Len(q) - 1
      /\ \A n \in Cells \ {m} : pending'[k][n] = pending[k][n]
      /\ \A n \in Cells : tail'[k][n] = done(tail[k][n])
      /\ cellOf'[c] = NoEntry /\ \A x \in Calls \ {c} : cellOf'[x] = cellOf[x]
      /\ \A x \in Calls : after'[x] = done(after[x])
  BY <1>t, <1>4, <1>5 DEF MutexTypes
<1>7. ASSUME NEW j \in Keys \ {k}
      PROVE  mutexes'[j] = mutexes[j] /\ pending'[j] = pending[j] /\ tail'[j] = tail[j]
  BY <1>t, <1>5 DEF MutexTypes
<1>8. MutexTypes'
  <2>1. pending' \in [Keys -> [Cells -> Nat]]
    <3>1. Len(q) - 1 \in Nat
      BY <1>2
    <3> QED
      BY <1>t, <1>4, <1>5, <3>1 DEF MutexTypes
  <2>2. tail' \in [Keys -> [Cells -> Entry]]
    BY <1>t, <1>5 DEF MutexTypes, Entry
  <2> QED
    BY <1>t, <1>5, <2>1, <2>2 DEF MutexTypes, Entry
<1>9. PICK r : r = queue'[k]
  OBVIOUS
<1>10. /\ r \in Seq(Calls) /\ Len(r) = Len(q) - 1
       /\ \A i \in 1..Len(r) : r[i] = q[i + 1]
       /\ r = <<>> <=> Len(q) = 1
  <2>1. r = Tail(q)
    BY <1>1, <1>t, <1>q, <1>9
  <2>2. /\ Tail(q) \in Seq(Calls) /\ Len(Tail(q)) = Len(q) - 1
        /\ \A i \in 1..(Len(q) - 1) : Tail(q)[i] = q[i + 1]
    BY <1>2, HeadTailProperties
  <2>3. Tail(q) = <<>> <=> Len(Tail(q)) = 0
    BY <2>2, EmptySeq
  <2> QED
    BY <1>2, <2>1, <2>2, <2>3
<1>11. Stands(k, m, r)'
  <2>1. ASSUME NEW i \in 1..Len(r)
        PROVE  /\ cellOf'[r[i]] = m
               /\ after'[r[i]] = IF i = 1 THEN NoEntry ELSE r[i - 1]
    <3>1. i + 1 \in 1..Len(q) /\ i \in 1..Len(q) /\ r[i] = q[i + 1] /\ i + 1 # 1
      BY <1>2, <1>10
    <3>2. q[i + 1] \in Calls \ {c}
      BY <1>2, <3>1
    <3>3. cellOf'[r[i]] = m
      BY <1>3, <1>6, <3>1, <3>2 DEF Stands
    <3>4. after[q[i + 1]] = q[i]
      <4>1. after[q[i + 1]] = IF i + 1 = 1 THEN NoEntry ELSE q[(i + 1) - 1]
        BY <1>3, <3>1 DEF Stands
      <4> QED
        BY <3>1, <4>1
    <3>5. after'[r[i]] = done(q[i])
      BY <1>6, <3>1, <3>2, <3>4
    <3>6. CASE i = 1
      BY <1>2, <3>3, <3>5, <3>6
    <3>7. CASE i # 1
      <4>1. q[i] # c /\ r[i - 1] = q[i]
        BY <1>2, <1>10, <3>1, <3>7
      <4> QED
        BY <3>3, <3>5, <3>7, <4>1
    <3> QED
      BY <3>6, <3>7
  <2>2. tail'[k][m] = IF r = <<>> THEN NoEntry ELSE r[Len(r)]
    <3>1. tail'[k][m] = done(q[Len(q)])
      BY <1>2, <1>3, <1>6 DEF Stands
    <3>2. CASE Len(q) = 1
      BY <1>2, <1>10, <3>1, <3>2
    <3>3. CASE Len(q) # 1
      <4>1. q[Len(q)] # c /\ r[Len(r)] = q[Len(q)]
        BY <1>2, <1>10, <3>3
      <4> QED
        BY <1>10, <3>1, <3>3, <4>1
    <3> QED
      BY <3>2, <3>3
  <2>3. /\ mutexes'[k] = IF r = <<>> THEN NoEntry ELSE m
        /\ pending'[k][m] = Len(r)
        /\ \A n \in Cells \ {m} : pending'[k][n] = 0 /\ tail'[k][n] = NoEntry
    BY <1>3, <1>6, <1>10 DEF Stands
  <2> QED
    BY <2>1, <2>2, <2>3, Zenon DEF Stands
<1>12. ASSUME NEW j \in Keys \ {k} PROVE \E n \in Cells : Stands(j, n, queue[j])'
  <2>1. PICK n \in Cells : Stands(j, n, queue[j])
    BY CellFound DEF Stands
  <2>2. \A i \in 1..Len(queue[j]) : queue[j][i] \in Calls \ {c}
    BY <1>1, <1>t, QueueItems
  <2>3. \A i \in 1..Len(queue[j]) : after[queue[j][i]] # c
    <3> SUFFICES ASSUME NEW i \in 1..Len(queue[j]), after[queue[j][i]] = c PROVE FALSE
      OBVIOUS
    <3>1. after[queue[j][i]] = IF i = 1 THEN NoEntry ELSE queue[j][i - 1]
      BY <2>1 DEF Stands
    <3>2. i # 1 => i - 1 \in 1..Len(queue[j])
      BY <1>t, QueueItems
    <3> QED
      BY <2>2, <3>1, <3>2, CallsAssumption
  <2>4. queue'[j] = queue[j]
    BY <1>1, <1>t
  <2>5. \A i \in 1..Len(queue[j]) : /\ cellOf'[queue[j][i]] = cellOf[queue[j][i]]
                                    /\ after'[queue[j][i]] = after[queue[j][i]]
    BY <1>6, <2>2, <2>3
  <2>6. Stands(j, n, queue[j])'
    BY <1>7, <2>1, <2>4, <2>5, OtherKey
  <2> QED
    BY <2>6
<1>13. ASSUME NEW x \in Calls, cellOf'[x] # NoEntry PROVE x \in Elements(queue'[KeyOf[x]])
  <2>1. x # c /\ x \in Elements(queue[KeyOf[x]])
    BY <1>6, <1>13 DEF MutexInv, CellsFreed
  <2>2. CASE KeyOf[x] = k
    <3>1. PICK i \in 1..Len(q) : x = q[i]
      BY <1>t, <1>q, <2>1, <2>2, QueueItems DEF Elements
    <3>2. i - 1 \in 1..Len(r) /\ r[i - 1] = q[i]
      BY <1>2, <1>10, <2>1, <3>1
    <3>3. DOMAIN r = 1..Len(r)
      BY <1>10, LenProperties
    <3> QED
      BY <1>9, <2>2, <3>1, <3>2, <3>3 DEF Elements
  <2>3. CASE KeyOf[x] # k
    BY <1>1, <1>t, <2>1, <2>3, CallsAssumption
  <2> QED
    BY <2>2, <2>3
<1> QED
  BY <1>8, <1>9, <1>11, <1>12, <1>13, MutexInvNext

LEMMA IdleKeeps ==
  ASSUME MutexInv, QueuesKeyed, UNCHANGED queue, SameMutex \/ Mutex!gcMutexes
  PROVE  MutexInv'
<1>1. CASE SameMutex
  BY <1>1 DEF SameMutex, MutexInv, MutexTypes, CellsFreed, MutexRepresentsQueue, Mutex!Chains
<1>2. CASE Mutex!gcMutexes
  <2>1. ASSUME NEW k \in Keys, mutexes[k] # NoEntry PROVE pending[k][mutexes[k]] # 0
    <3>1. Stands(k, mutexes[k], queue[k]) /\ queue[k] # <<>>
      BY <2>1, CellFound DEF Stands, CellFor
    <3> QED
      BY <3>1, QueueItems DEF Stands
  <2>2. mutexes' = [k \in Keys |-> mutexes[k]]
    BY <1>2, <2>1 DEF Mutex!gcMutexes
  <2>3. SameMutex
    BY <1>2, <2>2 DEF Mutex!gcMutexes, SameMutex, MutexInv, MutexTypes
  <2> QED
    BY <1>1, <2>3
<1> QED
  BY <1>1, <1>2
-----------------------------------------------------------------------------
(* The steps of the pool.                                                  *)

LEMMA BaseQueues == Base => QueuesKeyed
BY DEF Base, Types, QueueOk, QueuesKeyed

LEMMA MutexStart == InternalInit => MutexInv
<1> SUFFICES ASSUME InternalInit PROVE MutexInv
  OBVIOUS
<1>1. /\ mutexes = [k \in Keys |-> NoEntry]
      /\ tail = [k \in Keys |-> [m \in Cells |-> NoEntry]]
      /\ pending = [k \in Keys |-> [m \in Cells |-> 0]]
      /\ cellOf = [c \in Calls |-> NoEntry]
      /\ after = [c \in Calls |-> NoEntry]
      /\ queue = [k \in Keys |-> <<>>]
  BY DEF InternalInit, Mutex!MutexInit, Init
<1>2. MutexTypes
  BY <1>1 DEF MutexTypes, Entry
<1>3. CellsFreed
  BY <1>1 DEF CellsFreed
<1>4. MutexRepresentsQueue
  BY <1>1 DEF MutexRepresentsQueue, Mutex!Chains
<1> QED
  BY <1>2, <1>3, <1>4 DEF MutexInv

(* A call whose predecessor in the chain has ended is the head of the      *)
(* queue: obtain() runs in the order of the calls.                         *)
LEMMA RunsAtHead ==
  ASSUME Base, MutexInv, NEW c \in Calls, pc[c] = "queued", Mutex!mayRun(c)
  PROVE  Turn(c)
<1>1. PICK k \in Keys : k = KeyOf[c]
  BY CallsAssumption
<1>2. QueuesKeyed /\ c \in Elements(queue[k])
  BY <1>1, BaseQueues DEF MutexInv, CellsFreed, Mutex!mayRun
<1>3. PICK i \in 1..Len(queue[k]) : c = queue[k][i]
  BY <1>2, QueueItems DEF Elements
<1>4. after[c] = IF i = 1 THEN NoEntry ELSE queue[k][i - 1]
  BY <1>2, <1>3, CellFound
<1>5. i # 1 => i - 1 \in 1..Len(queue[k])
  BY <1>2, QueueItems
<1>6. i = 1
  BY <1>2, <1>4, <1>5, QueueItems, CallsAssumption DEF Mutex!mayRun
<1>7. queue[k] # <<>> /\ queue[k] \in Seq(Calls) /\ queue[k][1] = c
  BY <1>2, <1>3, <1>6, QueueItems
<1> QED
  BY <1>1, <1>7 DEF Turn, atHead

(* The steps that neither join a mutex nor leave one. *)
LEMMA InternalMutexStep ==
  ASSUME Base, Base', MutexInv, InternalNext
  PROVE  MutexInv'
<1>q. QueuesKeyed /\ QueuesKeyed' /\ Types
  BY BaseQueues DEF Base, QueuesKeyed, Types, QueueOk
<1>1. ASSUME NEW c \in Calls, IAcquireQueued(c) PROVE MutexInv'
  <2>1. /\ pc[c] = "new" /\ Mutex!runExclusive(c)
        /\ queue' = [queue EXCEPT ![KeyOf[c]] = Append(@, c)]
    BY <1>1 DEF IAcquireQueued, AcquireQueued
  <2>2. c \notin Elements(queue[KeyOf[c]])
    BY <2>1, CallsAssumption DEF Elements, Base, QueueOk, InFlight, Running
  <2> QED
    BY <1>q, <2>1, <2>2, JoinKeeps
<1>2. ASSUME NEW c \in Calls, ISettle(c) \/ ISettleFailed(c) PROVE MutexInv'
  <2>1. pc[c] \in {"got", "failed"} /\ passMutex(c) /\ Mutex!leave(c)
    BY <1>2 DEF ISettle, ISettleFailed, Settle, SettleFailed
  <2>2. atHead(c)
    BY <2>1 DEF Base, QueueOk, Running
  <2> QED
    BY <1>q, <2>1, <2>2, LeaveKeeps DEF passMutex
<1>3. ASSUME UNCHANGED queue, SameMutex \/ Mutex!gcMutexes PROVE MutexInv'
  BY <1>q, <1>3, IdleKeeps
<1>4. ASSUME NEW c \in Calls, IAcquireFast(c) PROVE MutexInv'
  BY <1>3, <1>4 DEF IAcquireFast, AcquireFast
<1>5. ASSUME NEW c \in Calls, IMissing(c) PROVE UNCHANGED queue
  BY <1>5 DEF IMissing, ISlot, GoForSlot, acquireSlot, Resurrect, Refuse
<1>6. ASSUME NEW c \in Calls, IObtain(c) \/ IReplace(c) PROVE MutexInv'
  BY <1>3, <1>5, <1>6 DEF IObtain, IReplace, UseLive
<1>7. ASSUME NEW c \in Calls, IRetry(c) PROVE MutexInv'
  BY <1>3, <1>7 DEF IRetry, Retry, acquireSlot
<1>8. ASSUME NEW c \in Calls, IValidateStale(c) \/ IFactoryResolves(c) PROVE MutexInv'
  BY <1>3, <1>8 DEF IValidateStale, IFactoryResolves, ValidateStale, FactoryResolves
<1>9. ASSUME NEW c \in Calls, IRelease(c) \/ IReleaseKey(c) PROVE MutexInv'
  BY <1>3, <1>9 DEF IRelease, IReleaseKey, Release, ReleaseKey
<1>10. ASSUME NEW c \in Calls, Elsewhere(c) PROVE MutexInv'
  BY <1>3, <1>10
     DEF Elsewhere, ValidateOk, ValidateThrows, Timeout, FactoryRejects, DiscardDone,
         DisposeDone, callVars
<1>11. ASSUME NEW d \in Drains, IDrain(d) \/ (DrainDone(d) /\ SameLinks /\ SameMutex)
       PROVE  MutexInv'
  BY <1>3, <1>11 DEF IDrain, Drain, DrainDone, callVars
<1>12. ASSUME NEW n, ISweep(n) PROVE MutexInv'
  BY <1>3, <1>12 DEF ISweep, Sweep
<1>13. ASSUME Start /\ SameLinks /\ SameMutex PROVE MutexInv'
  BY <1>3, <1>13 DEF Start, callVars
<1>14. ASSUME IGc PROVE MutexInv'
  BY <1>3, <1>14 DEF IGc, vars, callVars
<1> QED
  BY <1>1, <1>2, <1>4, <1>6, <1>7, <1>8, <1>9, <1>10, <1>11, <1>12, <1>13, <1>14
     DEF InternalNext

(* Each step is one of RefPool, or changes nothing there. *)
LEMMA OuterStep ==
  ASSUME Base, MutexInv, [InternalNext]_allVars
  PROVE  [Next]_vars
<1>1. ASSUME NEW c \in Calls, IAcquireFast(c) \/ IAcquireQueued(c) PROVE Next
  BY <1>1 DEF IAcquireFast, IAcquireQueued, Next, Acquire
<1>2. ASSUME NEW c \in Calls, IMissing(c) PROVE Missing(c)
  BY <1>2 DEF IMissing, ISlot, Missing
<1>3. ASSUME NEW c \in Calls, IObtain(c) PROVE Next
  <2>1. Turn(c)
    BY <1>3, RunsAtHead DEF IObtain
  <2>2. ObtainLive(c) \/ ObtainMissing(c)
    BY <1>2, <1>3, <2>1 DEF IObtain, ObtainLive, ObtainMissing
  <2> QED
    BY <2>2 DEF Next, Obtain
<1>4. ASSUME NEW c \in Calls, IReplace(c) PROVE Next
  <2>1. Replace(c)
    BY <1>2, <1>4 DEF IReplace, Replace
  <2> QED
    BY <2>1 DEF Next
<1>5. ASSUME NEW c \in Calls, IRetry(c) PROVE Next
  BY <1>5 DEF IRetry, Next
<1>6. ASSUME NEW c \in Calls, IValidateStale(c) \/ IFactoryResolves(c) PROVE Next
  BY <1>6 DEF IValidateStale, IFactoryResolves, Next, Validated, Created
<1>7. ASSUME NEW c \in Calls, ISettle(c) \/ ISettleFailed(c) PROVE Next
  BY <1>7 DEF ISettle, ISettleFailed, Next, Settled
<1>8. ASSUME NEW c \in Calls, IRelease(c) \/ IReleaseKey(c) PROVE Next
  BY <1>8 DEF IRelease, IReleaseKey, Next, Released
<1>9. ASSUME NEW c \in Calls, Elsewhere(c) PROVE Next
  BY <1>9 DEF Elsewhere, Next, Validated, Created
<1>10. ASSUME NEW d \in Drains, IDrain(d) \/ (DrainDone(d) /\ SameLinks /\ SameMutex)
       PROVE  Next
  BY <1>10 DEF IDrain, Next
<1>11. ASSUME NEW n \in DOMAIN idle, ISweep(n) PROVE Next
  BY <1>11 DEF ISweep, Next
<1>12. ASSUME Start /\ SameLinks /\ SameMutex PROVE Next
  BY <1>12 DEF Next
<1>13. ASSUME IGc \/ UNCHANGED allVars PROVE UNCHANGED vars
  BY <1>13 DEF IGc, allVars
<1> QED
  BY <1>1, <1>3, <1>4, <1>5, <1>6, <1>7, <1>8, <1>9, <1>10, <1>11, <1>12, <1>13
     DEF InternalNext

LEMMA InternalStep ==
  Base /\ MutexInv /\ [InternalNext]_allVars => Base' /\ MutexInv' /\ [Next]_vars
<1> SUFFICES ASSUME Base, MutexInv, [InternalNext]_allVars
             PROVE  Base' /\ MutexInv' /\ [Next]_vars
  OBVIOUS
<1>1. [Next]_vars
  BY OuterStep
<1>2. Base'
  BY <1>1, BaseStep
<1>3. CASE InternalNext
  BY <1>1, <1>2, <1>3, InternalMutexStep
<1>4. CASE UNCHANGED allVars
  <2>1. UNCHANGED queue /\ SameMutex
    BY <1>4 DEF allVars, vars, callVars, internals, SameMutex
  <2>2. MutexInv'
    BY <2>1, BaseQueues, IdleKeeps
  <2> QED
    BY <1>1, <1>2, <2>2
<1> QED
  BY <1>3, <1>4

(* With the promises chained in cells that runExclusive() makes and drops  *)
(* and gcKeyState() collects, and with the linked idle list, the pool is   *)
(* still the one of RefPool: acquire() calls of a key run in the order in  *)
(* which they arrived, one at a time, so that every safety theorem about   *)
(* RefPool is one about these structures too.                              *)
THEOREM PoolRefined == InternalSpec => Spec
<1>1. InternalInit => Init /\ Base /\ MutexInv
  BY BaseInit, MutexStart DEF InternalInit
<1> QED
  BY <1>1, InternalStep, PTL DEF InternalSpec, Spec

(* What callers may count on is then kept by the pool as it is built:      *)
(* ResourceBroker's whole promise, unless it is reopened after a drain.    *)
COROLLARY InternalsKeepThePromise ==
  ASSUME Drains = {} \/ ~MayReopen
  PROVE  InternalSpec => KeepsBrokerPromise
BY PoolRefined, PoolIsABroker, PTL

(* runExclusive() "can't lose ordering" and "keeps the mutex map bounded": *)
(* however calls of a key arrive, end and overlap with the collection of   *)
(* unused cells, the key has a cell exactly while calls are queued on it,  *)
(* its count is theirs and each waits for the one before it.               *)
THEOREM MutexTrue == InternalSpec => []MutexRepresentsQueue
<1>1. InternalInit => Base /\ MutexInv
  BY BaseInit, MutexStart DEF InternalInit
<1>2. MutexInv => MutexRepresentsQueue
  BY DEF MutexInv
<1> QED
  BY <1>1, <1>2, InternalStep, PTL DEF InternalSpec
-----------------------------------------------------------------------------
(* The linked list.                                                        *)

LinkTypes(L) ==
  L \in [head : Entry, tail : Entry, count : Int, inIdle : SUBSET Calls,
         prev : [Calls -> Entry], next : [Calls -> Entry]]

(* Represents, with the ends of the list apart.                            *)
Linked(L, s) ==
  /\ L.head = IF Len(s) = 0 THEN NoEntry ELSE s[1]
  /\ L.tail = IF Len(s) = 0 THEN NoEntry ELSE s[Len(s)]
  /\ L.count = Len(s)
  /\ \A i \in 1..Len(s) :
       /\ s[i] \in L.inIdle
       /\ L.prev[s[i]] = IF i = 1 THEN NoEntry ELSE s[i - 1]
       /\ L.next[s[i]] = IF i = Len(s) THEN NoEntry ELSE s[i + 1]

LEMMA ListItems ==
  ASSUME NEW s \in Seq(Calls)
  PROVE  /\ Len(s) \in Nat /\ DOMAIN s = 1..Len(s)
         /\ \A i \in 1..Len(s) : s[i] \in Calls /\ s[i] # NoEntry
         /\ Elements(s) = {s[i] : i \in 1..Len(s)}
<1>1. Len(s) \in Nat /\ DOMAIN s = 1..Len(s)
  BY LenProperties
<1>2. \A i \in 1..Len(s) : s[i] \in Calls
  BY <1>1, ElementOfSeq
<1> QED
  BY <1>1, <1>2, CallsAssumption DEF Elements

LEMMA RepresentsLinked ==
  ASSUME NEW L, NEW s \in Seq(Calls)
  PROVE  List!Represents(L, s) <=> Linked(L, s)
<1> DEFINE at(i) == IF i \in DOMAIN s THEN s[i] ELSE NoEntry
<1>1. PICK N \in Nat : N = Len(s)
  BY ListItems
<1>2. DOMAIN s = 1..N
  BY <1>1, ListItems
<1>3. /\ at(1) = IF N = 0 THEN NoEntry ELSE s[1]
      /\ at(N) = IF N = 0 THEN NoEntry ELSE s[N]
      /\ \A i \in 1..N : /\ at(i - 1) = IF i = 1 THEN NoEntry ELSE s[i - 1]
                         /\ at(i + 1) = IF i = N THEN NoEntry ELSE s[i + 1]
  BY <1>2
<1>4. Elements(s) \subseteq L.inIdle <=> \A i \in 1..N : s[i] \in L.inIdle
  BY <1>2 DEF Elements
<1>5a. List!Represents(L, s) <=>
         /\ L.head = at(1) /\ L.tail = at(Len(s)) /\ L.count = Len(s)
         /\ Elements(s) \subseteq L.inIdle
         /\ \A i \in DOMAIN s : L.prev[s[i]] = at(i - 1) /\ L.next[s[i]] = at(i + 1)
  BY DEF List!Represents, List!Elements, Elements
<1> HIDE DEF at
<1>5. List!Represents(L, s) <=>
        /\ L.head = at(1) /\ L.tail = at(N) /\ L.count = N
        /\ Elements(s) \subseteq L.inIdle
        /\ \A i \in 1..N : L.prev[s[i]] = at(i - 1) /\ L.next[s[i]] = at(i + 1)
  BY <1>1, <1>2, <1>5a, Zenon
<1>6. (\A i \in 1..N : L.prev[s[i]] = at(i - 1) /\ L.next[s[i]] = at(i + 1))
        <=> \A i \in 1..N : /\ L.prev[s[i]] = IF i = 1 THEN NoEntry ELSE s[i - 1]
                            /\ L.next[s[i]] = IF i = N THEN NoEntry ELSE s[i + 1]
  BY <1>3, Zenon
<1>7. Linked(L, s) <=>
        /\ L.head = at(1) /\ L.tail = at(N) /\ L.count = N
        /\ \A i \in 1..N : s[i] \in L.inIdle
        /\ \A i \in 1..N : /\ L.prev[s[i]] = IF i = 1 THEN NoEntry ELSE s[i - 1]
                           /\ L.next[s[i]] = IF i = N THEN NoEntry ELSE s[i + 1]
  BY <1>1, <1>3, Zenon DEF Linked
<1> QED
  BY <1>4, <1>5, <1>6, <1>7

(* idleAppend() is Append.                                                 *)
LEMMA AppendLinks ==
  ASSUME NEW L, LinkTypes(L), NEW q \in Seq(Calls), List!Represents(L, q),
         NEW n \in Calls, n \notin Elements(q), List!Unlinked(L, n)
  PROVE  LET M == List!idleAppend(L, n)
         IN  /\ LinkTypes(M)
             /\ List!Represents(M, Append(q, n))
             /\ \A e \in Calls \ {n} : List!Unlinked(L, e) => List!Unlinked(M, e)
<1>1. PICK M : M = List!idleAppend(L, n)
  OBVIOUS
<1>2. /\ L.head \in Entry /\ L.tail \in Entry /\ L.count \in Int /\ L.inIdle \subseteq Calls
      /\ L.prev \in [Calls -> Entry] /\ L.next \in [Calls -> Entry]
      /\ n \notin L.inIdle /\ n # NoEntry
  BY CallsAssumption DEF LinkTypes, List!Unlinked
<1>3. M = [head   |-> IF L.tail = NoEntry THEN n ELSE L.head,
           tail   |-> n,
           count  |-> L.count + 1,
           inIdle |-> L.inIdle \union {n},
           prev   |-> [L.prev EXCEPT ![n] = L.tail],
           next   |-> [m \in Calls |-> CASE m = L.tail -> n
                                         [] m # L.tail /\ m = n -> NoEntry
                                         [] OTHER -> L.next[m]]]
  BY <1>1, <1>2 DEF List!idleAppend
<1>4. /\ M.head = IF L.tail = NoEntry THEN n ELSE L.head
      /\ M.tail = n /\ M.count = L.count + 1 /\ M.inIdle = L.inIdle \union {n}
      /\ M.prev[n] = L.tail
      /\ \A e \in Calls \ {n} : M.prev[e] = L.prev[e]
      /\ \A e \in Calls : M.next[e] = IF e = L.tail THEN n
                                      ELSE IF e = n THEN NoEntry ELSE L.next[e]
  BY <1>2, <1>3
<1>5. LinkTypes(M)
  <2>1. M.prev \in [Calls -> Entry]
    BY <1>2, <1>3
  <2>2. M.next \in [Calls -> Entry]
    BY <1>2, <1>3 DEF Entry
  <2>3. M.head \in Entry /\ M.tail \in Entry /\ M.count \in Int /\ M.inIdle \subseteq Calls
    BY <1>2, <1>4 DEF Entry
  <2> QED
    BY <1>3, <2>1, <2>2, <2>3 DEF LinkTypes
<1>6. PICK N \in Nat : N = Len(q)
  BY ListItems
<1>7. /\ L.head = IF N = 0 THEN NoEntry ELSE q[1]
      /\ L.tail = IF N = 0 THEN NoEntry ELSE q[N]
      /\ L.count = N
      /\ \A i \in 1..N :
           /\ q[i] \in L.inIdle
           /\ L.prev[q[i]] = IF i = 1 THEN NoEntry ELSE q[i - 1]
           /\ L.next[q[i]] = IF i = N THEN NoEntry ELSE q[i + 1]
      /\ \A i \in 1..N : q[i] \in Calls /\ q[i] # n /\ q[i] # NoEntry
  BY <1>6, ListItems, RepresentsLinked DEF Linked
<1>8. PICK r \in Seq(Calls) : r = Append(q, n)
  BY AppendProperties
<1>9. /\ Len(r) = N + 1 /\ r[N + 1] = n /\ \A i \in 1..N : r[i] = q[i]
  BY <1>6, <1>8, AppendProperties
<1>10. L.tail # n /\ (L.tail # NoEntry => L.tail \in L.inIdle)
  BY <1>2, <1>7
<1>11. ASSUME NEW e \in Calls \ {n}, List!Unlinked(L, e) PROVE List!Unlinked(M, e)
  BY <1>4, <1>10, <1>11, CallsAssumption DEF List!Unlinked
<1>12. \A i, j \in 1..N : q[i] = q[N] => i = N
  <2> SUFFICES ASSUME NEW i \in 1..N, q[i] = q[N], i # N PROVE FALSE
    OBVIOUS
  <2>1. L.next[q[i]] = q[i + 1] /\ L.next[q[N]] = NoEntry /\ i + 1 \in 1..N /\ N \in 1..N
    BY <1>7
  <2> QED
    BY <1>7, <2>1
<1>13. Linked(M, r)
  <2>1. ASSUME NEW i \in 1..(N + 1)
        PROVE  /\ r[i] \in M.inIdle
               /\ M.prev[r[i]] = IF i = 1 THEN NoEntry ELSE r[i - 1]
               /\ M.next[r[i]] = IF i = N + 1 THEN NoEntry ELSE r[i + 1]
    <3>1. CASE i = N + 1
      BY <1>4, <1>7, <1>9, <1>10, <3>1
    <3>2. CASE i = N
      BY <1>4, <1>7, <1>9, <3>2
    <3>3. CASE i # N /\ i # N + 1
      <4>1. i \in 1..N /\ i + 1 \in 1..N /\ (i # 1 => i - 1 \in 1..N)
        BY <3>3
      <4>2. q[i] # L.tail
        BY <1>7, <1>12, <3>3, <4>1
      <4>3. /\ q[i] \in Calls \ {n} /\ q[i] \in L.inIdle
            /\ L.prev[q[i]] = IF i = 1 THEN NoEntry ELSE q[i - 1]
            /\ L.next[q[i]] = q[i + 1]
        BY <1>7, <3>3, <4>1
      <4>4. /\ M.prev[q[i]] = L.prev[q[i]] /\ M.next[q[i]] = L.next[q[i]]
            /\ q[i] \in M.inIdle
        BY <1>4, <4>2, <4>3
      <4>5. r[i] = q[i] /\ r[i + 1] = q[i + 1] /\ (i # 1 => r[i - 1] = q[i - 1])
        BY <1>9, <4>1
      <4> QED
        BY <3>3, <4>3, <4>4, <4>5
    <3> QED
      BY <3>1, <3>2, <3>3
  <2>2. /\ M.head = r[1] /\ M.tail = r[N + 1] /\ M.count = N + 1
    BY <1>4, <1>7, <1>9
  <2> QED
    BY <1>9, <2>1, <2>2 DEF Linked
<1> QED
  BY <1>1, <1>5, <1>8, <1>11, <1>13, RepresentsLinked

(* idleRemove() is Without, wherever in the list its entry stands.         *)
LEMMA RemoveLinks ==
  ASSUME NEW L, LinkTypes(L), NEW q \in Seq(Calls), Distinct(q), List!Represents(L, q),
         NEW n \in Calls, n \in Elements(q) \/ n \notin L.inIdle
  PROVE  LET M == List!idleRemove(L, n)
         IN  /\ LinkTypes(M)
             /\ List!Represents(M, Without(q, {n}))
             /\ M.inIdle \subseteq L.inIdle
             /\ \A e \in Calls : List!Unlinked(L, e) \/ (e = n /\ n \in Elements(q))
                                 => List!Unlinked(M, e)
<1>1. PICK N \in Nat : N = Len(q)
  BY ListItems
<1>2. /\ L.head = IF N = 0 THEN NoEntry ELSE q[1]
      /\ L.tail = IF N = 0 THEN NoEntry ELSE q[N]
      /\ L.count = N
      /\ \A i \in 1..N :
           /\ q[i] \in L.inIdle
           /\ L.prev[q[i]] = IF i = 1 THEN NoEntry ELSE q[i - 1]
           /\ L.next[q[i]] = IF i = N THEN NoEntry ELSE q[i + 1]
  BY <1>1, RepresentsLinked DEF Linked
<1>2i. /\ \A i \in 1..N : q[i] \in Calls /\ q[i] # NoEntry
       /\ \A i, j \in 1..N : q[i] = q[j] => i = j
  BY <1>1, ListItems, Zenon DEF Distinct
<1>3. PICK M : M = List!idleRemove(L, n)
  OBVIOUS
<1>4. CASE n \notin L.inIdle
  <2>1. M = L
    BY <1>3, <1>4 DEF List!idleRemove
  <2>2. n \notin Elements(q)
    BY <1>1, <1>2, <1>2i, <1>4, ListItems
  <2>3. Without(q, {n}) = q
    BY <2>2, WithoutNone
  <2> QED
    BY <1>3, <2>1, <2>2, <2>3
<1>5. CASE n \in Elements(q)
  <2>1. PICK k \in 1..N : q[k] = n
    BY <1>1, <1>5, ListItems
  <2>2. PICK p, s : p = L.prev[n] /\ s = L.next[n]
    OBVIOUS
  <2>3. /\ p = IF k = 1 THEN NoEntry ELSE q[k - 1]
        /\ s = IF k = N THEN NoEntry ELSE q[k + 1]
        /\ n \in L.inIdle /\ p \in Entry /\ s \in Entry
    <3>1. n \in L.inIdle /\ p = (IF k = 1 THEN NoEntry ELSE q[k - 1])
                         /\ s = (IF k = N THEN NoEntry ELSE q[k + 1])
      BY <1>2, <2>1, <2>2
    <3>2. (k # 1 => k - 1 \in 1..N) /\ (k # N => k + 1 \in 1..N)
      BY <2>1
    <3> QED
      BY <1>2i, <3>1, <3>2 DEF Entry
  <2>4. M = [head   |-> IF p = NoEntry THEN s ELSE L.head,
             tail   |-> IF s = NoEntry THEN p ELSE L.tail,
             count  |-> L.count - 1,
             inIdle |-> L.inIdle \ {n},
             prev   |-> [m \in Calls |-> CASE m = n -> NoEntry
                                           [] m = s /\ m # n -> p
                                           [] OTHER -> L.prev[m]],
             next   |-> [m \in Calls |-> CASE m = n -> NoEntry
                                           [] m = p /\ m # n -> s
                                           [] OTHER -> L.next[m]]]
    BY <1>3, <2>2, <2>3 DEF List!idleRemove
  <2>5. /\ M.head = IF p = NoEntry THEN s ELSE L.head
        /\ M.tail = IF s = NoEntry THEN p ELSE L.tail
        /\ M.count = N - 1 /\ M.inIdle = L.inIdle \ {n}
        /\ \A e \in Calls : /\ M.prev[e] = IF e = n THEN NoEntry
                                           ELSE IF e = s THEN p ELSE L.prev[e]
                            /\ M.next[e] = IF e = n THEN NoEntry
                                           ELSE IF e = p THEN s ELSE L.next[e]
    BY <1>2, <1>2i, <2>4
  <2>6. LinkTypes(M)
    <3>1. /\ L.head \in Entry /\ L.tail \in Entry /\ L.inIdle \subseteq Calls
          /\ L.prev \in [Calls -> Entry] /\ L.next \in [Calls -> Entry]
          /\ NoEntry \in Entry
      BY DEF LinkTypes, Entry
    <3>2. M.prev \in [Calls -> Entry] /\ M.next \in [Calls -> Entry]
      BY <2>3, <2>4, <3>1
    <3>3. M.head \in Entry /\ M.tail \in Entry /\ M.count \in Int /\ M.inIdle \subseteq Calls
      BY <2>3, <2>5, <3>1
    <3> QED
      BY <2>4, <3>2, <3>3 DEF LinkTypes
  <2>7. ASSUME NEW e \in Calls, List!Unlinked(L, e) \/ e = n PROVE List!Unlinked(M, e)
    <3>1. CASE e = n
      BY <2>5, <3>1 DEF List!Unlinked
    <3>2. CASE e # n
      <4>1. e \notin L.inIdle /\ L.prev[e] = NoEntry /\ L.next[e] = NoEntry
        BY <2>7, <3>2 DEF List!Unlinked
      <4>2. e # p /\ e # s
        BY <1>2, <1>2i, <2>1, <2>3, <4>1, CallsAssumption
      <4> QED
        BY <2>5, <3>2, <4>1, <4>2 DEF List!Unlinked
    <3> QED
      BY <3>1, <3>2
  <2>8. PICK r \in Seq(Calls) : r = Without(q, {n})
    BY WithoutProperties
  <2>9. Len(r) = N - 1 /\ \A i \in 1..(N - 1) : r[i] = IF i < k THEN q[i] ELSE q[i + 1]
    <3>1. r = [i \in 1..(N - 1) |-> IF i < k THEN q[i] ELSE q[i + 1]]
      <4>1. k \in DOMAIN q
        BY <1>1, <2>1, ListItems
      <4>2. Without(q, {q[k]}) = [i \in 1..(Len(q) - 1) |-> IF i < k THEN q[i] ELSE q[i + 1]]
        BY <4>1, WithoutOne
      <4> QED
        BY <1>1, <2>1, <2>8, <4>2
    <3>2. DOMAIN r = 1..(N - 1) /\ N - 1 \in Nat /\ DOMAIN r = 1..Len(r) /\ Len(r) \in Nat
      BY <2>1, <3>1, ListItems
    <3>3. Len(r) = N - 1
      BY <3>2
    <3> QED
      BY <3>1, <3>3
  <2>10. ASSUME NEW i \in 1..(N - 1)
         PROVE  /\ r[i] \in M.inIdle
                /\ M.prev[r[i]] = IF i = 1 THEN NoEntry ELSE r[i - 1]
                /\ M.next[r[i]] = IF i = N - 1 THEN NoEntry ELSE r[i + 1]
    <3>1. CASE i < k
      <4>1. /\ r[i] = q[i] /\ i \in 1..N /\ i # k /\ (i # 1 => r[i - 1] = q[i - 1])
            /\ (i # 1 => i - 1 \in 1..N /\ i - 1 # k)
        BY <2>9, <3>1
      <4>2. q[i] # n /\ q[i] \in Calls /\ q[i] \in L.inIdle /\ q[i] # s
        BY <1>2, <1>2i, <2>1, <2>3, <3>1, <4>1
      <4>3. M.prev[r[i]] = IF i = 1 THEN NoEntry ELSE r[i - 1]
        BY <1>2, <1>2i, <2>5, <4>1, <4>2
      <4>4. CASE i = k - 1
        <5>1. p = q[i] /\ M.next[r[i]] = s
          BY <2>3, <2>5, <4>1, <4>2, <4>4
        <5>2. s = IF i = N - 1 THEN NoEntry ELSE r[i + 1]
          BY <2>3, <2>9, <4>4
        <5> QED
          BY <2>5, <4>1, <4>2, <4>3, <5>1, <5>2
      <4>5. CASE i # k - 1
        <5>1. i + 1 \in 1..(N - 1) /\ i + 1 < k /\ r[i + 1] = q[i + 1] /\ i # N /\ i # N - 1
          BY <2>9, <3>1, <4>5
        <5>2. q[i] # p
          <6>1. k # 1 => k - 1 \in 1..N /\ k - 1 # i
            BY <2>1, <4>5
          <6> QED
            BY <1>2i, <2>3, <4>1, <6>1
        <5>3. M.next[r[i]] = q[i + 1]
          <6>1. L.next[q[i]] = q[i + 1]
            BY <1>2, <4>1, <5>1
          <6> QED
            BY <2>5, <4>1, <4>2, <5>2, <6>1
        <5> QED
          BY <2>5, <4>1, <4>2, <4>3, <5>1, <5>3
      <4> QED
        BY <4>4, <4>5
    <3>2. CASE i >= k
      <4>1. /\ r[i] = q[i + 1] /\ i + 1 \in 1..N /\ i + 1 # k
            /\ (i # N - 1 => r[i + 1] = q[(i + 1) + 1])
        <5>1. ~(i < k) /\ i + 1 \in 1..N /\ i + 1 # k
          BY <2>1, <3>2
        <5>2. i # N - 1 => i + 1 \in 1..(N - 1) /\ ~(i + 1 < k)
          BY <2>1, <3>2
        <5> QED
          BY <2>9, <5>1, <5>2
      <4>2. q[i + 1] # n /\ q[i + 1] \in Calls /\ q[i + 1] \in L.inIdle /\ q[i + 1] # p
        <5>1. k # 1 => k - 1 \in 1..N /\ k - 1 # i + 1
          BY <2>1, <3>2
        <5>2. q[i + 1] # p
          BY <1>2i, <2>3, <4>1, <5>1
        <5> QED
          BY <1>2, <1>2i, <2>1, <4>1, <5>2
      <4>3. M.next[r[i]] = IF i = N - 1 THEN NoEntry ELSE r[i + 1]
        <5>1. L.next[q[i + 1]] = IF i = N - 1 THEN NoEntry ELSE q[(i + 1) + 1]
          <6>1. i + 1 = N <=> i = N - 1
            OBVIOUS
          <6> QED
            BY <1>2, <4>1, <6>1
        <5> QED
          BY <2>5, <4>1, <4>2, <5>1
      <4>4. CASE i = k
        <5>1. s = q[i + 1] /\ M.prev[r[i]] = p
          BY <2>3, <2>5, <4>1, <4>2, <4>4
        <5>2. p = IF i = 1 THEN NoEntry ELSE r[i - 1]
          BY <2>3, <2>9, <4>4
        <5> QED
          BY <2>5, <4>1, <4>2, <4>3, <5>1, <5>2
      <4>5. CASE i # k
        <5>1. i - 1 \in 1..(N - 1) /\ i - 1 >= k /\ r[i - 1] = q[i] /\ i # 1 /\ (i + 1) - 1 = i
          BY <2>9, <3>2, <4>5
        <5>2. q[i + 1] # s
          BY <1>2, <1>2i, <2>1, <2>3, <4>1, <4>2, <4>5
        <5>3. M.prev[r[i]] = q[i]
          <6>1. L.prev[q[i + 1]] = q[(i + 1) - 1]
            <7>1. i + 1 # 1
              BY <5>1
            <7> QED
              BY <1>2, <4>1, <7>1
          <6> QED
            BY <2>5, <4>1, <4>2, <5>1, <5>2, <6>1
        <5> QED
          BY <2>5, <4>1, <4>2, <4>3, <5>1, <5>3
      <4> QED
        BY <4>4, <4>5
    <3> QED
      BY <3>1, <3>2
  <2>11. /\ M.head = IF N - 1 = 0 THEN NoEntry ELSE r[1]
         /\ M.tail = IF N - 1 = 0 THEN NoEntry ELSE r[N - 1]
    <3>1. CASE N = 1
      BY <1>2, <1>2i, <2>3, <2>5, <3>1
    <3>2. CASE N # 1
      <4>1. 1 \in 1..(N - 1) /\ N - 1 \in 1..(N - 1)
        BY <2>1, <3>2
      <4>2. r[1] = IF 1 < k THEN q[1] ELSE q[2]
        BY <2>9, <4>1
      <4>3. r[N - 1] = IF N - 1 < k THEN q[N - 1] ELSE q[N]
        BY <2>9, <4>1
      <4>4. M.head = r[1]
        BY <1>2, <1>2i, <2>3, <2>5, <3>2, <4>2
      <4>5. M.tail = r[N - 1]
        BY <1>2, <1>2i, <2>3, <2>5, <3>2, <4>3
      <4> QED
        BY <3>2, <4>4, <4>5
    <3> QED
      BY <3>1, <3>2
  <2>12. Linked(M, r)
    <3>1. M.count = Len(r)
      BY <2>5, <2>9
    <3> QED
      BY <2>9, <2>10, <2>11, <3>1 DEF Linked
  <2> QED
    BY <1>3, <2>5, <2>6, <2>7, <2>8, <2>12, RepresentsLinked
<1> QED
  BY <1>4, <1>5

(* takeLruIdle() and sweep() walk over the entries of the list, in order.  *)
LEMMA WalkIs ==
  ASSUME NEW L, NEW s \in Seq(Calls), List!Represents(L, s)
  PROVE  List!Walk(L) = s
<1> DEFINE step(g) == [i \in Nat |-> IF i = 0 THEN L.head
                                     ELSE IF g[i - 1] = NoEntry THEN NoEntry ELSE L.next[g[i - 1]]]
           walk == CHOOSE g : g = step(g)
<1>1. PICK N \in Nat : N = Len(s)
  BY ListItems
<1>2. /\ L.head = IF N = 0 THEN NoEntry ELSE s[1]
      /\ L.count = N
      /\ \A i \in 1..N : L.next[s[i]] = IF i = N THEN NoEntry ELSE s[i + 1]
      /\ \A i \in 1..N : s[i] # NoEntry
  BY <1>1, ListItems, RepresentsLinked DEF Linked
<1>3. \E g : g = step(g)
  <2> DEFINE w == [i \in Nat |-> IF i < N THEN s[i + 1] ELSE NoEntry]
  <2>1. ASSUME NEW i \in Nat
        PROVE  w[i] = IF i = 0 THEN L.head
                      ELSE IF w[i - 1] = NoEntry THEN NoEntry ELSE L.next[w[i - 1]]
    <3>1. CASE i = 0
      BY <1>2, <3>1
    <3>2. CASE i \in 1..N
      <4>1. w[i - 1] = s[i]
        BY <3>2
      <4>2. L.next[s[i]] = w[i]
        BY <1>2, <3>2
      <4> QED
        BY <1>2, <3>2, <4>1, <4>2
    <3>3. CASE i > N
      <4>1. w[i] = NoEntry /\ w[i - 1] = NoEntry
        BY <3>3
      <4> QED
        BY <3>3, <4>1
    <3> QED
      BY <3>1, <3>2, <3>3
  <2>2. w = step(w)
    BY <2>1
  <2> QED
    BY <2>2
<1>4. walk = step(walk)
  BY <1>3
<1> HIDE DEF walk
<1>5. \A i \in Nat : walk[i] = IF i = 0 THEN L.head
                               ELSE IF walk[i - 1] = NoEntry THEN NoEntry ELSE L.next[walk[i - 1]]
  BY <1>4
<1>6. \A i \in 0..(N - 1) : walk[i] = s[i + 1]
  <2> DEFINE off == {i \in 0..(N - 1) : walk[i] # s[i + 1]}
  <2> SUFFICES ASSUME off # {} PROVE FALSE
    OBVIOUS
  <2>1. off \in SUBSET Int /\ IsFiniteSet(off)
    <3>1. IsFiniteSet(0..(N - 1)) /\ off \subseteq 0..(N - 1)
      BY FS_Interval
    <3> QED
      BY <1>1, <3>1, FS_Subset
  <2>2. PICK i \in off : \A j \in off : i <= j
    BY <2>1, Least
  <2>3. i # 0
    BY <1>2, <1>5, <2>2
  <2>4. i - 1 \in 0..(N - 1) /\ i - 1 \notin off /\ i \in 1..N /\ i # N
    BY <2>2, <2>3
  <2>5. walk[i - 1] = s[i]
    BY <2>4
  <2>6. walk[i] = IF walk[i - 1] = NoEntry THEN NoEntry ELSE L.next[walk[i - 1]]
    BY <1>5, <2>2, <2>3
  <2>7. walk[i] = L.next[s[i]] /\ L.next[s[i]] = s[i + 1]
    BY <1>2, <2>4, <2>5, <2>6
  <2> QED
    BY <2>2, <2>7
<1>7. List!Walk(L) = [i \in 1..L.count |-> walk[i - 1]]
  BY DEF List!Walk, walk
<1>8. \A i \in 1..N : walk[i - 1] = s[i]
  <2> SUFFICES ASSUME NEW i \in 1..N PROVE walk[i - 1] = s[i]
    OBVIOUS
  <2>1. i - 1 \in 0..(N - 1) /\ (i - 1) + 1 = i
    OBVIOUS
  <2> QED
    BY <1>6, <2>1
<1>9. s = [i \in 1..N |-> s[i]]
  BY <1>1, ListItems
<1> QED
  BY <1>2, <1>7, <1>8, <1>9

(* The entries that a sweep or a drain takes out, one after the other.     *)
LEMMA RemoveAllLinks ==
  ASSUME NEW L, LinkTypes(L), NEW q \in Seq(Calls), Distinct(q), List!Represents(L, q),
         NEW r \in Seq(Calls), \A e \in Elements(r) : e \in Elements(q) \/ e \notin L.inIdle
  PROVE  LET M == List!removeAll(L, r)
         IN  /\ LinkTypes(M)
             /\ List!Represents(M, Without(q, Elements(r)))
             /\ \A e \in Calls : List!Unlinked(L, e) \/ (e \in Elements(r) /\ e \in Elements(q))
                                 => List!Unlinked(M, e)
<1> DEFINE step(n, g) == [i \in 0..n |-> IF i = 0 THEN L ELSE List!idleRemove(g[i - 1], r[i])]
           N == Len(r)
           all == CHOOSE g : g = step(N, g)
           first(i) == {r[j] : j \in 1..i}
           Good(M, i) == /\ LinkTypes(M)
                         /\ List!Represents(M, Without(q, first(i)))
                         /\ M.inIdle \subseteq L.inIdle
                         /\ \A e \in Calls : List!Unlinked(L, e) \/ (e \in first(i) /\ e \in Elements(q))
                                             => List!Unlinked(M, e)
<1>1. N \in Nat /\ Elements(r) = first(N) /\ \A i \in 1..N : r[i] \in Calls
  BY ListItems
<1> HIDE DEF N
<1>2. \E g : g = step(N, g)
  <2> DEFINE none == {n \in 0..N : ~\E g : g = step(n, g)}
  <2> SUFFICES ASSUME none # {} PROVE FALSE
    <3>1. N \in 0..N
      BY <1>1
    <3> QED
      BY <3>1, Zenon
  <2>1. none \in SUBSET Int /\ IsFiniteSet(none)
    <3>1. IsFiniteSet(0..N) /\ none \subseteq 0..N
      BY <1>1, FS_Interval
    <3> HIDE DEF none
    <3>2. IsFiniteSet(none)
      BY <3>1, FS_Subset
    <3> QED
      BY <1>1, <3>1, <3>2
  <2>2. PICK n \in none : \A m \in none : n <= m
    BY <2>1, Least
  <2>3. n \in 0..N /\ ~\E g : g = step(n, g)
    BY <2>2, Zenon
  <2>4. CASE n = 0
    <3> DEFINE h == [i \in 0..0 |-> L]
    <3>1. h = step(0, h)
      OBVIOUS
    <3> QED
      BY <2>3, <2>4, <3>1
  <2>5. CASE n # 0
    <3>1. n - 1 \in 0..N /\ ~(n <= n - 1)
      BY <1>1, <2>3, <2>5
    <3>2. PICK g : g = step(n - 1, g)
      BY <2>2, <3>1, Zenon
    <3> DEFINE h == [i \in 0..n |-> IF i = n THEN List!idleRemove(g[n - 1], r[n]) ELSE g[i]]
    <3>3. ASSUME NEW i \in 0..n
          PROVE  h[i] = IF i = 0 THEN L ELSE List!idleRemove(h[i - 1], r[i])
      <4>1. CASE i = n
        BY <2>3, <2>5, <4>1
      <4>2. CASE i # n
        <5>1. i \in 0..(n - 1) /\ (i # 0 => i - 1 \in 0..(n - 1) /\ i - 1 # n)
          BY <2>3, <4>2
        <5>2. g[i] = IF i = 0 THEN L ELSE List!idleRemove(g[i - 1], r[i])
          BY <3>2, <5>1
        <5> QED
          BY <2>3, <4>2, <5>1, <5>2
      <4> QED
        BY <4>1, <4>2
    <3>4. h = step(n, h)
      BY <3>3
    <3> QED
      BY <2>3, <3>4
  <2> QED
    BY <2>4, <2>5
<1>3. all = step(N, all)
  BY <1>2
<1>4. List!removeAll(L, r) = all[N]
  BY DEF List!removeAll, N
<1> HIDE DEF all
<1>5. \A i \in 0..N : all[i] = IF i = 0 THEN L ELSE List!idleRemove(all[i - 1], r[i])
  BY <1>3
<1>6. Good(L, 0)
  <2>1. first(0) = {}
    OBVIOUS
  <2>2. Without(q, {}) = q
    BY WithoutNone
  <2> QED
    BY <2>1, <2>2
<1>7. ASSUME NEW i \in 1..N, NEW M, Good(M, i - 1)
      PROVE  Good(List!idleRemove(M, r[i]), i)
  <2>1. PICK w \in Seq(Calls) : w = Without(q, first(i - 1))
    BY WithoutProperties
  <2>2. Distinct(w) /\ Elements(w) = Elements(q) \ first(i - 1)
    BY <2>1, WithoutProperties
  <2>3. first(i) = first(i - 1) \union {r[i]}
    OBVIOUS
  <2>4. r[i] \in Calls /\ (r[i] \in Elements(q) \/ r[i] \notin L.inIdle)
    BY <1>1
  <2>5. r[i] \in Elements(w) \/ r[i] \notin M.inIdle
    BY <1>7, <2>2, <2>4 DEF List!Unlinked
  <2>6. PICK M2 : M2 = List!idleRemove(M, r[i])
    OBVIOUS
  <2>7. LinkTypes(M) /\ List!Represents(M, w) /\ M.inIdle \subseteq L.inIdle
    BY <1>7, <2>1
  <2>8. /\ LinkTypes(M2) /\ List!Represents(M2, Without(w, {r[i]})) /\ M2.inIdle \subseteq M.inIdle
        /\ \A e \in Calls : List!Unlinked(M, e) \/ (e = r[i] /\ e \in Elements(w))
                            => List!Unlinked(M2, e)
    BY <2>2, <2>4, <2>5, <2>6, <2>7, RemoveLinks
  <2>9. Without(w, {r[i]}) = Without(q, first(i))
    BY <2>1, <2>3, WithoutTwice
  <2>10. ASSUME NEW e \in Calls, List!Unlinked(L, e) \/ (e \in first(i) /\ e \in Elements(q))
         PROVE  List!Unlinked(M2, e)
    BY <1>7, <2>2, <2>3, <2>8, <2>10
  <2> QED
    BY <2>6, <2>7, <2>8, <2>9, <2>10
<1> HIDE DEF Good
<1>8. \A i \in 0..N : Good(all[i], i)
  <2> DEFINE bad == {i \in 0..N : ~Good(all[i], i)}
  <2> SUFFICES ASSUME bad # {} PROVE FALSE
    OBVIOUS
  <2>1. bad \in SUBSET Int /\ IsFiniteSet(bad)
    <3>1. IsFiniteSet(0..N) /\ bad \subseteq 0..N
      BY <1>1, FS_Interval
    <3> HIDE DEF bad
    <3>2. IsFiniteSet(bad)
      BY <3>1, FS_Subset
    <3> QED
      BY <1>1, <3>1, <3>2
  <2>2. PICK i \in bad : \A j \in bad : i <= j
    BY <2>1, Least
  <2>3. i # 0
    BY <1>1, <1>5, <1>6, <2>2
  <2>4. i \in 1..N /\ i - 1 \in 0..N /\ i - 1 \notin bad
    BY <1>1, <2>2, <2>3
  <2>5. Good(all[i - 1], i - 1)
    BY <2>4
  <2>6. all[i] = List!idleRemove(all[i - 1], r[i])
    BY <1>5, <2>3, <2>4
  <2> QED
    BY <1>7, <2>2, <2>4, <2>5, <2>6
<1>9. Good(List!removeAll(L, r), N)
  BY <1>1, <1>4, <1>8
<1> QED
  BY <1>1, <1>9 DEF Good

-----------------------------------------------------------------------------
(* The list in the pool: what becomes of the resources that are on it, or  *)
(* leave it.                                                               *)

Lookers == {"validating", "got"}
Ending  == {"disposing", "disposed"}

(* Calls look at usable resources first; nothing comes back to life, and   *)
(* only a call that has got a resource adds a reference to one that ends.  *)
Fates ==
  /\ \A x \in Calls : pc'[x] \in Lookers => \/ pc[x] \in Lookers /\ ent'[x] = ent[x]
                                            \/ status'[ent'[x]] = "usable"
  /\ \A e \in Calls : status[e] \in Ending =>
       /\ status'[e] \in Ending
       /\ \/ refCount'[e] <= refCount[e]
          \/ \E c \in Calls : pc[c] = "got" /\ ent[c] = e /\ pc'[c] \notin Lookers

LEMMA CheckoutFates ==
  ASSUME Types, NEW c \in Calls, NEW e \in Calls, checkout(c, e), UNCHANGED status,
         (pc[c] = "got" /\ ent[c] = e) \/ status[e] = "usable"
  PROVE  Fates
<1>1. /\ pc'[c] = "holding" /\ \A x \in Calls \ {c} : pc'[x] = pc[x] /\ ent'[x] = ent[x]
      /\ \A y \in Calls \ {e} : refCount'[y] = refCount[y]
      /\ \A y \in Calls : refCount[y] \in Nat
  BY PointTypes DEF checkout, Move
<1> QED
  BY <1>1 DEF Fates, Lookers, Ending

LEMMA SlotFates ==
  ASSUME Types, ParkedListed, NEW c \in Calls, acquireSlot(c), pc[c] \notin {"parked", "creating"},
         \A x \in Calls \ {c} : ent'[x] = ent[x]
  PROVE  Fates
<1>1. /\ \A x \in Calls \ {c} : pc'[x] = pc[x]
      /\ pc'[c] \in {"creating", "parked", "failed"}
  BY SlotEffect
<1>2. UNCHANGED refCount /\ \A y \in Calls : refCount[y] \in Nat
  BY PointTypes DEF acquireSlot
<1>3. status' = status \/ \E S : status' = Disposing(S)
  BY DEF acquireSlot, Bounded, EvictFor, ParkOrReject
<1> QED
  BY <1>1, <1>2, <1>3 DEF Fates, Lookers, Ending, Disposing

LEMMA MissingFates ==
  ASSUME Base, Tables, NEW c \in Calls, Missing(c), pc[c] \in {"queued", "replacing"}
  PROVE  Fates
<1>t. Types /\ ParkedListed /\ Maps
  BY DEF Base, Tables
<1>1. CASE Resurrect(c)
  <2>1. /\ UNCHANGED <<status, refCount>> /\ \A y \in Calls : refCount[y] \in Nat
        /\ \A x \in Calls \ {c} : pc'[x] = pc[x] /\ ent'[x] = ent[x]
        /\ ent'[c] = orphans[KeyOf[c]]
    BY <1>t, <1>1, PointTypes DEF Resurrect, resVars, Move
  <2>2. status[orphans[KeyOf[c]]] = "usable"
    BY <1>t, <1>1, PointTypes DEF Resurrect, isUsable, Maps
  <2> QED
    BY <2>1, <2>2 DEF Fates
<1>2. CASE Refuse(c)
  BY <1>t, <1>2, PointTypes DEF Refuse, resVars, Move, Fates, Lookers
<1>3. CASE GoForSlot(c)
  BY <1>t, <1>3, SlotFates, PointTypes DEF GoForSlot
<1> QED
  BY <1>1, <1>2, <1>3 DEF Missing

LEMMA ReleaseFates ==
  ASSUME Types, ParkedListed, NEW c \in Calls, pc[c] = "holding", NEW e \in Calls,
         releaseEntry(e, Move(c, "done")), ent' = [ent EXCEPT ![c] = NoEntry]
  PROVE  Fates
<1>1. /\ pc'[c] = "done"
      /\ \A x \in Calls \ {c} : pc'[x] = pc[x] \/ (pc[x] = "parked" /\ pc'[x] = "woken")
  BY ReleaseEffect
<1>2. \A x \in Calls \ {c} : ent'[x] = ent[x]
  BY PointTypes
<1>3. \A y \in Calls : refCount'[y] <= refCount[y]
  <2>1. \A y \in Calls : refCount[y] \in Nat
    BY PointTypes
  <2>2. refCount' = refCount \/ refCount' = [refCount EXCEPT ![e] = @ - 1]
    BY DEF releaseEntry
  <2> QED
    BY <2>1, <2>2, PointTypes
<1>4. status' = status \/ \E S : status' = Disposing(S)
  BY DEF releaseEntry, LastRelease, BackToIdle
<1> QED
  BY <1>1, <1>2, <1>3, <1>4 DEF Fates, Lookers, Ending, Disposing

LEMMA FateStep ==
  ASSUME Base, Tables, [Next]_vars
  PROVE  Fates
<1>t. Types /\ ClaimsReal /\ ParkedListed /\ Claims /\ Maps /\ Listed
  BY DEF Base, Tables
<1>m. \A c \in Calls : \A s : /\ Move(c, s)[c] = s
                              /\ \A x \in Calls \ {c} : Move(c, s)[x] = pc[x]
  BY <1>t DEF Types, Move
<1>q. ASSUME \A x \in Calls : pc'[x] \in Lookers => pc[x] \in Lookers /\ ent'[x] = ent[x],
             UNCHANGED refCount,
             \A e \in Calls : status[e] \in Ending => status'[e] \in Ending
      PROVE  Fates
  <2>1. \A y \in Calls : refCount'[y] = refCount[y] /\ refCount[y] \in Nat
    BY <1>t, <1>q, PointTypes
  <2> QED
    BY <1>q, <2>1 DEF Fates
<1>d. ASSUME NEW S, status' = Disposing(S)
      PROVE  \A e \in Calls : status[e] \in Ending => status'[e] \in Ending
  BY <1>d DEF Disposing, Ending
<1>1. ASSUME NEW c \in Calls, AcquireFast(c) PROVE Fates
  <2>1. entries[KeyOf[c]] \in Calls /\ status[entries[KeyOf[c]]] = "usable"
    BY <1>t, <1>1, PointTypes DEF AcquireFast, Shareable, isUsable, Entry, Maps
  <2> QED
    BY <1>t, <1>1, <2>1, CheckoutFates DEF AcquireFast
<1>2. ASSUME NEW c \in Calls, AcquireQueued(c) \/ ValidateOk(c) \/ ValidateThrows(c)
                              \/ DiscardDone(c) \/ Timeout(c)
      PROVE  Fates
  <2>1. /\ \A x \in Calls : pc'[x] \in Lookers => pc[x] \in Lookers
        /\ UNCHANGED <<ent, status, refCount>>
    BY <1>m, <1>2 DEF AcquireQueued, ValidateOk, ValidateThrows, DiscardDone, Timeout,
                      Lookers, resVars
  <2> QED
    BY <1>q, <2>1
<1>3. ASSUME NEW c \in Calls, SettleFailed(c) PROVE Fates
  BY <1>t, <1>m, <1>q, <1>3, PointTypes DEF SettleFailed, Lookers, resVars
<1>4. ASSUME NEW c \in Calls, ObtainLive(c) PROVE Fates
  <2>1. /\ \A x \in Calls \ {c} : pc'[x] = pc[x] /\ ent'[x] = ent[x]
        /\ ent'[c] = entries[KeyOf[c]] /\ UNCHANGED <<status, refCount>>
        /\ \A y \in Calls : refCount[y] \in Nat
    BY <1>t, <1>m, <1>4, PointTypes DEF ObtainLive, UseLive, resVars
  <2>2. status[entries[KeyOf[c]]] = "usable"
    BY <1>t, <1>4, PointTypes DEF ObtainLive, UseLive, isUsable, Maps
  <2> QED
    BY <2>1, <2>2 DEF Fates
<1>5. ASSUME NEW c \in Calls, ObtainMissing(c) \/ Replace(c) PROVE Fates
  BY <1>5, MissingFates DEF ObtainMissing, Replace, Turn
<1>6. ASSUME NEW c \in Calls, ValidateStale(c) PROVE Fates
  <2>1. /\ pc' = Move(c, "replacing") /\ UNCHANGED <<ent, refCount>>
        /\ status' = Disposing({ent[c]})
    BY <1>6 DEF ValidateStale
  <2>2. \A e \in Calls : status[e] \in Ending => status'[e] \in Ending
    BY <1>d, <2>1
  <2>3. \A x \in Calls : pc'[x] \in Lookers => pc[x] \in Lookers
    BY <1>m, <2>1 DEF Lookers
  <2> QED
    BY <1>q, <2>1, <2>2, <2>3
<1>7. ASSUME NEW c \in Calls, Retry(c) PROVE Fates
  BY <1>t, <1>7, SlotFates DEF Retry
<1>8. ASSUME NEW c \in Calls, FactoryResolves(c), insert(c) PROVE Fates
  <2>1. /\ \A x \in Calls \ {c} : pc'[x] = pc[x] /\ ent'[x] = ent[x]
        /\ ent'[c] = c /\ status'[c] = "usable" /\ UNCHANGED refCount
        /\ \A y \in Calls \ {c} : status'[y] = status[y]
        /\ \A y \in Calls : refCount[y] \in Nat
    BY <1>t, <1>m, <1>8, PointTypes DEF FactoryResolves, insert
  <2>2. status[c] = "absent"
    BY <1>t, <1>8 DEF FactoryResolves, Claims, ClaimsOf
  <2> QED
    BY <2>1, <2>2 DEF Fates, Ending
<1>9. ASSUME NEW c \in Calls, NEW s \in {"discarding", "failed"}, pc[c] = "creating",
             releaseReservation(Move(c, s)), UNCHANGED <<ent, resVars>>
      PROVE  Fates
  <2>1. s \in PCs
    BY DEF PCs, InFlight, Running
  <2>2. /\ pc'[c] = s
        /\ \A x \in Calls \ {c} : pc'[x] = pc[x] \/ (pc[x] = "parked" /\ pc'[x] = "woken")
    BY <1>t, <1>9, <2>1, ReservationEffect
  <2> QED
    BY <1>q, <1>9, <2>2 DEF Lookers, resVars
<1>10. ASSUME NEW c \in Calls, FactoryResolves(c) \/ FactoryRejects(c) PROVE Fates
  BY <1>8, <1>9, <1>10 DEF FactoryResolves, discard, FactoryRejects, resVars
<1>11. ASSUME NEW c \in Calls, Settle(c) PROVE Fates
  BY <1>t, <1>11, CheckoutFates DEF Settle, ClaimsReal
<1>12. ASSUME NEW c \in Calls, Release(c) PROVE Fates
  BY <1>t, <1>12, ReleaseFates DEF Release, ClaimsReal
<1>13. ASSUME NEW c \in Calls, ReleaseKey(c) PROVE Fates
  <2> DEFINE e == IF entries[KeyOf[c]] # NoEntry THEN entries[KeyOf[c]] ELSE orphans[KeyOf[c]]
  <2>1. CASE e = NoEntry
    BY <1>t, <1>m, <1>q, <1>13, <2>1, PointTypes DEF ReleaseKey, Lookers
  <2>2. CASE e # NoEntry
    <3>1. e \in Calls /\ releaseEntry(e, Move(c, "done"))
      BY <1>t, <1>13, <2>2, PointTypes DEF ReleaseKey, Entry
    <3>2. pc[c] = "holding" /\ ent' = [ent EXCEPT ![c] = NoEntry]
      BY <1>13 DEF ReleaseKey
    <3> HIDE DEF e
    <3> QED
      BY <1>t, <3>1, <3>2, ReleaseFates
  <2> QED
    BY <2>1, <2>2
<1>14. ASSUME NEW e \in Calls, DisposeDone(e) PROVE Fates
  BY <1>t, <1>q, <1>14, PointTypes DEF DisposeDone, callVars, Ending
<1>15. ASSUME NEW d \in Drains, Drain(d) PROVE Fates
  <2>1. /\ \A x \in Calls : pc'[x] = IF pc[x] = "parked" THEN "failed" ELSE pc[x]
        /\ UNCHANGED <<ent, refCount>>
    BY <1>t, <1>15 DEF Drain, setClosed, ParkedListed
  <2>2. \E S : status' = Disposing(S)
    BY <1>15 DEF Drain
  <2> QED
    BY <1>q, <1>d, <2>1, <2>2 DEF Lookers
<1>16. ASSUME NEW n \in DOMAIN idle, Sweep(n) PROVE Fates
  <2> DEFINE victims == {idle[i] : i \in Evictable \cap 1..n}
  <2>1. /\ status' = Disposing(victims) /\ Wake(pc, Cardinality(victims))
        /\ UNCHANGED <<ent, refCount>> /\ pc \in [Calls -> PCs]
    BY <1>t, <1>16, PointTypes DEF Sweep
  <2>2. victims \subseteq Calls
    BY <1>t, PointTypes DEF Evictable, Elements
  <2> HIDE DEF victims
  <2>3. Cardinality(victims) \in Nat
    BY <2>2, CallsAssumption, FS_Subset, FS_CardinalityType
  <2>4. \A x \in Calls : pc'[x] = pc[x] \/ (pc[x] = "parked" /\ pc'[x] = "woken")
    BY <1>t, <2>1, <2>3, WakeEffect
  <2> QED
    BY <1>q, <1>d, <2>1, <2>4 DEF Lookers
<1>17. CASE Start \/ UNCHANGED vars \/ \E d \in Drains : DrainDone(d)
  BY <1>q, <1>17 DEF Start, vars, callVars, resVars, DrainDone
<1> QED
  BY <1>1, <1>2, <1>3, <1>4, <1>5, <1>6, <1>7, <1>10, <1>11, <1>12, <1>13, <1>14, <1>15,
     <1>16, <1>17 DEF Next, Acquire, Obtain, Validated, Created, Settled, Released

(* A resource of no use to anyone any more. *)
Finished(e) ==
  /\ status[e] \in Ending /\ refCount[e] = 0
  /\ \A c \in Calls : ~(pc[c] \in Lookers /\ ent[c] = e)

LEMMA FinishedStays ==
  ASSUME Types, Types', Fates, NEW e \in Calls, Finished(e)
  PROVE  Finished(e)'
<1>1. /\ refCount[e] \in Nat /\ refCount'[e] \in Nat
  BY DEF Types
<1>2. status'[e] \in Ending /\ refCount'[e] <= refCount[e]
  BY DEF Fates, Finished, Lookers
<1>3. \A c \in Calls : ~(pc'[c] \in Lookers /\ ent'[c] = e)
  BY <1>2 DEF Fates, Finished, Ending
<1> QED
  BY <1>1, <1>2, <1>3 DEF Finished

(* In a closed pool the list has only such resources: those that a call    *)
(* had found before the drain, and gave back while they were disposed of.  *)
Ends ==
  closed => /\ Distinct(idle)
            /\ \A e \in Elements(idle) : Finished(e)
            /\ \A c \in Calls : pc[c] \in Lookers /\ status[ent[c]] # "usable"
                                  => refCount[ent[c]] = 0

ClosedIdleStep ==
  \/ idle' = idle
  \/ \E V : idle' = Without(idle, V)
  \/ \E e \in Calls : /\ idle' = Append(idle, e)
                      /\ status[e] \in Ending /\ refCount[e] = 1 /\ refCount'[e] = 0

LEMMA ClosedIdle ==
  ASSUME Base, Tables, Kept, closed, [Next]_vars, ~\E d \in Drains : Drain(d)
  PROVE  ClosedIdleStep
<1>t. Types /\ Claims /\ AllCondemned /\ ~started /\ ClaimsReal
  BY DEF Base, Tables, Kept, Grounded, Lifecycle
<1>1. ASSUME NEW c \in Calls, acquireSlot(c) PROVE idle' = idle
  BY <1>t, <1>1 DEF acquireSlot, Bounded
<1>2. ASSUME NEW c \in Calls, Missing(c) PROVE idle' = idle
  BY <1>1, <1>2 DEF Missing, Resurrect, Refuse, GoForSlot, tableVars
<1>3. ASSUME NEW c \in Calls, NEW e \in Calls, releaseEntry(e, Move(c, "done"))
      PROVE  ClosedIdleStep
  <2>1. CASE UNCHANGED idle
    BY <2>1 DEF ClosedIdleStep
  <2>2. CASE removeEntry(e)
    BY <2>2 DEF removeEntry, ClosedIdleStep
  <2>3. CASE /\ ~(status[e] = "disposed" \/ refCount[e] = 0) /\ LastRef(e) /\ ~isCondemned(e)
             /\ idle' = Append(idle, e) /\ refCount' = [refCount EXCEPT ![e] = @ - 1]
    <3>1. refCount[e] = 1 /\ refCount'[e] = 0
      BY <1>t, <2>3, PointTypes DEF LastRef
    <3>2. status[e] \in Ending
      BY <1>t, <2>3, PointTypes DEF AllCondemned, isCondemned, Claims, ClaimsOf, Statuses, Ending
    <3> QED
      BY <2>3, <3>1, <3>2 DEF ClosedIdleStep
  <2> QED
    BY <1>3, <2>1, <2>2, <2>3 DEF releaseEntry, LastRelease, BackToIdle, tableVars
<1>4. ASSUME NEW c \in Calls, Released(c) PROVE ClosedIdleStep
  <2>1. CASE Release(c)
    BY <1>t, <1>3, <2>1 DEF Release, ClaimsReal
  <2>2. CASE ReleaseKey(c)
    <3> DEFINE e == IF entries[KeyOf[c]] # NoEntry THEN entries[KeyOf[c]] ELSE orphans[KeyOf[c]]
    <3>1. CASE e = NoEntry
      BY <2>2, <3>1 DEF ReleaseKey, tableVars, ClosedIdleStep
    <3>2. CASE e # NoEntry
      <4>1. e \in Calls /\ releaseEntry(e, Move(c, "done"))
        BY <1>t, <2>2, <3>2, PointTypes DEF ReleaseKey, Entry
      <4> HIDE DEF e
      <4> QED
        BY <1>3, <4>1
    <3> QED
      BY <3>1, <3>2
  <2> QED
    BY <1>4, <2>1, <2>2 DEF Released
<1>5. ASSUME NEW c \in Calls, Obtain(c) \/ Replace(c) \/ Retry(c) PROVE idle' = idle
  BY <1>1, <1>2, <1>5 DEF Obtain, ObtainLive, UseLive, ObtainMissing, Replace, Retry, tableVars
<1>6. ASSUME NEW c \in Calls, \/ Acquire(c) \/ Settle(c) \/ ValidateStale(c)
      PROVE  idle' = idle \/ \E V : idle' = Without(idle, V)
  BY <1>6 DEF Acquire, AcquireFast, AcquireQueued, Settle, checkout, ValidateStale, removeEntry,
              tableVars
<1>7. ASSUME NEW c \in Calls, \/ ValidateOk(c) \/ ValidateThrows(c) \/ Timeout(c) \/ Created(c)
                              \/ DiscardDone(c) \/ SettleFailed(c) \/ DisposeDone(c)
      PROVE  idle' = idle
  BY <1>t, <1>7 DEF ValidateOk, ValidateThrows, Timeout, Created, FactoryResolves, discard,
                    FactoryRejects, DiscardDone, SettleFailed, DisposeDone, tableVars
<1>8. ASSUME NEW n \in DOMAIN idle, Sweep(n) PROVE FALSE
  BY <1>t, <1>8 DEF Sweep
<1>9. CASE Start \/ UNCHANGED vars \/ \E d \in Drains : DrainDone(d)
  BY <1>9 DEF Start, DrainDone, vars, tableVars, ClosedIdleStep
<1> QED
  BY <1>4, <1>5, <1>6, <1>7, <1>8, <1>9 DEF Next, Validated, Settled, ClosedIdleStep

LEMMA EndsStep ==
  ASSUME PoolInv, PoolInv', NotReopened', Ends, Fates, [Next]_vars
  PROVE  Ends'
<1> SUFFICES ASSUME closed'
             PROVE  /\ Distinct(idle')
                    /\ \A e \in Elements(idle') : Finished(e)'
                    /\ \A c \in Calls : pc'[c] \in Lookers /\ status'[ent'[c]] # "usable"
                                          => refCount'[ent'[c]] = 0
  BY DEF Ends
<1>t. /\ Base /\ Tables /\ Types /\ Types' /\ ClaimsReal /\ ClaimsReal' /\ ParkedListed
      /\ Claims /\ Claims' /\ Maps /\ Listed
  BY DEF PoolInv, Base, Tables
<1>k. NotReopened /\ Kept /\ RefCountExact /\ (Start => ~closed)
  BY <1>t, ClosingStep DEF PoolInv, Counted
<1>u. LeavesUnused
  BY <1>t, <1>k, UsesStep DEF Kept, Grounded, Uses
<1>c. \A c \in Calls : pc'[c] \in Lookers => ent'[c] \in Calls /\ KeyOf[ent'[c]] = KeyOf[c]
  BY <1>t DEF Lookers, ClaimsReal, Claims, ClaimsOf
<1>1. CASE \E d \in Drains : Drain(d)
  <2>1. idle' = <<>> /\ UNCHANGED <<ent, refCount>>
        /\ \A x \in Calls : pc'[x] \in Lookers => pc[x] \in Lookers
    BY <1>t, <1>1 DEF Drain, setClosed, ParkedListed, Lookers
  <2>2. ASSUME NEW c \in Calls, pc'[c] \in Lookers, status'[ent'[c]] # "usable"
        PROVE  refCount'[ent'[c]] = 0
    <3>1. CASE status[ent[c]] = "usable"
      BY <1>u, <1>c, <2>1, <2>2, <3>1 DEF LeavesUnused
    <3>2. CASE status[ent[c]] # "usable" /\ closed
      BY <2>1, <2>2, <3>2 DEF Ends
    <3>3. CASE status[ent[c]] # "usable" /\ ~closed
      <4>1. entries[KeyOf[c]] = ent[c] /\ ent[c] \in Calls /\ KeyOf[c] \in Keys
        BY <1>t, <1>k, <2>1, <2>2, <3>3, PointTypes
           DEF Kept, Grounded, UsersLive, Users, Lookers, ClaimsReal
      <4> QED
        BY <1>t, <3>3, <4>1, CallsAssumption DEF Maps
    <3> QED
      BY <3>1, <3>2, <3>3
  <2>3. Elements(idle') = {} /\ Distinct(idle')
    BY <2>1, EmptySeq DEF Elements, Distinct
  <2> QED
    BY <2>2, <2>3
<1>2. CASE ~\E d \in Drains : Drain(d)
  <2>1. closed
    BY <1>2, LifeStep DEF Start, DrainDone, lifeVars
  <2>2. /\ Distinct(idle) /\ \A e \in Elements(idle) : Finished(e)
        /\ \A c \in Calls : pc[c] \in Lookers /\ status[ent[c]] # "usable"
                              => refCount[ent[c]] = 0
    BY <2>1 DEF Ends
  <2>3. ASSUME NEW c \in Calls, pc'[c] \in Lookers, status'[ent'[c]] # "usable"
        PROVE  refCount'[ent'[c]] = 0
    <3>1. pc[c] \in Lookers /\ ent'[c] = ent[c] /\ ent[c] \in Calls
      BY <1>c, <2>3 DEF Fates
    <3>2. CASE status[ent[c]] = "usable"
      BY <1>u, <2>3, <3>1, <3>2 DEF LeavesUnused
    <3>3. CASE status[ent[c]] # "usable"
      <4>1. refCount[ent[c]] = 0 /\ status[ent[c]] \in Ending
        BY <1>t, <2>2, <3>1, <3>3, PointTypes
           DEF Claims, ClaimsOf, Lookers, Ending, Statuses
      <4>2. ASSUME NEW x \in Calls, pc[x] = "got", ent[x] = ent[c] PROVE x = c
        <5>1. KeyOf[x] = KeyOf[c]
          BY <1>t, <3>1, <4>2 DEF Claims, ClaimsOf, Lookers
        <5> QED
          BY <1>t, <3>1, <4>2, <5>1, Alone DEF Running, Lookers
      <4>3. refCount'[ent[c]] <= refCount[ent[c]]
        BY <2>3, <3>1, <4>1, <4>2 DEF Fates
      <4> QED
        BY <1>t, <3>1, <4>1, <4>3, PointTypes DEF Types
    <3> QED
      BY <3>2, <3>3
  <2>4. ClosedIdleStep
    BY <1>t, <1>k, <1>2, <2>1, ClosedIdle
  <2>5. \A e \in Elements(idle) : Finished(e)' /\ e \in Calls
    BY <1>t, <2>2, FinishedStays, PointTypes
  <2>6. CASE idle' = idle
    BY <2>2, <2>3, <2>5, <2>6
  <2>7. CASE \E V : idle' = Without(idle, V)
    <3>1. Distinct(idle') /\ Elements(idle') \subseteq Elements(idle)
      BY <1>t, <2>2, <2>7, PointTypes, WithoutProperties
    <3> QED
      BY <2>3, <2>5, <3>1
  <2>8. ASSUME NEW e \in Calls, idle' = Append(idle, e),
               status[e] \in Ending, refCount[e] = 1, refCount'[e] = 0
        PROVE  Distinct(idle') /\ \A x \in Elements(idle') : Finished(x)'
    <3>1. e \notin Elements(idle)
      BY <2>2, <2>8 DEF Finished
    <3>2. Distinct(idle') /\ Elements(idle') = Elements(idle) \union {e}
      BY <1>t, <2>2, <2>8, <3>1, PointTypes, AppendElements
    <3>3. status'[e] \in Ending
      BY <2>8 DEF Fates
    <3>4. ASSUME NEW c \in Calls, pc'[c] \in Lookers, ent'[c] = e PROVE FALSE
      <4>1. pc[c] \in Lookers /\ ent[c] = e
        BY <3>3, <3>4 DEF Fates, Ending
      <4> QED
        BY <2>2, <2>8, <4>1 DEF Ending
    <3>5. Finished(e)'
      BY <2>8, <3>3, <3>4 DEF Finished
    <3> QED
      BY <2>5, <3>2, <3>5
  <2> QED
    BY <2>3, <2>4, <2>6, <2>7, <2>8 DEF ClosedIdleStep
<1> QED
  BY <1>1, <1>2

-----------------------------------------------------------------------------
(* The list in the pool: the calls on it.                                  *)

LinksInv ==
  /\ LinkTypes(links) /\ List!Represents(links, idle)
  /\ \A e \in Calls \ Elements(idle) : List!Unlinked(links, e) \/ Finished(e)

(* What a step does to the list and its links together; no call is about a *)
(* resource that may be linked without being listed.                       *)
LinkStep ==
  \/ links' = links /\ idle' = idle
  \/ \E e \in Calls : /\ links' = List!idleRemove(links, e) /\ idle' = Without(idle, {e})
                      /\ ~Finished(e)
  \/ \E e \in Calls : /\ links' = List!idleAppend(links, e) /\ idle' = Append(idle, e)
                      /\ ~Finished(e) /\ e \notin Elements(idle)
  \/ \E r \in Seq(Calls) :
       /\ links' = List!removeAll(links, r) /\ idle' = Without(idle, Elements(r))
       /\ \A e \in Elements(r) : ~Finished(e)
  \/ \E r \in Seq(Calls) :
       /\ links' = List!reset(List!removeAll(links, r)) /\ idle' = <<>>
       /\ \A e \in Elements(r) : ~Finished(e)
       /\ \A e \in Elements(idle) : e \in Elements(r) \/ Finished(e)

LEMMA ResetLinks ==
  ASSUME NEW L, LinkTypes(L)
  PROVE  LET M == List!reset(L)
         IN  /\ LinkTypes(M) /\ List!Represents(M, <<>>)
             /\ \A e \in Calls : List!Unlinked(L, e) => List!Unlinked(M, e)
<1>1. PICK M : M = List!reset(L)
  OBVIOUS
<1>2. /\ M.head = NoEntry /\ M.tail = NoEntry /\ M.count = 0
      /\ M.inIdle = L.inIdle /\ M.prev = L.prev /\ M.next = L.next
      /\ LinkTypes(M)
  <2>1. L = [head |-> L.head, tail |-> L.tail, count |-> L.count, inIdle |-> L.inIdle,
             prev |-> L.prev, next |-> L.next]
    BY DEF LinkTypes
  <2>2. M = [head |-> NoEntry, tail |-> NoEntry, count |-> 0, inIdle |-> L.inIdle,
             prev |-> L.prev, next |-> L.next]
    BY <1>1, <2>1 DEF List!reset
  <2>3. /\ L.inIdle \in SUBSET Calls /\ L.prev \in [Calls -> Entry] /\ L.next \in [Calls -> Entry]
        /\ NoEntry \in Entry
    BY DEF LinkTypes, Entry
  <2> QED
    BY <2>2, <2>3 DEF LinkTypes
<1>3. <<>> \in Seq(Calls) /\ Len(<<>>) = 0
  BY EmptySeq
<1>4. Linked(M, <<>>)
  BY <1>2, <1>3 DEF Linked
<1> QED
  BY <1>1, <1>2, <1>3, <1>4, RepresentsLinked DEF List!Unlinked

LEMMA LinksStep ==
  ASSUME Types, Types', Fates, LinksInv, Distinct(idle), LinkStep
  PROVE  LinksInv'
<1>1. /\ LinkTypes(links) /\ List!Represents(links, idle)
      /\ idle \in Seq(Calls) /\ Elements(idle) \subseteq Calls
      /\ \A e \in Calls \ Elements(idle) : List!Unlinked(links, e) \/ Finished(e)
  BY PointTypes DEF LinksInv
<1>2. \A e \in Calls : Finished(e) => Finished(e)'
  BY FinishedStays
<1> SUFFICES /\ LinkTypes(links') /\ List!Represents(links', idle')
             /\ \A e \in Calls \ Elements(idle') : List!Unlinked(links', e) \/ Finished(e)'
  <2>1. List!Represents(links, idle)' <=> List!Represents(links', idle')
    BY DEF List!Represents, List!Elements
  <2>2. \A e : List!Unlinked(links, e)' <=> List!Unlinked(links', e)
    BY DEF List!Unlinked
  <2> QED
    BY <2>1, <2>2 DEF LinksInv, LinkTypes
<1>3. ASSUME NEW e \in Calls, ~Finished(e)
      PROVE  e \in Elements(idle) \/ e \notin links.inIdle
  BY <1>1, <1>3 DEF List!Unlinked
<1>4. CASE links' = links /\ idle' = idle
  BY <1>1, <1>2, <1>4
<1>5. ASSUME NEW e \in Calls, links' = List!idleRemove(links, e), idle' = Without(idle, {e}),
             ~Finished(e)
      PROVE  /\ LinkTypes(links') /\ List!Represents(links', idle')
             /\ \A x \in Calls \ Elements(idle') : List!Unlinked(links', x) \/ Finished(x)'
  <2>1. e \in Elements(idle) \/ e \notin links.inIdle
    BY <1>3, <1>5
  <2>2. /\ LinkTypes(links') /\ List!Represents(links', idle')
        /\ \A x \in Calls : List!Unlinked(links, x) \/ (x = e /\ x \in Elements(idle))
                            => List!Unlinked(links', x)
    BY <1>1, <1>5, <2>1, RemoveLinks
  <2>3. Elements(idle') = Elements(idle) \ {e}
    BY <1>1, <1>5, WithoutProperties
  <2> QED
    BY <1>1, <1>2, <1>5, <2>2, <2>3
<1>6. ASSUME NEW e \in Calls, links' = List!idleAppend(links, e), idle' = Append(idle, e),
             ~Finished(e), e \notin Elements(idle)
      PROVE  /\ LinkTypes(links') /\ List!Represents(links', idle')
             /\ \A x \in Calls \ Elements(idle') : List!Unlinked(links', x) \/ Finished(x)'
  <2>1. List!Unlinked(links, e)
    BY <1>1, <1>6
  <2>2. /\ LinkTypes(links') /\ List!Represents(links', idle')
        /\ \A x \in Calls \ {e} : List!Unlinked(links, x) => List!Unlinked(links', x)
    BY <1>1, <1>6, <2>1, AppendLinks
  <2>3. Elements(idle') = Elements(idle) \union {e}
    BY <1>1, <1>6, AppendElements
  <2> QED
    BY <1>1, <1>2, <2>2, <2>3
<1>7. ASSUME NEW r \in Seq(Calls), \A e \in Elements(r) : ~Finished(e)
      PROVE  LET M == List!removeAll(links, r)
             IN  /\ LinkTypes(M)
                 /\ List!Represents(M, Without(idle, Elements(r)))
                 /\ \A e \in Calls : List!Unlinked(links, e) \/ (e \in Elements(r) /\ e \in Elements(idle))
                                     => List!Unlinked(M, e)
  <2>1. \A e \in Elements(r) : e \in Calls
    BY ListItems
  <2>2. \A e \in Elements(r) : e \in Elements(idle) \/ e \notin links.inIdle
    BY <1>3, <1>7, <2>1
  <2> QED
    BY <1>1, <2>2, RemoveAllLinks
<1>8. ASSUME NEW r \in Seq(Calls), links' = List!removeAll(links, r),
             idle' = Without(idle, Elements(r)), \A e \in Elements(r) : ~Finished(e)
      PROVE  /\ LinkTypes(links') /\ List!Represents(links', idle')
             /\ \A x \in Calls \ Elements(idle') : List!Unlinked(links', x) \/ Finished(x)'
  <2>1. Elements(idle') = Elements(idle) \ Elements(r)
    BY <1>1, <1>8, WithoutProperties
  <2> QED
    BY <1>1, <1>2, <1>7, <1>8, <2>1
<1>9. ASSUME NEW r \in Seq(Calls), links' = List!reset(List!removeAll(links, r)),
             idle' = <<>>, \A e \in Elements(r) : ~Finished(e),
             \A e \in Elements(idle) : e \in Elements(r) \/ Finished(e)
      PROVE  /\ LinkTypes(links') /\ List!Represents(links', idle')
             /\ \A x \in Calls \ Elements(idle') : List!Unlinked(links', x) \/ Finished(x)'
  <2>1. PICK M : M = List!removeAll(links, r)
    OBVIOUS
  <2>2. /\ LinkTypes(M)
        /\ \A e \in Calls : List!Unlinked(links, e) \/ (e \in Elements(r) /\ e \in Elements(idle))
                            => List!Unlinked(M, e)
    BY <1>7, <1>9, <2>1
  <2>3. /\ LinkTypes(links') /\ List!Represents(links', idle')
        /\ \A x \in Calls : List!Unlinked(M, x) => List!Unlinked(links', x)
    BY <1>9, <2>1, <2>2, ResetLinks
  <2> QED
    BY <1>1, <1>2, <1>9, <2>2, <2>3
<1> QED
  BY <1>4, <1>5, <1>6, <1>8, <1>9 DEF LinkStep

(* Nothing on the list is held, and in an open pool all of it is usable.   *)
LEMMA IdleUnheld ==
  ASSUME PoolInv, NotReopened, Ends
  PROVE  /\ Distinct(idle)
         /\ \A e \in Elements(idle) : refCount[e] = 0
         /\ ~closed => \A e \in Elements(idle) : status[e] = "usable"
<1>t. Types /\ Maps /\ Kept
  BY DEF PoolInv, Base, Tables
<1>1. CASE closed
  BY <1>1 DEF Ends, Finished
<1>2. CASE ~closed
  <2>1. IdleMembership
    BY <1>t, <1>2 DEF Kept, Grounded
  <2> QED
    BY <1>t, <1>2, <2>1, PointTypes DEF IdleMembership, Maps
<1> QED
  BY <1>1, <1>2

LEMMA EvictLinks ==
  ASSUME PoolInv, NotReopened, Ends, LinksInv, ~closed,
         NEW c \in Calls, acquireSlot(c), links' = takeLruIdle
  PROVE  LinkStep
<1>t. Types /\ idle \in Seq(Calls) /\ Max \in Int
  BY OptionsAssumption DEF PoolInv, Base, Types
<1>1. List!Walk(links) = idle
  BY <1>t, WalkIs DEF LinksInv
<1> DEFINE found == {i \in DOMAIN idle : ~spared(idle[i])}
<1>2. found = Evictable
  BY DEF Evictable, spared
<1>3. takeLruIdle = IF Max <= 0 \/ Room \/ found = {} THEN links
                    ELSE List!idleRemove(links, idle[CHOOSE i \in found : \A j \in found : i <= j])
  BY <1>1 DEF takeLruIdle
<1> HIDE DEF found
<1>4. CASE Max <= 0 \/ Room
  <2>1. idle' = idle
    BY <1>4 DEF acquireSlot, Bounded, Reserve
  <2> QED
    BY <1>3, <1>4, <2>1 DEF LinkStep
<1>5. CASE ~(Max <= 0 \/ Room) /\ Evictable = {}
  <2>1. idle' = idle
    BY <1>5 DEF acquireSlot, Bounded, EvictFor, ParkOrReject
  <2> QED
    BY <1>2, <1>3, <1>5, <2>1 DEF LinkStep
<1>6. CASE ~(Max <= 0 \/ Room) /\ Evictable # {}
  <2>1. EvictFor(c)
    BY <1>6 DEF acquireSlot, Bounded
  <2>2. PICK i \in Evictable : (\A j \in Evictable : i <= j) /\ idle' = Without(idle, {idle[i]})
    BY <2>1 DEF EvictFor
  <2>3. PICK h : h = CHOOSE i1 \in found : \A j \in found : i1 <= j
    OBVIOUS
  <2>4. h \in Evictable /\ \A j \in Evictable : h <= j
    BY <1>2, <2>2, <2>3
  <2>5. h = i
    <3>1. h \in Int /\ i \in Int
      BY <1>t, <2>2, <2>4, LenProperties DEF Evictable
    <3> QED
      BY <2>2, <2>4, <3>1
  <2>6. links' = List!idleRemove(links, idle[i])
    BY <1>2, <1>3, <1>6, <2>3, <2>5
  <2>7. idle[i] \in Elements(idle) /\ idle[i] \in Calls
    BY <1>t, PointTypes DEF Evictable, Elements
  <2>8. ~Finished(idle[i])
    BY <2>7, IdleUnheld DEF Finished, Ending
  <2> QED
    BY <2>2, <2>6, <2>7, <2>8 DEF LinkStep
<1> QED
  BY <1>4, <1>5, <1>6

LEMMA SweepLinks ==
  ASSUME PoolInv, NotReopened, Ends, LinksInv, NEW n \in DOMAIN idle, ISweep(n)
  PROVE  LinkStep
<1>t. Types /\ idle \in Seq(Calls) /\ Len(idle) \in Nat /\ DOMAIN idle = 1..Len(idle)
  BY LenProperties DEF PoolInv, Base, Types
<1>1. List!Walk(links) = idle
  BY <1>t, WalkIs DEF LinksInv
<1>2. started /\ ~closed
  BY DEF ISweep, Sweep, PoolInv, Kept, Grounded, Lifecycle
<1>3. PICK expired : expired = SubSeq(idle, 1, n)
  OBVIOUS
<1>4. expired \in Seq(Calls) /\ Elements(expired) = {idle[i] : i \in 1..n}
  <2>1. expired = [i \in 1..n |-> idle[i]]
    BY <1>t, <1>3
  <2>2. \A i \in 1..n : idle[i] \in Calls
    BY <1>t, ElementOfSeq
  <2>3. expired \in Seq(Calls)
    BY <1>t, <2>1, <2>2
  <2> QED
    BY <2>1, <2>3 DEF Elements
<1>5. PICK r : r = Without(expired, {e \in Calls : spared(e)})
  OBVIOUS
<1>6. r \in Seq(Calls) /\ Elements(r) = Elements(expired) \ {e \in Calls : spared(e)}
  BY <1>4, <1>5, WithoutProperties
<1>7. links' = List!removeAll(links, r)
  BY <1>1, <1>3, <1>5 DEF ISweep, sweep
<1>8. Elements(r) = {idle[i] : i \in Evictable \cap 1..n}
  <2>1. Evictable = {i \in 1..Len(idle) : ~spared(idle[i])}
    BY <1>t DEF Evictable, spared
  <2>2. \A i \in 1..n : i \in 1..Len(idle) /\ idle[i] \in Calls
    BY <1>t, ElementOfSeq
  <2> QED
    BY <1>4, <1>6, <2>1, <2>2
<1>9. idle' = Without(idle, Elements(r))
  BY <1>8 DEF ISweep, Sweep
<1>10. \A e \in Elements(r) : ~Finished(e)
  <2>1. Elements(r) \subseteq Elements(idle)
    BY <1>8 DEF Elements, Evictable
  <2> QED
    BY <1>2, <2>1, IdleUnheld DEF Finished, Ending
<1> QED
  BY <1>6, <1>7, <1>9, <1>10 DEF LinkStep

LEMMA ReleaseLinks ==
  ASSUME PoolInv, NotReopened, Ends, LinksInv, NEW e \in Calls, NEW f,
         releaseEntry(e, f), relist(e)
  PROVE  LinkStep
<1>t. Types /\ refCount[e] \in Nat
  BY DEF PoolInv, Base, Types
<1>1. e \in Elements(idle) => refCount[e] = 0
  BY IdleUnheld
<1>2. CASE status[e] = "disposed" \/ refCount[e] # 1
  <2>1. links' = links
    BY <1>2 DEF relist
  <2>2. idle' = idle
    BY <1>2 DEF releaseEntry, LastRef, tableVars
  <2> QED
    BY <2>1, <2>2 DEF LinkStep
<1>3. CASE status[e] # "disposed" /\ refCount[e] = 1 /\ isCondemned(e)
  <2>1. links' = List!idleRemove(links, e)
    BY <1>3 DEF relist
  <2>2. idle' = Without(idle, {e})
    BY <1>3 DEF releaseEntry, LastRef, LastRelease, removeEntry
  <2>3. ~Finished(e)
    BY <1>3 DEF Finished
  <2> QED
    BY <2>1, <2>2, <2>3, Zenon DEF LinkStep
<1>4. CASE status[e] # "disposed" /\ refCount[e] = 1 /\ ~isCondemned(e)
  <2>1. links' = List!idleAppend(links, e)
    BY <1>4 DEF relist
  <2>2. idle' = Append(idle, e)
    BY <1>4 DEF releaseEntry, LastRef, LastRelease, BackToIdle
  <2> QED
    BY <1>1, <1>4, <2>1, <2>2 DEF LinkStep, Finished
<1> QED
  BY <1>2, <1>3, <1>4

LEMMA DrainLinks ==
  ASSUME PoolInv, NotReopened, Ends, LinksInv, NEW d \in Drains, IDrain(d)
  PROVE  LinkStep
<1> DEFINE live == {entries[k] : k \in Live}
           unheld == live \ InUse(live)
<1>t. Types /\ Maps /\ Kept
  BY DEF PoolInv, Base, Tables
<1>1. PICK order \in Orders(unheld) : links' = List!reset(List!removeAll(links, order))
  BY DEF IDrain
<1>2. /\ unheld \subseteq Calls
      /\ \A e \in Calls : e \in unheld <=> entries[KeyOf[e]] = e /\ refCount[e] = 0
  BY <1>t, PointTypes DEF Live, InUse, Entry, Maps
<1> HIDE DEF unheld
<1>3. order \in Seq(Calls) /\ Elements(order) = unheld
  <2>1. Cardinality(unheld) \in Nat
    BY <1>2, CallsAssumption, FS_Subset, FS_CardinalityType
  <2>2. order \in [1..Cardinality(unheld) -> Calls] /\ Elements(order) = unheld
    BY <1>2 DEF Orders
  <2> QED
    BY <2>1, <2>2
<1>4. idle' = <<>>
  BY DEF IDrain, Drain
<1>5. \A e \in Elements(order) : ~Finished(e)
  BY <1>t, <1>2, <1>3, PointTypes DEF Maps, Finished, Ending
<1>6. \A e \in Elements(idle) : e \in Elements(order) \/ Finished(e)
  <2>1. CASE closed
    BY <2>1 DEF Ends
  <2>2. CASE ~closed
    BY <1>t, <1>2, <1>3, <2>2, PointTypes DEF Kept, Grounded, IdleMembership
  <2> QED
    BY <2>1, <2>2
<1> QED
  BY <1>1, <1>3, <1>4, <1>5, <1>6 DEF LinkStep

LEMMA CheckoutLinks ==
  ASSUME NEW c, NEW e \in Calls, checkout(c, e), unlistIfIdle(e), ~Finished(e)
  PROVE  LinkStep
BY DEF checkout, unlistIfIdle, LinkStep

LEMMA InternalLinks ==
  ASSUME PoolInv, NotReopened, Ends, LinksInv, [InternalNext]_allVars
  PROVE  LinkStep
<1>t. /\ Base /\ Tables /\ Types /\ ClaimsReal /\ Claims /\ Maps /\ Listed /\ Kept
  BY DEF PoolInv, Base, Tables
<1>q. ASSUME SameLinks, UNCHANGED idle PROVE LinkStep
  BY <1>q DEF SameLinks, LinkStep
<1>1. ASSUME NEW c \in Calls, IAcquireFast(c) PROVE LinkStep
  <2>1. entries[KeyOf[c]] \in Calls /\ status[entries[KeyOf[c]]] = "usable"
    BY <1>t, <1>1, PointTypes DEF IAcquireFast, AcquireFast, Shareable, isUsable, Entry, Maps
  <2> QED
    BY <1>1, <2>1, CheckoutLinks DEF IAcquireFast, AcquireFast, Finished, Ending
<1>2. ASSUME NEW c \in Calls, ISettle(c) PROVE LinkStep
  <2>1. ent[c] \in Calls /\ pc[c] = "got" /\ checkout(c, ent[c]) /\ unlistIfIdle(ent[c])
    BY <1>t, <1>2 DEF ISettle, Settle, ClaimsReal
  <2> QED
    BY <2>1, CheckoutLinks DEF Finished, Lookers
<1>3. ASSUME NEW c \in Calls, IAcquireQueued(c) \/ ISettleFailed(c) \/ Elsewhere(c) PROVE LinkStep
  BY <1>q, <1>3
     DEF IAcquireQueued, AcquireQueued, ISettleFailed, SettleFailed, Elsewhere, ValidateOk,
         ValidateThrows, Timeout, FactoryRejects, DiscardDone, DisposeDone, tableVars
<1>4. ASSUME NEW c \in Calls, IMissing(c) PROVE LinkStep
  <2>1. CASE ISlot(c)
    BY <2>1, EvictLinks DEF ISlot, GoForSlot
  <2>2. CASE (Resurrect(c) \/ Refuse(c)) /\ SameLinks
    BY <1>q, <2>2 DEF Resurrect, Refuse, tableVars
  <2> QED
    BY <1>4, <2>1, <2>2 DEF IMissing
<1>5. ASSUME NEW c \in Calls, IObtain(c) \/ IReplace(c) PROVE LinkStep
  BY <1>q, <1>4, <1>5 DEF IObtain, IReplace, UseLive, tableVars
<1>6. ASSUME NEW c \in Calls, IRetry(c) PROVE LinkStep
  <2>1. CASE closed
    BY <1>6, <2>1 DEF IRetry, Retry, acquireSlot, Bounded, LinkStep
  <2>2. CASE ~closed
    BY <1>6, <2>2, EvictLinks DEF IRetry, Retry
  <2> QED
    BY <2>1, <2>2
<1>7. ASSUME NEW c \in Calls, IValidateStale(c) PROVE LinkStep
  <2>1. /\ pc[c] = "validating" /\ ent[c] \in Calls
        /\ idle' = Without(idle, {ent[c]}) /\ links' = List!idleRemove(links, ent[c])
    BY <1>t, <1>7 DEF IValidateStale, ValidateStale, removeEntry, ClaimsReal
  <2> QED
    BY <2>1 DEF LinkStep, Finished, Lookers
<1>8. ASSUME NEW c \in Calls, IFactoryResolves(c) PROVE LinkStep
  <2>1. CASE closed
    BY <1>8, <2>1 DEF IFactoryResolves, FactoryResolves, discard, tableVars, LinkStep
  <2>2. CASE ~closed
    <3>1. /\ pc[c] = "creating" /\ idle' = Append(idle, c) /\ links' = List!idleAppend(links, c)
      BY <1>8, <2>2 DEF IFactoryResolves, FactoryResolves, insert
    <3>2. status[c] = "absent"
      BY <1>t, <3>1 DEF Claims, ClaimsOf
    <3> QED
      BY <1>t, <3>1, <3>2 DEF LinkStep, Finished, Ending, Listed
  <2> QED
    BY <2>1, <2>2
<1>9. ASSUME NEW c \in Calls, IRelease(c) PROVE LinkStep
  <2>1. ent[c] \in Calls /\ releaseEntry(ent[c], Move(c, "done")) /\ relist(ent[c])
    BY <1>t, <1>9 DEF IRelease, Release, ClaimsReal
  <2> QED
    BY <2>1, ReleaseLinks
<1>10. ASSUME NEW c \in Calls, IReleaseKey(c) PROVE LinkStep
  <2>1. keyed(KeyOf[c]) \in Entry
    BY <1>t, PointTypes DEF keyed
  <2>2. CASE keyed(KeyOf[c]) = NoEntry
    BY <1>q, <1>10, <2>2 DEF IReleaseKey, ReleaseKey, keyed, tableVars
  <2>3. CASE keyed(KeyOf[c]) # NoEntry
    <3>1. keyed(KeyOf[c]) \in Calls /\ relist(keyed(KeyOf[c]))
      BY <1>10, <2>1, <2>3 DEF IReleaseKey, Entry
    <3>2. releaseEntry(keyed(KeyOf[c]), Move(c, "done"))
      BY <1>10, <2>3 DEF IReleaseKey, ReleaseKey, keyed
    <3> QED
      BY <3>1, <3>2, ReleaseLinks
  <2> QED
    BY <2>2, <2>3
<1>11. ASSUME NEW d \in Drains, DrainDone(d), SameLinks PROVE LinkStep
  BY <1>q, <1>11 DEF DrainDone, tableVars
<1>12. ASSUME Start \/ IGc \/ UNCHANGED allVars, SameLinks PROVE LinkStep
  BY <1>q, <1>12 DEF Start, IGc, allVars, vars, tableVars
<1>13. CASE UNCHANGED allVars
  BY <1>12, <1>13 DEF allVars, internals, SameLinks
<1>14. CASE InternalNext
  BY <1>1, <1>2, <1>3, <1>5, <1>6, <1>7, <1>8, <1>9, <1>10, <1>11, <1>12, <1>14,
     DrainLinks, SweepLinks DEF InternalNext, IGc
<1> QED
  BY <1>13, <1>14

-----------------------------------------------------------------------------
(* The theorems about the list.                                            *)

ListInv == PoolInv /\ (NotReopened => Ends /\ LinksInv)

LEMMA ListStart == InternalInit => ListInv
<1> SUFFICES ASSUME InternalInit PROVE Ends /\ LinksInv
  BY PoolInit DEF InternalInit, ListInv
<1>1. ~closed /\ idle = <<>> /\ links = List!NoLinks
  BY DEF InternalInit, Init
<1>2. /\ LinkTypes(links)
      /\ links.head = NoEntry /\ links.tail = NoEntry /\ links.count = 0
      /\ \A e \in Calls : List!Unlinked(links, e)
  BY <1>1 DEF List!NoLinks, LinkTypes, List!Unlinked, Entry
<1>3. idle \in Seq(Calls) /\ Len(idle) = 0
  BY <1>1, EmptySeq
<1>4. Linked(links, idle)
  BY <1>2, <1>3 DEF Linked
<1>5. LinksInv
  BY <1>2, <1>3, <1>4, RepresentsLinked DEF LinksInv
<1> QED
  BY <1>1, <1>5 DEF Ends

LEMMA ListStep ==
  Base /\ MutexInv /\ ListInv /\ [InternalNext]_allVars => ListInv'
<1> SUFFICES ASSUME Base, MutexInv, ListInv, [InternalNext]_allVars
             PROVE  ListInv'
  OBVIOUS
<1>1. [Next]_vars /\ PoolInv /\ PoolInv'
  BY InternalStep, PoolStep DEF ListInv
<1>2. ASSUME NotReopened' PROVE Ends' /\ LinksInv'
  <2>1. Types /\ Types' /\ Tables /\ Closing
    BY <1>1 DEF PoolInv, Base
  <2>2. NotReopened /\ Ends /\ LinksInv
    BY <1>1, <1>2, <2>1, ClosingStep DEF ListInv
  <2>3. Fates
    BY <1>1, <2>1, FateStep
  <2>4. Ends'
    BY <1>1, <1>2, <2>2, <2>3, EndsStep
  <2>5. Distinct(idle) /\ LinkStep
    BY <1>1, <2>2, IdleUnheld, InternalLinks
  <2>6. LinksInv'
    BY <2>1, <2>2, <2>3, <2>5, LinksStep
  <2> QED
    BY <2>4, <2>6
<1> QED
  BY <1>1, <1>2 DEF ListInv

LEMMA ListAlways == InternalSpec => []ListInv
<1>1. InternalInit => Base /\ MutexInv /\ ListInv
  BY BaseInit, MutexStart, ListStart DEF InternalInit
<1> QED
  BY <1>1, InternalStep, ListStep, PTL DEF InternalSpec

(* Until a start() follows a drain, the two ends, the count and the link   *)
(* fields of the entries are the idle list, forwards and backwards, and an *)
(* entry that is on no list has no link left or is being disposed of,      *)
(* whatever is appended, taken out in the middle, evicted, swept, drained  *)
(* or given back late.                                                     *)
THEOREM LinksTrue == InternalSpec => [](NotReopened => LinksRepresentIdle)
<1>1. ListInv => (NotReopened => LinksRepresentIdle)
  BY DEF ListInv, LinksInv, LinksRepresentIdle, Finished, Ending
<1> QED
  BY <1>1, ListAlways, PTL

LEMMA GaugesTell ==
  ASSUME ListInv, NotReopened
  PROVE  GaugesExact
<1>1. ASSUME ~closed
      PROVE  LET held == {k \in Live : Holders(entries[k]) # {}}
             IN  /\ getStats.inUse = Cardinality(held)
                 /\ getStats.idle = Cardinality(Live \ held)
  <2> DEFINE held == {k \in Live : Holders(entries[k]) # {}}
             free == {k \in Live : refCount[entries[k]] = 0}
             n == Len(idle)
             f == [i \in 1..n |-> KeyOf[idle[i]]]
  <2>t. /\ Types /\ Maps /\ Kept /\ RefCountExact /\ IdleMembership /\ LinksInv
        /\ idle \in Seq(Calls)
    BY <1>1 DEF ListInv, PoolInv, Base, Tables, Counted, Kept, Grounded, Types
  <2>1. n \in Nat /\ DOMAIN idle = 1..n /\ \A i \in 1..n : idle[i] \in Calls
    BY <2>t, ListItems
  <2>2. links.count = n
    BY <2>t, RepresentsLinked DEF LinksInv, Linked
  <2>3. Orphans = {}
    BY <1>1, <2>t DEF Kept, Grounded, Lifecycle, Orphans
  <2>4. \A k \in Live : k \in Keys /\ entries[k] \in Calls
                        /\ KeyOf[entries[k]] = k /\ status[entries[k]] = "usable"
    BY <2>t, PointTypes DEF Live, Entry, Maps
  <2>5. Live \ held = free
    <3>1. \A k \in Live : Holders(entries[k]) = {} <=> refCount[entries[k]] = 0
      <4> SUFFICES ASSUME NEW k \in Live
                   PROVE  Holders(entries[k]) = {} <=> refCount[entries[k]] = 0
        OBVIOUS
      <4>1. entries[k] \in Calls /\ refCount[entries[k]] = Cardinality(Holders(entries[k]))
        BY <2>t, <2>4 DEF RefCountExact
      <4>2. IsFiniteSet(Holders(entries[k]))
        BY <4>1, HoldersFinite
      <4> QED
        BY <4>1, <4>2, FS_EmptySet
    <3> QED
      BY <3>1
  <2>6. Cardinality(free) = n
    <3>1. ASSUME NEW i \in 1..n PROVE f[i] \in free /\ entries[f[i]] = idle[i]
      <4>1. idle[i] \in Elements(idle) /\ idle[i] \in Calls
        BY <2>1 DEF Elements
      <4>2. entries[KeyOf[idle[i]]] = idle[i] /\ refCount[idle[i]] = 0
        BY <2>t, <4>1 DEF IdleMembership
      <4> QED
        BY <2>t, <4>1, <4>2, PointTypes DEF Live
    <3>2. \A i, j \in 1..n : f[i] = f[j] => i = j
      <4> SUFFICES ASSUME NEW i \in 1..n, NEW j \in 1..n, f[i] = f[j] PROVE i = j
        OBVIOUS
      <4>1. idle[i] = idle[j]
        BY <3>1
      <4> QED
        BY <2>t, <2>1, <4>1 DEF IdleMembership, Distinct
    <3>3. ASSUME NEW k \in free PROVE \E i \in 1..n : f[i] = k
      <4>1. entries[k] \in Elements(idle) /\ KeyOf[entries[k]] = k
        BY <2>t, <2>4, <3>3 DEF IdleMembership
      <4> QED
        BY <2>1, <4>1 DEF Elements
    <3>4. f \in [1..n -> free]
      BY <3>1
    <3> HIDE DEF f, free, n
    <3> QED
      BY <2>1, <3>2, <3>3, <3>4, ListedSize
  <2>7. Cardinality(Live) = Cardinality(held) + n /\ Cardinality(held) \in Nat
    <3>1. IsFiniteSet(Live) /\ held \subseteq Live
      BY MapSizes
    <3>2. IsFiniteSet(held) /\ IsFiniteSet(free) /\ Cardinality(held) \in Nat
      BY <2>5, <3>1, FS_Subset, FS_CardinalityType
    <3>3. Live = held \union free /\ held \cap free = {}
      BY <2>5, <3>1
    <3> HIDE DEF held, free, n
    <3>4. Cardinality(Live) = Cardinality(held) + Cardinality(free) - Cardinality(held \cap free)
      BY <3>2, <3>3, FS_Union
    <3>5. Cardinality({}) = 0
      BY FS_EmptySet
    <3>6. \A a, b \in Nat : a + b - 0 = a + b
      OBVIOUS
    <3>7. Cardinality(Live) = Cardinality(held) + n - 0
      BY <2>6, <3>3, <3>4, <3>5, Zenon
    <3> QED
      BY <2>1, <3>2, <3>6, <3>7, Zenon
  <2>8. Cardinality(Orphans) = 0
    BY <2>3, FS_EmptySet
  <2>9. getStats.idle = n /\ getStats.inUse = Cardinality(Live) - n + 0
    BY <2>2, <2>8 DEF getStats
  <2> HIDE DEF held, free, n
  <2>10. Cardinality(Live) - n + 0 = Cardinality(held)
    BY <2>1, <2>7
  <2>11. getStats.inUse = Cardinality(held) /\ getStats.idle = Cardinality(Live \ held)
    BY <2>5, <2>6, <2>9, <2>10, Zenon
  <2> QED
    BY <2>11 DEF held
<1> QED
  BY <1>1 DEF GaugesExact

(* getStats() of an open pool that no start() has followed a drain of      *)
(* never needs to look at an entry: the count that idleAppend() and        *)
(* idleRemove() keep is the number of live resources without a holder, and *)
(* the rest of the live map is the number with one.                        *)
THEOREM GaugesTrue == InternalSpec => [](NotReopened => GaugesExact)
BY GaugesTell, ListAlways, PTL
=============================================================================
