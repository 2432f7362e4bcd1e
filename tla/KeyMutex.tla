------------------------------ MODULE KeyMutex ------------------------------
(***************************************************************************)
(* The per-key mutex of packages/core/src/pool.ts: runExclusive() chains   *)
(* each call on the promise of the call before it, kept with a count in a  *)
(* cell of the map `mutexes`.  The cells of a key are numbered, and a      *)
(* number is used again once the map and all calls have let go of it; a    *)
(* promise is named after the call whose end settles it.                   *)
(***************************************************************************)
EXTENDS Integers, Sequences

CONSTANTS
  Calls, Keys, KeyOf,
  Cells,   \* the numbers of the cells of a key
  None     \* no cell; a promise that is settled

VARIABLES
  mutexes, \* the map from keys to cells
  tail,    \* each cell's tail
  pending, \* each cell's pending count
  cellOf,  \* the cell that a queued or running call belongs to
  after    \* the promise that the call's fn waits for

mutexVars == <<mutexes, tail, pending, cellOf, after>>

MutexInit ==
  /\ mutexes = [k \in Keys |-> None]
  /\ tail = [k \in Keys |-> [m \in Cells |-> None]]
  /\ pending = [k \in Keys |-> [m \in Cells |-> 0]]
  /\ cellOf = [c \in Calls |-> None]
  /\ after = [c \in Calls |-> None]

InUse(k) == {mutexes[k]} \union {cellOf[c] : c \in {d \in Calls : KeyOf[d] = k}}
NewCell(k) == CHOOSE m \in Cells : m \notin InUse(k)

(* The call joins the key's cell, or one it makes. *)
runExclusive(c) ==
  LET k == KeyOf[c]
      m == IF mutexes[k] = None THEN NewCell(k) ELSE mutexes[k]
  IN  /\ mutexes' = [mutexes EXCEPT ![k] = m]
      /\ cellOf' = [cellOf EXCEPT ![c] = m]
      /\ pending' = [pending EXCEPT ![k][m] = @ + 1]
      /\ after' = [after EXCEPT ![c] = tail[k][m]]
      /\ tail' = [tail EXCEPT ![k][m] = c]

(* The predecessor has ended: the call's fn may start. *)
RunsAnyway(c) == cellOf[c] # None \* fault: does not wait for the tail
mayRun(c) == cellOf[c] # None /\ after[c] = None

(* The end of the call's fn settles its promise, counts it out of its cell *)
(* and drops the cell if nothing is left on it and it is still the key's.  *)
DropCell(c) == \* fault: drops the cell under the calls still queued on it
  /\ pending' = [pending EXCEPT ![KeyOf[c]][cellOf[c]] = @ - 1]
  /\ mutexes' = [mutexes EXCEPT ![KeyOf[c]] = None]
settled(c) ==
  LET k == KeyOf[c]
      m == cellOf[c]
  IN  /\ pending' = [pending EXCEPT ![k][m] = @ - 1]
      /\ mutexes' = IF pending[k][m] = 1 /\ mutexes[k] = m
                    THEN [mutexes EXCEPT ![k] = None] ELSE mutexes

leave(c) ==
  LET done(p) == IF p = c THEN None ELSE p
  IN  /\ settled(c)
      /\ tail' = [tail EXCEPT ![KeyOf[c]] = [m \in Cells |-> done(@[m])]]
      /\ after' = [d \in Calls |-> done(after[d])]
      /\ cellOf' = [cellOf EXCEPT ![c] = None]

(* gcKeyState(), as far as it is about cells: those with no call queued,   *)
(* unused for mutexGcMs.                                                   *)
gcMutexes ==
  /\ \E stale \in SUBSET {k \in Keys : mutexes[k] # None /\ pending[k][mutexes[k]] = 0} :
       mutexes' = [k \in Keys |-> IF k \in stale THEN None ELSE mutexes[k]]
  /\ UNCHANGED <<tail, pending, cellOf, after>>

(* The chain stands for the queue q of key k: one cell, in the map for     *)
(* exactly as long as calls are queued or running, counts them; each waits *)
(* for the one before it, and a new call would wait for the last.          *)
Chains(k, q) ==
  IF q = <<>> THEN mutexes[k] = None
  ELSE LET m == mutexes[k]
       IN  /\ m # None /\ pending[k][m] = Len(q) /\ tail[k][m] = q[Len(q)]
           /\ \A i \in DOMAIN q :
                /\ cellOf[q[i]] = m
                /\ after[q[i]] = IF i = 1 THEN None ELSE q[i - 1]
=============================================================================
