------------------------------ MODULE IdleLinks ------------------------------
(***************************************************************************)
(* The intrusive idle list of packages/core/src/pool.ts: the two ends and  *)
(* the count that the pool keeps, and the link fields of its entries, as   *)
(* one record.  The operations are those of the code; Represents says      *)
(* which sequence of entries a record of links stands for.                 *)
(***************************************************************************)
EXTENDS PoolSeqs

CONSTANTS
  Nodes, \* the entries
  None   \* an absent link

NoLinks == [head |-> None, tail |-> None, count |-> 0, inIdle |-> {},
            prev |-> [n \in Nodes |-> None], next |-> [n \in Nodes |-> None]]

(* As the most recently released; nothing happens to one already listed.   *)
idleAppend(L, n) ==
  IF n \in L.inIdle THEN L
  ELSE [head   |-> IF L.tail = None THEN n ELSE L.head,
        tail   |-> n,
        count  |-> L.count + 1,
        inIdle |-> L.inIdle \union {n},
        prev   |-> [L.prev EXCEPT ![n] = L.tail],
        next   |-> [m \in Nodes |-> CASE m = L.tail -> n
                                      [] m # L.tail /\ m = n -> None
                                      [] OTHER -> L.next[m]]]

RemoveForwardOnly(L, n) == \* fault: the link back over n is not mended
  LET p == L.prev[n]
      s == L.next[n]
  IN  IF n \notin L.inIdle THEN L
      ELSE [head   |-> IF p = None THEN s ELSE L.head,
            tail   |-> IF s = None THEN p ELSE L.tail,
            count  |-> L.count - 1,
            inIdle |-> L.inIdle \ {n},
            prev   |-> [L.prev EXCEPT ![n] = None],
            next   |-> [m \in Nodes |-> CASE m = n -> None
                                          [] m = p /\ m # n -> s
                                          [] OTHER -> L.next[m]]]
(* Out of the list, wherever it stands; nothing happens to one not listed. *)
idleRemove(L, n) ==
  LET p == L.prev[n]
      s == L.next[n]
  IN  IF n \notin L.inIdle THEN L
      ELSE [head   |-> IF p = None THEN s ELSE L.head,
            tail   |-> IF s = None THEN p ELSE L.tail,
            count  |-> L.count - 1,
            inIdle |-> L.inIdle \ {n},
            prev   |-> [m \in Nodes |-> CASE m = n -> None
                                          [] m = s /\ m # n -> p
                                          [] OTHER -> L.prev[m]],
            next   |-> [m \in Nodes |-> CASE m = n -> None
                                          [] m = p /\ m # n -> s
                                          [] OTHER -> L.next[m]]]

(* The last statements of drain(): the ends and the count, not the links.  *)
reset(L) == [L EXCEPT !.head = None, !.tail = None, !.count = 0]

(* One after the other. *)
removeAll(L, s) ==
  LET without[i \in 0..Len(s)] ==
        IF i = 0 THEN L ELSE idleRemove(without[i - 1], s[i])
  IN  without[Len(s)]

(* The entries met by following next from the head, count of them.         *)
Walk(L) ==
  LET at[i \in Nat] == IF i = 0 THEN L.head
                       ELSE IF at[i - 1] = None THEN None ELSE L.next[at[i - 1]]
  IN  [i \in 1..L.count |-> at[i - 1]]

(* The list that L stands for is s: it can be walked both ways, and the    *)
(* members of s are flagged.                                               *)
Represents(L, s) ==
  LET at(i) == IF i \in DOMAIN s THEN s[i] ELSE None
  IN  /\ L.head = at(1) /\ L.tail = at(Len(s)) /\ L.count = Len(s)
      /\ Elements(s) \subseteq L.inIdle
      /\ \A i \in DOMAIN s : L.prev[s[i]] = at(i - 1) /\ L.next[s[i]] = at(i + 1)

Unlinked(L, n) == n \notin L.inIdle /\ L.prev[n] = None /\ L.next[n] = None
=============================================================================
