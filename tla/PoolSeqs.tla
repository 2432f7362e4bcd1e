------------------------------ MODULE PoolSeqs ------------------------------
(* The lists of the pool as sequences: what is in one, and one without     *)
(* some of its members.                                                    *)
EXTENDS Integers, Sequences, FiniteSets

Elements(s) == {s[i] : i \in DOMAIN s}

Distinct(s) == \A i, j \in DOMAIN s : s[i] = s[j] => i = j

(* s without the members of S, the others in their order: SelectSeq, with  *)
(* each place found by its rank so that no recursion is needed.            *)
Without(s, S) ==
  LET kept   == {i \in DOMAIN s : s[i] \notin S}
      nth(n) == CHOOSE i \in kept : Cardinality({h \in kept : h <= i}) = n
  IN  [n \in 1..Cardinality(kept) |-> s[nth(n)]]
=============================================================================
