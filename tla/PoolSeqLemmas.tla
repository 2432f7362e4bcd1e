---------------------------- MODULE PoolSeqLemmas ----------------------------
(* What the lists of the pool contain after each operation on them.        *)
EXTENDS PoolSeqs, FiniteSetTheorems, FunctionTheorems, SequenceTheorems, TLAPS

Rank(I, i) == Cardinality({h \in I : h <= i})

(* In a finite set of integers every place has a rank, and each rank from  *)
(* 1 to the size of the set is taken once.                                 *)
LEMMA RankBijective ==
  ASSUME NEW I \in SUBSET Int, IsFiniteSet(I)
  PROVE  /\ \A i \in I : Rank(I, i) \in 1..Cardinality(I)
         /\ \A i, j \in I : Rank(I, i) = Rank(I, j) => i = j
         /\ \A n \in 1..Cardinality(I) : \E i \in I : Rank(I, i) = n
<1> DEFINE upTo(i) == {h \in I : h <= i}
           rank == [i \in I |-> Rank(I, i)]
<1>1. \A i \in I : IsFiniteSet(upTo(i)) /\ Cardinality(upTo(i)) \in Nat
  BY FS_Subset, FS_CardinalityType
<1>2. \A i \in I : Rank(I, i) \in 1..Cardinality(I)
  <2> SUFFICES ASSUME NEW i \in I PROVE Rank(I, i) \in 1..Cardinality(I)
    OBVIOUS
  <2>1. Cardinality(upTo(i)) <= Cardinality(I)
    BY FS_Subset
  <2>2. i \in upTo(i)
    OBVIOUS
  <2>3. Cardinality(upTo(i)) # 0
    BY <2>2, <1>1, FS_EmptySet
  <2> QED
    BY <1>1, <2>1, <2>3, FS_CardinalityType DEF Rank
<1>3. ASSUME NEW i \in I, NEW j \in I, i < j PROVE Rank(I, i) < Rank(I, j)
  <2>1. Cardinality(upTo(i) \cup {j}) = Cardinality(upTo(i)) + 1
    BY <1>1, <1>3, FS_AddElement
  <2>2. Cardinality(upTo(i) \cup {j}) <= Cardinality(upTo(j))
    <3>0. /\ i \in Int /\ j \in Int /\ i < j
          /\ \A h \in I : h \in Int
      BY <1>3
    <3>1. upTo(i) \cup {j} \subseteq upTo(j)
      <4>1. \A h \in I : h <= i => h <= j
        BY <3>0
      <4>2. j <= j
        BY <3>0
      <4> QED
        BY <4>1, <4>2
    <3> QED
      BY <1>1, <3>1, FS_Subset
  <2> QED
    BY <1>1, <2>1, <2>2 DEF Rank
<1>4. \A i, j \in I : Rank(I, i) = Rank(I, j) => i = j
  <2> SUFFICES ASSUME NEW i \in I, NEW j \in I, Rank(I, i) = Rank(I, j) PROVE i = j
    OBVIOUS
  <2>1. Rank(I, i) \in Int
    BY <1>2, FS_CardinalityType
  <2> QED
    BY <1>3, <2>1
<1>5. rank \in Injection(I, 1..Cardinality(I))
  <2>1. rank \in [I -> 1..Cardinality(I)]
    BY <1>2
  <2> QED
    BY <1>4, <2>1, Fun_IsInj
<1>6. rank \in Surjection(I, 1..Cardinality(I))
  <2>1. Cardinality(I) \in Nat
    BY FS_CardinalityType
  <2>2. IsFiniteSet(1..Cardinality(I)) /\ Cardinality(1..Cardinality(I)) = Cardinality(I)
    BY <2>1, FS_Interval
  <2> QED
    BY <1>5, <2>2, FS_Injection
<1>7. \A i \in I : rank[i] = Rank(I, i)
  OBVIOUS
<1> HIDE DEF rank
<1>8. \A n \in 1..Cardinality(I) : \E i \in I : rank[i] = n
  BY <1>6, Fun_SurjectionProperties
<1> QED
  BY <1>2, <1>4, <1>7, <1>8

(* Dropping members keeps the list a list, of what is left of it, and      *)
(* repeats nothing that was not repeated.                                  *)
LEMMA WithoutProperties ==
  ASSUME NEW A, NEW s \in Seq(A), NEW S
  PROVE  /\ Without(s, S) \in Seq(A)
         /\ Elements(Without(s, S)) = Elements(s) \ S
         /\ Distinct(s) => Distinct(Without(s, S))
<1> DEFINE kept == {i \in DOMAIN s : s[i] \notin S}
           nth(n) == CHOOSE i \in kept : Rank(kept, i) = n
           N == Cardinality(kept)
<1>1. DOMAIN s = 1..Len(s) /\ Len(s) \in Nat /\ \A i \in DOMAIN s : s[i] \in A
  BY LenProperties, ElementOfSeq
<1>2. kept \in SUBSET Int /\ IsFiniteSet(kept) /\ N \in Nat
  <2>1. IsFiniteSet(DOMAIN s)
    BY <1>1, FS_Interval
  <2>2. kept \subseteq DOMAIN s
    OBVIOUS
  <2>3. DOMAIN s \subseteq Int
    BY <1>1
  <2> QED
    BY <2>1, <2>2, <2>3, FS_Subset, FS_CardinalityType
<1> HIDE DEF kept
<1>3. \A n \in 1..N : nth(n) \in kept /\ Rank(kept, nth(n)) = n
  <2> SUFFICES ASSUME NEW n \in 1..N PROVE nth(n) \in kept /\ Rank(kept, nth(n)) = n
    OBVIOUS
  <2>1. \E i \in kept : Rank(kept, i) = n
    BY <1>2, RankBijective
  <2> QED
    BY <2>1
<1> HIDE DEF nth
<1>4. \A i \in kept : \E n \in 1..N : nth(n) = i
  <2> SUFFICES ASSUME NEW i \in kept PROVE nth(Rank(kept, i)) = i /\ Rank(kept, i) \in 1..N
    OBVIOUS
  <2>1. Rank(kept, i) \in 1..N
    BY <1>2, RankBijective
  <2>2. \A a, b \in kept : Rank(kept, a) = Rank(kept, b) => a = b
    BY <1>2, RankBijective
  <2>3. nth(Rank(kept, i)) \in kept /\ Rank(kept, nth(Rank(kept, i))) = Rank(kept, i)
    BY <1>3, <2>1
  <2> QED
    BY <2>1, <2>2, <2>3
<1>5. Without(s, S) = [n \in 1..N |-> s[nth(n)]]
  BY DEF Without, kept, nth, Rank
<1>6. DOMAIN Without(s, S) = 1..N /\ \A n \in 1..N : Without(s, S)[n] = s[nth(n)]
  BY <1>5
<1>7. \A i \in kept : i \in DOMAIN s /\ s[i] \notin S
  BY DEF kept
<1>8. Without(s, S) \in Seq(A)
  <2>1. \A n \in 1..N : s[nth(n)] \in A
    BY <1>1, <1>3, <1>7
  <2> QED
    BY <1>2, <1>5, <2>1, IsASeq
<1>9. Elements(Without(s, S)) \subseteq Elements(s) \ S
  BY <1>3, <1>6, <1>7 DEF Elements
<1>10. Elements(s) \ S \subseteq Elements(Without(s, S))
  <2> SUFFICES ASSUME NEW i \in DOMAIN s, s[i] \notin S
               PROVE  \E n \in 1..N : Without(s, S)[n] = s[i]
    BY <1>6 DEF Elements
  <2>1. i \in kept
    BY DEF kept
  <2> QED
    BY <1>4, <1>6, <2>1
<1>11. Distinct(s) => Distinct(Without(s, S))
  BY <1>3, <1>6, <1>7 DEF Distinct
<1> QED
  BY <1>8, <1>9, <1>10, <1>11

(* Append() adds one member, which may be new.                             *)
LEMMA AppendElements ==
  ASSUME NEW A, NEW s \in Seq(A), NEW e \in A
  PROVE  /\ Append(s, e) \in Seq(A)
         /\ Elements(Append(s, e)) = Elements(s) \cup {e}
         /\ Distinct(s) /\ e \notin Elements(s) => Distinct(Append(s, e))
<1> DEFINE t == Append(s, e)
<1>1. /\ Len(s) \in Nat /\ DOMAIN s = 1..Len(s)
      /\ t \in Seq(A) /\ DOMAIN t = 1..(Len(s) + 1)
      /\ \A i \in 1..Len(s) : t[i] = s[i]
      /\ t[Len(s) + 1] = e
  BY LenProperties, AppendProperties
<1> HIDE DEF t
<1>2. Elements(t) = Elements(s) \cup {e}
  <2>1. \A i \in 1..(Len(s) + 1) : i \in 1..Len(s) \/ i = Len(s) + 1
    BY <1>1
  <2>2. 1..Len(s) \subseteq 1..(Len(s) + 1) /\ Len(s) + 1 \in 1..(Len(s) + 1)
    BY <1>1
  <2> QED
    BY <1>1, <2>1, <2>2, Zenon DEF Elements
<1>3. ASSUME Distinct(s), e \notin Elements(s) PROVE Distinct(t)
  <2> SUFFICES ASSUME NEW i \in DOMAIN t, NEW j \in DOMAIN t, t[i] = t[j] PROVE i = j
    BY DEF Distinct
  <2>1. i \in DOMAIN s \/ i = Len(s) + 1
    BY <1>1
  <2>2. j \in DOMAIN s \/ j = Len(s) + 1
    BY <1>1
  <2> QED
    BY <1>1, <1>3, <2>1, <2>2 DEF Distinct, Elements
<1> QED
  BY <1>1, <1>2, <1>3 DEF t

(* Dropping the first n of a list leaves its other members.                *)
LEMMA DropFirst ==
  ASSUME NEW A, NEW s \in Seq(A), NEW n \in Nat
  PROVE  LET t == SubSeq(s, n + 1, Len(s))
         IN  /\ t \in Seq(A)
             /\ Elements(t) \subseteq Elements(s)
             /\ \A i \in DOMAIN s : i > n => s[i] \in Elements(t)
             /\ Distinct(s) => /\ Distinct(t)
                               /\ \A i \in DOMAIN s : i <= n => s[i] \notin Elements(t)
<1> DEFINE t == SubSeq(s, n + 1, Len(s))
<1>1. DOMAIN s = 1..Len(s) /\ Len(s) \in Nat /\ \A i \in DOMAIN s : s[i] \in A
  BY LenProperties, ElementOfSeq
<1>2. \A i \in (n + 1)..Len(s) : s[i] \in A
  BY <1>1
<1>3. /\ t \in Seq(A)
      /\ Len(t) = IF n + 1 <= Len(s) THEN Len(s) - n ELSE 0
      /\ \A i \in 1..(Len(s) - n) : t[i] = s[n + i]
  BY <1>1, <1>2, SubSeqProperties
<1>4. DOMAIN t = 1..Len(t)
  BY <1>3, LenProperties
<1> HIDE DEF t
<1>5. \A i \in DOMAIN t : n + i \in DOMAIN s /\ t[i] = s[n + i] /\ i \in Nat \ {0}
  <2> SUFFICES ASSUME NEW i \in DOMAIN t
               PROVE  n + i \in DOMAIN s /\ t[i] = s[n + i] /\ i \in Nat \ {0}
    OBVIOUS
  <2>1. i \in 1..Len(t) /\ Len(t) \in Nat
    BY <1>3, <1>4, LenProperties
  <2>2. n + 1 <= Len(s) /\ i \in 1..(Len(s) - n)
    <3>1. Len(t) # 0 /\ Len(s) \in Nat /\ i \in Nat \ {0} /\ i <= Len(t)
      BY <1>1, <2>1
    <3>2. n + 1 <= Len(s)
      BY <1>3, <3>1
    <3>3. Len(t) = Len(s) - n
      BY <1>3, <3>2
    <3> QED
      BY <3>1, <3>2, <3>3
  <2> QED
    BY <1>1, <1>3, <2>2
<1>6. Elements(t) \subseteq Elements(s)
  BY <1>5 DEF Elements
<1>7. ASSUME Distinct(s) PROVE Distinct(t)
  <2> SUFFICES ASSUME NEW i \in DOMAIN t, NEW j \in DOMAIN t, t[i] = t[j] PROVE i = j
    BY DEF Distinct
  <2>1. n + i = n + j
    BY <1>5, <1>7 DEF Distinct
  <2> QED
    BY <1>5, <2>1
<1>8. ASSUME Distinct(s), NEW i \in DOMAIN s, i <= n PROVE s[i] \notin Elements(t)
  <2> SUFFICES ASSUME NEW j \in DOMAIN t, t[j] = s[i] PROVE FALSE
    BY DEF Elements
  <2>1. i = n + j
    BY <1>5, <1>8 DEF Distinct
  <2> QED
    BY <1>1, <1>5, <1>8, <2>1
<1>9. ASSUME NEW i \in DOMAIN s, i > n PROVE s[i] \in Elements(t)
  <2> DEFINE j == i - n
  <2>1. j \in Nat /\ n + 1 <= Len(s) /\ j \in 1..(Len(s) - n)
    BY <1>1, <1>9
  <2>2. j \in DOMAIN t /\ t[j] = s[n + j] /\ n + j = i
    BY <1>1, <1>3, <1>4, <2>1
  <2> QED
    BY <2>2 DEF Elements
<1> QED
  BY <1>3, <1>6, <1>7, <1>8, <1>9 DEF t

(* Tail() takes the first member away and moves the others up.             *)
LEMMA TailElements ==
  ASSUME NEW A, NEW s \in Seq(A), s # <<>>
  PROVE  /\ Tail(s) \in Seq(A)
         /\ DOMAIN Tail(s) \subseteq Nat \ {0}
         /\ \A i \in DOMAIN Tail(s) : i + 1 \in DOMAIN s /\ Tail(s)[i] = s[i + 1]
         /\ Head(s) = s[1] /\ 1 \in DOMAIN s
<1>1. DOMAIN s = 1..Len(s) /\ Len(s) \in Nat \ {0}
  BY LenProperties, EmptySeq
<1>2. Tail(s) \in Seq(A) /\ Len(Tail(s)) = Len(s) - 1
      /\ \A i \in 1..Len(Tail(s)) : Tail(s)[i] = s[i + 1]
  BY HeadTailProperties
<1>3. DOMAIN Tail(s) = 1..Len(Tail(s))
  BY <1>2, LenProperties
<1>4. \A i \in DOMAIN Tail(s) : i \in Nat \ {0} /\ i + 1 \in DOMAIN s
  BY <1>1, <1>2, <1>3
<1>5. Head(s) = s[1]
  OBVIOUS
<1> QED
  BY <1>1, <1>2, <1>3, <1>4, <1>5

-----------------------------------------------------------------------------
(* The order of what Without leaves.                                       *)

(* p lists, in their order, the n places of s whose members are not in S.  *)
Picks(p, n, s, S) ==
  /\ n \in Nat /\ p \in [1..n -> DOMAIN s]
  /\ \A i, j \in 1..n : i < j => p[i] < p[j]
  /\ \A i \in 1..n : s[p[i]] \notin S
  /\ \A h \in DOMAIN s : s[h] \notin S => \E i \in 1..n : p[i] = h

LEMMA ListedSize ==
  ASSUME NEW n \in Nat, NEW T, NEW f \in [1..n -> T],
         \A i, j \in 1..n : f[i] = f[j] => i = j,
         \A t \in T : \E i \in 1..n : f[i] = t
  PROVE  IsFiniteSet(T) /\ Cardinality(T) = n
<1>1. IsFiniteSet(1..n) /\ Cardinality(1..n) = n
  BY FS_Interval
<1>2. f \in Injection(1..n, T) /\ f \in Surjection(1..n, T)
  BY Fun_IsInj, Fun_IsSurj
<1> QED
  BY <1>1, <1>2, FS_Surjection

(* There is one such list, and Without reads s along it.                   *)
LEMMA WithoutIs ==
  ASSUME NEW A, NEW s \in Seq(A), NEW S, NEW n, NEW p, Picks(p, n, s, S)
  PROVE  Without(s, S) = [i \in 1..n |-> s[p[i]]]
<1> DEFINE kept == {i \in DOMAIN s : s[i] \notin S}
           nth(m) == CHOOSE i \in kept : Rank(kept, i) = m
<1>1. /\ n \in Nat /\ p \in [1..n -> kept]
      /\ \A i, j \in 1..n : i < j => p[i] < p[j]
      /\ \A h \in kept : \E i \in 1..n : p[i] = h
  BY DEF Picks
<1>2. kept \subseteq Int
  BY LenProperties
<1> HIDE DEF kept
<1>3. \A i, j \in 1..n : p[i] <= p[j] <=> i <= j
  <2> SUFFICES ASSUME NEW i \in 1..n, NEW j \in 1..n PROVE p[i] <= p[j] <=> i <= j
    OBVIOUS
  <2>1. p[i] \in Int /\ p[j] \in Int
    BY <1>1, <1>2
  <2> QED
    BY <1>1, <2>1
<1>4. \A i, j \in 1..n : p[i] = p[j] => i = j
  BY <1>1, <1>2, <1>3
<1>5. IsFiniteSet(kept) /\ Cardinality(kept) = n
  BY <1>1, <1>4, ListedSize
<1>6. ASSUME NEW i \in 1..n PROVE Rank(kept, p[i]) = i
  <2> DEFINE T == {h \in kept : h <= p[i]}
             f == [j \in 1..i |-> p[j]]
  <2>1. f \in [1..i -> T] /\ i \in Nat
    BY <1>1, <1>3
  <2>2. \A t \in T : \E j \in 1..i : f[j] = t
    <3> SUFFICES ASSUME NEW t \in T PROVE \E j \in 1..i : f[j] = t
      OBVIOUS
    <3>1. PICK j \in 1..n : p[j] = t
      BY <1>1
    <3>2. j \in 1..i
      BY <1>3, <3>1
    <3> QED
      BY <3>1, <3>2
  <2>3. \A a, b \in 1..i : f[a] = f[b] => a = b
    <3>1. \A a \in 1..i : a \in 1..n /\ f[a] = p[a]
      BY <1>1
    <3> QED
      BY <1>4, <3>1
  <2> HIDE DEF f, T
  <2>4. Cardinality(T) = i
    BY <2>1, <2>2, <2>3, ListedSize
  <2> QED
    BY <2>4 DEF Rank, T
<1>7. ASSUME NEW i \in 1..n PROVE nth(i) = p[i]
  <2>1. p[i] \in kept /\ Rank(kept, p[i]) = i
    BY <1>1, <1>6
  <2>2. \A a, b \in kept : Rank(kept, a) = Rank(kept, b) => a = b
    BY <1>2, <1>5, RankBijective
  <2> QED
    BY <2>1, <2>2
<1>8. Without(s, S) = [i \in 1..Cardinality(kept) |-> s[nth(i)]]
  BY DEF Without, kept, nth, Rank
<1> HIDE DEF nth
<1> QED
  BY <1>5, <1>7, <1>8

LEMMA WithoutPicks ==
  ASSUME NEW A, NEW s \in Seq(A), NEW S
  PROVE  \E n, p : Picks(p, n, s, S) /\ Without(s, S) = [i \in 1..n |-> s[p[i]]]
<1> DEFINE kept == {i \in DOMAIN s : s[i] \notin S}
           n == Cardinality(kept)
           p == [m \in 1..n |-> CHOOSE i \in kept : Rank(kept, i) = m]
<1>1. kept \in SUBSET Int /\ IsFiniteSet(kept) /\ n \in Nat
  <2>1. DOMAIN s = 1..Len(s) /\ Len(s) \in Nat
    BY LenProperties
  <2>2. IsFiniteSet(DOMAIN s) /\ DOMAIN s \subseteq Int /\ kept \subseteq DOMAIN s
    BY <2>1, FS_Interval
  <2> QED
    BY <2>2, FS_Subset, FS_CardinalityType
<1>2. \A i \in kept : i \in DOMAIN s /\ s[i] \notin S
  OBVIOUS
<1>3. \A i \in DOMAIN s : s[i] \notin S => i \in kept
  OBVIOUS
<1> HIDE DEF kept
<1>4. ASSUME NEW m \in 1..n PROVE p[m] \in kept /\ Rank(kept, p[m]) = m
  <2>1. \E i \in kept : Rank(kept, i) = m
    BY <1>1, RankBijective
  <2> QED
    BY <2>1
<1>5. p \in [1..n -> DOMAIN s]
  <2>1. p \in [1..n -> kept]
    BY <1>4
  <2> QED
    BY <1>2, <2>1
<1> HIDE DEF p
<1>6. ASSUME NEW i \in 1..n, NEW j \in 1..n, i < j PROVE p[i] < p[j]
  <2>1. p[i] \in Int /\ p[j] \in Int
    BY <1>1, <1>4
  <2> SUFFICES ASSUME p[j] <= p[i] PROVE FALSE
    BY <2>1
  <2>2. IsFiniteSet({h \in kept : h <= p[i]})
    BY <1>1, FS_Subset
  <2>3. {h \in kept : h <= p[j]} \subseteq {h \in kept : h <= p[i]}
    <3>1. \A h \in kept : h \in Int /\ (h <= p[j] => h <= p[i])
      BY <1>1, <2>1
    <3> QED
      BY <3>1
  <2>4. Rank(kept, p[j]) <= Rank(kept, p[i])
    BY <2>2, <2>3, FS_Subset DEF Rank
  <2> QED
    BY <1>4, <1>6, <2>4
<1>7. \A h \in kept : \E i \in 1..n : p[i] = h
  <2> SUFFICES ASSUME NEW h \in kept PROVE \E i \in 1..n : p[i] = h
    OBVIOUS
  <2>1. Rank(kept, h) \in 1..n
    BY <1>1, RankBijective
  <2>2. p[Rank(kept, h)] \in kept /\ Rank(kept, p[Rank(kept, h)]) = Rank(kept, h)
    BY <1>4, <2>1
  <2>3. \A a, b \in kept : Rank(kept, a) = Rank(kept, b) => a = b
    BY <1>1, RankBijective
  <2> QED
    BY <2>1, <2>2, <2>3
<1>8. Picks(p, n, s, S)
  BY <1>1, <1>2, <1>3, <1>4, <1>5, <1>6, <1>7 DEF Picks
<1>9. Without(s, S) = [i \in 1..n |-> s[p[i]]]
  BY <1>8, WithoutIs
<1> QED
  BY <1>8, <1>9

LEMMA WithoutNone ==
  ASSUME NEW A, NEW s \in Seq(A), NEW S, \A e \in Elements(s) : e \notin S
  PROVE  Without(s, S) = s
<1> DEFINE p == [i \in 1..Len(s) |-> i]
<1>1. DOMAIN s = 1..Len(s) /\ Len(s) \in Nat
  BY LenProperties
<1>2. Picks(p, Len(s), s, S)
  BY <1>1 DEF Picks, Elements
<1>3. Without(s, S) = [i \in 1..Len(s) |-> s[i]]
  <2>1. Without(s, S) = [i \in 1..Len(s) |-> s[p[i]]]
    BY <1>2, WithoutIs
  <2> QED
    BY <2>1
<1>4. s = [i \in DOMAIN s |-> s[i]]
  BY SeqDef
<1> QED
  BY <1>1, <1>3, <1>4

LEMMA WithoutOne ==
  ASSUME NEW A, NEW s \in Seq(A), Distinct(s), NEW k \in DOMAIN s
  PROVE  Without(s, {s[k]}) = [i \in 1..(Len(s) - 1) |-> IF i < k THEN s[i] ELSE s[i + 1]]
<1> DEFINE n == Len(s) - 1
           p == [i \in 1..n |-> IF i < k THEN i ELSE i + 1]
<1>1. DOMAIN s = 1..Len(s) /\ Len(s) \in Nat /\ k \in 1..Len(s) /\ n \in Nat
  BY LenProperties
<1>2. \A i \in 1..n : p[i] \in DOMAIN s /\ p[i] # k
  BY <1>1
<1>3. p \in [1..n -> DOMAIN s]
  BY <1>2
<1>4. \A i, j \in 1..n : i < j => p[i] < p[j]
  BY <1>1
<1>5. \A h \in DOMAIN s : h # k => \E i \in 1..n : p[i] = h
  <2> SUFFICES ASSUME NEW h \in DOMAIN s, h # k PROVE \E i \in 1..n : p[i] = h
    OBVIOUS
  <2>1. CASE h < k
    <3>1. h \in 1..n /\ p[h] = h
      BY <1>1, <2>1
    <3> QED
      BY <3>1
  <2>2. CASE h > k
    <3>1. h - 1 \in 1..n /\ p[h - 1] = h
      BY <1>1, <2>2
    <3> QED
      BY <3>1
  <2> QED
    BY <1>1, <2>1, <2>2
<1>6. \A i \in 1..n : s[p[i]] = IF i < k THEN s[i] ELSE s[i + 1]
  OBVIOUS
<1> HIDE DEF p
<1>7. \A i \in 1..n : s[p[i]] \notin {s[k]}
  BY <1>2 DEF Distinct
<1>8. Picks(p, n, s, {s[k]})
  BY <1>1, <1>3, <1>4, <1>5, <1>7 DEF Picks
<1>9. Without(s, {s[k]}) = [i \in 1..n |-> s[p[i]]]
  BY <1>8, WithoutIs
<1> QED
  BY <1>6, <1>9

LEMMA WithoutTwice ==
  ASSUME NEW A, NEW s \in Seq(A), NEW S, NEW T
  PROVE  Without(Without(s, S), T) = Without(s, S \union T)
<1> DEFINE r == Without(s, S)
<1>1. PICK n, p : Picks(p, n, s, S) /\ r = [i \in 1..n |-> s[p[i]]]
  BY WithoutPicks
<1>2. r \in Seq(A)
  BY WithoutProperties
<1>d. DOMAIN r = 1..n /\ \A i \in 1..n : r[i] = s[p[i]]
  BY <1>1
<1>3. PICK m, q : Picks(q, m, r, T) /\ Without(r, T) = [i \in 1..m |-> r[q[i]]]
  BY <1>2, WithoutPicks
<1> HIDE DEF r
<1> DEFINE u == [i \in 1..m |-> p[q[i]]]
<1>4. /\ n \in Nat /\ m \in Nat /\ p \in [1..n -> DOMAIN s] /\ q \in [1..m -> 1..n]
      /\ \A i, j \in 1..n : i < j => p[i] < p[j]
      /\ \A i, j \in 1..m : i < j => q[i] < q[j]
  BY <1>1, <1>d, <1>3 DEF Picks
<1>5. u \in [1..m -> DOMAIN s] /\ \A i \in 1..m : u[i] = p[q[i]]
  BY <1>4
<1> HIDE DEF u
<1>6. \A i, j \in 1..m : i < j => u[i] < u[j]
  BY <1>4, <1>5
<1>7. \A i \in 1..m : s[u[i]] \notin S \union T
  BY <1>1, <1>d, <1>3, <1>4, <1>5 DEF Picks
<1>8. ASSUME NEW h \in DOMAIN s, s[h] \notin S \union T PROVE \E i \in 1..m : u[i] = h
  <2>1. PICK j \in 1..n : p[j] = h
    BY <1>1, <1>8 DEF Picks
  <2>2. PICK i \in 1..m : q[i] = j
    BY <1>d, <1>3, <1>8, <2>1 DEF Picks
  <2> QED
    BY <1>5, <2>1, <2>2
<1>w. PICK W : W = S \union T
  OBVIOUS
<1>9. Picks(u, m, s, W)
  BY <1>4, <1>5, <1>6, <1>7, <1>8, <1>w DEF Picks
<1>10. Without(s, W) = [i \in 1..m |-> s[u[i]]]
  BY <1>9, WithoutIs
<1>11. \A i \in 1..m : r[q[i]] = s[u[i]]
  BY <1>d, <1>4, <1>5
<1> QED
  BY <1>3, <1>10, <1>11, <1>w DEF r

(* A set of integers that is finite and not empty has a least member.      *)
LEMMA Least ==
  ASSUME NEW I \in SUBSET Int, IsFiniteSet(I), I # {}
  PROVE  \E i \in I : \A j \in I : i <= j
<1>1. Cardinality(I) \in Nat /\ Cardinality(I) # 0
  BY FS_CardinalityType, FS_EmptySet
<1>2. PICK i \in I : Rank(I, i) = 1
  BY <1>1, RankBijective
<1>3. IsFiniteSet({h \in I : h <= i})
  BY FS_Subset
<1>4. ASSUME NEW j \in I, ~(i <= j) PROVE FALSE
  <2> DEFINE U == {h \in I : h <= i}
  <2>1. {i, j} \subseteq U /\ i # j
    <3>1. j \in Int /\ i \in Int
      OBVIOUS
    <3> QED
      BY <1>4, <3>1
  <2>2. Cardinality({i, j}) = 2
    <3>1. Cardinality({i}) = 1 /\ IsFiniteSet({i})
      BY FS_Singleton
    <3>2. Cardinality({i} \union {j}) = Cardinality({i}) + 1
      BY <2>1, <3>1, FS_AddElement
    <3>3. {i} \union {j} = {i, j}
      OBVIOUS
    <3> QED
      BY <3>1, <3>2, <3>3
  <2>3. Cardinality({i, j}) <= Cardinality(U)
    BY <1>3, <2>1, FS_Subset
  <2> QED
    BY <1>2, <2>2, <2>3 DEF Rank
<1> QED
  BY <1>4
=============================================================================
