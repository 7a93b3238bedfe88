---------------------------- MODULE DequeProofs ----------------------------
(* Facts about selecting and reordering the elements of a queue: what a     *)
(* retain or a sort returns consists of the elements it was given, each of  *)
(* them once.                                                               *)
EXTENDS Deque, FunctionTheorems, FiniteSetTheorems, TLAPS

\* A sort key: distinct integers on finitely many indices.
IsKey(key, D) ==
    /\ IsFiniteSet(D) /\ DOMAIN key = D
    /\ \A i \in D : key[i] \in Int
    /\ \A i, j \in D : key[i] = key[j] => i = j

\* The rank of an index is how many keys are no larger than its own.
Rank(key, D) == [i \in D |-> Cardinality({j \in D : key[j] <= key[i]})]

\* Ranks are distinct numbers from 1 to the number of indices: counting smaller
\* keys separates any two of them.
LEMMA RankInjection ==
    ASSUME NEW D, NEW key, IsKey(key, D)
    PROVE  Rank(key, D) \in Injection(D, 1..Cardinality(D))
<1> DEFINE Below(i) == {j \in D : key[j] <= key[i]}
<1>1. ASSUME NEW i \in D
      PROVE  Cardinality(Below(i)) \in 1..Cardinality(D)
  <2>1. IsFiniteSet(Below(i)) /\ Cardinality(Below(i)) <= Cardinality(D)
    <3>1. Below(i) \in SUBSET D
      OBVIOUS
    <3> QED BY <3>1, FS_Subset DEF IsKey
  <2>2. Cardinality(Below(i)) \in Nat /\ Cardinality(D) \in Nat
    BY <2>1, FS_CardinalityType DEF IsKey
  <2>3. i \in Below(i)
    BY DEF IsKey
  <2>4. Cardinality(Below(i)) # 0
    BY <2>1, <2>3, FS_EmptySet
  <2> QED BY <2>1, <2>2, <2>4
<1>2. ASSUME NEW i \in D, NEW j \in D, key[i] < key[j]
      PROVE  Cardinality(Below(i)) # Cardinality(Below(j))
  <2>1. IsFiniteSet(Below(j))
    <3>1. Below(j) \in SUBSET D
      OBVIOUS
    <3> QED BY <3>1, FS_Subset DEF IsKey
  <2>2. Below(i) \in SUBSET Below(j)
    BY <1>2 DEF IsKey
  <2>3. j \in Below(j) /\ j \notin Below(i)
    BY <1>2 DEF IsKey
  <2>4. Below(i) # Below(j)
    BY <2>3
  <2> QED BY <2>1, <2>2, <2>4, FS_Subset
<1>3. ASSUME NEW i \in D, NEW j \in D,
             Cardinality(Below(i)) = Cardinality(Below(j))
      PROVE  i = j
  <2>1. key[i] < key[j] \/ key[j] < key[i] \/ key[i] = key[j]
    BY DEF IsKey
  <2> QED BY <1>2, <1>3, <2>1 DEF IsKey
<1>4. Rank(key, D) \in [D -> 1..Cardinality(D)]
  BY <1>1 DEF Rank
<1>5. \A i, j \in D : Rank(key, D)[i] = Rank(key, D)[j] => i = j
  BY <1>3 DEF Rank
<1> QED BY <1>4, <1>5 DEF Injection, IsInjective

\* Every rank from 1 to the number of indices is taken, by the index Nth names.
LEMMA NthRank ==
    ASSUME NEW D, NEW key, IsKey(key, D), NEW k \in 1..Cardinality(D)
    PROVE  Nth(key, k) \in D /\ Rank(key, D)[Nth(key, k)] = k
<1>1. Cardinality(D) \in Nat
  BY FS_CardinalityType DEF IsKey
<1>2. IsFiniteSet(1..Cardinality(D)) /\ Cardinality(1..Cardinality(D)) = Cardinality(D)
  BY <1>1, FS_Interval
<1>3. Rank(key, D) \in Surjection(D, 1..Cardinality(D))
  BY <1>2, RankInjection, FS_Injection
<1>4. PICK i \in D : Rank(key, D)[i] = k
  BY <1>3 DEF Surjection
<1>5. Cardinality({j \in DOMAIN key : key[j] <= key[i]}) = k
  BY <1>4 DEF Rank, IsKey
<1>6. /\ Nth(key, k) \in DOMAIN key
      /\ Cardinality({j \in DOMAIN key : key[j] <= key[Nth(key, k)]}) = k
  BY <1>5 DEF Nth, IsKey
<1> QED BY <1>6 DEF Rank, IsKey

\* Different ranks name different indices.
LEMMA NthDistinct ==
    ASSUME NEW D, NEW key, IsKey(key, D),
           NEW k \in 1..Cardinality(D), NEW l \in 1..Cardinality(D),
           Nth(key, k) = Nth(key, l)
    PROVE  k = l
  BY NthRank

\* Every index is named by its rank.
LEMMA NthOnto ==
    ASSUME NEW D, NEW key, IsKey(key, D), NEW i \in D
    PROVE  \E k \in 1..Cardinality(D) : Nth(key, k) = i
<1> DEFINE k == Rank(key, D)[i]
<1>1. Rank(key, D) \in Injection(D, 1..Cardinality(D))
  BY RankInjection
<1>2. k \in 1..Cardinality(D)
  BY <1>1 DEF Injection
<1>3. Nth(key, k) \in D /\ Rank(key, D)[Nth(key, k)] = k
  BY <1>2, NthRank
<1>4. Nth(key, k) = i
  BY <1>1, <1>3 DEF Injection, IsInjective
<1> QED BY <1>2, <1>4

\* A reordered selection of a sequence is a sequence of the same elements.
LEMMA ArrangeType ==
    ASSUME NEW S, NEW s \in Seq(S), NEW D, NEW key, IsKey(key, D), D \subseteq DOMAIN s
    PROVE  /\ Arrange(s, key) \in Seq(S)
           /\ Len(Arrange(s, key)) = Cardinality(D)
           /\ DOMAIN Arrange(s, key) = 1..Cardinality(D)
<1>1. Cardinality(D) \in Nat
  BY FS_CardinalityType DEF IsKey
<1>2. DOMAIN key = D
  BY DEF IsKey
<1>3. \A k \in 1..Cardinality(D) : s[Nth(key, k)] \in S
  BY NthRank
<1> QED BY <1>1, <1>2, <1>3 DEF Arrange

\* A set of indices, each its own key.
LEMMA IndexKey ==
    ASSUME NEW S, NEW s \in Seq(S), NEW I \in SUBSET DOMAIN s
    PROVE  IsKey([i \in I |-> i], I)
<1>1. IsFiniteSet(DOMAIN s)
  BY FS_Interval
<1>2. IsFiniteSet(I)
  BY <1>1, FS_Subset
<1>3. \A i \in I : i \in Int
  OBVIOUS
<1> QED BY <1>2, <1>3 DEF IsKey

\* VecDeque::retain returns a queue of messages it was given.
LEMMA KeepType ==
    ASSUME NEW S, NEW s \in Seq(S), NEW I \in SUBSET DOMAIN s
    PROVE  /\ Keep(s, I) \in Seq(S)
           /\ DOMAIN Keep(s, I) = 1..Cardinality(I)
<1>1. IsKey([i \in I |-> i], I)
  BY IndexKey
<1> QED BY <1>1, ArrangeType DEF Keep

\* t lists the elements of s at the indices D, each once: f says from where.
Lists(t, s, D, f) ==
    /\ f \in [DOMAIN t -> D]
    /\ \A k \in DOMAIN t : t[k] = s[f[k]]
    /\ \A k, l \in DOMAIN t : f[k] = f[l] => k = l
    /\ \A i \in D : \E k \in DOMAIN t : f[k] = i

\* A stable sort or a selection lists the chosen elements.
LEMMA ArrangeLists ==
    ASSUME NEW S, NEW s \in Seq(S), NEW D, NEW key, IsKey(key, D), D \subseteq DOMAIN s
    PROVE  \E f : Lists(Arrange(s, key), s, D, f)
<1> DEFINE n == Cardinality(D)
           f == [k \in 1..n |-> Nth(key, k)]
<1>1. DOMAIN Arrange(s, key) = 1..n
  BY ArrangeType
<1>2. f \in [1..n -> D]
  BY NthRank
<1>3. \A k \in 1..n : Arrange(s, key)[k] = s[f[k]]
  BY DEF Arrange, IsKey
<1>4. \A k, l \in 1..n : f[k] = f[l] => k = l
  BY NthDistinct
<1>5. \A i \in D : \E k \in 1..n : f[k] = i
  BY NthOnto
<1> HIDE DEF f, n
<1>6. Lists(Arrange(s, key), s, D, f)
  BY <1>1, <1>2, <1>3, <1>4, <1>5 DEF Lists
<1> QED BY <1>6

\* VecDeque::retain lists exactly the chosen elements.
LEMMA KeepLists ==
    ASSUME NEW S, NEW s \in Seq(S), NEW I \in SUBSET DOMAIN s
    PROVE  \E f : Lists(Keep(s, I), s, I, f)
<1>1. IsKey([i \in I |-> i], I)
  BY IndexKey
<1> QED BY <1>1, ArrangeLists DEF Keep

\* Each element of a concatenation is one of its two parts'.
LEMMA ConcatIndices ==
    ASSUME NEW S, NEW s \in Seq(S), NEW u \in Seq(S)
    PROVE  /\ s \o u \in Seq(S)
           /\ \A i \in DOMAIN s : i \in DOMAIN (s \o u) /\ (s \o u)[i] = s[i]
           /\ \A i \in DOMAIN u : Len(s) + i \in DOMAIN (s \o u) /\ (s \o u)[Len(s) + i] = u[i]
           /\ \A k \in DOMAIN (s \o u) :
                 k \in DOMAIN s \/ (k - Len(s) \in DOMAIN u /\ k \notin DOMAIN s)
           /\ Len(s) \in Nat /\ DOMAIN s = 1..Len(s) /\ DOMAIN u = 1..Len(u) /\ Len(u) \in Nat
  OBVIOUS

\* Ranks grow with the keys.
LEMMA NthIncreasing ==
    ASSUME NEW D, NEW key, IsKey(key, D),
           NEW k \in 1..Cardinality(D), NEW l \in 1..Cardinality(D), k < l
    PROVE  key[Nth(key, k)] < key[Nth(key, l)]
<1> DEFINE i == Nth(key, k)
           j == Nth(key, l)
           Below(x) == {y \in D : key[y] <= key[x]}
<1>1. i \in D /\ j \in D /\ Rank(key, D)[i] = k /\ Rank(key, D)[j] = l
  BY NthRank
<1>2. Cardinality(Below(i)) = k /\ Cardinality(Below(j)) = l
  BY <1>1 DEF Rank
<1>3. key[i] \in Int /\ key[j] \in Int /\ IsFiniteSet(D) /\ \A y \in D : key[y] \in Int
  BY <1>1 DEF IsKey
<1> HIDE DEF i, j
<1>4. SUFFICES ASSUME key[j] <= key[i] PROVE FALSE
  BY <1>3 DEF i, j
<1>5. Below(j) \in SUBSET Below(i)
  BY <1>3, <1>4
<1>6. IsFiniteSet(Below(i))
  <2>1. Below(i) \in SUBSET D
    OBVIOUS
  <2> QED BY <1>3, <2>1, FS_Subset
<1>7. Cardinality(Below(j)) <= Cardinality(Below(i))
  BY <1>5, <1>6, FS_Subset
<1> QED BY <1>2, <1>7

\* VecDeque::retain keeps the order.
LEMMA KeepOrder ==
    ASSUME NEW S, NEW s \in Seq(S), NEW I \in SUBSET DOMAIN s
    PROVE  \E f : /\ Lists(Keep(s, I), s, I, f)
                  /\ \A k, l \in DOMAIN Keep(s, I) : k < l => f[k] < f[l]
<1> DEFINE key == [i \in I |-> i]
           n == Cardinality(I)
           f == [k \in 1..n |-> Nth(key, k)]
           t == Keep(s, I)
<1>1. IsKey(key, I)
  BY IndexKey
<1>2. DOMAIN t = 1..n
  BY KeepType
<1>3. t = Arrange(s, key)
  BY DEF Keep
<1>4. f \in [1..n -> I] /\ \A k \in 1..n : f[k] = Nth(key, k)
  BY <1>1, NthRank
<1>5. \A k \in 1..n : t[k] = s[f[k]]
  BY <1>3 DEF Arrange
<1>6. \A i \in I : key[i] = i
  OBVIOUS
<1> HIDE DEF f, n, t, key
<1>7. \A k, l \in 1..n : f[k] = f[l] => k = l
  BY <1>1, <1>4, NthDistinct DEF n
<1>8. \A i \in I : \E k \in 1..n : f[k] = i
  BY <1>1, <1>4, NthOnto DEF n
<1>9. \A k, l \in 1..n : k < l => f[k] < f[l]
  <2> SUFFICES ASSUME NEW k \in 1..n, NEW l \in 1..n, k < l PROVE f[k] < f[l]
    OBVIOUS
  <2>1. key[Nth(key, k)] < key[Nth(key, l)]
    BY <1>1, NthIncreasing DEF n
  <2> QED BY <1>4, <1>6, <2>1
<1>10. Lists(t, s, I, f)
  BY <1>2, <1>4, <1>5, <1>7, <1>8 DEF Lists
<1> QED BY <1>2, <1>9, <1>10 DEF t
=============================================================================
