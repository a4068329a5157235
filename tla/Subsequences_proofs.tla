---------------------------- MODULE Subsequences_proofs ----------------------------
(***************************************************************************)
(* What Subsequence returns.  The ranks of the indices are the numbers from *)
(* zero on, because they differ and there are as many; so each index is the *)
(* k-th for one k.                                                          *)
(***************************************************************************)
EXTENDS Subsequences, FiniteSetTheorems, TLAPS

LEMMA RankInjective ==
  ASSUME NEW I \in SUBSET Nat, IsFiniteSet(I), NEW i \in I, NEW j \in I, i < j
  PROVE  Rank(I, i) < Rank(I, j)
<1> DEFINE A == {m \in I : m < i}
           B == {m \in I : m < j}
<1>1. IsFiniteSet(A) /\ IsFiniteSet(B)
  BY FS_Subset
<1>2. A \in SUBSET B /\ A # B
  <2>1. \A m \in I : m < i => m < j
    OBVIOUS
  <2>2. i \in B /\ i \notin A
    OBVIOUS
  <2> QED
    BY <2>1, <2>2
<1>3. Cardinality(A) <= Cardinality(B) /\ Cardinality(A) # Cardinality(B)
  <2> HIDE DEF A, B
  <2> QED BY <1>1, <1>2, FS_Subset
<1>4. Cardinality(A) \in Nat /\ Cardinality(B) \in Nat
  BY <1>1, FS_CardinalityType
<1> QED
  BY <1>3, <1>4 DEF Rank

LEMMA RankRange ==
  ASSUME NEW I \in SUBSET Nat, IsFiniteSet(I), NEW i \in I
  PROVE  Rank(I, i) \in 0 .. Cardinality(I) - 1
<1> DEFINE A == {m \in I : m < i}
<1>1. IsFiniteSet(A)
  BY FS_Subset
<1>2. A \in SUBSET I /\ A # I
  BY DEF A
<1>3. Cardinality(A) <= Cardinality(I) /\ Cardinality(A) # Cardinality(I)
  <2> HIDE DEF A
  <2> QED BY <1>1, <1>2, FS_Subset
<1>4. Cardinality(A) \in Nat /\ Cardinality(I) \in Nat
  BY <1>1, FS_CardinalityType
<1> QED
  BY <1>3, <1>4 DEF Rank

LEMMA NthExists ==
  ASSUME NEW I \in SUBSET Nat, IsFiniteSet(I), NEW k \in 1 .. Cardinality(I)
  PROVE  \E i \in I : Rank(I, i) = k - 1
<1> DEFINE n == Cardinality(I)
           R == [i \in I |-> Rank(I, i)]
           T == 0 .. n - 1
<1>1. n \in Nat
  BY FS_CardinalityType
<1>2. R \in [I -> T]
  BY RankRange
<1>3. \A i, j \in I : R[i] = R[j] => i = j
  <2> SUFFICES ASSUME NEW i \in I, NEW j \in I, i # j PROVE Rank(I, i) # Rank(I, j)
    OBVIOUS
  <2>1. i < j \/ j < i
    OBVIOUS
  <2>2. Rank(I, i) \in 0 .. n - 1 /\ Rank(I, j) \in 0 .. n - 1
    BY RankRange
  <2> QED
    BY <1>1, <2>1, <2>2, RankInjective
<1>4. R \in Injection(I, T)
  BY <1>2, <1>3 DEF Injection, IsInjective
<1>5. IsFiniteSet(T) /\ Cardinality(T) = n
  <2> HIDE DEF n
  <2>1. n - 1 \in Int /\ (0 > n - 1 <=> n = 0) /\ n - 1 - 0 + 1 = n
    BY <1>1
  <2> QED
    BY <1>1, <2>1, FS_Interval
<1>6. R \in Surjection(I, T)
  BY <1>4, <1>5, FS_Injection
<1>7. k - 1 \in T
  BY <1>1
<1> QED
  BY <1>6, <1>7 DEF Surjection

\* The k-th index is one, and each index is the k-th for one k.
LEMMA NthType ==
  ASSUME NEW I \in SUBSET Nat, IsFiniteSet(I), NEW k \in 1 .. Cardinality(I)
  PROVE  Nth(I, k) \in I /\ Rank(I, Nth(I, k)) = k - 1
  BY NthExists DEF Nth

LEMMA NthOfRank ==
  ASSUME NEW I \in SUBSET Nat, IsFiniteSet(I), NEW i \in I
  PROVE  Rank(I, i) + 1 \in 1 .. Cardinality(I) /\ Nth(I, Rank(I, i) + 1) = i
<1>1. Cardinality(I) \in Nat /\ Rank(I, i) \in 0 .. Cardinality(I) - 1
  BY FS_CardinalityType, RankRange
<1>2. Rank(I, i) + 1 \in 1 .. Cardinality(I)
  BY <1>1
<1> DEFINE j == Nth(I, Rank(I, i) + 1)
<1>3. j \in I /\ Rank(I, j) = Rank(I, i)
  BY <1>1, <1>2, NthType
<1> HIDE DEF j
<1>4. i < j \/ j < i \/ i = j
  BY <1>3
<1>5. i = j
  BY <1>1, <1>3, <1>4, RankInjective
<1> QED
  BY <1>2, <1>5 DEF j

LEMMA NthInjective ==
  ASSUME NEW I \in SUBSET Nat, IsFiniteSet(I), NEW k \in 1 .. Cardinality(I),
         NEW m \in 1 .. Cardinality(I), Nth(I, k) = Nth(I, m)
  PROVE  k = m
<1>1. Rank(I, Nth(I, k)) = k - 1 /\ Rank(I, Nth(I, m)) = m - 1
  BY NthType
<1>2. Cardinality(I) \in Nat
  BY FS_CardinalityType
<1> QED
  BY <1>1, <1>2

LEMMA SubsequenceIs ==
  ASSUME NEW V, NEW s \in Seq(V), NEW I \in SUBSET DOMAIN s
  PROVE  /\ Subsequence(s, I) \in Seq(V)
         /\ Len(Subsequence(s, I)) = Cardinality(I)
         /\ Cardinality(I) \in Nat /\ Cardinality(I) <= Len(s)
         /\ \A k \in DOMAIN Subsequence(s, I) : \E i \in I : Subsequence(s, I)[k] = s[i]
         /\ \A i \in I : \E k \in DOMAIN Subsequence(s, I) : Subsequence(s, I)[k] = s[i]
<1>1. IsFiniteSet(DOMAIN s) /\ DOMAIN s = 1 .. Len(s) /\ Len(s) \in Nat
  BY FS_Interval
<1>2. IsFiniteSet(I) /\ Cardinality(I) <= Cardinality(DOMAIN s) /\ Cardinality(I) \in Nat
  BY <1>1, FS_Subset, FS_CardinalityType
<1>3. Cardinality(DOMAIN s) = Len(s)
  <2> DEFINE n == Len(s)
  <2> HIDE DEF n
  <2>1. n \in Nat /\ DOMAIN s = 1 .. n
    BY <1>1 DEF n
  <2>2. Cardinality(1 .. n) = IF 1 > n THEN 0 ELSE n - 1 + 1
    BY <2>1, FS_Interval
  <2>3. Cardinality(1 .. n) = n
    BY <2>1, <2>2
  <2> QED
    BY <2>1, <2>3 DEF n
<1>4. I \in SUBSET Nat
  BY <1>1
<1>5. \A k \in 1 .. Cardinality(I) : Nth(I, k) \in I
  BY <1>2, <1>4, NthType
<1>6. Subsequence(s, I) \in [1 .. Cardinality(I) -> V]
  BY <1>1, <1>5 DEF Subsequence
<1>7. \A i \in I : \E k \in 1 .. Cardinality(I) : Nth(I, k) = i
  BY <1>2, <1>4, NthOfRank
<1>8. Subsequence(s, I) \in Seq(V) /\ Len(Subsequence(s, I)) = Cardinality(I)
  BY <1>2, <1>6
<1>9. DOMAIN Subsequence(s, I) = 1 .. Cardinality(I)
  BY DEF Subsequence
<1>10. \A k \in 1 .. Cardinality(I) : Subsequence(s, I)[k] = s[Nth(I, k)]
  BY DEF Subsequence
<1> QED
  BY <1>2, <1>3, <1>5, <1>7, <1>8, <1>9, <1>10

\* It repeats nothing the sequence does not repeat.
LEMMA SubsequenceInjective ==
  ASSUME NEW V, NEW s \in Seq(V), NEW I \in SUBSET DOMAIN s,
         \A i, j \in DOMAIN s : s[i] = s[j] => i = j
  PROVE  \A k, m \in DOMAIN Subsequence(s, I) :
           Subsequence(s, I)[k] = Subsequence(s, I)[m] => k = m
<1>1. IsFiniteSet(DOMAIN s) /\ DOMAIN s \in SUBSET Nat
  <2>1. DOMAIN s = 1 .. Len(s) /\ Len(s) \in Nat
    OBVIOUS
  <2> QED
    BY <2>1, FS_Interval
<1>2. IsFiniteSet(I) /\ I \in SUBSET Nat
  BY <1>1, FS_Subset
<1> SUFFICES ASSUME NEW k \in 1 .. Cardinality(I), NEW m \in 1 .. Cardinality(I),
                    s[Nth(I, k)] = s[Nth(I, m)]
             PROVE  k = m
  BY DEF Subsequence
<1>3. Nth(I, k) \in I /\ Nth(I, m) \in I
  BY <1>2, NthType
<1>4. Nth(I, k) = Nth(I, m)
  BY <1>3
<1> QED
  BY <1>2, <1>4, NthInjective

\* Some numbers have a least one.
LEMMA LeastIndex ==
  ASSUME NEW I \in SUBSET Nat, IsFiniteSet(I), I # {}
  PROVE  \E i \in I : \A j \in I : i <= j
<1>1. Cardinality(I) \in Nat \ {0}
  BY FS_CardinalityType, FS_EmptySet
<1>2. 1 \in 1 .. Cardinality(I)
  BY <1>1
<1>3. Nth(I, 1) \in I /\ Rank(I, Nth(I, 1)) = 1 - 1
  BY <1>2, NthType
<1> DEFINE i == Nth(I, 1)
<1>4. i \in I /\ Rank(I, i) = 0
  BY <1>3
<1> HIDE DEF i
<1>5. ASSUME NEW j \in I PROVE i <= j
  <2>1. Rank(I, j) \in 0 .. Cardinality(I) - 1
    BY RankRange
  <2>2. j < i => Rank(I, j) < Rank(I, i)
    BY <1>4, RankInjective
  <2> QED
    BY <1>1, <1>4, <2>1, <2>2
<1> QED
  BY <1>4, <1>5

\* A sequence's own indices.
LEMMA IndicesAre ==
  ASSUME NEW V, NEW s \in Seq(V), NEW I \in SUBSET DOMAIN s
  PROVE  IsFiniteSet(I) /\ I \in SUBSET Nat /\ Cardinality(I) \in Nat
<1>1. DOMAIN s = 1 .. Len(s) /\ Len(s) \in Nat
  OBVIOUS
<1>2. IsFiniteSet(DOMAIN s) /\ DOMAIN s \in SUBSET Nat
  BY <1>1, FS_Interval
<1> QED
  BY <1>2, FS_Subset, FS_CardinalityType

LEMMA NthMonotone ==
  ASSUME NEW I \in SUBSET Nat, IsFiniteSet(I),
         NEW k \in 1 .. Cardinality(I), NEW m \in 1 .. Cardinality(I)
  PROVE  k < m <=> Nth(I, k) < Nth(I, m)
<1>1. /\ Nth(I, k) \in I /\ Rank(I, Nth(I, k)) = k - 1
      /\ Nth(I, m) \in I /\ Rank(I, Nth(I, m)) = m - 1
  BY NthType
<1>2. k \in Nat /\ m \in Nat
  BY FS_CardinalityType
<1> DEFINE i == Nth(I, k)
           j == Nth(I, m)
<1>3. i \in Nat /\ j \in Nat /\ i \in I /\ j \in I
  BY <1>1
<1>4. Rank(I, i) = k - 1 /\ Rank(I, j) = m - 1
  BY <1>1
<1> HIDE DEF i, j
<1>5. (i < j => k < m) /\ (j < i => m < k) /\ (i = j => k = m)
  BY <1>2, <1>3, <1>4, RankInjective
<1>6. i < j <=> k < m
  BY <1>2, <1>3, <1>5
<1> QED
  BY <1>6 DEF i, j

\* The k-th of the indices a condition leaves: the condition may be put to the
\* subsequence's own indices, or to the sequence's.
LEMMA NthOfThose ==
  ASSUME NEW I \in SUBSET Nat, IsFiniteSet(I), NEW J \in SUBSET I,
         NEW K, K = {k \in 1 .. Cardinality(I) : Nth(I, k) \in J}
  PROVE  /\ Cardinality(K) = Cardinality(J)
         /\ \A n \in 1 .. Cardinality(J) : Nth(I, Nth(K, n)) = Nth(J, n)
<1> DEFINE F(A) == [k \in A |-> Nth(I, k)]
<1>1. IsFiniteSet(J) /\ J \in SUBSET Nat /\ Cardinality(I) \in Nat
  BY FS_Subset, FS_CardinalityType
<1>2. K \in SUBSET (1 .. Cardinality(I)) /\ K \in SUBSET Nat /\ IsFiniteSet(K)
  <2>1. K \in SUBSET (1 .. Cardinality(I)) /\ IsFiniteSet(1 .. Cardinality(I))
    BY <1>1, FS_Interval
  <2>2. K \in SUBSET Nat
    BY <1>1, <2>1
  <2> QED
    BY <2>1, <2>2, FS_Subset
<1>3. ASSUME NEW k \in K, NEW m \in K
      PROVE  Nth(I, k) \in J /\ (k < m <=> Nth(I, k) < Nth(I, m)) /\ (Nth(I, k) = Nth(I, m) => k = m)
  <2>1. k \in 1 .. Cardinality(I) /\ m \in 1 .. Cardinality(I) /\ Nth(I, k) \in J
    BY <1>2
  <2> QED
    BY <2>1, NthMonotone, NthInjective
<1>4. ASSUME NEW j \in J PROVE \E k \in K : Nth(I, k) = j
  <2> DEFINE k == Rank(I, j) + 1
  <2>1. k \in 1 .. Cardinality(I) /\ Nth(I, k) = j
    BY NthOfRank
  <2> HIDE DEF k
  <2> QED
    BY <2>1
\* The indices of the subsequence from one on and those of the sequence go together.
<1>5. ASSUME NEW A \in SUBSET K, NEW B \in SUBSET J,
             \A k \in A : Nth(I, k) \in B, \A j \in B : \E k \in A : Nth(I, k) = j
      PROVE  Cardinality(A) = Cardinality(B)
  <2>1. F(A) \in [A -> B]
    BY <1>5
  <2>2. \A k, m \in A : F(A)[k] = F(A)[m] => k = m
    BY <1>3
  <2>3. \A j \in B : \E k \in A : F(A)[k] = j
    BY <1>5
  <2>4. F(A) \in Bijection(A, B)
    <3> HIDE DEF F
    <3> QED
      BY <2>1, <2>2, <2>3 DEF Bijection, Injection, IsInjective, Surjection
  <2>5. ExistsBijection(A, B) /\ IsFiniteSet(A)
    BY <2>4, <1>2, FS_Subset DEF ExistsBijection
  <2> QED
    BY <2>5, FS_Bijection
<1>6. Cardinality(K) = Cardinality(J)
  BY <1>3, <1>4, <1>5
<1>7. ASSUME NEW k \in K PROVE Rank(K, k) = Rank(J, Nth(I, k))
  <2> DEFINE A == {m \in K : m < k}
             B == {j \in J : j < Nth(I, k)}
  <2>1. A \in SUBSET K /\ B \in SUBSET J
    OBVIOUS
  <2>2. \A m \in A : Nth(I, m) \in B
    BY <1>3, <1>7
  <2>3. \A j \in B : \E m \in A : Nth(I, m) = j
    BY <1>3, <1>4, <1>7
  <2>4. Cardinality(A) = Cardinality(B)
    <3> HIDE DEF A, B
    <3> QED BY <2>1, <2>2, <2>3, <1>5
  <2> QED
    BY <2>4 DEF Rank
<1>8. ASSUME NEW n \in 1 .. Cardinality(J) PROVE Nth(I, Nth(K, n)) = Nth(J, n)
  <2>1. Nth(K, n) \in K /\ Rank(K, Nth(K, n)) = n - 1
    BY <1>2, <1>6, NthType
  <2> DEFINE j == Nth(I, Nth(K, n))
  <2>2. j \in J /\ Rank(J, j) = n - 1
    BY <2>1, <1>3, <1>7
  <2> HIDE DEF j
  <2>3. n \in Nat
    BY <1>1, FS_CardinalityType
  <2>4. Nth(J, Rank(J, j) + 1) = j
    BY <1>1, <2>2, NthOfRank
  <2>5. Rank(J, j) + 1 = n
    BY <2>2, <2>3
  <2>6. Nth(J, n) = j
    BY <2>4, <2>5
  <2> QED
    BY <2>6 DEF j
<1> QED
  BY <1>6, <1>8

\* The indices at which a sequence has an element of the set.
Where(s, W) == {i \in DOMAIN s : s[i] \in W}

\* What a condition leaves of a subsequence is a subsequence of the whole.
LEMMA SubsequenceOfSubsequence ==
  ASSUME NEW V, NEW s \in Seq(V), NEW I \in SUBSET DOMAIN s, NEW W,
         NEW t, t = Subsequence(s, I)
  PROVE  Subsequence(t, Where(t, W)) = Subsequence(s, I \cap Where(s, W))
<1> DEFINE K == {k \in DOMAIN t : t[k] \in W}
           J == {i \in I : s[i] \in W}
<1>1. IsFiniteSet(I) /\ I \in SUBSET Nat /\ Cardinality(I) \in Nat
  BY IndicesAre
<1>2. DOMAIN t = 1 .. Cardinality(I) /\ \A k \in DOMAIN t : t[k] = s[Nth(I, k)] /\ Nth(I, k) \in I
  BY <1>1, NthType DEF Subsequence
<1>3. K = {k \in 1 .. Cardinality(I) : Nth(I, k) \in J}
  BY <1>2
<1>4. J \in SUBSET I /\ IsFiniteSet(J) /\ Cardinality(J) \in Nat
  BY <1>1, FS_Subset, FS_CardinalityType
<1>5. K \in SUBSET Nat /\ IsFiniteSet(K)
  <2>1. IsFiniteSet(1 .. Cardinality(I)) /\ K \in SUBSET (1 .. Cardinality(I))
    BY <1>1, <1>3, FS_Interval
  <2>2. 1 .. Cardinality(I) \in SUBSET Nat
    BY <1>1
  <2> HIDE DEF K
  <2>3. K \in SUBSET Nat
    BY <2>1, <2>2
  <2> QED
    BY <2>1, <2>3, FS_Subset
<1>6. Cardinality(K) = Cardinality(J) /\ \A n \in 1 .. Cardinality(J) : Nth(I, Nth(K, n)) = Nth(J, n)
  <2> HIDE DEF K, J
  <2> QED BY <1>1, <1>3, <1>4, NthOfThose
<1>7. \A n \in 1 .. Cardinality(J) : t[Nth(K, n)] = s[Nth(J, n)]
  <2> SUFFICES ASSUME NEW n \in 1 .. Cardinality(J) PROVE t[Nth(K, n)] = s[Nth(J, n)]
    OBVIOUS
  <2>1. Nth(K, n) \in K
    <3> HIDE DEF K, J
    <3> QED BY <1>5, <1>6, NthType
  <2> QED
    BY <1>2, <1>6, <2>1
<1>8. Subsequence(t, K) = Subsequence(s, J)
  <2> HIDE DEF K, J
  <2> QED BY <1>6, <1>7 DEF Subsequence
<1>9. K = Where(t, W) /\ J = I \cap Where(s, W)
  BY DEF Where
<1> QED
  BY <1>8, <1>9

\* Sequences that agree at the indices have the same subsequence there.
LEMMA SameSubsequence ==
  ASSUME NEW V, NEW s \in Seq(V), NEW t, NEW I \in SUBSET DOMAIN s,
         \A i \in I : s[i] = t[i]
  PROVE  Subsequence(s, I) = Subsequence(t, I)
<1>1. IsFiniteSet(I) /\ I \in SUBSET Nat
  BY IndicesAre
<1>2. \A k \in 1 .. Cardinality(I) : s[Nth(I, k)] = t[Nth(I, k)]
  BY <1>1, NthType
<1> QED
  BY <1>2 DEF Subsequence
=============================================================================
