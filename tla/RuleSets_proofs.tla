--------------------------- MODULE RuleSets_proofs ---------------------------
(***************************************************************************)
(* What holds of the rule sets: of the file they are read from, for any    *)
(* rules, domains and integers, and of their reload, for any files, tags   *)
(* and definitions and any number of edits.                                *)
(***************************************************************************)
EXTENDS RuleSets, RuleFile, Subsequences_proofs, SequenceTheorems

-----------------------------------------------------------------------------
(****************************************************************************)
(* The rule file: the trie as sing-box writes it, for any set of keys.      *)
(*                                                                          *)
(* Nodes are numbered level by level, so the children of a node are numbered*)
(* one after the other, in the order of their labels, and the bits of the   *)
(* nodes follow each other: OneIsAt, OnesAre and BitsAre say what count_zeroes*)
(* and the search for a one find in them.                                   *)
(****************************************************************************)

\* Before orders the nodes: two of them differ somewhere, and so at a first place.
LEMMA BeforeIrreflexive ==
  ASSUME NEW n \in Seq(Nat)
  PROVE  ~Before(n, n)
<1>1. \A i \in DOMAIN n : n[i] \in Nat
  OBVIOUS
<1> QED
  BY <1>1 DEF Before

FirstLess(m, n, i) == m[i] < n[i] /\ \A j \in 1 .. i - 1 : m[j] = n[j]

\* Of two nodes one is before the other.
LEMMA BeforeTotal ==
  ASSUME NEW m \in Seq(Nat), NEW n \in Seq(Nat), m # n
  PROVE  Before(m, n) \/ Before(n, m)
<1>1. CASE Len(m) # Len(n)
  BY <1>1 DEF Before
<1>2. CASE Len(m) = Len(n)
  <2> DEFINE I == {i \in 1 .. Len(m) : m[i] # n[i]}
  <2>1. I \in SUBSET Nat /\ IsFiniteSet(I)
    <3>1. 1 .. Len(m) \in SUBSET Nat /\ IsFiniteSet(1 .. Len(m))
      BY FS_Interval
    <3>2. I \in SUBSET (1 .. Len(m))
      OBVIOUS
    <3> HIDE DEF I
    <3>3. I \in SUBSET Nat
      BY <3>1, <3>2
    <3> QED
      BY <3>1, <3>2, <3>3, FS_Subset
  <2>2. I # {}
    <3> SUFFICES ASSUME I = {} PROVE FALSE
      OBVIOUS
    <3>1. \A i \in 1 .. Len(m) : m[i] = n[i]
      OBVIOUS
    <3> HIDE DEF I
    <3>2. m = n
      BY <1>2, <3>1, SeqEqual
    <3> QED
      BY <3>2
  <2>3. PICK i \in I : \A j \in I : i <= j
    <3> HIDE DEF I
    <3> QED
      BY <2>1, <2>2, LeastIndex
  <2>4. i \in 1 .. Len(m) /\ m[i] # n[i] /\ \A j \in 1 .. i - 1 : m[j] = n[j]
    BY <2>3
  <2>5. m[i] \in Nat /\ n[i] \in Nat /\ i \in DOMAIN m /\ i \in DOMAIN n
    BY <1>2, <2>4
  <2>6. FirstLess(m, n, i) \/ FirstLess(n, m, i)
    BY <2>4, <2>5 DEF FirstLess
  <2> QED
    BY <1>2, <2>5, <2>6 DEF FirstLess, Before
<1> QED
  BY <1>1, <1>2

\* What is before a node that is before another is before that one too: by the earlier of
\* the two places where they first differ.
LEMMA BeforeTransitive ==
  ASSUME NEW l \in Seq(Nat), NEW m \in Seq(Nat), NEW n \in Seq(Nat),
         Before(l, m), Before(m, n)
  PROVE  Before(l, n)
<1>1. Len(l) \in Nat /\ Len(m) \in Nat /\ Len(n) \in Nat /\ Len(l) <= Len(m) /\ Len(m) <= Len(n)
  BY DEF Before
<1>2. CASE Len(l) < Len(m) \/ Len(m) < Len(n)
  <2>1. Len(l) < Len(n)
    BY <1>1, <1>2
  <2> QED
    BY <2>1 DEF Before
<1>3. CASE Len(l) = Len(m) /\ Len(m) = Len(n)
  <2>1. PICK i \in DOMAIN l : FirstLess(l, m, i)
    BY <1>1, <1>3 DEF Before, FirstLess
  <2>2. PICK k \in DOMAIN m : FirstLess(m, n, k)
    BY <1>1, <1>3 DEF Before, FirstLess
  <2>3. i \in 1 .. Len(l) /\ k \in 1 .. Len(l)
    BY <1>3
  <2>4. \A j \in 1 .. Len(l) : l[j] \in Nat /\ m[j] \in Nat /\ n[j] \in Nat
    <3>1. \A j \in 1 .. Len(l) : l[j] \in Nat
      OBVIOUS
    <3>2. \A j \in 1 .. Len(m) : m[j] \in Nat
      OBVIOUS
    <3>3. \A j \in 1 .. Len(n) : n[j] \in Nat
      OBVIOUS
    <3> QED
      BY <1>3, <3>1, <3>2, <3>3, Zenon
  <2>5. CASE i <= k
    <3>1. l[i] < m[i] /\ m[i] <= n[i]
      <4>1. l[i] < m[i] /\ m[k] < n[k] /\ (i < k => m[i] = n[i])
        <5>1. i < k => i \in 1 .. k - 1
          BY <2>3
        <5> QED
          BY <2>1, <2>2, <5>1 DEF FirstLess
      <4>2. l[i] \in Nat /\ m[i] \in Nat /\ n[i] \in Nat /\ (i < k \/ i = k)
        <5>1. l[i] \in Nat /\ m[i] \in Nat /\ n[i] \in Nat
          BY <2>3, <2>4, Zenon
        <5>2. i < k \/ i = k
          BY <2>3, <2>5
        <5> QED
          BY <5>1, <5>2
      <4>3. CASE i = k
        BY <4>1, <4>2, <4>3
      <4>4. CASE i < k
        BY <4>1, <4>2, <4>4
      <4> QED
        BY <4>2, <4>3, <4>4
    <3>2. \A j \in 1 .. i - 1 : l[j] = n[j]
      BY <2>1, <2>2, <2>3, <2>4, <2>5 DEF FirstLess
    <3> QED
      <4>1. l[i] \in Nat /\ m[i] \in Nat /\ n[i] \in Nat
        BY <2>3, <2>4, Zenon
      <4>2. l[i] < n[i]
        <5>1. \A x, y, z \in Nat : x < y /\ y <= z => x < z
          OBVIOUS
        <5> QED
          BY <3>1, <4>1, <5>1, Zenon
      <4> QED
        BY <1>3, <3>2, <4>2 DEF Before
  <2>6. CASE k < i
    <3>1. l[k] < n[k]
      <4>1. m[k] < n[k] /\ l[k] = m[k]
        <5>1. k \in 1 .. i - 1
          BY <2>3, <2>6
        <5> QED
          BY <2>1, <2>2, <5>1 DEF FirstLess
      <4> QED
        BY <4>1
    <3>2. \A j \in 1 .. k - 1 : l[j] = n[j]
      BY <2>1, <2>2, <2>3, <2>4, <2>6 DEF FirstLess
    <3>3. k \in DOMAIN l
      BY <1>3
    <3> QED
      BY <1>3, <3>1, <3>2, <3>3 DEF Before
  <2> QED
    BY <2>3, <2>5, <2>6
<1> QED
  BY <1>1, <1>2, <1>3

\* The order of two nodes is that of their parents, unless those are one.
LEMMA FrontIs ==
  ASSUME NEW S, NEW m \in Seq(S), Len(m) > 0
  PROVE  /\ Front(m) \in Seq(S) /\ Len(Front(m)) = Len(m) - 1
         /\ \A i \in 1 .. Len(m) - 1 : Front(m)[i] = m[i]
<1> DEFINE k == Len(m) - 1
<1>1. Len(m) \in Nat /\ k \in Nat /\ k <= Len(m) /\ Front(m) = SubSeq(m, 1, k)
  BY DEF Front
<1> HIDE DEF k
<1>2. SubSeq(m, 1, k) \in Seq(S) /\ Len(SubSeq(m, 1, k)) = k /\ \A i \in 1 .. k : SubSeq(m, 1, k)[i] = m[i]
  <2>1. \A i \in 1 .. k : m[i] \in S
    BY <1>1
  <2>2. /\ SubSeq(m, 1, k) \in Seq(S) /\ Len(SubSeq(m, 1, k)) = IF 1 <= k THEN k - 1 + 1 ELSE 0
        /\ \A i \in 1 .. k - 1 + 1 : SubSeq(m, 1, k)[i] = m[1 + i - 1]
    BY <1>1, <2>1, SubSeqProperties
  <2> QED
    BY <1>1, <2>2
<1> QED
  BY <1>1, <1>2 DEF k

\* Parents are in the order of their children.
LEMMA FrontBefore ==
  ASSUME NEW m \in Seq(Nat), NEW n \in Seq(Nat), Len(m) > 0, Before(m, n)
  PROVE  Front(m) = Front(n) \/ Before(Front(m), Front(n))
<1>1. Len(m) \in Nat \ {0} /\ Len(n) \in Nat \ {0} /\ Len(m) <= Len(n)
  BY DEF Before
<1>2. /\ Front(m) \in Seq(Nat) /\ Len(Front(m)) = Len(m) - 1
      /\ \A i \in 1 .. Len(m) - 1 : Front(m)[i] = m[i]
  BY <1>1, FrontIs
<1>3. /\ Front(n) \in Seq(Nat) /\ Len(Front(n)) = Len(n) - 1
      /\ \A i \in 1 .. Len(n) - 1 : Front(n)[i] = n[i]
  BY <1>1, FrontIs
<1>4. CASE Len(m) < Len(n)
  <2>1. Len(Front(m)) < Len(Front(n))
    BY <1>1, <1>2, <1>3, <1>4
  <2> QED
    BY <2>1 DEF Before
<1>5. CASE Len(m) = Len(n)
  <2>1. PICK i \in DOMAIN m : FirstLess(m, n, i)
    BY <1>1, <1>5 DEF Before, FirstLess
  <2>2. i \in 1 .. Len(m)
    OBVIOUS
  <2>3. CASE i = Len(m)
    <3>1. \A j \in 1 .. Len(m) - 1 : Front(m)[j] = Front(n)[j]
      BY <1>2, <1>3, <1>5, <2>1, <2>3 DEF FirstLess
    <3>2. Front(m) = Front(n)
      <4> DEFINE f == Front(m)
                 g == Front(n)
      <4>1. f \in Seq(Nat) /\ g \in Seq(Nat) /\ Len(f) = Len(g) /\ \A j \in 1 .. Len(f) : f[j] = g[j]
        BY <1>2, <1>3, <1>5, <3>1
      <4> HIDE DEF f, g
      <4>2. f = g
        BY <4>1, SeqEqual
      <4> QED
        BY <4>2 DEF f, g
    <3> QED
      BY <3>2
  <2>4. CASE i # Len(m)
    <3>1. i \in 1 .. Len(m) - 1 /\ i \in DOMAIN Front(m)
      <4>1. i \in 1 .. Len(m) - 1
        BY <1>1, <2>2, <2>4
      <4>2. DOMAIN Front(m) = 1 .. Len(m) - 1
        BY <1>2
      <4> QED
        BY <4>1, <4>2
    <3>2. FirstLess(Front(m), Front(n), i)
      <4>1. m[i] < n[i] /\ \A j \in 1 .. i - 1 : m[j] = n[j]
        BY <2>1 DEF FirstLess
      <4>2. \A j \in 1 .. i : Front(m)[j] = m[j] /\ Front(n)[j] = n[j]
        <5>1. \A j \in 1 .. i : j \in 1 .. Len(m) - 1 /\ j \in 1 .. Len(n) - 1
          BY <1>1, <1>5, <3>1
        <5> QED
          BY <1>2, <1>3, <5>1
      <4>3. i \in 1 .. i /\ \A j \in 1 .. i - 1 : j \in 1 .. i
        BY <3>1
      <4> QED
        BY <4>1, <4>2, <4>3 DEF FirstLess
    <3>3. Len(Front(m)) = Len(Front(n))
      BY <1>2, <1>3, <1>5
    <3> QED
      BY <3>1, <3>2, <3>3 DEF Before, FirstLess
  <2> QED
    BY <2>3, <2>4
<1> QED
  BY <1>1, <1>4, <1>5

\* A parent is before its child.
LEMMA FrontIsBefore ==
  ASSUME NEW n \in Seq(Nat), Len(n) > 0
  PROVE  Before(Front(n), n)
<1>1. Len(Front(n)) = Len(n) - 1 /\ Len(n) \in Nat
  BY FrontIs
<1> QED
  BY <1>1 DEF Before

\* Children of a node are in the order of their labels.
LEMMA SiblingBefore ==
  ASSUME NEW s \in Seq(Nat), NEW a \in Nat, NEW b \in Nat
  PROVE  Before(Append(s, a), Append(s, b)) <=> a < b
<1> DEFINE m == Append(s, a)
           n == Append(s, b)
           k == Len(s) + 1
<1>1. /\ m \in Seq(Nat) /\ n \in Seq(Nat) /\ Len(m) = k /\ Len(n) = k /\ k \in Nat \ {0} /\ DOMAIN m = 1 .. k
      /\ m[k] = a /\ n[k] = b /\ \A j \in 1 .. k - 1 : m[j] = n[j] /\ m[j] \in Nat
  OBVIOUS
<1> HIDE DEF m, n, k
<1>2. k \in DOMAIN m /\ \A i \in DOMAIN m : i \in 1 .. k - 1 \/ i = k
  BY <1>1
<1>3. Before(m, n) <=> a < b
  <2>1. Before(m, n) <=> \E i \in DOMAIN m : FirstLess(m, n, i)
    BY <1>1 DEF Before, FirstLess
  <2>2. \A i \in DOMAIN m : i # k => ~FirstLess(m, n, i)
    BY <1>1, <1>2 DEF FirstLess
  <2>3. FirstLess(m, n, k) <=> a < b
    BY <1>1 DEF FirstLess
  <2> QED
    BY <1>2, <2>1, <2>2, <2>3
<1> QED
  BY <1>3 DEF m, n

-----------------------------------------------------------------------------
\* The numbers of nodes are those from zero on, in the order of the nodes.
LEMMA NumberedInOrder ==
  ASSUME NEW nodes \in SUBSET Seq(Nat), IsFiniteSet(nodes), NEW m \in nodes, NEW n \in nodes,
         Before(m, n)
  PROVE  IdOf(nodes)[m] < IdOf(nodes)[n]
<1> DEFINE A == {l \in nodes : Before(l, m)}
           B == {l \in nodes : Before(l, n)}
<1>1. IsFiniteSet(B) /\ IsFiniteSet(A)
  BY FS_Subset
<1>2. A \in SUBSET B
  <2>1. \A l \in nodes : Before(l, m) => Before(l, n)
    BY BeforeTransitive
  <2> QED
    BY <2>1
<1>3. m \in B /\ m \notin A
  BY BeforeIrreflexive
<1>4. Cardinality(A) <= Cardinality(B) /\ Cardinality(A) # Cardinality(B)
  <2> HIDE DEF A, B
  <2> QED BY <1>1, <1>2, <1>3, FS_Subset
<1>5. Cardinality(A) \in Nat /\ Cardinality(B) \in Nat
  BY <1>1, FS_CardinalityType
<1> QED
  BY <1>4, <1>5 DEF IdOf

\* There are as many numbers as nodes.
LEMMA NumberRange ==
  ASSUME NEW nodes \in SUBSET Seq(Nat), IsFiniteSet(nodes), NEW n \in nodes
  PROVE  IdOf(nodes)[n] \in 0 .. Cardinality(nodes) - 1
<1> DEFINE A == {l \in nodes : Before(l, n)}
<1>1. IsFiniteSet(A)
  BY FS_Subset
<1>2. A \in SUBSET nodes /\ A # nodes
  BY BeforeIrreflexive
<1>3. Cardinality(A) <= Cardinality(nodes) /\ Cardinality(A) # Cardinality(nodes)
  <2> HIDE DEF A
  <2> QED BY <1>1, <1>2, FS_Subset
<1>4. Cardinality(A) \in Nat /\ Cardinality(nodes) \in Nat
  BY <1>1, FS_CardinalityType
<1>5. Cardinality(A) \in 0 .. Cardinality(nodes) - 1
  BY <1>3, <1>4
<1> QED
  BY <1>5 DEF IdOf

\* No two nodes have one number.
LEMMA NumberInjective ==
  ASSUME NEW nodes \in SUBSET Seq(Nat), IsFiniteSet(nodes), NEW m \in nodes, NEW n \in nodes
  PROVE  /\ IdOf(nodes)[m] = IdOf(nodes)[n] => m = n
         /\ IdOf(nodes)[m] < IdOf(nodes)[n] <=> Before(m, n)
<1>1. IdOf(nodes)[m] \in Nat /\ IdOf(nodes)[n] \in Nat
  <2>1. Cardinality(nodes) \in Nat
    BY FS_CardinalityType
  <2> QED
    BY <2>1, NumberRange
<1>2. m = n \/ Before(m, n) \/ Before(n, m)
  BY BeforeTotal
<1>3. Before(m, n) => IdOf(nodes)[m] < IdOf(nodes)[n]
  BY NumberedInOrder
<1>4. Before(n, m) => IdOf(nodes)[n] < IdOf(nodes)[m]
  BY NumberedInOrder
<1> QED
  BY <1>1, <1>2, <1>3, <1>4

\* Every number is that of a node.
LEMMA NodeOfNumber ==
  ASSUME NEW nodes \in SUBSET Seq(Nat), IsFiniteSet(nodes), NEW i \in 0 .. Cardinality(nodes) - 1
  PROVE  NodeAt(nodes)[i] \in nodes /\ IdOf(nodes)[NodeAt(nodes)[i]] = i
<1> DEFINE c == Cardinality(nodes)
           T == 0 .. c - 1
           F == IdOf(nodes)
<1>1. c \in Nat
  BY FS_CardinalityType
<1>2. \A n \in nodes : F[n] \in T
  BY NumberRange
<1>3. F \in [nodes -> T]
  <2>1. DOMAIN F = nodes /\ F = [n \in DOMAIN F |-> F[n]]
    BY DEF IdOf
  <2> HIDE DEF F, T
  <2> QED
    BY <1>2, <2>1
<1>4. \A m, n \in nodes : F[m] = F[n] => m = n
  BY NumberInjective
<1>5. IsFiniteSet(T) /\ Cardinality(T) = c
  <2> HIDE DEF c
  <2>1. c - 1 \in Int /\ (0 > c - 1 <=> c = 0) /\ c - 1 - 0 + 1 = c
    BY <1>1
  <2> QED
    BY <1>1, <2>1, FS_Interval
<1>6. F \in Surjection(nodes, T)
  <2> HIDE DEF F, T
  <2>1. F \in Injection(nodes, T)
    BY <1>3, <1>4 DEF Injection, IsInjective
  <2> QED
    BY <1>5, <2>1, FS_Injection
<1>7. \E n \in nodes : F[n] = i
  <2> HIDE DEF F
  <2> QED
    BY <1>6 DEF Surjection
<1>8. NodeAt(nodes)[i] = CHOOSE n \in nodes : F[n] = i
  BY DEF NodeAt
<1> HIDE DEF F
<1>9. NodeAt(nodes)[i] \in nodes /\ F[NodeAt(nodes)[i]] = i
  BY <1>7, <1>8
<1> QED
  BY <1>9 DEF F

\* NodeAt undoes IdOf.
LEMMA NumberOfNode ==
  ASSUME NEW nodes \in SUBSET Seq(Nat), IsFiniteSet(nodes), NEW n \in nodes
  PROVE  NodeAt(nodes)[IdOf(nodes)[n]] = n
<1> DEFINE i == IdOf(nodes)[n]
<1>1. i \in 0 .. Cardinality(nodes) - 1
  BY NumberRange
<1> HIDE DEF i
<1>2. NodeAt(nodes)[i] \in nodes /\ IdOf(nodes)[NodeAt(nodes)[i]] = i
  BY <1>1, NodeOfNumber
<1>3. NodeAt(nodes)[i] = n
  BY <1>2, NumberInjective DEF i
<1> QED
  BY <1>3 DEF i

\* The nodes of a trie: with a node its parent, and the root.
IsTree(nodes) ==
  /\ nodes \in SUBSET Seq(Nat) /\ IsFiniteSet(nodes)
  /\ << >> \in nodes
  /\ \A n \in nodes : Len(n) > 0 => Front(n) \in nodes

\* The root is a node.
LEMMA TreeSize ==
  ASSUME NEW nodes, IsTree(nodes)
  PROVE  /\ nodes \in SUBSET Seq(Nat) /\ IsFiniteSet(nodes) /\ << >> \in nodes
         /\ Cardinality(nodes) \in Nat \ {0}
<1>1. nodes \in SUBSET Seq(Nat) /\ IsFiniteSet(nodes) /\ << >> \in nodes
  BY DEF IsTree
<1>2. Cardinality(nodes) \in Nat /\ Cardinality(nodes) # 0
  BY <1>1, FS_CardinalityType, FS_EmptySet
<1> QED
  BY <1>1, <1>2

\* The root is the first node.
LEMMA RootIsZero ==
  ASSUME NEW nodes, IsTree(nodes)
  PROVE  /\ IdOf(nodes)[<< >>] = 0 /\ NodeAt(nodes)[0] = << >>
         /\ \A j \in 1 .. Cardinality(nodes) - 1 :
              NodeAt(nodes)[j] \in nodes /\ NodeAt(nodes)[j] \in Seq(Nat) /\ Len(NodeAt(nodes)[j]) > 0
<1>1. nodes \in SUBSET Seq(Nat) /\ IsFiniteSet(nodes) /\ << >> \in nodes /\ Cardinality(nodes) \in Nat \ {0}
  BY TreeSize
<1>2. ASSUME NEW n \in nodes PROVE ~Before(n, << >>)
  <2>1. n \in Seq(Nat) /\ Len(<< >>) = 0 /\ Len(n) \in Nat /\ (Len(n) = 0 => n = << >>)
    BY <1>1
  <2>2. CASE n = << >>
    BY <2>1, <2>2, BeforeIrreflexive
  <2>3. CASE n # << >>
    BY <2>1, <2>3 DEF Before
  <2> QED
    BY <2>2, <2>3
<1>3. IdOf(nodes)[<< >>] = 0
  <2>1. {m \in nodes : Before(m, << >>)} = {}
    BY <1>2
  <2>2. Cardinality({m \in nodes : Before(m, << >>)}) = 0
    BY <2>1, FS_EmptySet
  <2> QED
    BY <1>1, <2>2 DEF IdOf
<1>4. NodeAt(nodes)[0] = << >>
  BY <1>1, <1>3, NumberOfNode
<1>5. ASSUME NEW j \in 1 .. Cardinality(nodes) - 1
      PROVE  NodeAt(nodes)[j] \in nodes /\ NodeAt(nodes)[j] \in Seq(Nat) /\ Len(NodeAt(nodes)[j]) > 0
  <2> DEFINE n == NodeAt(nodes)[j]
  <2>1. n \in nodes /\ IdOf(nodes)[n] = j
    <3>1. j \in 0 .. Cardinality(nodes) - 1
      BY <1>1
    <3> QED
      BY <1>1, <3>1, NodeOfNumber
  <2>2. n # << >>
    BY <1>3, <2>1
  <2> HIDE DEF n
  <2>3. n \in Seq(Nat) /\ Len(n) > 0
    <3>1. n \in Seq(Nat)
      BY <1>1, <2>1
    <3> QED
      BY <2>2, <3>1
  <2> QED
    BY <2>1, <2>3 DEF n
<1> QED
  BY <1>3, <1>4, <1>5

\* Every other node has a parent with a smaller number.
LEMMA ParentIs ==
  ASSUME NEW nodes, IsTree(nodes), NEW j \in 1 .. Cardinality(nodes) - 1
  PROVE  /\ ParentOf(nodes)[j] \in 0 .. Cardinality(nodes) - 1
         /\ NodeAt(nodes)[ParentOf(nodes)[j]] = Front(NodeAt(nodes)[j])
         /\ Front(NodeAt(nodes)[j]) \in nodes
         /\ ParentOf(nodes)[j] = IdOf(nodes)[Front(NodeAt(nodes)[j])]
<1>1. nodes \in SUBSET Seq(Nat) /\ IsFiniteSet(nodes)
  BY TreeSize
<1>2. NodeAt(nodes)[j] \in nodes /\ Len(NodeAt(nodes)[j]) > 0
  BY RootIsZero
<1>3. Front(NodeAt(nodes)[j]) \in nodes
  BY <1>2 DEF IsTree
<1>4. ParentOf(nodes)[j] = IdOf(nodes)[Front(NodeAt(nodes)[j])]
  BY DEF ParentOf
<1> DEFINE n == Front(NodeAt(nodes)[j])
<1> HIDE DEF n
<1>5. n \in nodes
  BY <1>3 DEF n
<1>6. IdOf(nodes)[n] \in 0 .. Cardinality(nodes) - 1 /\ NodeAt(nodes)[IdOf(nodes)[n]] = n
  BY <1>1, <1>5, NumberRange, NumberOfNode
<1> QED
  BY <1>3, <1>4, <1>6 DEF n

\* Children are numbered in the order of their parents.
LEMMA ParentMonotone ==
  ASSUME NEW nodes, IsTree(nodes), NEW i \in 1 .. Cardinality(nodes) - 1,
         NEW j \in 1 .. Cardinality(nodes) - 1, i < j
  PROVE  ParentOf(nodes)[i] <= ParentOf(nodes)[j]
<1> DEFINE m == NodeAt(nodes)[i]
           n == NodeAt(nodes)[j]
<1>1. nodes \in SUBSET Seq(Nat) /\ IsFiniteSet(nodes) /\ Cardinality(nodes) \in Nat
  BY TreeSize
<1>2. /\ m \in nodes /\ n \in nodes /\ m \in Seq(Nat) /\ n \in Seq(Nat)
      /\ Len(m) > 0 /\ Len(n) > 0
  BY RootIsZero
<1>3. IdOf(nodes)[m] = i /\ IdOf(nodes)[n] = j
  <2>1. i \in 0 .. Cardinality(nodes) - 1 /\ j \in 0 .. Cardinality(nodes) - 1
    BY <1>1
  <2> QED
    BY <1>1, <2>1, NodeOfNumber
<1>4. /\ Front(m) \in nodes /\ ParentOf(nodes)[i] = IdOf(nodes)[Front(m)]
      /\ Front(n) \in nodes /\ ParentOf(nodes)[j] = IdOf(nodes)[Front(n)]
      /\ ParentOf(nodes)[i] \in Nat /\ ParentOf(nodes)[j] \in Nat
  BY <1>1, ParentIs
<1> HIDE DEF m, n
<1>5. Before(m, n)
  BY <1>1, <1>2, <1>3, NumberInjective
<1>6. Front(m) = Front(n) \/ Before(Front(m), Front(n))
  BY <1>2, <1>5, FrontBefore
<1>7. Before(Front(m), Front(n)) => IdOf(nodes)[Front(m)] < IdOf(nodes)[Front(n)]
  BY <1>1, <1>4, NumberedInOrder
<1> QED
  BY <1>4, <1>6, <1>7

-----------------------------------------------------------------------------
\* Numbers from one on that leave none out are those up to how many there are.
LEMMA InitialInterval ==
  ASSUME NEW m \in Nat, NEW S \in SUBSET (1 .. m),
         \A j \in S : \A k \in 1 .. m : k < j => k \in S
  PROVE  /\ Cardinality(S) \in 0 .. m
         /\ \A j \in 1 .. m : j \in S <=> j <= Cardinality(S)
<1> DEFINE C == (1 .. m) \ S
<1>1. IsFiniteSet(1 .. m) /\ Cardinality(1 .. m) = m
  <2>1. IsFiniteSet(1 .. m) /\ Cardinality(1 .. m) = IF 1 > m THEN 0 ELSE m - 1 + 1
    BY FS_Interval
  <2> QED
    BY <2>1
<1>2. CASE C = {}
  <2>1. S = 1 .. m
    BY <1>2
  <2> QED
    BY <1>1, <2>1
<1>3. CASE C # {}
  <2>1. C \in SUBSET Nat /\ IsFiniteSet(C)
    <3>1. C \in SUBSET (1 .. m) /\ 1 .. m \in SUBSET Nat
      OBVIOUS
    <3> HIDE DEF C
    <3>2. C \in SUBSET Nat
      BY <3>1
    <3> QED
      BY <1>1, <3>1, <3>2, FS_Subset
  <2>2. PICK c \in C : \A j \in C : c <= j
    <3> HIDE DEF C
    <3> QED
      BY <1>3, <2>1, LeastIndex
  <2>3. c \in 1 .. m /\ c \notin S
    OBVIOUS
  <2>4. \A j \in 1 .. m : j \in S <=> j < c
    BY <2>2, <2>3
  <2>5. S = 1 .. c - 1
    <3>1. \A j : j \in 1 .. c - 1 <=> j \in 1 .. m /\ j < c
      BY <2>3
    <3>2. \A j \in S : j \in 1 .. c - 1
      BY <2>4, <3>1
    <3>3. \A j \in 1 .. c - 1 : j \in S
      BY <2>4, <3>1
    <3> QED
      BY <3>2, <3>3
  <2>6. Cardinality(1 .. c - 1) = c - 1
    <3>1. Cardinality(1 .. c - 1) = IF 1 > c - 1 THEN 0 ELSE c - 1 - 1 + 1
      BY <2>3, FS_Interval
    <3> QED
      BY <2>3, <3>1
  <2>7. Cardinality(S) = c - 1
    BY <2>5, <2>6
  <2> QED
    BY <2>3, <2>4, <2>7
<1> QED
  BY <1>2, <1>3

\* How many nodes are children of the nodes up to i.
Degree(nodes, i) == Cardinality({j \in 1 .. Cardinality(nodes) - 1 : ParentOf(nodes)[j] <= i})

\* A node's degree is at most the nodes there are, and grows with the node.
LEMMA DegreeIs ==
  ASSUME NEW nodes, IsTree(nodes), NEW i \in Int
  PROVE  /\ Degree(nodes, i) \in 0 .. Cardinality(nodes) - 1
         /\ \A j \in 1 .. Cardinality(nodes) - 1 : ParentOf(nodes)[j] <= i <=> j <= Degree(nodes, i)
         /\ i >= Cardinality(nodes) - 1 => Degree(nodes, i) = Cardinality(nodes) - 1
         /\ OneOf(nodes, i) = i + Degree(nodes, i)
<1> DEFINE m == Cardinality(nodes) - 1
           S == {j \in 1 .. Cardinality(nodes) - 1 : ParentOf(nodes)[j] <= i}
<1>1. m \in Nat
  BY TreeSize
<1>2. \A j \in 1 .. m : ParentOf(nodes)[j] \in 0 .. m
  BY ParentIs
<1>3. \A j, k \in 1 .. m : k < j => ParentOf(nodes)[k] <= ParentOf(nodes)[j]
  BY ParentMonotone
<1>4. S \in SUBSET (1 .. m) /\ \A j \in 1 .. m : j \in S <=> ParentOf(nodes)[j] <= i
  OBVIOUS
<1>5. \A j \in S : \A k \in 1 .. m : k < j => k \in S
  <2> SUFFICES ASSUME NEW j \in S, NEW k \in 1 .. m, k < j PROVE ParentOf(nodes)[k] <= i
    OBVIOUS
  <2>1. j \in 1 .. m /\ ParentOf(nodes)[j] <= i
    OBVIOUS
  <2>2. ParentOf(nodes)[k] <= ParentOf(nodes)[j] /\ ParentOf(nodes)[k] \in 0 .. m /\ ParentOf(nodes)[j] \in 0 .. m
    BY <1>2, <1>3, <2>1
  <2> QED
    BY <1>1, <2>1, <2>2
<1>6. Degree(nodes, i) = Cardinality(S) /\ OneOf(nodes, i) = i + Cardinality(S)
  BY DEF Degree, OneOf
<1>7. Cardinality(S) \in 0 .. m /\ \A j \in 1 .. m : j \in S <=> j <= Cardinality(S)
  <2> HIDE DEF S, m
  <2> QED
    BY <1>1, <1>4, <1>5, InitialInterval
<1>8. i >= m => Cardinality(S) = m
  <2> SUFFICES ASSUME i >= m, m > 0 PROVE Cardinality(S) = m
    BY <1>1, <1>7
  <2>1. m \in 1 .. m
    BY <1>1
  <2>2. ParentOf(nodes)[m] <= i
    BY <1>1, <1>2, <2>1
  <2>3. m \in S
    BY <1>4, <2>1, <2>2
  <2>4. m <= Cardinality(S)
    BY <1>7, <2>1, <2>3
  <2> QED
    BY <1>1, <1>7, <2>4
<1> QED
  BY <1>4, <1>6, <1>7, <1>8

\* The ones are in the order of their nodes.
LEMMA OneMonotone ==
  ASSUME NEW nodes, IsTree(nodes), NEW i \in Nat, NEW j \in Nat, i < j
  PROVE  /\ OneOf(nodes, i) \in Nat /\ OneOf(nodes, j) \in Nat
         /\ OneOf(nodes, i) < OneOf(nodes, j)
         /\ Degree(nodes, i) <= Degree(nodes, j)
<1> DEFINE d == Degree(nodes, i)
           e == Degree(nodes, j)
           m == Cardinality(nodes) - 1
<1>1. m \in Nat
  BY TreeSize
<1>2. d \in 0 .. m /\ \A k \in 1 .. m : ParentOf(nodes)[k] <= i <=> k <= d
  BY DegreeIs
<1>3. e \in 0 .. m /\ \A k \in 1 .. m : ParentOf(nodes)[k] <= j <=> k <= e
  BY DegreeIs
<1>4. OneOf(nodes, i) = i + d /\ OneOf(nodes, j) = j + e
  BY DegreeIs
<1>5. d <= e
  <2> SUFFICES ASSUME d > 0 PROVE d <= e
    BY <1>1, <1>2, <1>3
  <2> HIDE DEF d, e
  <2>1. d \in 1 .. m /\ ParentOf(nodes)[d] <= i
    BY <1>1, <1>2
  <2>2. ParentOf(nodes)[d] \in Nat
    BY <2>1, ParentIs DEF m
  <2>3. ParentOf(nodes)[d] <= j
    BY <2>1, <2>2
  <2> QED
    BY <1>3, <2>1, <2>3
<1> QED
  BY <1>1, <1>2, <1>3, <1>4, <1>5

-----------------------------------------------------------------------------
Ones(nodes) == {OneOf(nodes, i) : i \in 0 .. Cardinality(nodes) - 1}
FirstOnes(nodes, k) == {OneOf(nodes, i) : i \in 0 .. k - 1}

\* The ones of the first k nodes are k.
LEMMA FirstOnesAre ==
  ASSUME NEW nodes, IsTree(nodes), NEW k \in Nat
  PROVE  IsFiniteSet(FirstOnes(nodes, k)) /\ Cardinality(FirstOnes(nodes, k)) = k
<1> DEFINE T == FirstOnes(nodes, k)
           I == 0 .. k - 1
           F == [i \in I |-> OneOf(nodes, i)]
<1>1. IsFiniteSet(I) /\ Cardinality(I) = k
  <2>1. IsFiniteSet(I) /\ Cardinality(I) = IF 0 > k - 1 THEN 0 ELSE k - 1 - 0 + 1
    BY FS_Interval
  <2> QED
    BY <2>1
<1>2. F \in [I -> T] /\ \A t \in T : \E i \in I : F[i] = t
  BY DEF FirstOnes
<1>3. \A i, j \in I : F[i] = F[j] => i = j
  <2> SUFFICES ASSUME NEW i \in I, NEW j \in I, i # j PROVE OneOf(nodes, i) # OneOf(nodes, j)
    OBVIOUS
  <2>1. i \in Nat /\ j \in Nat /\ (i < j \/ j < i)
    OBVIOUS
  <2> QED
    BY <2>1, OneMonotone
<1>4. F \in Bijection(I, T)
  <2> HIDE DEF F, I, T
  <2> QED
    BY <1>2, <1>3 DEF Bijection, Injection, IsInjective, Surjection
<1>5. ExistsBijection(I, T)
  BY <1>4 DEF ExistsBijection
<1> HIDE DEF T, I, F
<1>6. IsFiniteSet(T) /\ Cardinality(T) = k
  BY <1>1, <1>5, FS_Bijection
<1> QED
  BY <1>6 DEF T

\* Where the bits of node k begin.
Start(nodes, k) == IF k = 0 THEN 0 ELSE OneOf(nodes, k - 1) + 1

\* The ones before the bits of a node, or at one of them but its own one.
LEMMA OnesBefore ==
  ASSUME NEW nodes, IsTree(nodes), NEW k \in 0 .. Cardinality(nodes) - 1, NEW p \in Nat,
         Start(nodes, k) <= p, p <= OneOf(nodes, k)
  PROVE  Cardinality({q \in Ones(nodes) : q < p}) = k
<1> DEFINE c == Cardinality(nodes)
<1>1. c \in Nat \ {0} /\ k \in Nat
  BY TreeSize
<1>2. ASSUME NEW i \in 0 .. c - 1 PROVE OneOf(nodes, i) < p <=> i < k
  <2>1. i \in Nat /\ (k > 0 => k - 1 \in Nat)
    BY <1>1
  <2>2. OneOf(nodes, i) \in Nat /\ OneOf(nodes, k) \in Nat /\ (k > 0 => OneOf(nodes, k - 1) \in Nat)
    <3>1. \A j \in Nat : OneOf(nodes, j) \in Nat
      <4> TAKE j \in Nat
      <4>1. j + 1 \in Nat /\ j < j + 1
        OBVIOUS
      <4> QED
        BY <4>1, OneMonotone
    <3> QED
      BY <1>1, <2>1, <3>1
  <2>3. CASE i >= k
    <3>1. i = k \/ OneOf(nodes, k) < OneOf(nodes, i)
      BY <1>1, <2>1, <2>3, OneMonotone
    <3> QED
      BY <1>1, <2>1, <2>2, <2>3, <3>1
  <2>4. CASE i < k
    <3>1. OneOf(nodes, k - 1) < p
      BY <1>1, <2>1, <2>2, <2>4 DEF Start
    <3>2. i = k - 1 \/ OneOf(nodes, i) < OneOf(nodes, k - 1)
      <4>1. k - 1 \in Nat /\ (i = k - 1 \/ i < k - 1)
        BY <1>1, <2>1, <2>4
      <4> QED
        BY <2>1, <4>1, OneMonotone
    <3> QED
      BY <1>1, <2>1, <2>2, <2>4, <3>1, <3>2
  <2> QED
    BY <1>1, <2>1, <2>3, <2>4
<1>3. {q \in Ones(nodes) : q < p} = FirstOnes(nodes, k)
  <2>1. \A i \in 0 .. k - 1 : i \in 0 .. c - 1 /\ i < k
    BY <1>1
  <2>2. \A i \in 0 .. c - 1 : i < k => i \in 0 .. k - 1
    BY <1>1
  <2> QED
    BY <1>2, <2>1, <2>2 DEF Ones, FirstOnes
<1> QED
  BY <1>1, <1>3, FirstOnesAre

\* Where a one is, is a position.
LEMMA OneIsNatural ==
  ASSUME NEW nodes, IsTree(nodes), NEW i \in Nat
  PROVE  OneOf(nodes, i) \in Nat
<1>1. i + 1 \in Nat /\ i < i + 1
  OBVIOUS
<1> QED
  BY <1>1, OneMonotone

\* A node's bits begin where those of the node before it end, and end with its one.
LEMMA StartIs ==
  ASSUME NEW nodes, IsTree(nodes), NEW k \in Nat
  PROVE  /\ Start(nodes, k) \in Nat /\ Start(nodes, k) = k + Degree(nodes, k - 1)
         /\ Start(nodes, k) <= OneOf(nodes, k)
<1>1. CASE k = 0
  <2>1. /\ Degree(nodes, 0 - 1) \in 0 .. Cardinality(nodes) - 1
        /\ \A j \in 1 .. Cardinality(nodes) - 1 : ParentOf(nodes)[j] <= 0 - 1 <=> j <= Degree(nodes, 0 - 1)
    BY DegreeIs
  <2>2. \A j \in 1 .. Cardinality(nodes) - 1 : ParentOf(nodes)[j] \in Nat
    <3>1. Cardinality(nodes) \in Nat
      BY TreeSize
    <3> QED
      BY <3>1, ParentIs
  <2> DEFINE d == Degree(nodes, 0 - 1)
  <2>3. d \in 0 .. Cardinality(nodes) - 1 /\ \A j \in 1 .. Cardinality(nodes) - 1 : ~(j <= d)
    BY <2>1, <2>2
  <2> HIDE DEF d
  <2>4. Cardinality(nodes) \in Nat
    BY TreeSize
  <2>5. d = 0
    <3> SUFFICES ASSUME d # 0 PROVE FALSE
      OBVIOUS
    <3>1. d \in 1 .. Cardinality(nodes) - 1 /\ d <= d
      BY <2>3, <2>4
    <3> QED
      BY <2>3, <3>1
  <2>6. OneOf(nodes, 0) \in Nat
    BY OneIsNatural
  <2> QED
    BY <1>1, <2>5, <2>6 DEF Start, d
<1>2. CASE k # 0
  <2>1. k - 1 \in Nat /\ k - 1 < k
    BY <1>2
  <2>2. OneOf(nodes, k - 1) \in Nat /\ OneOf(nodes, k) \in Nat /\ OneOf(nodes, k - 1) < OneOf(nodes, k)
    BY <2>1, OneMonotone
  <2>3. OneOf(nodes, k - 1) = k - 1 + Degree(nodes, k - 1) /\ Degree(nodes, k - 1) \in 0 .. Cardinality(nodes) - 1
    BY <2>1, DegreeIs
  <2>4. Cardinality(nodes) \in Nat /\ Start(nodes, k) = OneOf(nodes, k - 1) + 1
    BY <1>2, TreeSize DEF Start
  <2> QED
    BY <2>2, <2>3, <2>4
<1> QED
  BY <1>1, <1>2

\* The one of a node is the one that as many are before.
LEMMA OneIsAt ==
  ASSUME NEW nodes, IsTree(nodes), NEW k \in 0 .. Cardinality(nodes) - 1
  PROVE  /\ OneOf(nodes, k) \in Ones(nodes)
         /\ Cardinality({q \in Ones(nodes) : q < OneOf(nodes, k)}) = k
         /\ (CHOOSE p \in Ones(nodes) : Cardinality({q \in Ones(nodes) : q < p}) = k) = OneOf(nodes, k)
<1> DEFINE Count(p) == Cardinality({q \in Ones(nodes) : q < p})
<1>1. Cardinality(nodes) \in Nat
  BY TreeSize
<1>2. \A i \in 0 .. Cardinality(nodes) - 1 : Count(OneOf(nodes, i)) = i
  <2> TAKE i \in 0 .. Cardinality(nodes) - 1
  <2>1. i \in Nat
    BY <1>1
  <2>2. OneOf(nodes, i) \in Nat /\ Start(nodes, i) <= OneOf(nodes, i) /\ OneOf(nodes, i) <= OneOf(nodes, i)
    BY <2>1, OneIsNatural, StartIs
  <2> QED
    BY <2>2, OnesBefore
<1>3. OneOf(nodes, k) \in Ones(nodes)
  BY DEF Ones
<1>4. \A p \in Ones(nodes) : \E i \in 0 .. Cardinality(nodes) - 1 : p = OneOf(nodes, i)
  BY DEF Ones
<1> HIDE DEF Count
<1>5. \A p \in Ones(nodes) : Count(p) = k => p = OneOf(nodes, k)
  BY <1>2, <1>4
<1>6. Count(OneOf(nodes, k)) = k
  BY <1>2
<1>7. (CHOOSE p \in Ones(nodes) : Count(p) = k) = OneOf(nodes, k)
  BY <1>3, <1>5, <1>6
<1> QED
  BY <1>3, <1>6, <1>7 DEF Count

\* There are as many ones as nodes, and a zero for each node but the root before the last one.
LEMMA OnesAre ==
  ASSUME NEW nodes, IsTree(nodes)
  PROVE  /\ Ones(nodes) # {} /\ Cardinality(Ones(nodes)) = Cardinality(nodes)
         /\ Max(Ones(nodes)) + 1 - Cardinality(Ones(nodes)) = Cardinality(nodes) - 1
<1> DEFINE c == Cardinality(nodes)
           O == Ones(nodes)
<1>1. c \in Nat \ {0}
  BY TreeSize
<1>2. O = FirstOnes(nodes, c)
  BY DEF Ones, FirstOnes
<1>3. Cardinality(O) = c
  BY <1>1, <1>2, FirstOnesAre
<1>4. c - 1 \in 0 .. c - 1 /\ c - 1 \in Int
  BY <1>1
<1>5. OneOf(nodes, c - 1) = c - 1 + (c - 1)
  <2>1. c - 1 >= c - 1
    BY <1>1
  <2> QED
    BY <1>4, <2>1, DegreeIs
<1>6. OneOf(nodes, c - 1) \in O
  BY <1>4 DEF Ones
<1>7. \A q \in O : q <= OneOf(nodes, c - 1) /\ q \in Nat
  <2> SUFFICES ASSUME NEW i \in 0 .. c - 1
               PROVE  OneOf(nodes, i) <= OneOf(nodes, c - 1) /\ OneOf(nodes, i) \in Nat
    BY DEF Ones
  <2>1. i \in Nat /\ c - 1 \in Nat /\ (i = c - 1 \/ i < c - 1)
    BY <1>1
  <2>2. OneOf(nodes, i) \in Nat /\ OneOf(nodes, c - 1) \in Nat
    BY <2>1, OneIsNatural
  <2>3. i < c - 1 => OneOf(nodes, i) < OneOf(nodes, c - 1)
    BY <2>1, OneMonotone
  <2> QED
    BY <2>1, <2>2, <2>3
<1> HIDE DEF O
<1>8. Max(O) = c - 1 + (c - 1)
  <2> DEFINE x == OneOf(nodes, c - 1)
  <2>1. x \in O /\ \A q \in O : q \in Nat /\ x >= q
    BY <1>6, <1>7
  <2> HIDE DEF x
  <2>2. \A y \in O : (\A q \in O : y >= q) => y = x
    BY <2>1
  <2>3. Max(O) = x
    BY <2>1, <2>2 DEF Max
  <2> QED
    BY <1>5, <2>3 DEF x
<1>9. O # {}
  BY <1>6
<1>10. Max(O) + 1 - Cardinality(O) = c - 1
  BY <1>1, <1>3, <1>8
<1> QED
  BY <1>3, <1>9, <1>10 DEF O

\* The bits of node k: zeroes for its children, in the order of their numbers, and its one.
LEMMA BitsAre ==
  ASSUME NEW nodes, IsTree(nodes), NEW k \in 0 .. Cardinality(nodes) - 1, NEW p \in Nat,
         Start(nodes, k) <= p, p <= OneOf(nodes, k),
         NEW c, c = p - k + 1
  PROVE  /\ p \in Ones(nodes) <=> p = OneOf(nodes, k)
         /\ c \in Nat
         /\ \A j \in 1 .. Cardinality(nodes) - 1 :
              ParentOf(nodes)[j] = k => (p = OneOf(nodes, k) => j < c) /\ (p = Start(nodes, k) => j >= c)
         /\ p # OneOf(nodes, k) =>
              /\ c \in 1 .. Cardinality(nodes) - 1 /\ ParentOf(nodes)[c] = k
              /\ \A x : x = p + 1 => x - Cardinality({q \in Ones(nodes) : q < x}) = c
<1> DEFINE m == Cardinality(nodes) - 1
           d == Degree(nodes, k - 1)
           e == Degree(nodes, k)
<1>1. m \in Nat /\ k \in Nat /\ k - 1 \in Int
  BY TreeSize
<1>2. d \in 0 .. m /\ \A j \in 1 .. m : ParentOf(nodes)[j] <= k - 1 <=> j <= d
  BY <1>1, DegreeIs
<1>3. e \in 0 .. m /\ (\A j \in 1 .. m : ParentOf(nodes)[j] <= k <=> j <= e) /\ OneOf(nodes, k) = k + e
  BY <1>1, DegreeIs
<1>4. Start(nodes, k) = k + d
  BY <1>1, StartIs
<1>5. \A j \in 1 .. m : ParentOf(nodes)[j] \in Nat
  BY <1>1, ParentIs
<1>6. ASSUME p \in Ones(nodes) PROVE p = OneOf(nodes, k)
  <2>1. PICK i \in 0 .. m : p = OneOf(nodes, i)
    BY <1>6 DEF Ones
  <2>2. Cardinality({q \in Ones(nodes) : q < p}) = i
    BY <2>1, OneIsAt
  <2>3. Cardinality({q \in Ones(nodes) : q < p}) = k
    BY OnesBefore
  <2> QED
    BY <2>1, <2>2, <2>3
<1>7. OneOf(nodes, k) \in Ones(nodes)
  BY OneIsAt
<1> HIDE DEF m, d, e
<1>8. c \in Nat /\ k + d <= p /\ p <= k + e
  BY <1>1, <1>2, <1>3, <1>4
<1>9. ASSUME NEW j \in 1 .. m, ParentOf(nodes)[j] = k
      PROVE  (p = k + e => j < c) /\ (p = k + d => j >= c)
  <2>1. ~(ParentOf(nodes)[j] <= k - 1) /\ ParentOf(nodes)[j] <= k
    BY <1>1, <1>9
  <2>2. j <= e /\ ~(j <= d)
    BY <1>2, <1>3, <2>1
  <2> QED
    BY <1>1, <1>2, <1>3, <2>2
<1>10. ASSUME p # k + e
       PROVE  /\ c \in 1 .. m /\ ParentOf(nodes)[c] = k
              /\ \A x : x = p + 1 => x - Cardinality({q \in Ones(nodes) : q < x}) = c
  <2>1. c \in 1 .. m /\ c <= e /\ ~(c <= d)
    BY <1>1, <1>2, <1>3, <1>8, <1>10
  <2>2. ParentOf(nodes)[c] <= k /\ ~(ParentOf(nodes)[c] <= k - 1) /\ ParentOf(nodes)[c] \in Nat
    BY <1>2, <1>3, <1>5, <2>1
  <2>3. p + 1 \in Nat /\ Start(nodes, k) <= p + 1 /\ p + 1 <= OneOf(nodes, k)
    BY <1>1, <1>2, <1>3, <1>4, <1>8, <1>10
  <2>4. \A x : x = p + 1 => Cardinality({q \in Ones(nodes) : q < x}) = k
    BY <2>3, OnesBefore
  <2> QED
    BY <1>1, <2>1, <2>2, <2>4
<1> QED
  BY <1>3, <1>4, <1>6, <1>7, <1>8, <1>9, <1>10 DEF m

\* The children of a node are what it is extended to in the trie.
LEMMA ChildIs ==
  ASSUME NEW nodes, IsTree(nodes), NEW w \in nodes, NEW j \in 1 .. Cardinality(nodes) - 1,
         ParentOf(nodes)[j] = IdOf(nodes)[w]
  PROVE  /\ NodeAt(nodes)[j] = Append(w, Last(NodeAt(nodes)[j]))
         /\ NodeAt(nodes)[j] \in nodes
         /\ Last(NodeAt(nodes)[j]) \in Nat
<1> DEFINE n == NodeAt(nodes)[j]
<1>1. nodes \in SUBSET Seq(Nat) /\ IsFiniteSet(nodes)
  BY TreeSize
<1>2. n \in nodes /\ n \in Seq(Nat) /\ Len(n) > 0
  BY RootIsZero
<1>3. Front(n) \in nodes /\ IdOf(nodes)[Front(n)] = IdOf(nodes)[w]
  BY ParentIs
<1> HIDE DEF n
<1>4. Front(n) = w
  BY <1>1, <1>3, NumberInjective
<1>5. /\ w \in Seq(Nat) /\ Len(w) = Len(n) - 1
      /\ \A i \in 1 .. Len(n) - 1 : w[i] = n[i]
  BY <1>2, <1>4, FrontIs
<1>6. Last(n) \in Nat /\ Last(n) = n[Len(n)] /\ Len(n) \in Nat
  BY <1>2 DEF Last
<1>7. n = Append(w, Last(n))
  <2> DEFINE a == Append(w, Last(n))
  <2>1. a \in Seq(Nat) /\ Len(a) = Len(n) /\ a[Len(n)] = n[Len(n)] /\ \A i \in 1 .. Len(n) - 1 : a[i] = n[i]
    BY <1>5, <1>6
  <2> HIDE DEF a
  <2>2. \A i \in 1 .. Len(a) : i \in 1 .. Len(n) - 1 \/ i = Len(n)
    BY <1>6, <2>1
  <2>3. \A i \in 1 .. Len(a) : a[i] = n[i]
    BY <2>1, <2>2
  <2>4. a = n
    BY <1>2, <2>1, <2>3, SeqEqual
  <2> QED
    BY <2>4 DEF a
<1> QED
  BY <1>2, <1>6, <1>7 DEF n

\* A sequence that is extended has what it was extended by at its end.
LEMMA AppendIs ==
  ASSUME NEW w \in Seq(Nat), NEW l \in Nat
  PROVE  /\ Append(w, l) \in Seq(Nat) /\ Len(Append(w, l)) = Len(w) + 1 /\ Len(w) \in Nat
         /\ Last(Append(w, l)) = l /\ Front(Append(w, l)) = w
<1> DEFINE a == Append(w, l)
           n == Len(w)
<1>1. /\ a \in Seq(Nat) /\ Len(a) = n + 1 /\ n \in Nat /\ a[n + 1] = l
      /\ \A i \in 1 .. n : a[i] = w[i]
  OBVIOUS
<1> HIDE DEF a
<1>2. Front(a) \in Seq(Nat) /\ Len(Front(a)) = n /\ \A i \in 1 .. n : Front(a)[i] = a[i]
  <2>1. Len(a) > 0 /\ Len(a) - 1 = n
    BY <1>1
  <2> QED
    BY <1>1, <2>1, FrontIs
<1>3. Front(a) = w
  BY <1>1, <1>2, SeqEqual
<1>4. Last(a) = l
  BY <1>1 DEF Last
<1> QED
  BY <1>1, <1>3, <1>4 DEF a

\* Every extension in the trie has a number, and a label at its parent.
LEMMA ExtensionIsChild ==
  ASSUME NEW nodes, IsTree(nodes), NEW w \in nodes, NEW l \in Nat, Append(w, l) \in nodes
  PROVE  \E j \in 1 .. Cardinality(nodes) - 1 :
           /\ ParentOf(nodes)[j] = IdOf(nodes)[w] /\ NodeAt(nodes)[j] = Append(w, l)
           /\ Last(NodeAt(nodes)[j]) = l /\ j = IdOf(nodes)[Append(w, l)]
<1> DEFINE n == Append(w, l)
           j == IdOf(nodes)[n]
<1>1. nodes \in SUBSET Seq(Nat) /\ IsFiniteSet(nodes) /\ Cardinality(nodes) \in Nat /\ w \in Seq(Nat)
  BY TreeSize
<1>2. n \in Seq(Nat) /\ Len(n) = Len(w) + 1 /\ Len(w) \in Nat /\ Last(n) = l /\ Front(n) = w
  BY <1>1, AppendIs
<1> HIDE DEF n
<1>3. n \in nodes
  BY DEF n
<1>4. j \in 0 .. Cardinality(nodes) - 1 /\ NodeAt(nodes)[j] = n
  BY <1>1, <1>3, NumberRange, NumberOfNode
<1>5. j # 0
  <2>1. NodeAt(nodes)[0] = << >> /\ Len(<< >>) = 0
    BY RootIsZero
  <2>2. n # << >>
    BY <1>2, <2>1
  <2> QED
    BY <1>4, <2>1, <2>2
<1>6. j \in 1 .. Cardinality(nodes) - 1
  BY <1>1, <1>4, <1>5
<1> HIDE DEF j
<1>7. ParentOf(nodes)[j] = IdOf(nodes)[w]
  BY <1>2, <1>4, <1>6, ParentIs
<1> QED
  BY <1>2, <1>4, <1>6, <1>7 DEF n, j

-----------------------------------------------------------------------------
(****************************************************************************)
(* The walk of SrsDomainMatcher says what the rules say, for every set of   *)
(* rules and every domain.  MatchingInv is inductive: the node is that of the*)
(* part of the domain that is behind, no key said yes before, and no label of*)
(* the node that was passed leads to a key that does.                       *)
(****************************************************************************)

\* A beginning of a sequence is a sequence.
LEMMA PrefixOfSeq ==
  ASSUME NEW S, NEW s \in Seq(S), NEW n \in 0 .. Len(s)
  PROVE  /\ SubSeq(s, 1, n) \in Seq(S) /\ Len(SubSeq(s, 1, n)) = n
         /\ \A i \in 1 .. n : SubSeq(s, 1, n)[i] = s[i]
<1>1. n \in Nat /\ \A i \in 1 .. n : s[i] \in S
  OBVIOUS
<1>2. /\ SubSeq(s, 1, n) \in Seq(S) /\ Len(SubSeq(s, 1, n)) = IF 1 <= n THEN n - 1 + 1 ELSE 0
      /\ \A i \in 1 .. n - 1 + 1 : SubSeq(s, 1, n)[i] = s[1 + i - 1]
  BY <1>1, SubSeqProperties
<1> QED
  BY <1>1, <1>2

\* A beginning's beginning is the sequence's.
LEMMA PrefixOfPrefix ==
  ASSUME NEW S, NEW s \in Seq(S), NEW n \in 0 .. Len(s), NEW k \in 0 .. n
  PROVE  SubSeq(SubSeq(s, 1, n), 1, k) = SubSeq(s, 1, k)
<1> DEFINE t == SubSeq(s, 1, n)
           u == SubSeq(s, 1, k)
<1>1. t \in Seq(S) /\ Len(t) = n /\ \A i \in 1 .. n : t[i] = s[i]
  BY PrefixOfSeq
<1>2. k \in 0 .. Len(s)
  OBVIOUS
<1>3. u \in Seq(S) /\ Len(u) = k /\ \A i \in 1 .. k : u[i] = s[i]
  BY <1>2, PrefixOfSeq
<1> HIDE DEF t, u
<1> DEFINE v == SubSeq(t, 1, k)
<1>4. v \in Seq(S) /\ Len(v) = k /\ \A i \in 1 .. k : v[i] = t[i]
  BY <1>1, PrefixOfSeq
<1> HIDE DEF v
<1>5. \A i \in 1 .. k : i \in 1 .. n
  OBVIOUS
<1>6. v = u
  BY <1>1, <1>3, <1>4, <1>5, SeqEqual
<1> QED
  BY <1>6 DEF t, u, v

\* A beginning and the element after it are the next longer beginning.
LEMMA PrefixExtended ==
  ASSUME NEW S, NEW s \in Seq(S), NEW n \in Nat, n < Len(s)
  PROVE  SubSeq(s, 1, n + 1) = Append(SubSeq(s, 1, n), s[n + 1])
<1> DEFINE t == SubSeq(s, 1, n)
           u == SubSeq(s, 1, n + 1)
<1>1. t \in Seq(S) /\ Len(t) = n /\ \A i \in 1 .. n : t[i] = s[i]
  <2>1. n \in 0 .. Len(s)
    OBVIOUS
  <2> QED
    BY <2>1, PrefixOfSeq
<1>2. u \in Seq(S) /\ Len(u) = n + 1 /\ \A i \in 1 .. n + 1 : u[i] = s[i]
  <2>1. n + 1 \in 0 .. Len(s)
    OBVIOUS
  <2> QED
    BY <2>1, PrefixOfSeq
<1>3. s[n + 1] \in S
  OBVIOUS
<1> HIDE DEF t, u
<1> DEFINE a == Append(t, s[n + 1])
<1>4. a \in Seq(S) /\ Len(a) = n + 1 /\ a[n + 1] = s[n + 1] /\ \A i \in 1 .. n : a[i] = t[i]
  BY <1>1, <1>3
<1> HIDE DEF a
<1>5. \A i \in 1 .. n + 1 : i \in 1 .. n \/ i = n + 1
  OBVIOUS
<1>6. \A i \in 1 .. n + 1 : u[i] = a[i]
  BY <1>1, <1>2, <1>4, <1>5
<1>7. u = a
  BY <1>2, <1>4, <1>6, SeqEqual
<1> QED
  BY <1>7 DEF t, u, a

\* Extensions are equal if what is extended and what by are.
LEMMA AppendEqual ==
  ASSUME NEW S, NEW s \in Seq(S), NEW t \in Seq(S), NEW a \in S, NEW b \in S
  PROVE  Append(s, a) = Append(t, b) <=> s = t /\ a = b
<1> SUFFICES ASSUME Append(s, a) = Append(t, b) PROVE s = t /\ a = b
  OBVIOUS
<1>1. Len(s) \in Nat /\ Len(t) \in Nat /\ Len(Append(s, a)) = Len(s) + 1 /\ Len(Append(t, b)) = Len(t) + 1
  OBVIOUS
<1>2. Len(s) = Len(t)
  BY <1>1
<1>3. Append(s, a)[Len(s) + 1] = a /\ Append(t, b)[Len(t) + 1] = b
  OBVIOUS
<1>4. \A i \in 1 .. Len(s) : Append(s, a)[i] = s[i] /\ Append(t, b)[i] = t[i]
  BY <1>2
<1>5. s = t
  BY <1>2, <1>4, SeqEqual
<1> QED
  BY <1>2, <1>3, <1>5

\* The same, of the sequences that keys and names are.
LEMMA AppendOfNumbers ==
  ASSUME NEW s \in Seq(Nat), NEW t \in Seq(Nat), NEW a \in Nat, NEW b \in Nat
  PROVE  Append(s, a) = Append(t, b) <=> s = t /\ a = b
BY AppendEqual

\* What is at a place of the reversed sequence.
LEMMA ReverseIs ==
  ASSUME NEW S, NEW s \in Seq(S)
  PROVE  /\ Reverse(s) \in Seq(S) /\ Len(Reverse(s)) = Len(s) /\ Len(s) \in Nat
         /\ \A i \in 1 .. Len(s) : Reverse(s)[i] = s[Len(s) - i + 1] /\ Len(s) - i + 1 \in 1 .. Len(s)
<1> DEFINE n == Len(s)
           r == Reverse(s)
<1>1. n \in Nat /\ \A i \in 1 .. n : s[i] \in S
  OBVIOUS
<1>2. r = [i \in 1 .. n |-> s[n - i + 1]]
  BY DEF Reverse
<1> HIDE DEF n, r
<1>3. \A i \in 1 .. n : n - i + 1 \in 1 .. n
  BY <1>1
<1>4. r \in [1 .. n -> S]
  BY <1>1, <1>2, <1>3
<1>5. r \in Seq(S) /\ Len(r) = n
  BY <1>1, <1>4
<1> QED
  BY <1>1, <1>2, <1>3, <1>5 DEF n, r

\* No two sequences have the same reverse.
LEMMA ReverseInjective ==
  ASSUME NEW S, NEW s \in Seq(S), NEW t \in Seq(S), Reverse(s) = Reverse(t)
  PROVE  s = t
<1>1. Len(s) = Len(t) /\ Len(s) \in Nat
  BY ReverseIs
<1>2. ASSUME NEW i \in 1 .. Len(s) PROVE s[i] = t[i]
  <2> DEFINE j == Len(s) - i + 1
  <2>1. j \in 1 .. Len(s) /\ j \in 1 .. Len(t) /\ Len(s) - j + 1 = i /\ Len(t) - j + 1 = i
    BY <1>1
  <2> HIDE DEF j
  <2>2. Reverse(s)[j] = s[Len(s) - j + 1] /\ Reverse(t)[j] = t[Len(t) - j + 1]
    BY <2>1, ReverseIs
  <2> QED
    BY <2>1, <2>2
<1> QED
  BY <1>1, <1>2, SeqEqual

\* A name behind a dot, reversed: the dot is at the end.
LEMMA ReverseOfDotted ==
  ASSUME NEW S, NEW s \in Seq(S), NEW d \in S
  PROVE  Reverse(<<d>> \o s) = Append(Reverse(s), d)
<1> DEFINE n == Len(s)
           t == <<d>> \o s
<1>1. n \in Nat /\ t \in Seq(S) /\ Len(t) = n + 1 /\ t[1] = d /\ \A i \in 1 .. n : t[i + 1] = s[i]
  OBVIOUS
<1> HIDE DEF t
<1>2. Reverse(s) \in Seq(S) /\ Len(Reverse(s)) = n /\ \A i \in 1 .. n : Reverse(s)[i] = s[n - i + 1] /\ n - i + 1 \in 1 .. n
  BY ReverseIs
<1>3. Reverse(t) \in Seq(S) /\ Len(Reverse(t)) = n + 1 /\ \A i \in 1 .. n + 1 : Reverse(t)[i] = t[(n + 1) - i + 1]
  BY <1>1, ReverseIs
<1> DEFINE a == Append(Reverse(s), d)
<1>4. a \in Seq(S) /\ Len(a) = n + 1 /\ a[n + 1] = d /\ \A i \in 1 .. n : a[i] = Reverse(s)[i]
  BY <1>2
<1> HIDE DEF a, n
<1>5. ASSUME NEW i \in 1 .. n + 1 PROVE Reverse(t)[i] = a[i]
  <2>1. CASE i = n + 1
    <3>1. (n + 1) - i + 1 = 1
      BY <1>1, <2>1
    <3> QED
      BY <1>1, <1>3, <1>4, <2>1, <3>1
  <2>2. CASE i # n + 1
    <3>1. i \in 1 .. n /\ (n + 1) - i + 1 = (n - i + 1) + 1
      BY <1>1, <2>2
    <3>2. a[i] = s[n - i + 1] /\ t[(n - i + 1) + 1] = s[n - i + 1]
      BY <1>1, <1>2, <1>4, <3>1
    <3> QED
      BY <1>3, <3>1, <3>2
  <2> QED
    BY <2>1, <2>2
<1>6. Reverse(t) = a
  BY <1>3, <1>4, <1>5, SeqEqual
<1> QED
  BY <1>6 DEF a, t

-----------------------------------------------------------------------------
\* Only at its end may a key have a label that is not a character.
IsKey(key) == key \in Seq(Nat) /\ \A i \in 1 .. Len(key) - 1 : key[i] > PrefixLabel

IsRule(r) == IsName(r.name) /\ r.kind \in {"exact", "suffix", "prefix"}

\* A name is a sequence of characters, and so is its reverse.
LEMMA NameIs ==
  ASSUME NEW name, IsName(name)
  PROVE  /\ name \in Seq(Character) /\ name \in Seq(Nat)
         /\ Reverse(name) \in Seq(Character) /\ Reverse(name) \in Seq(Nat)
         /\ Len(Reverse(name)) = Len(name) /\ Len(name) \in Nat
         /\ \A i \in 1 .. Len(name) : Reverse(name)[i] \in Nat /\ Reverse(name)[i] > PrefixLabel
<1>1. name \in Seq(Character)
  BY DEF IsName
<1>2. Reverse(name) \in Seq(Character) /\ Len(Reverse(name)) = Len(name) /\ Len(name) \in Nat
  BY <1>1, ReverseIs
<1>3. \A c \in Character : c \in Nat /\ c > PrefixLabel
  BY DEF Character
<1>4. ASSUME NEW s \in Seq(Character)
      PROVE  s \in Seq(Nat) /\ \A i \in 1 .. Len(s) : s[i] \in Nat /\ s[i] > PrefixLabel
  <2>1. Len(s) \in Nat /\ s = [i \in 1 .. Len(s) |-> s[i]] /\ \A i \in 1 .. Len(s) : s[i] \in Character
    OBVIOUS
  <2>2. \A i \in 1 .. Len(s) : s[i] \in Nat /\ s[i] > PrefixLabel
    BY <1>3, <2>1
  <2>3. s \in [1 .. Len(s) -> Nat]
    BY <2>1, <2>2
  <2>4. s \in Seq(Nat)
    BY <2>1, <2>3
  <2> QED
    BY <2>2, <2>4
<1> QED
  BY <1>1, <1>2, <1>4

\* What a rule's key is made of.
LEMMA KeyIs ==
  ASSUME NEW r, IsRule(r)
  PROVE  /\ r.kind = "exact" => KeyOf(r) = Reverse(r.name)
         /\ r.kind = "suffix" => KeyOf(r) = Append(Reverse(r.name), RootLabel)
         /\ r.kind = "prefix" => KeyOf(r) = Append(Reverse(r.name), PrefixLabel)
         /\ IsKey(KeyOf(r))
<1> DEFINE w == Reverse(r.name)
<1>1. w \in Seq(Nat) /\ Len(w) \in Nat /\ \A i \in 1 .. Len(w) : w[i] > PrefixLabel
  BY NameIs DEF IsRule
<1>2. r.kind = "exact" => KeyOf(r) = w
  <2>1. r.kind = "exact" => KeyOf(r) = w \o << >>
    BY DEF KeyOf
  <2> HIDE DEF w
  <2>2. w \o << >> = w
    BY <1>1
  <2> QED
    BY <2>1, <2>2
<1>3. r.kind = "suffix" => KeyOf(r) = Append(w, RootLabel)
  <2>1. r.kind = "suffix" => KeyOf(r) = w \o <<RootLabel>>
    BY DEF KeyOf
  <2> HIDE DEF w
  <2>2. w \o <<RootLabel>> = Append(w, RootLabel)
    BY <1>1, AppendIsConcat DEF RootLabel
  <2> QED
    BY <2>1, <2>2
<1>4. r.kind = "prefix" => KeyOf(r) = Append(w, PrefixLabel)
  <2>1. r.kind = "prefix" => KeyOf(r) = w \o <<PrefixLabel>>
    BY DEF KeyOf
  <2> HIDE DEF w
  <2>2. w \o <<PrefixLabel>> = Append(w, PrefixLabel)
    BY <1>1, AppendIsConcat DEF PrefixLabel
  <2> QED
    BY <2>1, <2>2
<1> HIDE DEF w
<1>5. IsKey(w)
  BY <1>1 DEF IsKey
<1>6. ASSUME NEW l \in Nat PROVE IsKey(Append(w, l))
  <2> DEFINE a == Append(w, l)
  <2>1. a \in Seq(Nat) /\ Len(a) = Len(w) + 1 /\ \A i \in 1 .. Len(w) : a[i] = w[i]
    BY <1>1
  <2> HIDE DEF a
  <2>2. \A i \in 1 .. Len(a) - 1 : i \in 1 .. Len(w)
    BY <1>1, <2>1
  <2>3. IsKey(a)
    BY <1>1, <2>1, <2>2 DEF IsKey
  <2> QED
    BY <2>3 DEF a
<1>7. RootLabel \in Nat /\ PrefixLabel \in Nat
  BY DEF RootLabel, PrefixLabel
<1>8. IsKey(KeyOf(r))
  BY <1>2, <1>3, <1>4, <1>5, <1>6, <1>7 DEF IsRule
<1> QED
  BY <1>2, <1>3, <1>4, <1>8 DEF w

IsKeys(keys) == IsFiniteSet(keys) /\ keys # {} /\ \A key \in keys : IsKey(key)

\* A node is the beginning of a key.
LEMMA NodeIs ==
  ASSUME NEW keys, NEW n
  PROVE  n \in Nodes(keys) <=> \E key \in keys : \E k \in 0 .. Len(key) : n = SubSeq(key, 1, k)
BY DEF Nodes

\* The prefixes of a key that are a node's prefixes are nodes.
LEMMA PrefixOfNode ==
  ASSUME NEW keys, \A key \in keys : IsKey(key), NEW n \in Nodes(keys), NEW k \in 0 .. Len(n)
  PROVE  SubSeq(n, 1, k) \in Nodes(keys)
<1>0. PICK key \in keys : \E i \in 0 .. Len(key) : n = SubSeq(key, 1, i)
  BY NodeIs
<1>1. PICK i \in 0 .. Len(key) : n = SubSeq(key, 1, i)
  BY <1>0
<1>2. key \in Seq(Nat)
  BY DEF IsKey
<1>3. Len(n) = i /\ i \in Nat
  BY <1>1, <1>2, PrefixOfSeq
<1>4. k \in 0 .. i /\ k \in 0 .. Len(key)
  BY <1>2, <1>3
<1>5. SubSeq(n, 1, k) = SubSeq(key, 1, k)
  BY <1>1, <1>2, <1>4, PrefixOfPrefix
<1> QED
  BY <1>4, <1>5, NodeIs

\* Finitely many rules have finitely many nodes.
LEMMA NodesAreFinite ==
  ASSUME NEW keys, IsKeys(keys)
  PROVE  IsFiniteSet(Nodes(keys))
<1> DEFINE Beginnings(key) == {SubSeq(key, 1, n) : n \in 0 .. Len(key)}
           U == {Beginnings(key) : key \in keys}
<1>1. Nodes(keys) = UNION U
  BY DEF Nodes
<1>2. ASSUME NEW key \in keys PROVE IsFiniteSet(Beginnings(key))
  <2> DEFINE I == 0 .. Len(key)
             T == Beginnings(key)
             F == [n \in I |-> SubSeq(key, 1, n)]
  <2>1. Len(key) \in Nat
    BY <1>2 DEF IsKeys, IsKey
  <2>2. IsFiniteSet(I)
    BY <2>1, FS_Interval
  <2>3. F \in [I -> T] /\ \A t \in T : \E n \in I : F[n] = t
    OBVIOUS
  <2> HIDE DEF F, I, T
  <2>4. F \in Surjection(I, T)
    BY <2>3 DEF Surjection
  <2>5. IsFiniteSet(T)
    BY <2>2, <2>4, FS_Surjection
  <2> QED
    BY <2>5 DEF T
<1>3. IsFiniteSet(U)
  <2> DEFINE F == [key \in keys |-> Beginnings(key)]
  <2> HIDE DEF Beginnings
  <2>1. F \in [keys -> U] /\ \A t \in U : \E key \in keys : F[key] = t
    OBVIOUS
  <2> HIDE DEF F, U
  <2>2. F \in Surjection(keys, U)
    BY <2>1 DEF Surjection
  <2> QED
    BY <2>2, FS_Surjection DEF IsKeys
<1>4. \A T \in U : IsFiniteSet(T)
  BY <1>2
<1> HIDE DEF U
<1>5. IsFiniteSet(UNION U)
  BY <1>3, <1>4, FS_UNION
<1> QED
  BY <1>1, <1>5

\* The beginnings of keys are a trie.
LEMMA NodesAreATree ==
  ASSUME NEW keys, IsKeys(keys)
  PROVE  IsTree(Nodes(keys)) /\ keys \in SUBSET Nodes(keys)
<1>1. \A key \in keys : IsKey(key) /\ key \in Seq(Nat) /\ Len(key) \in Nat
  BY DEF IsKeys, IsKey
<1>2. Nodes(keys) \in SUBSET Seq(Nat)
  <2> SUFFICES ASSUME NEW n \in Nodes(keys) PROVE n \in Seq(Nat)
    OBVIOUS
  <2>1. \E key \in keys : \E k \in 0 .. Len(key) : n = SubSeq(key, 1, k)
    BY NodeIs
  <2> QED
    BY <1>1, <2>1, PrefixOfSeq
<1>3. keys \in SUBSET Nodes(keys)
  <2> SUFFICES ASSUME NEW key \in keys PROVE key \in Nodes(keys)
    OBVIOUS
  <2>1. Len(key) \in 0 .. Len(key) /\ key = SubSeq(key, 1, Len(key))
    BY <1>1, SubSeqFull
  <2> QED
    BY <2>1, NodeIs
<1>4. << >> \in Nodes(keys)
  <2>1. PICK key \in keys : TRUE
    BY DEF IsKeys
  <2>2. 0 \in 0 .. Len(key) /\ SubSeq(key, 1, 0) = << >>
    BY <1>1, SubSeqEmpty
  <2> QED
    BY <2>2, NodeIs
<1>5. ASSUME NEW n \in Nodes(keys), Len(n) > 0 PROVE Front(n) \in Nodes(keys)
  <2>1. n \in Seq(Nat) /\ Len(n) - 1 \in 0 .. Len(n)
    BY <1>2, <1>5
  <2>2. SubSeq(n, 1, Len(n) - 1) \in Nodes(keys)
    BY <1>1, <2>1, PrefixOfNode
  <2> QED
    BY <2>2 DEF Front
<1>6. IsFiniteSet(Nodes(keys))
  BY NodesAreFinite
<1> QED
  BY <1>2, <1>3, <1>4, <1>5, <1>6 DEF IsTree

\* A rule's label ends a key.
LEMMA SpecialIsLast ==
  ASSUME NEW keys, IsKeys(keys), NEW w \in Seq(Nat), NEW l \in Nat, l <= PrefixLabel,
         Append(w, l) \in Nodes(keys)
  PROVE  Append(w, l) \in keys
<1> DEFINE n == Append(w, l)
<1>1. n \in Seq(Nat) /\ Len(n) = Len(w) + 1 /\ Len(w) \in Nat /\ n[Len(w) + 1] = l
  OBVIOUS
<1> HIDE DEF n
<1>a. n \in Nodes(keys)
  BY DEF n
<1>0. PICK key \in keys : \E k \in 0 .. Len(key) : n = SubSeq(key, 1, k)
  BY <1>a, NodeIs
<1>2. PICK k \in 0 .. Len(key) : n = SubSeq(key, 1, k)
  BY <1>0
<1>3. key \in Seq(Nat) /\ Len(key) \in Nat /\ \A i \in 1 .. Len(key) - 1 : key[i] > PrefixLabel
  BY DEF IsKeys, IsKey
<1>4. Len(n) = k /\ \A i \in 1 .. k : n[i] = key[i]
  BY <1>2, <1>3, PrefixOfSeq
<1>5. k \in 1 .. k /\ key[k] = l
  BY <1>1, <1>4
<1>6. k = Len(key)
  <2> SUFFICES ASSUME k # Len(key) PROVE FALSE
    OBVIOUS
  <2>1. k \in 1 .. Len(key) - 1
    BY <1>1, <1>3, <1>4
  <2>2. key[k] > PrefixLabel
    BY <1>3, <2>1
  <2> QED
    BY <1>5, <2>2 DEF PrefixLabel
<1>7. n = key
  BY <1>2, <1>3, <1>6, SubSeqFull
<1> QED
  BY <1>7 DEF n

-----------------------------------------------------------------------------
\* What of the reversed name is behind.
Walked(name, i) == SubSeq(Reverse(name), 1, i)

\* The key says yes to the name once so much of it is behind.
HitBy(key, name, i) ==
  \/ key = Append(Walked(name, i), PrefixLabel)
  \/ key = Append(Walked(name, i), RootLabel) /\ (i = Len(name) \/ Reverse(name)[i + 1] = Dot)
  \/ key = Walked(name, i) /\ i = Len(name)
Hit(keys, name, i) == \E key \in keys : HitBy(key, name, i)

\* A character more is behind.
LEMMA WalkedIs ==
  ASSUME NEW name, IsName(name), NEW i \in 0 .. Len(name)
  PROVE  /\ Walked(name, i) \in Seq(Nat) /\ Len(Walked(name, i)) = i
         /\ \A j \in 1 .. i : Walked(name, i)[j] > PrefixLabel
         /\ i = Len(name) => Walked(name, i) = Reverse(name)
         /\ i < Len(name) => Walked(name, i + 1) = Append(Walked(name, i), Reverse(name)[i + 1])
<1> DEFINE s == Reverse(name)
<1>1. s \in Seq(Nat) /\ Len(s) = Len(name) /\ Len(name) \in Nat /\ \A j \in 1 .. Len(name) : s[j] > PrefixLabel
  BY NameIs
<1> HIDE DEF s
<1>2. i \in 0 .. Len(s) /\ i \in Nat
  BY <1>1
<1>3. /\ SubSeq(s, 1, i) \in Seq(Nat) /\ Len(SubSeq(s, 1, i)) = i
      /\ \A j \in 1 .. i : SubSeq(s, 1, i)[j] = s[j]
  BY <1>1, <1>2, PrefixOfSeq
<1>4. \A j \in 1 .. i : j \in 1 .. Len(name)
  BY <1>1
<1>5. i = Len(s) => SubSeq(s, 1, i) = s
  BY <1>1, SubSeqFull
<1>6. i < Len(s) => SubSeq(s, 1, i + 1) = Append(SubSeq(s, 1, i), s[i + 1])
  BY <1>1, <1>2, PrefixExtended
<1> QED
  BY <1>1, <1>3, <1>4, <1>5, <1>6 DEF s, Walked

\* The end of a domain is a name if the beginning of the reversed domain is the reversed name.
LEMMA SuffixIs ==
  ASSUME NEW S, NEW s \in Seq(S), NEW t \in Seq(S)
  PROVE  IsSuffix(s, t) <=> Len(s) <= Len(t) /\ SubSeq(Reverse(t), 1, Len(s)) = Reverse(s)
<1>1. /\ Reverse(s) \in Seq(S) /\ Len(Reverse(s)) = Len(s)
      /\ Reverse(t) \in Seq(S) /\ Len(Reverse(t)) = Len(t)
  BY ReverseIs
<1>2. SubSeq(Reverse(s), 1, Len(Reverse(s))) = Reverse(s)
  BY <1>1, SubSeqFull
<1> QED
  BY <1>1, <1>2 DEF IsSuffix, IsPrefix

\* When the key of a rule says yes, by the kind of the rule.
LEMMA KindsOfHit ==
  ASSUME NEW r, IsRule(r), NEW name, IsName(name), NEW i \in 0 .. Len(name)
  PROVE  HitBy(KeyOf(r), name, i) <=>
           \/ r.kind = "prefix" /\ Walked(name, i) = Reverse(r.name)
           \/ /\ r.kind = "suffix" /\ Walked(name, i) = Reverse(r.name)
              /\ i = Len(name) \/ Reverse(name)[i + 1] = Dot
           \/ r.kind = "exact" /\ Walked(name, i) = Reverse(r.name) /\ i = Len(name)
<1> DEFINE v == Reverse(r.name)
           w == Walked(name, i)
           P == Append(w, PrefixLabel)
           R == Append(w, RootLabel)
           k == KeyOf(r)
<1>1. v \in Seq(Nat) /\ Len(v) \in Nat /\ \A j \in 1 .. Len(v) : v[j] > PrefixLabel
  BY NameIs DEF IsRule
<1>2. w \in Seq(Nat) /\ Len(w) = i /\ i \in Nat /\ \A j \in 1 .. i : w[j] > PrefixLabel
  BY WalkedIs
<1> HIDE DEF v, w
<1>3. RootLabel \in Nat /\ PrefixLabel \in Nat /\ RootLabel # PrefixLabel /\ RootLabel <= PrefixLabel
  BY DEF RootLabel, PrefixLabel
<1>4. /\ P = Append(v, PrefixLabel) <=> w = v
      /\ R = Append(v, RootLabel) <=> w = v
      /\ P # Append(v, RootLabel) /\ R # Append(v, PrefixLabel)
  <2>1. ASSUME NEW a \in Nat, NEW b \in Nat PROVE Append(w, a) = Append(v, b) <=> w = v /\ a = b
    <3>1. v \in Seq(Nat)
      BY <1>1
    <3>2. w \in Seq(Nat)
      BY <1>2
    <3> QED
      BY <3>1, <3>2, AppendOfNumbers
  <2> QED
    BY <1>3, <2>1
<1>5. ASSUME NEW x \in Seq(Nat), NEW y \in Seq(Nat), NEW l \in Nat, l <= PrefixLabel,
             \A j \in 1 .. Len(y) : y[j] > PrefixLabel
      PROVE  Append(x, l) # y
  <2> SUFFICES ASSUME Append(x, l) = y PROVE FALSE
    OBVIOUS
  <2>1. Len(y) = Len(x) + 1 /\ Len(x) \in Nat /\ y[Len(x) + 1] = l
    OBVIOUS
  <2>2. Len(x) + 1 \in 1 .. Len(y)
    BY <2>1
  <2>3. l > PrefixLabel
    BY <1>5, <2>1, <2>2
  <2> QED
    BY <1>5, <2>3 DEF PrefixLabel
<1>6. /\ P # v /\ R # v /\ w # Append(v, PrefixLabel) /\ w # Append(v, RootLabel)
  BY <1>1, <1>2, <1>3, <1>5
<1>7. /\ r.kind = "exact" => k = v
      /\ r.kind = "suffix" => k = Append(v, RootLabel)
      /\ r.kind = "prefix" => k = Append(v, PrefixLabel)
  BY KeyIs DEF v
<1>8. HitBy(k, name, i) <=>
        \/ k = P
        \/ k = R /\ (i = Len(name) \/ Reverse(name)[i + 1] = Dot)
        \/ k = w /\ i = Len(name)
  BY DEF HitBy, w
<1> HIDE DEF P, R, k
<1>9. r.kind \in {"exact", "suffix", "prefix"}
  BY DEF IsRule
<1>10. CASE r.kind = "exact"
  <2>1. k # P /\ k # R /\ (k = w <=> w = v)
    BY <1>6, <1>7, <1>10
  <2> QED
    BY <1>8, <1>10, <2>1 DEF k, v, w
<1>11. CASE r.kind = "suffix"
  <2>1. k # P /\ k # w /\ (k = R <=> w = v)
    BY <1>4, <1>6, <1>7, <1>11
  <2> QED
    BY <1>8, <1>11, <2>1 DEF k, v, w
<1>12. CASE r.kind = "prefix"
  <2>1. k # R /\ k # w /\ (k = P <=> w = v)
    BY <1>4, <1>6, <1>7, <1>12
  <2> QED
    BY <1>8, <1>12, <2>1 DEF k, v, w
<1> QED
  BY <1>9, <1>10, <1>11, <1>12

\* A rule speaks of a domain if and only if its key says yes somewhere on the way.
LEMMA DenotesIsHit ==
  ASSUME NEW r, IsRule(r), NEW name, IsName(name)
  PROVE  Denotes(r, name) <=> \E i \in 0 .. Len(name) : HitBy(KeyOf(r), name, i)
<1> DEFINE v == Reverse(r.name)
           s == Reverse(name)
           n == Len(name)
           m == Len(r.name)
<1>1. r.name \in Seq(Character) /\ Len(v) = m /\ m \in Nat /\ v \in Seq(Nat)
  BY NameIs DEF IsRule
<1>2. name \in Seq(Character) /\ Len(s) = n /\ n \in Nat /\ s \in Seq(Nat)
  BY NameIs
\* As much of the reversed domain as the rule's name has.
<1>3. ASSUME NEW i \in 0 .. n, Walked(name, i) = v PROVE i = m
  BY <1>1, <1>3, WalkedIs
<1>4. name = r.name <=> Walked(name, n) = v
  <2>1. n \in 0 .. n
    BY <1>2
  <2>2. Walked(name, n) = s
    BY <2>1, WalkedIs
  <2> QED
    BY <1>1, <1>2, <2>2, ReverseInjective
<1>5. IsSuffix(r.name, name) <=> m <= n /\ Walked(name, m) = v
  BY <1>1, <1>2, SuffixIs DEF Walked
<1>6. IsSuffix(<<Dot>> \o r.name, name) <=> m < n /\ Walked(name, m) = v /\ s[m + 1] = Dot
  <2> DEFINE t == <<Dot>> \o r.name
  <2>1. Dot \in Character
    BY DEF Dot, Character, PrefixLabel
  <2>2. t \in Seq(Character) /\ Len(t) = m + 1
    BY <1>1, <2>1
  <2>3. Reverse(t) = Append(v, Dot)
    BY <1>1, <2>1, ReverseOfDotted
  <2> HIDE DEF t
  <2>4. IsSuffix(t, name) <=> m + 1 <= n /\ SubSeq(s, 1, m + 1) = Append(v, Dot)
    BY <1>2, <2>2, <2>3, SuffixIs
  <2>5. ASSUME m < n PROVE SubSeq(s, 1, m + 1) = Append(v, Dot) <=> Walked(name, m) = v /\ s[m + 1] = Dot
    <3>1. m \in 0 .. n
      BY <1>1, <1>2, <2>5
    <3>2. SubSeq(s, 1, m + 1) = Append(Walked(name, m), s[m + 1])
      BY <2>5, <3>1, WalkedIs DEF Walked
    <3>3. s[m + 1] \in Nat /\ Dot \in Nat /\ Walked(name, m) \in Seq(Nat)
      <4>1. m + 1 \in 1 .. n
        BY <1>1, <1>2, <2>5
      <4> QED
        BY <3>1, <4>1, NameIs, WalkedIs DEF Dot
    <3> HIDE DEF v, s
    <3> QED
      <4>1. v \in Seq(Nat)
        BY <1>1
      <4>2. Append(Walked(name, m), s[m + 1]) = Append(v, Dot) <=> Walked(name, m) = v /\ s[m + 1] = Dot
        BY <3>3, <4>1, AppendOfNumbers
      <4> QED
        BY <3>2, <4>2
  <2> QED
    BY <1>1, <1>2, <2>4, <2>5 DEF t
<1>7. \A i \in 0 .. n : HitBy(KeyOf(r), name, i) <=>
           \/ r.kind = "prefix" /\ Walked(name, i) = v
           \/ r.kind = "suffix" /\ Walked(name, i) = v /\ (i = n \/ s[i + 1] = Dot)
           \/ r.kind = "exact" /\ Walked(name, i) = v /\ i = n
  BY KindsOfHit
<1>8. Walked(name, m) = v /\ m <= n => m \in 0 .. n
  BY <1>1, <1>2
<1>9. n \in 0 .. n
  BY <1>2
<1>10. r.kind \in {"exact", "suffix", "prefix"}
  BY DEF IsRule
<1> HIDE DEF v, s, n, m
<1>11. CASE r.kind = "exact"
  <2>1. Denotes(r, name) <=> name = r.name
    BY <1>11 DEF Denotes
  <2> QED
    BY <1>4, <1>7, <1>9, <1>11, <2>1 DEF n
<1>12. CASE r.kind = "suffix"
  <2>1. Denotes(r, name) <=> name = r.name \/ IsSuffix(<<Dot>> \o r.name, name)
    BY <1>12 DEF Denotes
  <2>2. Denotes(r, name) <=> Walked(name, n) = v \/ (m < n /\ Walked(name, m) = v /\ s[m + 1] = Dot)
    BY <1>4, <1>6, <2>1
  <2>3. \A i \in 0 .. n : HitBy(KeyOf(r), name, i) <=> Walked(name, i) = v /\ (i = n \/ s[i + 1] = Dot)
    BY <1>7, <1>12
  <2>4. ASSUME NEW i \in 0 .. n, HitBy(KeyOf(r), name, i) PROVE Denotes(r, name)
    <3>1. Walked(name, i) = v /\ (i = n \/ s[i + 1] = Dot) /\ i = m /\ (i = n \/ i < n)
      BY <1>2, <1>3, <2>3, <2>4
    <3> QED
      BY <2>2, <3>1
  <2>5. ASSUME Denotes(r, name) PROVE \E i \in 0 .. n : HitBy(KeyOf(r), name, i)
    <3>1. m < n => m \in 0 .. n
      BY <1>1, <1>2
    <3> QED
      BY <1>9, <2>2, <2>3, <2>5, <3>1
  <2> QED
    BY <2>4, <2>5 DEF n
<1>13. CASE r.kind = "prefix"
  <2>1. Denotes(r, name) <=> m <= n /\ Walked(name, m) = v
    BY <1>5, <1>13 DEF Denotes
  <2>2. \A i \in 0 .. n : HitBy(KeyOf(r), name, i) <=> Walked(name, i) = v
    BY <1>7, <1>13
  <2>3. \A i \in 0 .. n : Walked(name, i) = v => i = m /\ m <= n
    BY <1>2, <1>3
  <2> QED
    BY <1>8, <2>1, <2>2, <2>3 DEF n
<1> QED
  BY <1>10, <1>11, <1>12, <1>13

Keys == {KeyOf(r) : r \in rules}

\* What a label is if the search goes on to the next one.
Missed(l) ==
  /\ l # PrefixLabel
  /\ l = RootLabel => ~AtEnd /\ Current # Dot
  /\ ~AtEnd => l # Current

\* The search is at the node of what is behind, nothing shorter says yes, and no label of
\* the node it has passed does.
Searching(nodes) ==
  /\ at \in 0 .. Len(asked)
  /\ Walked(asked, at) \in nodes /\ node = IdOf(nodes)[Walked(asked, at)]
  /\ index \in Nat /\ Start(nodes, node) <= index /\ index <= OneOf(nodes, node)
  /\ \A i \in 0 .. at - 1 : ~Hit(Keys, asked, i)
  /\ \A j \in 1 .. Cardinality(nodes) - 1 :
       ParentOf(nodes)[j] = node /\ j < index - node + 1 => Missed(Last(NodeAt(nodes)[j]))
  /\ AtEnd /\ index # Start(nodes, node) => node \notin trie.leaves

MatchingInv ==
  /\ rules \in Rules /\ asked \in Names /\ trie = TrieOf(Keys)
  /\ outcome \in {"parsing", "searching", "yes", "no"}
  /\ outcome = "parsing" => at = 0 /\ node = 0 /\ index = 0
  /\ outcome = "searching" => Searching(Nodes(Keys))
  /\ outcome \in {"yes", "no"} => (outcome = "yes" <=> \E i \in 0 .. Len(asked) : Hit(Keys, asked, i))

\* The keys of the rules are keys, and their beginnings a trie.
LEMMA KeysAre ==
  ASSUME rules \in Rules, asked \in Names
  PROVE  /\ IsKeys(Keys) /\ IsTree(Nodes(Keys)) /\ Keys \in SUBSET Nodes(Keys)
         /\ IsName(asked) /\ \A r \in rules : IsRule(r)
<1>1. rules # {} /\ IsFiniteSet(rules) /\ IsName(asked) /\ \A r \in rules : IsRule(r)
  BY WrittenOK, NamesOK DEF IsRule
<1>2. \A key \in Keys : IsKey(key)
  BY <1>1, KeyIs DEF Keys
<1>3. IsFiniteSet(Keys) /\ Keys # {}
  <2> DEFINE F == [r \in rules |-> KeyOf(r)]
  <2>1. F \in [rules -> Keys] /\ \A key \in Keys : \E r \in rules : F[r] = key
    BY DEF Keys
  <2> HIDE DEF F
  <2>2. F \in Surjection(rules, Keys)
    BY <2>1 DEF Surjection
  <2>3. IsFiniteSet(Keys)
    BY <1>1, <2>2, FS_Surjection
  <2> QED
    BY <1>1, <2>3 DEF Keys
<1>4. IsKeys(Keys)
  BY <1>2, <1>3 DEF IsKeys
<1> QED
  BY <1>1, <1>4, NodesAreATree

\* A verdict about the keys is one about the rules.
LEMMA VerdictIs ==
  ASSUME rules \in Rules, asked \in Names
  PROVE  (\E r \in rules : Denotes(r, asked)) <=> \E i \in 0 .. Len(asked) : Hit(Keys, asked, i)
<1>1. IsName(asked) /\ \A r \in rules : IsRule(r)
  BY KeysAre
<1>2. \A r \in rules : Denotes(r, asked) <=> \E i \in 0 .. Len(asked) : HitBy(KeyOf(r), asked, i)
  BY <1>1, DenotesIsHit
<1>3. \A i : Hit(Keys, asked, i) <=> \E r \in rules : HitBy(KeyOf(r), asked, i)
  BY DEF Hit, Keys
<1> QED
  BY <1>2, <1>3

\* What is behind before a key says yes is the beginning of the key.
LEMMA HitIsBelow ==
  ASSUME NEW keys, IsKeys(keys), NEW name, IsName(name), NEW i \in 0 .. Len(name),
         Hit(keys, name, i), NEW k \in 0 .. i
  PROVE  Walked(name, k) \in Nodes(keys)
<1> DEFINE w == Walked(name, i)
<1>1. PICK key \in keys : HitBy(key, name, i)
  BY DEF Hit
<1>2. w \in Seq(Nat) /\ Len(w) = i /\ i \in Nat
  BY WalkedIs
<1>3. key \in Nodes(keys) /\ key \in Seq(Nat) /\ \A x \in keys : IsKey(x)
  BY NodesAreATree DEF IsKeys, IsKey
<1>4. SubSeq(w, 1, k) = Walked(name, k)
  <2>1. Reverse(name) \in Seq(Nat) /\ Len(Reverse(name)) = Len(name)
    BY NameIs
  <2> QED
    BY <2>1, PrefixOfPrefix DEF Walked
<1>5. key = w \/ key = Append(w, PrefixLabel) \/ key = Append(w, RootLabel)
  BY <1>1 DEF HitBy
<1> HIDE DEF w
<1>6. ASSUME NEW l \in Nat, key = Append(w, l) PROVE k \in 0 .. Len(key) /\ SubSeq(key, 1, k) = SubSeq(w, 1, k)
  <2>1. Len(key) = i + 1 /\ \A j \in 1 .. i : key[j] = w[j]
    BY <1>2, <1>6
  <2>2. k \in 0 .. Len(key) /\ k \in 0 .. Len(w)
    BY <1>2, <2>1
  <2> DEFINE t == SubSeq(key, 1, k)
             u == SubSeq(w, 1, k)
  <2>3. t \in Seq(Nat) /\ Len(t) = k /\ \A j \in 1 .. k : t[j] = key[j]
    BY <1>3, <2>2, PrefixOfSeq
  <2>4. u \in Seq(Nat) /\ Len(u) = k /\ \A j \in 1 .. k : u[j] = w[j]
    BY <1>2, <2>2, PrefixOfSeq
  <2> HIDE DEF t, u
  <2>5. \A j \in 1 .. k : j \in 1 .. i
    BY <1>2
  <2>6. t = u
    BY <2>1, <2>3, <2>4, <2>5, SeqEqual
  <2> QED
    BY <2>2, <2>6 DEF t, u
<1>7. k \in 0 .. Len(key) /\ SubSeq(key, 1, k) = SubSeq(w, 1, k)
  BY <1>2, <1>5, <1>6 DEF PrefixLabel, RootLabel
<1>8. SubSeq(key, 1, k) \in Nodes(keys)
  BY <1>3, <1>7, PrefixOfNode
<1> QED
  BY <1>4, <1>7, <1>8

-----------------------------------------------------------------------------
\* What the search sees in the bits and labels where it is.
Sees(nodes, c) ==
  /\ IsTree(nodes) /\ nodes \in SUBSET Seq(Nat) /\ IsFiniteSet(nodes) /\ Cardinality(nodes) \in Nat
  /\ node \in 0 .. Cardinality(nodes) - 1
  /\ Walked(asked, at) \in Seq(Nat)
  /\ Cardinality(trie.ones) = Cardinality(nodes)
  /\ index \in trie.ones <=> index = OneOf(nodes, node)
  /\ c = index - node + 1 /\ c \in Nat
  /\ \A n \in nodes : IdOf(nodes)[n] \in trie.leaves <=> n \in Keys
  /\ index = OneOf(nodes, node) =>
       \A j \in 1 .. Cardinality(nodes) - 1 : ParentOf(nodes)[j] = node => j < c

SeesChild(nodes, c) ==
  /\ c \in 1 .. Cardinality(nodes) - 1 /\ ParentOf(nodes)[c] = node
  /\ HasLabel /\ Label = Last(NodeAt(nodes)[c]) /\ Label \in Nat
  /\ CountZeroes(index + 1) = c /\ OnePosition(c - 1) = OneOf(nodes, c - 1)
  /\ NodeAt(nodes)[c] = Append(Walked(asked, at), Label)
  /\ Append(Walked(asked, at), Label) \in nodes
  /\ c = IdOf(nodes)[Append(Walked(asked, at), Label)]

\* What the file holds, in terms of the nodes.
LEMMA TrieIs ==
  ASSUME rules \in Rules, asked \in Names, trie = TrieOf(Keys), NEW nodes, nodes = Nodes(Keys)
  PROVE  /\ trie.ones = Ones(nodes)
         /\ trie.labels = [j \in 1 .. Cardinality(nodes) - 1 |-> Last(NodeAt(nodes)[j])]
         /\ trie.leaves = {IdOf(nodes)[key] : key \in Keys}
         /\ Len(trie.labels) = Cardinality(nodes) - 1
         /\ \A n \in nodes : IdOf(nodes)[n] \in trie.leaves <=> n \in Keys
<1>1. IsTree(nodes) /\ Keys \in SUBSET nodes
  BY KeysAre
<1>2. nodes \in SUBSET Seq(Nat) /\ IsFiniteSet(nodes) /\ Cardinality(nodes) \in Nat \ {0}
  BY <1>1, TreeSize
<1>3. /\ trie.ones = Ones(nodes)
      /\ trie.labels = [j \in 1 .. Cardinality(nodes) - 1 |-> Last(NodeAt(nodes)[j])]
      /\ trie.leaves = {IdOf(nodes)[key] : key \in Keys}
  BY DEF TrieOf, Ones
<1>4. Len(trie.labels) = Cardinality(nodes) - 1
  <2> DEFINE m == Cardinality(nodes) - 1
             L == [j \in 1 .. m |-> Last(NodeAt(nodes)[j])]
  <2>1. m \in Nat
    BY <1>2
  <2>2. \A j \in 1 .. m : Last(NodeAt(nodes)[j]) \in Nat
    <3> SUFFICES ASSUME NEW j \in 1 .. m PROVE Last(NodeAt(nodes)[j]) \in Nat
      OBVIOUS
    <3> DEFINE n == NodeAt(nodes)[j]
    <3>1. n \in Seq(Nat) /\ Len(n) > 0
      BY <1>1, RootIsZero
    <3> HIDE DEF n
    <3>2. n[Len(n)] \in Nat
      BY <3>1
    <3> QED
      BY <3>2 DEF Last, n
  <2> HIDE DEF m
  <2>3. L \in [1 .. m -> Nat]
    BY <2>2
  <2> HIDE DEF L
  <2>4. Len(L) = m
    BY <2>1, <2>3
  <2> QED
    BY <1>3, <2>4 DEF L, m
<1>5. \A n \in nodes : IdOf(nodes)[n] \in trie.leaves <=> n \in Keys
  <2> SUFFICES ASSUME NEW n \in nodes, NEW key \in Keys, IdOf(nodes)[n] = IdOf(nodes)[key] PROVE n = key
    BY <1>3
  <2> QED
    BY <1>1, <1>2, NumberInjective
<1> QED
  BY <1>3, <1>4, <1>5

\* CountZeroes, in terms of the nodes.
LEMMA CountZeroesIs ==
  ASSUME NEW end, NEW O, trie.ones = O
  PROVE  CountZeroes(end) = end - Cardinality({q \in O : q < end})
BY DEF CountZeroes

\* What the walk reads is what the trie says.
LEMMA SearchSees ==
  ASSUME MatchingInv, outcome = "searching", NEW nodes, nodes = Nodes(Keys),
         NEW c, c = index - node + 1
  PROVE  Sees(nodes, c) /\ (index # OneOf(nodes, node) => SeesChild(nodes, c))
<1> DEFINE w == Walked(asked, at)
<1>1. rules \in Rules /\ asked \in Names /\ trie = TrieOf(Keys) /\ Searching(nodes)
  BY DEF MatchingInv
<1>2. IsTree(nodes) /\ Keys \in SUBSET nodes /\ IsName(asked)
  BY <1>1, KeysAre
<1>3. nodes \in SUBSET Seq(Nat) /\ IsFiniteSet(nodes) /\ Cardinality(nodes) \in Nat
  BY <1>2, TreeSize
<1>4. w \in nodes /\ node = IdOf(nodes)[w] /\ w \in Seq(Nat)
  BY <1>1, <1>3 DEF Searching
<1>5. node \in 0 .. Cardinality(nodes) - 1
  BY <1>3, <1>4, NumberRange
<1>6. index \in Nat /\ Start(nodes, node) <= index /\ index <= OneOf(nodes, node)
  BY <1>1 DEF Searching
<1>7. trie.ones = Ones(nodes) /\ \A n \in nodes : IdOf(nodes)[n] \in trie.leaves <=> n \in Keys
  BY <1>1, TrieIs
<1>8. trie.labels = [j \in 1 .. Cardinality(nodes) - 1 |-> Last(NodeAt(nodes)[j])]
  BY <1>1, TrieIs
<1>9. Cardinality(trie.ones) = Cardinality(nodes)
  BY <1>2, <1>7, OnesAre
<1>10. /\ index \in Ones(nodes) <=> index = OneOf(nodes, node)
       /\ c \in Nat
       /\ \A j \in 1 .. Cardinality(nodes) - 1 :
            ParentOf(nodes)[j] = node => (index = OneOf(nodes, node) => j < c) /\ (index = Start(nodes, node) => j >= c)
       /\ index # OneOf(nodes, node) =>
            /\ c \in 1 .. Cardinality(nodes) - 1 /\ ParentOf(nodes)[c] = node
            /\ \A e : e = index + 1 => e - Cardinality({q \in Ones(nodes) : q < e}) = c
  BY <1>2, <1>5, <1>6, BitsAre
<1>11. Sees(nodes, c)
  BY <1>2, <1>3, <1>4, <1>5, <1>7, <1>9, <1>10 DEF Sees
<1>12. ASSUME index # OneOf(nodes, node) PROVE SeesChild(nodes, c)
  <2>1. /\ c \in 1 .. Cardinality(nodes) - 1 /\ ParentOf(nodes)[c] = node
        /\ \A e : e = index + 1 => e - Cardinality({q \in Ones(nodes) : q < e}) = c
    BY <1>10, <1>12
  <2>2. CountZeroes(index + 1) = c
    <3>1. PICK e : e = index + 1
      OBVIOUS
    <3>2. CountZeroes(e) = e - Cardinality({q \in Ones(nodes) : q < e})
      BY <1>7, CountZeroesIs
    <3> QED
      BY <2>1, <3>1, <3>2
  <2>3. OnePosition(c - 1) = OneOf(nodes, c - 1)
    <3>1. c - 1 \in 0 .. Cardinality(nodes) - 1
      BY <1>3, <2>1
    <3>2. (CHOOSE p \in Ones(nodes) : Cardinality({q \in Ones(nodes) : q < p}) = c - 1) = OneOf(nodes, c - 1)
      BY <1>2, <3>1, OneIsAt
    <3>3. OnePosition(c - 1) = CHOOSE p \in trie.ones : Cardinality({q \in trie.ones : q < p}) = c - 1
      BY DEF OnePosition
    <3>4. trie.ones = Ones(nodes)
      BY <1>7
    <3> QED
      BY <3>2, <3>3, <3>4, Zenon
  <2>4. HasLabel /\ Label = Last(NodeAt(nodes)[c])
    BY <1>8, <2>1 DEF HasLabel, Label
  <2>5. /\ NodeAt(nodes)[c] = Append(w, Last(NodeAt(nodes)[c])) /\ NodeAt(nodes)[c] \in nodes
        /\ Last(NodeAt(nodes)[c]) \in Nat
    BY <1>2, <1>4, <2>1, ChildIs
  <2>6. c = IdOf(nodes)[NodeAt(nodes)[c]]
    <3>1. c \in 0 .. Cardinality(nodes) - 1
      BY <1>3, <2>1
    <3> QED
      BY <1>3, <3>1, NodeOfNumber
  <2> QED
    BY <2>1, <2>2, <2>3, <2>4, <2>5, <2>6 DEF SeesChild
<1> QED
  BY <1>11, <1>12

\* The labels of rules, as numbers.
LEMMA LabelsAre == RootLabel \in Nat /\ PrefixLabel \in Nat /\ RootLabel < PrefixLabel
BY DEF RootLabel, PrefixLabel

\* A node that passes all its labels is the end of the search.
LEMMA NothingIsHit ==
  ASSUME MatchingInv, outcome = "searching", NEW nodes, nodes = Nodes(Keys),
         index = OneOf(nodes, node), ~(AtEnd /\ node \in trie.leaves)
  PROVE  \A i \in 0 .. Len(asked) : ~Hit(Keys, asked, i)
<1> DEFINE w == Walked(asked, at)
           c == index - node + 1
<1>1. Sees(nodes, c)
  BY SearchSees
<1>2. /\ at \in 0 .. Len(asked) /\ w \in nodes /\ node = IdOf(nodes)[w]
      /\ \A i \in 0 .. at - 1 : ~Hit(Keys, asked, i)
      /\ \A j \in 1 .. Cardinality(nodes) - 1 : ParentOf(nodes)[j] = node /\ j < c => Missed(Last(NodeAt(nodes)[j]))
  BY DEF MatchingInv, Searching
<1>3. /\ IsKeys(Keys) /\ IsTree(nodes) /\ Keys \in SUBSET nodes /\ IsName(asked) /\ Len(asked) \in Nat
  BY KeysAre, NameIs DEF MatchingInv
<1>4. ASSUME NEW l \in Nat, Append(w, l) \in nodes PROVE Missed(l)
  <2>1. \E j \in 1 .. Cardinality(nodes) - 1 : ParentOf(nodes)[j] = node /\ Last(NodeAt(nodes)[j]) = l
    BY <1>2, <1>3, <1>4, ExtensionIsChild
  <2> QED
    BY <1>1, <1>2, <2>1 DEF Sees
<1>5. w \in Keys => ~AtEnd
  BY <1>1, <1>2 DEF Sees
<1> SUFFICES ASSUME NEW i \in 0 .. Len(asked), Hit(Keys, asked, i) PROVE FALSE
  OBVIOUS
<1>6. CASE i < at
  <2>1. i \in 0 .. at - 1
    BY <1>2, <1>3, <1>6
  <2> QED
    BY <1>2, <2>1
<1>7. CASE i = at
  <2>1. PICK key \in Keys : HitBy(key, asked, at)
    BY <1>7 DEF Hit
  <2>2. Append(w, PrefixLabel) \notin nodes
    BY <1>4, LabelsAre DEF Missed
  <2>3. Append(w, RootLabel) \in nodes => ~AtEnd /\ Current # Dot
    BY <1>4, LabelsAre DEF Missed
  <2>4. key \in nodes
    BY <1>3
  <2>5. \/ key = Append(w, PrefixLabel)
        \/ key = Append(w, RootLabel) /\ (AtEnd \/ Current = Dot)
        \/ key = w /\ AtEnd
    BY <2>1 DEF HitBy, AtEnd, Current
  <2> HIDE DEF w
  <2> QED
    BY <1>5, <2>2, <2>3, <2>4, <2>5
<1>8. CASE i > at
  <2>1. at < Len(asked) /\ at + 1 \in 0 .. i
    BY <1>2, <1>3, <1>8
  <2>2. Walked(asked, at + 1) \in nodes
    BY <1>3, <2>1, HitIsBelow
  <2>3. Walked(asked, at + 1) = Append(w, Current)
    BY <1>2, <1>3, <2>1, WalkedIs DEF Current
  <2>4. Current \in Nat
    <3>1. at + 1 \in 1 .. Len(asked)
      BY <1>2, <1>3, <2>1
    <3> QED
      BY <1>3, <3>1, NameIs DEF Current
  <2>5. Append(w, Current) \in nodes
    BY <2>2, <2>3
  <2>6. Missed(Current)
    BY <1>4, <2>4, <2>5
  <2>7. ~AtEnd
    BY <2>1 DEF AtEnd
  <2> QED
    BY <2>6, <2>7 DEF Missed
<1> QED
  BY <1>2, <1>3, <1>6, <1>7, <1>8

\* A rule's label at the node of what is behind ends a key.
LEMMA SpecialLabel ==
  ASSUME MatchingInv, outcome = "searching", NEW nodes, nodes = Nodes(Keys),
         NEW c, c = index - node + 1, SeesChild(nodes, c), Label \in {PrefixLabel, RootLabel}
  PROVE  /\ Append(Walked(asked, at), Label) \in Keys
         /\ CountZeroes(index + 1) \in trie.leaves
<1>1. IsKeys(Keys) /\ IsTree(nodes)
  BY KeysAre DEF MatchingInv
<1>2. Walked(asked, at) \in Seq(Nat)
  <2>1. Walked(asked, at) \in nodes
    BY DEF MatchingInv, Searching
  <2> QED
    BY <1>1, <2>1, TreeSize
<1>3. /\ Append(Walked(asked, at), Label) \in nodes /\ Label \in Nat
      /\ CountZeroes(index + 1) = IdOf(nodes)[Append(Walked(asked, at), Label)]
  BY DEF SeesChild
<1>4. Label <= PrefixLabel
  BY LabelsAre
<1>5. Append(Walked(asked, at), Label) \in Keys
  BY <1>1, <1>2, <1>3, <1>4, SpecialIsLast
<1>6. \A n \in nodes : IdOf(nodes)[n] \in trie.leaves <=> n \in Keys
  BY TrieIs DEF MatchingInv
<1> DEFINE n == Append(Walked(asked, at), Label)
<1> HIDE DEF n
<1>7. n \in nodes /\ n \in Keys /\ CountZeroes(index + 1) = IdOf(nodes)[n]
  BY <1>3, <1>5 DEF n
<1> QED
  BY <1>5, <1>6, <1>7

\* A character's label is after the rules' labels, which are behind.
LEMMA NotHitBefore ==
  ASSUME MatchingInv, outcome = "searching", NEW nodes, nodes = Nodes(Keys),
         NEW c, c = index - node + 1, SeesChild(nodes, c), ~AtEnd, Label = Current
  PROVE  ~Hit(Keys, asked, at)
<1> DEFINE w == Walked(asked, at)
<1>1. /\ at \in 0 .. Len(asked) /\ w \in nodes /\ node = IdOf(nodes)[w]
      /\ \A j \in 1 .. Cardinality(nodes) - 1 : ParentOf(nodes)[j] = node /\ j < c => Missed(Last(NodeAt(nodes)[j]))
  BY DEF MatchingInv, Searching
<1>2. /\ IsTree(nodes) /\ Keys \in SUBSET nodes /\ IsName(asked) /\ Len(asked) \in Nat
  BY KeysAre, NameIs DEF MatchingInv
<1>3. nodes \in SUBSET Seq(Nat) /\ IsFiniteSet(nodes) /\ w \in Seq(Nat)
  BY <1>1, <1>2, TreeSize
<1>4. Label \in Nat /\ Append(w, Label) \in nodes /\ c = IdOf(nodes)[Append(w, Label)]
  BY DEF SeesChild
<1>5. Label > PrefixLabel
  <2>1. at + 1 \in 1 .. Len(asked)
    BY <1>1, <1>2 DEF AtEnd
  <2> QED
    BY <1>2, <2>1, NameIs DEF Current
<1>6. ASSUME NEW l \in Nat, l < Label, Append(w, l) \in nodes PROVE Missed(l)
  <2> DEFINE j == IdOf(nodes)[Append(w, l)]
  <2>1. j \in 1 .. Cardinality(nodes) - 1 /\ ParentOf(nodes)[j] = node /\ Last(NodeAt(nodes)[j]) = l
    BY <1>1, <1>2, <1>6, ExtensionIsChild
  <2>2. Before(Append(w, l), Append(w, Label))
    BY <1>3, <1>4, <1>6, SiblingBefore
  <2>3. j < c
    BY <1>3, <1>4, <1>6, <2>2, NumberedInOrder
  <2> QED
    BY <1>1, <2>1, <2>3
<1> SUFFICES ASSUME NEW key \in Keys, HitBy(key, asked, at) PROVE FALSE
  BY DEF Hit
<1>7. PrefixLabel < Label /\ RootLabel < Label
  BY <1>4, <1>5, LabelsAre
<1>8. Append(w, PrefixLabel) \notin nodes
  BY <1>6, <1>7, LabelsAre DEF Missed
<1>9. Append(w, RootLabel) \in nodes => ~AtEnd /\ Current # Dot
  BY <1>6, <1>7, LabelsAre DEF Missed
<1>10. \/ key = Append(w, PrefixLabel)
       \/ key = Append(w, RootLabel) /\ (AtEnd \/ Current = Dot)
       \/ key = w /\ AtEnd
  BY DEF HitBy, AtEnd, Current
<1>11. key \in nodes
  BY <1>2
<1> HIDE DEF w
<1> QED
  BY <1>8, <1>9, <1>10, <1>11

-----------------------------------------------------------------------------
\* The walk begins at the root, with nothing behind.
LEMMA MatchingInvInit == MatchingInit => MatchingInv
BY DEF MatchingInit, MatchingInv, Keys

\* A verdict that says what the keys say.
LEMMA ConcludesRight ==
  ASSUME MatchingInv, NEW verdict \in {"yes", "no"}, Concludes(verdict),
         verdict = "yes" <=> \E i \in 0 .. Len(asked) : Hit(Keys, asked, i)
  PROVE  MatchingInv'
<1>1. UNCHANGED <<rules, asked, trie>> /\ outcome' = verdict
  BY DEF Concludes
<1>2. Keys' = Keys
  BY <1>1 DEF Keys
<1>3. (\E i \in 0 .. Len(asked) : Hit(Keys, asked, i))' <=> \E i \in 0 .. Len(asked) : Hit(Keys, asked, i)
  BY <1>1, <1>2
<1>4. /\ rules' \in Rules /\ asked' \in Names /\ trie' = TrieOf(Keys')
  BY <1>1, <1>2 DEF MatchingInv
<1>5. outcome' \in {"yes", "no"} /\ outcome' # "parsing" /\ outcome' # "searching"
  BY <1>1
<1> QED
  BY <1>1, <1>3, <1>4, <1>5 DEF MatchingInv

\* A file that was written has as many ones and labels as parse demands.
LEMMA ParsesTrieStep == ASSUME MatchingInv, ParsesTrie PROVE MatchingInv'
<1> PICK nodes : nodes = Nodes(Keys)
  OBVIOUS
<1>1. /\ rules \in Rules /\ asked \in Names /\ trie = TrieOf(Keys)
      /\ at = 0 /\ node = 0 /\ index = 0
  BY DEF MatchingInv, ParsesTrie
<1>2. UNCHANGED <<rules, asked, trie, at, node, index>> /\ Keys' = Keys
  BY DEF ParsesTrie, Keys
<1>3. IsTree(nodes) /\ IsName(asked) /\ Len(asked) \in Nat
  BY <1>1, KeysAre, NameIs
<1>4. outcome' = "searching"
  <2>1. /\ trie.ones = Ones(nodes) /\ Len(trie.labels) = Cardinality(nodes) - 1
    BY <1>1, TrieIs
  <2>2. /\ Ones(nodes) # {} /\ Cardinality(Ones(nodes)) = Cardinality(nodes)
        /\ Max(Ones(nodes)) + 1 - Cardinality(Ones(nodes)) = Cardinality(nodes) - 1
        /\ Cardinality(nodes) \in Nat
    BY <1>3, OnesAre, TreeSize
  <2>3. trie.ones # {} /\ Counts
    BY <2>1, <2>2 DEF Counts
  <2> QED
    BY <2>3 DEF ParsesTrie
<1>5. 0 \in 0 .. Len(asked) /\ Walked(asked, 0) = << >>
  <2>1. Reverse(asked) \in Seq(Nat)
    BY <1>3, NameIs
  <2> QED
    BY <1>3, <2>1, SubSeqEmpty DEF Walked
<1>6. << >> \in nodes /\ IdOf(nodes)[<< >>] = 0 /\ Cardinality(nodes) \in Nat \ {0}
  BY <1>3, TreeSize, RootIsZero
<1>7. Start(nodes, 0) = 0 /\ OneOf(nodes, 0) \in Nat
  BY <1>3, OneIsNatural DEF Start
<1>8. \A j \in 1 .. Cardinality(nodes) - 1 : ~(j < 0 - 0 + 1)
  BY <1>6
<1>9. Searching(nodes)
  BY <1>1, <1>5, <1>6, <1>7, <1>8 DEF Searching
<1>10. Searching(nodes)'
  <2>1. AtEnd' = AtEnd /\ Current' = Current /\ (\A l : Missed(l)' <=> Missed(l))
    BY <1>2 DEF AtEnd, Current, Missed
  <2> QED
    BY <1>2, <1>9, <2>1 DEF Searching
<1> QED
  BY <1>1, <1>2, <1>4, <1>10 DEF MatchingInv

\* A search that is over has missed every key.
LEMMA ExhaustedStep == ASSUME MatchingInv, Exhausted PROVE MatchingInv'
<1> DEFINE nodes == Nodes(Keys)
           c == index - node + 1
<1>1. outcome = "searching" /\ ~(AtEnd /\ node \in trie.leaves) /\ (index \in trie.ones \/ ~HasLabel) /\ Concludes("no")
  BY DEF Exhausted
<1>2. Sees(nodes, c) /\ (index # OneOf(nodes, node) => SeesChild(nodes, c))
  BY <1>1, SearchSees
<1>3. index = OneOf(nodes, node)
  BY <1>1, <1>2 DEF Sees, SeesChild
<1>4. \A i \in 0 .. Len(asked) : ~Hit(Keys, asked, i)
  BY <1>1, <1>3, NothingIsHit
<1> QED
  BY <1>1, <1>4, ConcludesRight

\* A label before a node's one is that of a child.
LEMMA LabelIsSeen ==
  ASSUME MatchingInv, SeesLabel
  PROVE  SeesChild(Nodes(Keys), index - node + 1) /\ Sees(Nodes(Keys), index - node + 1)
         /\ index # OneOf(Nodes(Keys), node)
<1> DEFINE nodes == Nodes(Keys)
           c == index - node + 1
<1>1. Sees(nodes, c) /\ (index # OneOf(nodes, node) => SeesChild(nodes, c))
  BY SearchSees DEF SeesLabel
<1> QED
  BY <1>1 DEF Sees, SeesLabel

\* A key that says yes where the search is.
LEMMA HitAtKey ==
  ASSUME MatchingInv, outcome = "searching", NEW key \in Keys, HitBy(key, asked, at), Concludes("yes")
  PROVE  MatchingInv'
<1>1. Hit(Keys, asked, at) /\ at \in 0 .. Len(asked)
  BY DEF Hit, MatchingInv, Searching
<1> QED
  BY <1>1, ConcludesRight

\* A rule's label in the middle of the domain is the end of a key that says yes.
LEMMA FindsSuffixStep == ASSUME MatchingInv, FindsSuffix PROVE MatchingInv'
<1> DEFINE c == index - node + 1
<1>1. SeesLabel /\ ~AtEnd /\ SuffixMatches /\ Concludes("yes") /\ outcome = "searching"
  BY DEF FindsSuffix, SeesLabel
<1>2. SeesChild(Nodes(Keys), c)
  BY <1>1, LabelIsSeen
<1>3. Label = PrefixLabel \/ (Label = RootLabel /\ Current = Dot)
  BY <1>1 DEF SuffixMatches
<1>4. Append(Walked(asked, at), Label) \in Keys
  BY <1>1, <1>2, <1>3, SpecialLabel
<1>5. HitBy(Append(Walked(asked, at), Label), asked, at)
  BY <1>3 DEF HitBy, Current
<1> QED
  BY <1>1, <1>4, <1>5, HitAtKey

\* At the end of the domain a rule's label says yes.
LEMMA EndsAtSuffixStep == ASSUME MatchingInv, EndsAtSuffix PROVE MatchingInv'
<1> DEFINE c == index - node + 1
<1>1. SeesLabel /\ AtEnd /\ Concludes("yes") /\ outcome = "searching" /\ Label \in {PrefixLabel, RootLabel}
  BY DEF EndsAtSuffix, SeesLabel
<1>2. SeesChild(Nodes(Keys), c)
  BY <1>1, LabelIsSeen
<1>3. Append(Walked(asked, at), Label) \in Keys
  BY <1>1, <1>2, SpecialLabel
<1>4. HitBy(Append(Walked(asked, at), Label), asked, at)
  BY <1>1 DEF HitBy, AtEnd
<1> QED
  BY <1>1, <1>3, <1>4, HitAtKey

\* A domain that is a key of its own says yes.
LEMMA EndsAtLeafStep == ASSUME MatchingInv, EndsAtLeaf PROVE MatchingInv'
<1> DEFINE c == index - node + 1
           w == Walked(asked, at)
<1>1. outcome = "searching" /\ AtEnd /\ node \in trie.leaves /\ Concludes("yes")
  BY DEF EndsAtLeaf
<1>2. w \in Nodes(Keys) /\ node = IdOf(Nodes(Keys))[w]
  BY <1>1 DEF MatchingInv, Searching
<1>3. w \in Keys
  <2>1. Sees(Nodes(Keys), c)
    BY <1>1, SearchSees
  <2> QED
    BY <1>1, <1>2, <2>1 DEF Sees
<1>4. HitBy(w, asked, at)
  BY <1>1 DEF HitBy, AtEnd
<1> QED
  BY <1>1, <1>3, <1>4, HitAtKey

\* A label that is passed was missed.
LEMMA PassesLabelStep == ASSUME MatchingInv, PassesLabel PROVE MatchingInv'
<1> PICK nodes : nodes = Nodes(Keys)
  OBVIOUS
<1> DEFINE c == index - node + 1
<1>1. SeesLabel /\ outcome = "searching" /\ index' = index + 1 /\ UNCHANGED <<rules, asked, trie, at, node, outcome>>
  BY DEF PassesLabel, SeesLabel
<1>2. SeesChild(nodes, c) /\ Sees(nodes, c) /\ index # OneOf(nodes, node)
  BY <1>1, LabelIsSeen
<1>3. Searching(nodes)
  BY <1>1 DEF MatchingInv
<1>4. Missed(Label) /\ (AtEnd => node \notin trie.leaves)
  <2>1. CASE AtEnd
    BY <2>1 DEF PassesLabel, Missed
  <2>2. CASE ~AtEnd
    <3>1. ~SuffixMatches /\ Label # Current
      BY <2>2 DEF PassesLabel
    <3>2. Label = RootLabel => Current # Dot
      <4>1. Label = RootLabel => CountZeroes(index + 1) \in trie.leaves
        BY <1>1, <1>2, SpecialLabel
      <4> QED
        BY <3>1, <4>1 DEF SuffixMatches
    <3> QED
      BY <2>2, <3>1, <3>2 DEF Missed, SuffixMatches
  <2> QED
    BY <2>1, <2>2
<1>5. Keys' = Keys /\ AtEnd' = AtEnd /\ Current' = Current /\ (\A l : Missed(l)' <=> Missed(l))
  BY <1>1 DEF Keys, AtEnd, Current, Missed
<1>6. OneOf(nodes, node) \in Nat /\ Start(nodes, node) \in Nat /\ index \in Nat /\ node \in Nat
  <2>1. IsTree(nodes) /\ node \in Nat
    BY <1>2 DEF Sees
  <2> QED
    BY <1>3, <2>1, OneIsNatural, StartIs DEF Searching
<1>7. index + 1 \in Nat /\ Start(nodes, node) <= index + 1 /\ index + 1 <= OneOf(nodes, node)
  BY <1>2, <1>3, <1>6 DEF Searching
<1>8. ASSUME NEW j \in 1 .. Cardinality(nodes) - 1, ParentOf(nodes)[j] = node, j < index + 1 - node + 1
      PROVE  Missed(Last(NodeAt(nodes)[j]))
  <2>1. CASE j = c
    BY <1>2, <1>4, <2>1 DEF SeesChild
  <2>2. CASE j # c
    <3>1. j < c
      BY <1>6, <1>8, <2>2
    <3> QED
      BY <1>3, <1>8, <3>1 DEF Searching
  <2> QED
    BY <2>1, <2>2
<1>9. Searching(nodes)'
  <2>1. (at \in 0 .. Len(asked) /\ Walked(asked, at) \in nodes /\ node = IdOf(nodes)[Walked(asked, at)])'
    BY <1>1, <1>3 DEF Searching
  <2>2. (index \in Nat /\ Start(nodes, node) <= index /\ index <= OneOf(nodes, node))'
    BY <1>1, <1>7
  <2>3. (\A i \in 0 .. at - 1 : ~Hit(Keys, asked, i))'
    BY <1>1, <1>3, <1>5 DEF Searching
  <2>4. (\A j \in 1 .. Cardinality(nodes) - 1 :
           ParentOf(nodes)[j] = node /\ j < index - node + 1 => Missed(Last(NodeAt(nodes)[j])))'
    <3> SUFFICES ASSUME NEW j \in 1 .. Cardinality(nodes) - 1,
                        ParentOf(nodes)[j] = node', j < index' - node' + 1
                 PROVE  Missed(Last(NodeAt(nodes)[j]))'
      OBVIOUS
    <3>1. Missed(Last(NodeAt(nodes)[j]))
      <4>1. node' = node /\ index' = index + 1
        BY <1>1
      <4>2. ParentOf(nodes)[j] = node
        BY <4>1
      <4>3. node' \in Nat /\ index' \in Nat /\ node \in Nat /\ index \in Nat
        BY <1>6, <4>1
      <4>4. j < index + 1 - node + 1
        BY <4>1, <4>3
      <4> QED
        BY <1>8, <4>2, <4>4
    <3> DEFINE l == Last(NodeAt(nodes)[j])
    <3> HIDE DEF l
    <3>2. l' = l
      BY DEF l
    <3>3. Missed(l)
      BY <3>1 DEF l
    <3>4. Missed(l)'
      BY <1>5, <3>2, <3>3 DEF Missed
    <3> QED
      BY <3>4 DEF l
  <2>5. (AtEnd /\ index # Start(nodes, node) => node \notin trie.leaves)'
    BY <1>1, <1>4, <1>5
  <2> QED
    BY <2>1, <2>2, <2>3, <2>4, <2>5 DEF Searching
<1> QED
  BY <1>1, <1>5, <1>9 DEF MatchingInv

\* A descent leads to the node of what is then behind, and to its first bit; nothing that
\* is shorter has said yes.
LEMMA DescendsStep == ASSUME MatchingInv, Descends PROVE MatchingInv'
<1> PICK nodes : nodes = Nodes(Keys)
  OBVIOUS
<1> DEFINE c == index - node + 1
           w == Walked(asked, at)
<1>1. /\ SeesLabel /\ outcome = "searching" /\ ~AtEnd /\ Label = Current
      /\ UNCHANGED <<rules, asked, trie>>
  BY DEF Descends, SeesLabel
<1>2. SeesChild(nodes, c) /\ Sees(nodes, c)
  BY <1>1, LabelIsSeen
<1>3. Searching(nodes) /\ IsName(asked) /\ Len(asked) \in Nat
  BY <1>1, KeysAre, NameIs DEF MatchingInv
<1>4. ~Hit(Keys, asked, at)
  BY <1>1, <1>2, NotHitBefore
<1>5. Keys' = Keys
  BY <1>1 DEF Keys
<1>6. /\ c \in 1 .. Cardinality(nodes) - 1 /\ Cardinality(nodes) \in Nat /\ IsTree(nodes)
      /\ c = IdOf(nodes)[Append(w, Label)] /\ Append(w, Label) \in nodes
      /\ CountZeroes(index + 1) = c /\ OnePosition(c - 1) = OneOf(nodes, c - 1)
      /\ Cardinality(trie.ones) = Cardinality(nodes)
  BY <1>2 DEF SeesChild, Sees
<1> HIDE DEF c
<1>7. c - 1 \in 0 .. Cardinality(nodes) - 1 /\ c \in Nat /\ c # 0 /\ c \in 0 .. Cardinality(nodes) - 1
  BY <1>6
<1>8. node' = c /\ index' = OneOf(nodes, c - 1) + 1 /\ at' = at + 1 /\ outcome' = outcome
  <2>1. CountZeroes(index + 1) - 1 \in 0 .. Cardinality(trie.ones) - 1
    BY <1>6, <1>7
  <2>2. node' = CountZeroes(index + 1) /\ index' = OnePosition(CountZeroes(index + 1) - 1) + 1 /\ at' = at + 1 /\ UNCHANGED outcome
    BY <2>1 DEF Descends
  <2> QED
    BY <1>6, <2>2
<1>9. index' = Start(nodes, c) /\ Start(nodes, c) \in Nat /\ Start(nodes, c) <= OneOf(nodes, c)
  BY <1>6, <1>7, <1>8, StartIs DEF Start
<1>10. at \in 0 .. Len(asked) /\ at + 1 \in 0 .. Len(asked) /\ at < Len(asked)
  BY <1>1, <1>3 DEF Searching, AtEnd
<1>11. Walked(asked, at + 1) = Append(w, Label)
  BY <1>1, <1>3, <1>10, WalkedIs DEF Current
<1>12. \A i \in 0 .. (at + 1) - 1 : ~Hit(Keys, asked, i)
  <2>1. \A i \in 0 .. at - 1 : ~Hit(Keys, asked, i)
    BY <1>3 DEF Searching
  <2>2. \A i \in 0 .. (at + 1) - 1 : i \in 0 .. at - 1 \/ i = at
    BY <1>10
  <2> QED
    BY <1>4, <2>1, <2>2
<1>13. \A j \in 1 .. Cardinality(nodes) - 1 : ParentOf(nodes)[j] = c => ~(j < index' - c + 1)
  <2> DEFINE p == index'
  <2>1. p \in Nat /\ Start(nodes, c) <= p /\ p <= OneOf(nodes, c) /\ p = Start(nodes, c)
    BY <1>9
  <2> HIDE DEF p
  <2>a. PICK d : d = p - c + 1
    OBVIOUS
  <2>2. d \in Nat /\ \A j \in 1 .. Cardinality(nodes) - 1 : ParentOf(nodes)[j] = c => (p = Start(nodes, c) => j >= d)
    BY <1>6, <1>7, <2>1, <2>a, BitsAre
  <2>3. \A j \in 1 .. Cardinality(nodes) - 1 : ParentOf(nodes)[j] = c => ~(j < d)
    BY <1>6, <2>1, <2>2
  <2> QED
    BY <2>a, <2>3 DEF p
<1>14. Searching(nodes)'
  <2>1. (at \in 0 .. Len(asked) /\ Walked(asked, at) \in nodes /\ node = IdOf(nodes)[Walked(asked, at)])'
    BY <1>1, <1>6, <1>8, <1>10, <1>11
  <2>2. (index \in Nat /\ Start(nodes, node) <= index /\ index <= OneOf(nodes, node))'
    BY <1>8, <1>9
  <2>3. (\A i \in 0 .. at - 1 : ~Hit(Keys, asked, i))'
    BY <1>1, <1>5, <1>8, <1>12
  <2>4. (\A j \in 1 .. Cardinality(nodes) - 1 :
           ParentOf(nodes)[j] = node /\ j < index - node + 1 => Missed(Last(NodeAt(nodes)[j])))'
    BY <1>8, <1>13
  <2>5. (AtEnd /\ index # Start(nodes, node) => node \notin trie.leaves)'
    BY <1>8, <1>9
  <2> QED
    BY <2>1, <2>2, <2>3, <2>4, <2>5 DEF Searching
<1> QED
  BY <1>1, <1>5, <1>8, <1>14 DEF MatchingInv

\* The walk through the bits keeps to the trie, for every rules and every domain.
THEOREM MatchingInvariance == MatchingSpec => []MatchingInv
<1>1. MatchingInv /\ [MatchingNext]_matching => MatchingInv'
  <2> SUFFICES ASSUME MatchingInv, [MatchingNext]_matching PROVE MatchingInv'
    OBVIOUS
  <2>1. CASE UNCHANGED matching
    <3>1. UNCHANGED <<rules, asked, trie, at, node, index, outcome>>
      BY <2>1 DEF matching
    <3>2. Keys' = Keys /\ AtEnd' = AtEnd /\ Current' = Current
      BY <3>1 DEF Keys, AtEnd, Current
    <3>3. \A l : Missed(l)' <=> Missed(l)
      BY <3>1, <3>2 DEF Missed
    <3>4. Searching(Nodes(Keys))' <=> Searching(Nodes(Keys))
      BY <3>1, <3>2, <3>3 DEF Searching
    <3> QED
      BY <3>1, <3>2, <3>4 DEF MatchingInv
  <2> QED
    BY <2>1, ParsesTrieStep, ExhaustedStep, FindsSuffixStep, DescendsStep, PassesLabelStep,
       EndsAtLeafStep, EndsAtSuffixStep DEF MatchingNext
<1> QED
  BY <1>1, MatchingInvInit, PTL DEF MatchingSpec

\* The walk through the bits of the trie (SrsDomainMatcher::matches) says what the rules
\* that the trie was written from say, and the file is not refused.
THEOREM MatchedExactly == MatchingSpec => []MatchIsExact
<1>1. MatchingInv => MatchIsExact
  BY VerdictIs DEF MatchingInv, MatchIsExact
<1> QED
  BY <1>1, MatchingInvariance, PTL

-----------------------------------------------------------------------------
(****************************************************************************)
(* An integer that is read is the one that was written, for every width and *)
(* every number of bits in a byte.  DecodingInv is inductive: the value is  *)
(* less than the place of the next byte is worth, so that nothing wraps.    *)
(****************************************************************************)

\* f is computed step by step up to m: step[n] takes the value before to the one at n.
Computes(f, base, step, m) ==
  /\ f \in [0 .. m -> Nat]
  /\ f[0] = base
  /\ \A n \in 1 .. m : f[n] = step[n][f[n - 1]]

\* What is computed step by step exists: a first number that it does not reach
\* would follow one that it reaches.
LEMMA ComputedExists ==
  ASSUME NEW N \in Nat, NEW base \in Nat, NEW step \in [1 .. N -> [Nat -> Nat]]
  PROVE  \E f : Computes(f, base, step, N)
<1> DEFINE I == {m \in 0 .. N : ~\E f : Computes(f, base, step, m)}
<1>1. I \in SUBSET Nat /\ IsFiniteSet(I)
  <2>1. 0 .. N \in SUBSET Nat /\ IsFiniteSet(0 .. N)
    BY FS_Interval
  <2>2. I \in SUBSET (0 .. N)
    OBVIOUS
  <2> HIDE DEF I
  <2>3. I \in SUBSET Nat
    BY <2>1, <2>2
  <2> QED
    BY <2>1, <2>2, <2>3, FS_Subset
<1>2. SUFFICES I = {}
  <2>1. N \in 0 .. N
    OBVIOUS
  <2> QED
    BY <1>2, <2>1
<1>3. SUFFICES ASSUME I # {} PROVE FALSE
  OBVIOUS
<1>4. PICK m \in I : \A j \in I : m <= j
  <2> HIDE DEF I
  <2> QED
    BY <1>1, <1>3, LeastIndex
<1>5. m \in 0 .. N /\ ~\E f : Computes(f, base, step, m)
  OBVIOUS
<1>6. m # 0
  <2>1. SUFFICES ASSUME m = 0 PROVE FALSE
    OBVIOUS
  <2>2. Computes([n \in 0 .. 0 |-> base], base, step, 0)
    BY DEF Computes
  <2> QED
    BY <1>5, <2>1, <2>2
<1>7. m - 1 \in 0 .. N /\ m \in 1 .. N /\ m - 1 \in Nat /\ m - 1 \in 0 .. m - 1
  BY <1>5, <1>6
<1>8. PICK g : Computes(g, base, step, m - 1)
  <2>1. m - 1 \notin I
    <3> HIDE DEF I
    <3> QED
      BY <1>4, <1>5, <1>7
  <2> QED
    BY <1>7, <2>1
<1>9. g \in [0 .. m - 1 -> Nat] /\ g[0] = base /\ \A n \in 1 .. m - 1 : g[n] = step[n][g[n - 1]]
  BY <1>8 DEF Computes
<1>10. PICK x \in Nat : x = step[m][g[m - 1]]
  <2>1. g[m - 1] \in Nat /\ step[m] \in [Nat -> Nat]
    BY <1>7, <1>9
  <2> QED
    BY <2>1
<1> DEFINE f == [n \in 0 .. m |-> IF n = m THEN x ELSE g[n]]
<1>11. \A n \in 0 .. m - 1 : n \in 0 .. m /\ f[n] = g[n]
  BY <1>5
<1>12. f[m] = x
  BY <1>5
<1>13. f \in [0 .. m -> Nat]
  <2>1. \A n \in 0 .. m : (IF n = m THEN x ELSE g[n]) \in Nat
    <3> SUFFICES ASSUME NEW n \in 0 .. m, n # m PROVE g[n] \in Nat
      OBVIOUS
    <3>1. n \in 0 .. m - 1
      BY <1>5
    <3> QED
      BY <1>9, <3>1
  <2> QED
    BY <2>1, Zenon
<1> HIDE DEF f
<1>14. f[0] = base
  <2>1. 0 \in 0 .. m - 1
    BY <1>5, <1>6
  <2> QED
    BY <1>9, <1>11, <2>1
<1>15. ASSUME NEW n \in 1 .. m PROVE f[n] = step[n][f[n - 1]]
  <2>1. n - 1 \in 0 .. m - 1
    BY <1>5
  <2>2. f[n - 1] = g[n - 1]
    BY <1>11, <2>1
  <2>3. CASE n = m
    BY <1>10, <1>12, <2>2, <2>3
  <2>4. CASE n # m
    <3>1. n \in 1 .. m - 1 /\ n \in 0 .. m - 1
      BY <1>5, <2>4
    <3> QED
      BY <1>9, <1>11, <2>2, <3>1
  <2> QED
    BY <2>3, <2>4
<1> QED
  BY <1>5, <1>13, <1>14, <1>15 DEF Computes

\* g starts and continues as f does.
Alike(f, g, N) == f[0] = g[0] /\ \A n \in 1 .. N : f[n - 1] = g[n - 1] => f[n] = g[n]

\* What starts alike and continues alike is alike everywhere.
LEMMA StepByStep ==
  ASSUME NEW N \in Nat, NEW f, NEW g, Alike(f, g, N)
  PROVE  \A n \in 0 .. N : f[n] = g[n]
<1> DEFINE I == {n \in 0 .. N : f[n] # g[n]}
<1>1. I \in SUBSET Nat /\ IsFiniteSet(I)
  <2>1. 0 .. N \in SUBSET Nat /\ IsFiniteSet(0 .. N)
    BY FS_Interval
  <2>2. I \in SUBSET (0 .. N)
    OBVIOUS
  <2> HIDE DEF I
  <2>3. I \in SUBSET Nat
    BY <2>1, <2>2
  <2> QED
    BY <2>1, <2>2, <2>3, FS_Subset
<1>2. SUFFICES ASSUME I # {} PROVE FALSE
  OBVIOUS
<1>3. PICK m \in I : \A j \in I : m <= j
  <2> HIDE DEF I
  <2> QED
    BY <1>1, <1>2, LeastIndex
<1>4. m \in 0 .. N /\ f[m] # g[m]
  OBVIOUS
<1>5. m \in 1 .. N /\ m - 1 \in 0 .. N
  <2>1. m # 0
    BY <1>4 DEF Alike
  <2> QED
    BY <1>4, <2>1
<1>6. m - 1 \notin I
  <2> HIDE DEF I
  <2> QED
    BY <1>1, <1>3, <1>5
<1> QED
  BY <1>4, <1>5, <1>6 DEF Alike

\* Pow2 is what its definition says, and a number.
LEMMA PowersAre ==
  /\ Pow2 \in [0 .. Width -> Nat]
  /\ Pow2[0] = 1
  /\ \A n \in 1 .. Width : Pow2[n] = 2 * Pow2[n - 1]
<1> DEFINE step == [n \in 1 .. Width |-> [x \in Nat |-> 2 * x]]
<1>1. Width \in Nat
  BY WidthOK
<1>2. PICK f : Computes(f, 1, step, Width)
  <2>1. step \in [1 .. Width -> [Nat -> Nat]] /\ 1 \in Nat
    OBVIOUS
  <2> HIDE DEF step
  <2> QED
    BY <1>1, <2>1, ComputedExists
<1>3. f \in [0 .. Width -> Nat] /\ f[0] = 1 /\ \A n \in 1 .. Width : f[n] = step[n][f[n - 1]]
  <2> HIDE DEF step
  <2> QED
    BY <1>2 DEF Computes
<1>4. \A n \in 1 .. Width : f[n] = 2 * f[n - 1]
  <2> SUFFICES ASSUME NEW n \in 1 .. Width PROVE f[n] = 2 * f[n - 1]
    OBVIOUS
  <2>1. n - 1 \in 0 .. Width
    BY <1>1
  <2>2. f[n - 1] \in Nat
    BY <1>3, <2>1
  <2> QED
    BY <1>3, <2>2
<1>5. f = [n \in 0 .. Width |-> IF n = 0 THEN 1 ELSE 2 * f[n - 1]]
  <2>1. \A n \in 0 .. Width : n # 0 => n \in 1 .. Width
    BY <1>1
  <2>2. \A n \in 0 .. Width : f[n] = IF n = 0 THEN 1 ELSE 2 * f[n - 1]
    BY <1>3, <1>4, <2>1
  <2> QED
    BY <1>3, <2>2
<1>6. Pow2 = [n \in 0 .. Width |-> IF n = 0 THEN 1 ELSE 2 * Pow2[n - 1]]
  BY <1>5, Zenon DEF Pow2
<1>7. 0 \in 0 .. Width /\ \A n \in 1 .. Width : n \in 0 .. Width /\ n # 0
  BY <1>1
<1>8. Pow2[0] = 1 /\ \A n \in 1 .. Width : Pow2[n] = 2 * Pow2[n - 1]
  BY <1>6, <1>7, Zenon
<1>9. \A n \in 0 .. Width : Pow2[n] = f[n]
  <2>1. \A n \in 1 .. Width : Pow2[n - 1] = f[n - 1] => Pow2[n] = f[n]
    BY <1>4, <1>8
  <2>2. Pow2[0] = f[0]
    BY <1>3, <1>8
  <2>3. Alike(Pow2, f, Width)
    BY <2>1, <2>2 DEF Alike
  <2> QED
    BY <1>1, <2>3, StepByStep
<1>10. \A n \in 0 .. Width : Pow2[n] \in Nat
  <2>1. \A n \in 0 .. Width : f[n] \in Nat
    BY <1>3
  <2> QED
    BY <1>9, <2>1
<1> QED
  BY <1>6, <1>8, <1>10

\* No power is zero.
LEMMA PowersArePositive == \A n \in 0 .. Width : Pow2[n] \in Nat \ {0}
<1> DEFINE f == [n \in 0 .. Width |-> IF Pow2[n] = 0 THEN 0 ELSE 1]
           g == [n \in 0 .. Width |-> 1]
<1>1. Width \in Nat
  BY WidthOK
<1>2. f[0] = g[0]
  <2>1. 0 \in 0 .. Width
    BY <1>1
  <2> QED
    BY <2>1, PowersAre
<1>3. ASSUME NEW n \in 1 .. Width PROVE f[n - 1] = g[n - 1] => f[n] = g[n]
  <2>1. n \in 0 .. Width /\ n - 1 \in 0 .. Width
    BY <1>1
  <2>2. Pow2[n] = 2 * Pow2[n - 1] /\ Pow2[n - 1] \in Nat /\ Pow2[n] \in Nat
    BY <2>1, PowersAre
  <2> QED
    BY <2>1, <2>2
<1>4. \A n \in 0 .. Width : f[n] = g[n]
  <2> HIDE DEF f, g
  <2>1. Alike(f, g, Width)
    BY <1>2, <1>3 DEF Alike
  <2> QED
    BY <1>1, <2>1, StepByStep
<1>5. \A n \in 0 .. Width : Pow2[n] # 0
  BY <1>4
<1> QED
  BY <1>5, PowersAre

\* Powers multiply where their exponents add.
LEMMA PowersMultiply ==
  ASSUME NEW a \in Nat, NEW b \in Nat, a + b <= Width
  PROVE  Pow2[a + b] = Pow2[a] * Pow2[b]
<1> DEFINE f == [n \in 0 .. b |-> Pow2[a + n]]
           g == [n \in 0 .. b |-> Pow2[a] * Pow2[n]]
<1>1. Width \in Nat /\ a \in 0 .. Width /\ Pow2[a] \in Nat /\ 0 \in 0 .. b /\ b \in 0 .. b
  <2>1. Width \in Nat /\ a \in 0 .. Width /\ 0 \in 0 .. b /\ b \in 0 .. b
    BY WidthOK
  <2> QED
    BY <2>1, PowersAre
<1>2. f[0] = g[0]
  <2>1. f[0] = Pow2[a]
    <3>1. a + 0 = a
      OBVIOUS
    <3> QED
      BY <1>1, <3>1
  <2>2. g[0] = Pow2[a] * 1
    BY <1>1, PowersAre
  <2>3. Pow2[a] * 1 = Pow2[a]
    BY <1>1
  <2> QED
    BY <2>1, <2>2, <2>3
<1>3. ASSUME NEW n \in 1 .. b PROVE f[n - 1] = g[n - 1] => f[n] = g[n]
  <2>1. n \in 0 .. b /\ n - 1 \in 0 .. b /\ n \in 1 .. Width /\ a + n \in 1 .. Width
        /\ n - 1 \in 0 .. Width /\ a + (n - 1) = (a + n) - 1
    BY <1>1
  <2>2. Pow2[a + n] = 2 * Pow2[a + (n - 1)] /\ Pow2[n] = 2 * Pow2[n - 1] /\ Pow2[n - 1] \in Nat
    BY <2>1, PowersAre
  <2>3. f[n] = Pow2[a + n] /\ f[n - 1] = Pow2[a + (n - 1)]
    BY <2>1
  <2>4. g[n] = Pow2[a] * Pow2[n] /\ g[n - 1] = Pow2[a] * Pow2[n - 1]
    BY <2>1
  <2>5. \A x, y \in Nat : 2 * (x * y) = x * (2 * y)
    OBVIOUS
  <2>6. 2 * (Pow2[a] * Pow2[n - 1]) = Pow2[a] * (2 * Pow2[n - 1])
    BY <1>1, <2>2, <2>5
  <2> HIDE DEF f, g
  <2> QED
    BY <2>2, <2>3, <2>4, <2>6
<1>4. \A n \in 0 .. b : f[n] = g[n]
  <2> HIDE DEF f, g
  <2>1. Alike(f, g, b)
    BY <1>2, <1>3 DEF Alike
  <2> QED
    BY <2>1, StepByStep
<1> QED
  BY <1>1, <1>4

\* Powers are in the order of their exponents.
LEMMA PowersGrow ==
  ASSUME NEW a \in Nat, NEW b \in Nat, a <= b, b <= Width
  PROVE  Pow2[a] <= Pow2[b]
<1>1. b - a \in Nat /\ a + (b - a) = b /\ a \in 0 .. Width /\ b - a \in 0 .. Width /\ Width \in Nat
  BY WidthOK
<1>2. Pow2[b] = Pow2[a] * Pow2[b - a]
  BY <1>1, PowersMultiply
<1>3. Pow2[a] \in Nat /\ Pow2[b - a] \in Nat \ {0}
  BY <1>1, PowersArePositive
<1>4. \A x \in Nat, y \in Nat \ {0} : x <= x * y
  OBVIOUS
<1> QED
  BY <1>2, <1>3, <1>4

\* All bytes of an integer but the last lie inside the width.
LEMMA BytesFit ==
  /\ MaxBytes \in Nat \ {0}
  /\ GroupBits * (MaxBytes - 1) \in Nat
  /\ GroupBits * (MaxBytes - 1) < Width
<1>1. GroupBits \in Nat \ {0} /\ Width \in Nat /\ Width > GroupBits
  BY WidthOK
<1> DEFINE x == Width + GroupBits - 1
<1>2. x \in Nat /\ x >= GroupBits
  BY <1>1
<1> HIDE DEF x
<1>3. x = GroupBits * (x \div GroupBits) + (x % GroupBits) /\ x % GroupBits \in 0 .. GroupBits - 1
      /\ x \div GroupBits \in Nat
  BY <1>1, <1>2
<1> DEFINE q == x \div GroupBits
<1>a. q \in Nat /\ x % GroupBits \in 0 .. GroupBits - 1 /\ GroupBits * q + (x % GroupBits) = x
  BY <1>3
<1>9. MaxBytes = q
  BY DEF MaxBytes, x
<1> HIDE DEF q
<1>4. q # 0
  <2>1. GroupBits * 0 = 0
    BY <1>1
  <2> QED
    BY <1>1, <1>2, <1>a, <2>1
<1>b. q - 1 \in Nat
  BY <1>a, <1>4
<1>c. \A g, m \in Nat : g * m \in Nat
  OBVIOUS
<1>5. GroupBits * q \in Nat /\ GroupBits * (q - 1) \in Nat /\ GroupBits * q <= x
  BY <1>1, <1>2, <1>a, <1>b, <1>c
<1>6. GroupBits * (q - 1) = GroupBits * q - GroupBits
  <2>1. \A g, m \in Int : g * (m - 1) = g * m - g
    OBVIOUS
  <2> QED
    BY <1>1, <1>a, <2>1
<1>7. q - 1 \in Nat /\ GroupBits * (q - 1) \in Nat
  BY <1>b, <1>5
<1>8. GroupBits * (q - 1) < Width
  BY <1>1, <1>5, <1>6, <1>7 DEF x
<1> QED
  BY <1>a, <1>4, <1>7, <1>8, <1>9

\* A byte's place.
LEMMA PlaceOf ==
  ASSUME NEW n \in 1 .. MaxBytes
  PROVE  GroupBits * (n - 1) \in 0 .. Width - 1 /\ GroupBits * (n - 1) \in 0 .. Width
<1>1. GroupBits \in Nat /\ Width \in Nat /\ MaxBytes \in Nat \ {0}
      /\ GroupBits * (MaxBytes - 1) \in Nat /\ GroupBits * (MaxBytes - 1) < Width
  BY WidthOK, BytesFit
<1>2. n - 1 \in Nat /\ MaxBytes - 1 \in Nat /\ n - 1 <= MaxBytes - 1
  BY <1>1
<1>3. \A x, y, z \in Nat : x <= y => z * x <= z * y /\ z * x \in Nat
  OBVIOUS
<1>4. GroupBits * (n - 1) <= GroupBits * (MaxBytes - 1) /\ GroupBits * (n - 1) \in Nat
  BY <1>1, <1>2, <1>3
<1> QED
  BY <1>1, <1>4

\* What NumberOf sums up, byte by byte.
Sums(f, groups) ==
  /\ f[0] = 0
  /\ \A n \in 1 .. Len(groups) : f[n] = f[n - 1] + groups[n] * Pow2[GroupBits * (n - 1)]
  /\ \A n \in 0 .. Len(groups) : f[n] \in Nat

\* NumberOf is the last of the sums.
LEMMA NumberIs ==
  ASSUME NEW groups \in Seq(Nat), Len(groups) <= MaxBytes
  PROVE  \E f : Sums(f, groups) /\ NumberOf(groups) = f[Len(groups)]
<1> DEFINE L == Len(groups)
           place == [n \in 1 .. L |-> groups[n] * Pow2[GroupBits * (n - 1)]]
           step == [n \in 1 .. L |-> [x \in Nat |-> x + place[n]]]
<1>1. L \in Nat /\ MaxBytes \in Nat /\ \A n \in 1 .. L : n \in 1 .. MaxBytes /\ groups[n] \in Nat
  BY BytesFit
<1>2. \A n \in 1 .. L : place[n] \in Nat
  <2> SUFFICES ASSUME NEW n \in 1 .. L PROVE place[n] \in Nat
    OBVIOUS
  <2>1. Pow2[GroupBits * (n - 1)] \in Nat
    BY <1>1, PlaceOf, PowersAre
  <2>2. \A x, y \in Nat : x * y \in Nat
    OBVIOUS
  <2> QED
    BY <1>1, <2>1, <2>2
<1>3. step \in [1 .. L -> [Nat -> Nat]]
  <2> HIDE DEF place
  <2>1. \A n \in 1 .. L : [x \in Nat |-> x + place[n]] \in [Nat -> Nat]
    BY <1>2
  <2> QED
    BY <2>1, Zenon
<1>4. PICK f : Computes(f, 0, step, L)
  <2>1. 0 \in Nat
    OBVIOUS
  <2> HIDE DEF step, L
  <2> QED
    BY <1>1, <1>3, <2>1, ComputedExists
<1>5. f \in [0 .. L -> Nat] /\ f[0] = 0 /\ \A n \in 1 .. L : f[n] = step[n][f[n - 1]]
  <2> HIDE DEF step, L
  <2> QED
    BY <1>4 DEF Computes
<1>6. ASSUME NEW n \in 1 .. L PROVE f[n] = f[n - 1] + groups[n] * Pow2[GroupBits * (n - 1)]
  <2>1. n - 1 \in 0 .. L
    BY <1>1
  <2>2. f[n - 1] \in Nat
    BY <1>5, <2>1
  <2>3. f[n] = f[n - 1] + place[n]
    <3> HIDE DEF place
    <3>1. step[n] = [x \in Nat |-> x + place[n]]
      BY Zenon
    <3> HIDE DEF step
    <3>2. step[n][f[n - 1]] = f[n - 1] + place[n]
      BY <2>2, <3>1, Zenon
    <3> QED
      BY <1>5, <3>2
  <2> QED
    BY <2>3
<1> HIDE DEF step, place
<1>7. \A n \in 0 .. L : n # 0 => n \in 1 .. L
  BY <1>1
<1>8. \A n \in 0 .. L : f[n] = IF n = 0 THEN 0 ELSE f[n - 1] + groups[n] * Pow2[GroupBits * (n - 1)]
  BY <1>5, <1>6, <1>7, Zenon
<1>9. f = [n \in 0 .. L |-> IF n = 0 THEN 0 ELSE f[n - 1] + groups[n] * Pow2[GroupBits * (n - 1)]]
  BY <1>5, <1>8, Zenon
<1> DEFINE first == CHOOSE first : first = [n \in 0 .. L |-> IF n = 0 THEN 0
                      ELSE first[n - 1] + groups[n] * Pow2[GroupBits * (n - 1)]]
<1>10. first = [n \in 0 .. L |-> IF n = 0 THEN 0 ELSE first[n - 1] + groups[n] * Pow2[GroupBits * (n - 1)]]
  BY <1>9, Zenon
<1>11. NumberOf(groups) = first[L]
  BY Zenon DEF NumberOf
<1> HIDE DEF first
<1>12. \A n \in 1 .. L : n \in 0 .. L /\ n # 0
  BY <1>1
<1>13. 0 \in 0 .. L
  BY <1>1
<1>14. first[0] = 0 /\ \A n \in 1 .. L : first[n] = first[n - 1] + groups[n] * Pow2[GroupBits * (n - 1)]
  BY <1>10, <1>12, <1>13, Zenon
<1>15. \A n \in 0 .. L : first[n] = f[n]
  <2>1. \A n \in 1 .. L : first[n - 1] = f[n - 1] => first[n] = f[n]
    BY <1>6, <1>14, Zenon
  <2>2. first[0] = f[0]
    BY <1>5, <1>14
  <2>3. L \in Nat
    BY <1>1
  <2> HIDE DEF L
  <2>4. Alike(first, f, L)
    BY <2>1, <2>2 DEF Alike
  <2> QED
    BY <2>3, <2>4, StepByStep
<1>16. \A n \in 0 .. L : first[n] \in Nat
  BY <1>5, <1>15
<1> QED
  BY <1>11, <1>14, <1>16 DEF Sums

\* Before the first byte the number is zero.
LEMMA NumberOfNothing == NumberOf(<< >>) = 0
<1>1. << >> \in Seq(Nat) /\ Len(<< >>) = 0 /\ 0 <= MaxBytes
  BY BytesFit
<1>2. PICK f : Sums(f, << >>) /\ NumberOf(<< >>) = f[0]
  BY <1>1, NumberIs
<1> QED
  BY <1>2 DEF Sums

\* A byte more adds what it is worth at its place.
LEMMA NumberOfAppend ==
  ASSUME NEW groups \in Seq(Nat), Len(groups) < MaxBytes, NEW b \in Nat
  PROVE  /\ NumberOf(Append(groups, b)) = NumberOf(groups) + b * Pow2[GroupBits * Len(groups)]
         /\ NumberOf(groups) \in Nat
<1> PICK L : L = Len(groups)
  OBVIOUS
<1> DEFINE longer == Append(groups, b)
<1>1. /\ longer \in Seq(Nat) /\ Len(longer) = L + 1 /\ longer[L + 1] = b
      /\ \A n \in 1 .. L : longer[n] = groups[n]
      /\ L \in Nat /\ MaxBytes \in Nat
  BY BytesFit
<1>2. L <= MaxBytes /\ Len(longer) <= MaxBytes
  BY <1>1
<1> HIDE DEF longer
<1>3. PICK f : Sums(f, groups) /\ NumberOf(groups) = f[L]
  BY <1>2, NumberIs
<1>4. PICK g : Sums(g, longer) /\ NumberOf(longer) = g[L + 1]
  BY <1>1, <1>2, NumberIs
<1>5. \A n \in 1 .. L : n \in 1 .. Len(longer)
  BY <1>1
<1>6. ASSUME NEW n \in 1 .. L PROVE g[n - 1] = f[n - 1] => g[n] = f[n]
  <2>1. f[n] = f[n - 1] + groups[n] * Pow2[GroupBits * (n - 1)]
    BY <1>3 DEF Sums
  <2>2. g[n] = g[n - 1] + longer[n] * Pow2[GroupBits * (n - 1)]
    BY <1>4, <1>5, Zenon DEF Sums
  <2> QED
    BY <1>1, <2>1, <2>2
<1>7. g[0] = f[0]
  BY <1>3, <1>4 DEF Sums
<1>8. \A n \in 0 .. L : g[n] = f[n]
  <2>1. Alike(g, f, L)
    BY <1>6, <1>7 DEF Alike
  <2>2. L \in Nat
    BY <1>1
  <2> QED
    BY <2>1, <2>2, StepByStep
<1>9. g[L] = f[L] /\ f[L] \in Nat
  <2>1. L \in 0 .. L
    BY <1>1
  <2> QED
    BY <1>3, <1>8, <2>1 DEF Sums
<1>10. g[L + 1] = g[L] + b * Pow2[GroupBits * L]
  <2>1. L + 1 \in 1 .. Len(longer) /\ (L + 1) - 1 = L
    BY <1>1
  <2>2. g[L + 1] = g[(L + 1) - 1] + longer[L + 1] * Pow2[GroupBits * ((L + 1) - 1)]
    BY <1>4, <2>1, Zenon DEF Sums
  <2> QED
    BY <1>1, <2>1, <2>2
<1> QED
  BY <1>3, <1>4, <1>9, <1>10 DEF longer

DecodingInv ==
  /\ bytes \in Seq(Nat)
  /\ integer \in {"reading", "read", "refused"}
  /\ integer = "reading" =>
       /\ Len(bytes) < MaxBytes
       /\ value = NumberOf(bytes)
       /\ value < Pow2[GroupBits * Len(bytes)]
  /\ integer = "read" => value = NumberOf(bytes)
  /\ integer = "refused" => Len(bytes) = MaxBytes

\* The bits that the byte at a place has, if it is not refused.
Room(n) == IF n = MaxBytes - 1 THEN Width - GroupBits * n ELSE GroupBits

\* The next byte fits: the value does not wrap.
LEMMA ByteFits ==
  ASSUME DecodingInv, integer = "reading", NEW bits \in 0 .. Pow2[GroupBits] - 1, ~Overflows(bits)
  PROVE  /\ value + bits * Pow2[GroupBits * Len(bytes)] \in Nat
         /\ value + bits * Pow2[GroupBits * Len(bytes)] < Pow2[Width]
         /\ Len(bytes) < MaxBytes - 1 =>
              value + bits * Pow2[GroupBits * Len(bytes)] < Pow2[GroupBits * (Len(bytes) + 1)]
<1> PICK L : L = Len(bytes)
  OBVIOUS
<1>1. /\ L \in Nat /\ L < MaxBytes /\ value = NumberOf(bytes) /\ value < Pow2[GroupBits * L]
      /\ bytes \in Seq(Nat)
  BY DEF DecodingInv
<1>2. value \in Nat
  <2>1. NumberOf(bytes) \in Nat
    <3>1. 0 \in Nat /\ Len(bytes) < MaxBytes
      BY <1>1
    <3> QED
      BY <1>1, <3>1, NumberOfAppend
  <2> QED
    BY <1>1, <2>1
<1> PICK a : a = GroupBits * L
  OBVIOUS
<1> PICK r : r = Room(L)
  OBVIOUS
<1>3. /\ GroupBits \in Nat /\ Width \in Nat /\ Width > GroupBits /\ MaxBytes \in Nat \ {0}
      /\ GroupBits * (MaxBytes - 1) \in Nat /\ GroupBits * (MaxBytes - 1) < Width
  BY WidthOK, BytesFit
<1>4. a \in 0 .. Width - 1
  <2>1. L + 1 \in 1 .. MaxBytes /\ (L + 1) - 1 = L
    BY <1>1, <1>3
  <2>2. GroupBits * ((L + 1) - 1) \in 0 .. Width - 1
    BY <2>1, PlaceOf
  <2> QED
    BY <2>1, <2>2
<1>5. r \in Nat /\ a + r <= Width /\ (L < MaxBytes - 1 => a + r = GroupBits * (L + 1))
  <2>1. CASE L = MaxBytes - 1
    <3>1. r = Width - a
      BY <2>1 DEF Room
    <3> QED
      BY <1>1, <1>3, <1>4, <2>1, <3>1
  <2>2. CASE L # MaxBytes - 1
    <3>1. r = GroupBits
      BY <2>2 DEF Room
    <3>2. GroupBits * (L + 1) = GroupBits * L + GroupBits
      <4>1. \A x, y \in Nat : x * (y + 1) = x * y + x
        OBVIOUS
      <4> QED
        BY <1>1, <1>3, <4>1
    <3>3. L + 2 \in 1 .. MaxBytes /\ (L + 2) - 1 = L + 1
      BY <1>1, <1>3, <2>2
    <3>4. GroupBits * ((L + 2) - 1) \in 0 .. Width
      BY <3>3, PlaceOf
    <3> QED
      BY <1>3, <3>1, <3>2, <3>3, <3>4
  <2> QED
    BY <2>1, <2>2
<1>6. r \in 0 .. Width /\ a + r \in 0 .. Width /\ a \in 0 .. Width /\ GroupBits \in 0 .. Width
  BY <1>3, <1>4, <1>5
<1>7. Pow2[r] \in Nat /\ Pow2[a] \in Nat \ {0} /\ Pow2[a + r] \in Nat /\ Pow2[GroupBits] \in Nat
  BY <1>6, PowersArePositive
<1>8. bits \in Nat /\ bits < Pow2[r]
  <2>1. CASE L = MaxBytes - 1
    <3>1. r = Width - GroupBits * (MaxBytes - 1)
      BY <2>1 DEF Room
    <3>2. ~(bits >= Pow2[r])
      BY <2>1, <3>1 DEF Overflows
    <3> QED
      BY <1>7, <3>2
  <2>2. CASE L # MaxBytes - 1
    <3>1. r = GroupBits
      BY <2>2 DEF Room
    <3> QED
      BY <1>7, <3>1
  <2> QED
    BY <2>1, <2>2
<1>9. Pow2[a + r] = Pow2[a] * Pow2[r]
  BY <1>4, <1>5, PowersMultiply
<1>10. \A v, b, p, q \in Nat : v < p /\ b < q => v + b * p < p * q /\ v + b * p \in Nat
  <2> SUFFICES ASSUME NEW v \in Nat, NEW b \in Nat, NEW p \in Nat, NEW q \in Nat, v < p, b < q
               PROVE  v + b * p < p * q /\ v + b * p \in Nat
    OBVIOUS
  <2>1. b + 1 <= q
    OBVIOUS
  <2>2. \A x, y, z \in Nat : x <= y => x * z <= y * z /\ x * z \in Nat /\ y * z \in Nat
    OBVIOUS
  <2>3. (b + 1) * p <= q * p /\ q * p \in Nat /\ (b + 1) * p \in Nat /\ b * p \in Nat
    BY <2>1, <2>2
  <2>4. (b + 1) * p = b * p + p /\ q * p = p * q
    OBVIOUS
  <2> QED
    BY <2>3, <2>4
<1>11. value + bits * Pow2[a] < Pow2[a + r] /\ value + bits * Pow2[a] \in Nat
  <2>1. value < Pow2[a]
    BY <1>1
  <2>2. Pow2[a] \in Nat /\ Pow2[r] \in Nat
    BY <1>7
  <2>3. value + bits * Pow2[a] < Pow2[a] * Pow2[r] /\ value + bits * Pow2[a] \in Nat
    BY <1>2, <1>8, <1>10, <2>1, <2>2, Zenon
  <2> QED
    BY <1>9, <2>3
<1>12. Pow2[a + r] <= Pow2[Width] /\ Pow2[Width] \in Nat
  <2>1. Width \in 0 .. Width /\ Width <= Width /\ a + r \in Nat
    BY <1>3, <1>6
  <2> QED
    BY <1>3, <1>5, <2>1, PowersGrow, PowersAre
<1>13. value + bits * Pow2[a] < Pow2[Width]
  BY <1>7, <1>11, <1>12
<1>14. L < MaxBytes - 1 => value + bits * Pow2[a] < Pow2[GroupBits * (L + 1)]
  BY <1>5, <1>11
<1> QED
  BY <1>11, <1>13, <1>14

\* A byte that is read leaves the value exact; one that is refused is the last.
LEMMA ReadsByteStep ==
  ASSUME DecodingInv, NEW bits \in 0 .. Pow2[GroupBits] - 1, NEW more \in BOOLEAN, ReadsByte(bits, more)
  PROVE  DecodingInv'
<1>1. integer = "reading" /\ bytes' = Append(bytes, bits)
  BY DEF ReadsByte
<1>2. /\ bytes \in Seq(Nat) /\ Len(bytes) \in Nat /\ Len(bytes) < MaxBytes /\ value = NumberOf(bytes)
      /\ MaxBytes \in Nat
  BY <1>1, BytesFit DEF DecodingInv
<1>3. bits \in Nat
  OBVIOUS
<1>4. bytes' \in Seq(Nat) /\ Len(bytes') = Len(bytes) + 1
  BY <1>1, <1>2, <1>3
<1>5. CASE Overflows(bits)
  <2>1. integer' = "refused"
    BY <1>5 DEF ReadsByte
  <2>2. Len(bytes') = MaxBytes
    BY <1>2, <1>4, <1>5 DEF Overflows
  <2>3. MaxBytes' = MaxBytes
    BY DEF MaxBytes
  <2> QED
    BY <1>4, <2>1, <2>2, <2>3 DEF DecodingInv
<1>6. CASE ~Overflows(bits)
  <2> PICK v : v = value + bits * Pow2[GroupBits * Len(bytes)]
    OBVIOUS
  <2>1. v \in Nat /\ v < Pow2[Width] /\ (Len(bytes) < MaxBytes - 1 => v < Pow2[GroupBits * (Len(bytes) + 1)])
    BY <1>1, <1>6, ByteFits
  <2>2. Pow2[Width] \in Nat
    BY WidthOK, PowersAre
  <2>3. value' = v % Pow2[Width]
    BY <1>6 DEF ReadsByte
  <2>4. v % Pow2[Width] = v
    <3>1. \A x, y \in Nat : x < y => x % y = x
      OBVIOUS
    <3> QED
      BY <2>1, <2>2, <3>1
  <2>5. value' = v
    BY <2>3, <2>4
  <2>6. NumberOf(Append(bytes, bits)) = v
    BY <1>2, <1>3, NumberOfAppend
  <2>7. value' = NumberOf(bytes')
    BY <1>1, <2>5, <2>6
  <2>8. integer' = IF ~more THEN "read" ELSE IF Len(bytes') = MaxBytes THEN "refused" ELSE "reading"
    BY <1>6 DEF ReadsByte
  <2>9. integer' = "reading" => Len(bytes') < MaxBytes /\ v < Pow2[GroupBits * Len(bytes')]
    <3> SUFFICES ASSUME integer' = "reading"
                 PROVE  Len(bytes') < MaxBytes /\ v < Pow2[GroupBits * Len(bytes')]
      OBVIOUS
    <3>1. Len(bytes') # MaxBytes
      BY <2>8
    <3>2. Len(bytes) < MaxBytes - 1 /\ Len(bytes') < MaxBytes
      BY <1>2, <1>4, <3>1
    <3> QED
      BY <1>4, <2>1, <3>2
  <2>10. MaxBytes' = MaxBytes
    BY DEF MaxBytes
  <2>11. (integer = "reading" =>
            /\ Len(bytes) < MaxBytes
            /\ value = NumberOf(bytes)
            /\ value < Pow2[GroupBits * Len(bytes)])'
    BY <2>5, <2>7, <2>9, <2>10
  <2>12. (integer = "read" => value = NumberOf(bytes))'
    BY <2>7
  <2>13. (integer = "refused" => Len(bytes) = MaxBytes)' /\ integer' \in {"reading", "read", "refused"}
    BY <2>8, <2>10
  <2> QED
    BY <1>4, <2>11, <2>12, <2>13 DEF DecodingInv
<1> QED
  BY <1>5, <1>6

\* Before the first byte.
LEMMA DecodingInvInit == DecodingInit => DecodingInv
<1> SUFFICES ASSUME DecodingInit PROVE DecodingInv
  OBVIOUS
<1>1. bytes = << >> /\ value = 0 /\ integer = "reading"
  BY DEF DecodingInit
<1>2. bytes \in Seq(Nat) /\ Len(bytes) = 0 /\ 0 < MaxBytes
  BY <1>1, BytesFit
<1>3. value = NumberOf(bytes)
  BY <1>1, NumberOfNothing
<1>4. value < Pow2[GroupBits * Len(bytes)]
  <2>1. GroupBits * 0 = 0
    BY WidthOK
  <2> QED
    BY <1>1, <1>2, <2>1, PowersAre
<1> QED
  BY <1>1, <1>2, <1>3, <1>4 DEF DecodingInv

\* An integer that is being read has not wrapped, for every width.
THEOREM DecodingInvariance == DecodingSpec => []DecodingInv
<1>1. DecodingInv /\ UNCHANGED decoding => DecodingInv'
  BY DEF DecodingInv, decoding, MaxBytes
<1>2. DecodingInv /\ [DecodingNext]_decoding => DecodingInv'
  BY <1>1, ReadsByteStep DEF DecodingNext
<1> QED
  BY <1>2, DecodingInvInit, PTL DEF DecodingSpec

\* What read_uvarint reads is the integer that was written, whatever the width; it
\* refuses only what does not fit or does not end.
THEOREM IntegerRead == DecodingSpec => []IntegerIsExact
<1>1. DecodingInv => IntegerIsExact
  BY DEF DecodingInv, IntegerIsExact
<1> QED
  BY <1>1, DecodingInvariance, PTL

-----------------------------------------------------------------------------
(****************************************************************************)
(* The reload and the store: IInv is inductive, and from it the safety      *)
(* properties of RuleSets follow.                                           *)
(****************************************************************************)

USE RulesOK, SourcesOK, LoopOK, FilesOK, EditsOK

\* An entry is its two fields.
LEMMA EntryIsItsFields ==
  ASSUME NEW e \in Entry, NEW f \in Entry, e.source = f.source, e.rules = f.rules
  PROVE  e = f
BY DEF Entry

\* Absent is an entry, and the only one that may lack a definition among the pairs.
LEMMA AbsentIsEntry == Absent \in Entry /\ Absent.source = None /\ Absent.rules = None
BY DEF Absent, Entry

\* The rule-set part of a configuration defines every tag or says None.
LEMMA RulesOfConfig ==
  ASSUME NEW c \in Config
  PROVE  c.rules \in [Tags -> Sources \cup {None}]
BY DEF Config

-----------------------------------------------------------------------------
(* The reload *)

LEMMA InitReload == ReloadInit => ReloadTypeOK /\ ReloadInv
<1> SUFFICES ASSUME ReloadInit PROVE ReloadTypeOK /\ ReloadInv
    OBVIOUS
<1>1. file \in Files /\ file \in Config /\ ~Forwards(file, file.listener)
    BY DEF ReloadInit
<1>2. file.listener \in Listeners
    BY <1>1 DEF Config
<1>3. edits \in 0 .. MaxEdits
    BY DEF ReloadInit
<1>4. ReloadTypeOK
    BY <1>1, <1>2, <1>3 DEF ReloadInit, ReloadTypeOK
<1>5. ReloadInv
    BY <1>1 DEF ReloadInit, ReloadInv, NeverForwardsToItself
<1> QED BY <1>4, <1>5

\* What the watcher is about to store keeps the listener and does not forward to it.
LEMMA AdoptedIsSafe ==
  ASSUME ReloadTypeOK, ReloadInv, NEW c \in Files, Accepts(c)
  PROVE  /\ Adopted(c) \in Config
         /\ Adopted(c).listener = bound
         /\ ~Forwards(Adopted(c), bound)
<1>1. c \in Config /\ runtime \in Config
    BY DEF ReloadTypeOK
<1>2. Adopted(c) \in Config
    BY <1>1 DEF Adopted, Config
<1>3. runtime.listener = bound
    BY DEF ReloadInv, NeverForwardsToItself
<1>4. Adopted(c).listener = bound /\ Adopted(c).forwards = c.forwards
    BY <1>3 DEF Adopted
<1> QED BY <1>2, <1>3, <1>4 DEF Accepts, Forwards

\* A step of the watcher, of the editor or of a neighbour of the file.
LEMMA ReloadStep == ReloadTypeOK /\ ReloadInv /\ ReloadNext => ReloadTypeOK' /\ ReloadInv'
<1> SUFFICES ASSUME ReloadTypeOK, ReloadInv, ReloadNext PROVE ReloadTypeOK' /\ ReloadInv'
    OBVIOUS
<1>1. CASE FileEdited
  <2>1. edits' \in 0 .. MaxEdits
      BY <1>1 DEF ReloadTypeOK, FileEdited
  <2>2. seen' \in BOOLEAN /\ pending' \in BOOLEAN
      BY <1>1 DEF ReloadTypeOK, FileEdited
  <2>3. file' \in Files \cup {Broken} /\ UNCHANGED <<task, runtime, bound, notify>>
      BY <1>1 DEF FileEdited
  <2>4. ReloadTypeOK' BY <2>1, <2>2, <2>3 DEF ReloadTypeOK, task, notify
  <2>5. ReloadInv' BY <2>3 DEF ReloadInv, NeverForwardsToItself, Forwards, task
  <2> QED BY <2>4, <2>5
<1>2. CASE NeighbourTouched
  <2>1. ReloadTypeOK' BY <1>2 DEF ReloadTypeOK, NeighbourTouched, fileVars, task, notify
  <2>2. ReloadInv'
      BY <1>2 DEF ReloadInv, NeverForwardsToItself, Forwards, NeighbourTouched, task
  <2> QED BY <2>1, <2>2
<1>3. CASE DirectoryWatched \/ EventReceived \/ EventsDrained
  <2>1. ReloadTypeOK'
      BY <1>3 DEF ReloadTypeOK, DirectoryWatched, EventReceived, EventsDrained, fileVars, notify
  <2>2. ReloadInv'
      BY <1>3 DEF ReloadInv, NeverForwardsToItself, Forwards,
                  DirectoryWatched, EventReceived, EventsDrained
  <2> QED BY <2>1, <2>2
<1>4. CASE FileRejected
  <2>1. ReloadTypeOK' BY <1>4 DEF ReloadTypeOK, FileRejected, fileVars, notify
  <2>2. ReloadInv' BY <1>4 DEF ReloadInv, NeverForwardsToItself, Forwards, FileRejected
  <2> QED BY <2>1, <2>2
<1>5. CASE FileLoaded
  <2>1. file \in Files
      BY <1>5 DEF FileLoaded, Accepts, ReloadTypeOK
  <2>2. /\ loaded' \in Config /\ loaded'.listener = bound /\ ~Forwards(loaded', bound)
      BY <1>5, <2>1, AdoptedIsSafe DEF FileLoaded
  <2>3. ReloadTypeOK' BY <1>5, <2>2 DEF ReloadTypeOK, FileLoaded, fileVars, notify
  <2>4. ReloadInv'
      BY <1>5, <2>2 DEF ReloadInv, NeverForwardsToItself, FileLoaded, Forwards
  <2> QED BY <2>3, <2>4
<1>6. CASE RuntimeReplaced
  <2>1. loaded \in Config /\ loaded.listener = bound /\ ~Forwards(loaded, bound)
      BY <1>6 DEF RuntimeReplaced, ReloadInv
  <2>2. ReloadTypeOK' BY <1>6, <2>1 DEF ReloadTypeOK, RuntimeReplaced, fileVars, notify
  <2>3. ReloadInv'
      BY <1>6, <2>1 DEF ReloadInv, NeverForwardsToItself, RuntimeReplaced, Forwards
  <2> QED BY <2>2, <2>3
<1>7. CASE LoopsNotified
  <2>1. ReloadTypeOK' BY <1>7 DEF ReloadTypeOK, LoopsNotified, fileVars
  <2>2. ReloadInv' BY <1>7 DEF ReloadInv, NeverForwardsToItself, Forwards, LoopsNotified
  <2> QED BY <2>1, <2>2
<1> QED BY <1>1, <1>2, <1>3, <1>4, <1>5, <1>6, <1>7 DEF ReloadNext, WatcherStep

\* Steps that leave the reload's own variables alone, but for the notifier.
LEMMA ReloadUnchanged ==
  ASSUME ReloadTypeOK, ReloadInv,
         UNCHANGED <<fileVars, pending, task, runtime, bound>>,
         waiting' \subseteq Loops, woken' \subseteq Loops
  PROVE  ReloadTypeOK' /\ ReloadInv'
BY DEF ReloadTypeOK, ReloadInv, NeverForwardsToItself, Forwards, fileVars, task
-----------------------------------------------------------------------------
(* The worker and the request *)

LEMMA InitIInv == Init => IInv
<1> SUFFICES ASSUME Init PROVE IInv
    OBVIOUS
<1> USE DEF Init, Nothing, NoEntry
<1>1. ReloadTypeOK /\ ReloadInv BY InitReload
<1>2. TypeOK BY <1>1, AbsentIsEntry DEF TypeOK
<1>3. PairsInv BY AbsentIsEntry DEF PairsInv, Belongs
<1>4. StoreInv BY AbsentIsEntry DEF StoreInv, Active
<1> QED BY <1>1, <1>2, <1>3, <1>4 DEF IInv

\* A step of the reload does not touch the rule sets.
LEMMA IInvReload ==
  ASSUME IInv, ReloadNext, UNCHANGED <<workerVars, store, requestVars>>
  PROVE  IInv'
<1>1. ReloadTypeOK' /\ ReloadInv' BY ReloadStep DEF IInv, TypeOK
<1>2. TypeOK' BY <1>1 DEF IInv, TypeOK, workerVars, requestVars
<1>3. PairsInv' BY DEF IInv, PairsInv, Belongs, workerVars, requestVars
<1>4. StoreInv' BY DEF IInv, StoreInv, Active, workerVars
<1> QED BY <1>1, <1>2, <1>3, <1>4 DEF IInv

LEMMA IInvRefreshStarts == IInv /\ RefreshStarts => IInv'
<1> SUFFICES ASSUME IInv, RefreshStarts PROVE IInv'
    OBVIOUS
<1> USE DEF IInv, RefreshStarts
<1>1. ReloadTypeOK' /\ ReloadInv'
    BY ReloadUnchanged DEF TypeOK, reloadVars, notify, ReloadTypeOK
<1>2. runtime.rules \in [Tags -> Sources \cup {None}]
    BY RulesOfConfig DEF TypeOK, ReloadTypeOK
<1>3. entries' \in [Tags -> Entry]
    BY AbsentIsEntry DEF TypeOK, Retained
<1>4. TypeOK'
    BY <1>1, <1>2, <1>3 DEF TypeOK, Outdated, requestVars
<1>5. PairsInv'
    BY AbsentIsEntry DEF PairsInv, Belongs, Retained, requestVars, TypeOK
<1>6. StoreInv'
  <2> SUFFICES ASSUME NEW t \in Tags, store[t] # Absent, runtime.rules[t] = store[t].source
               PROVE  entries'[t] = store[t]
      BY DEF StoreInv
  <2>1. store = Active
      BY DEF StoreInv
  <2>2. store[t] = entries[t]
      BY <2>1 DEF Active
  <2>3. store[t].rules # None /\ store[t].rules \in {None, store[t].source}
      BY DEF PairsInv, Belongs
  <2>4. runtime.rules[t] # None
      BY <2>3
  <2> QED BY <2>2, <2>4 DEF Retained
<1> QED BY <1>1, <1>4, <1>5, <1>6

LEMMA IInvSourceLoaded == ASSUME NEW t \in Tags, IInv, SourceLoaded(t) PROVE IInv'
<1> USE DEF IInv
<1>1. ReloadTypeOK' /\ ReloadInv'
    BY ReloadUnchanged DEF SourceLoaded, TypeOK, reloadVars, notify, ReloadTypeOK
<1>2. PICK kept \in {view[t], RetainedRules(t)} :
        entries' = [entries EXCEPT ![t] = [source |-> view[t], rules |-> kept]]
    BY DEF SourceLoaded
<1> DEFINE new == [source |-> view[t], rules |-> kept]
<1>3. entries \in [Tags -> Entry] /\ view[t] \in Sources \cup {None}
    BY DEF TypeOK
<1>4. kept \in {None, view[t]}
    BY <1>2 DEF RetainedRules, PairsInv, Belongs
<1>5. new \in Entry /\ new.source = view[t] /\ new.rules = kept
    BY <1>3, <1>4 DEF Entry
<1>6. entries'[t] = new /\ \A u \in Tags \ {t} : entries'[u] = entries[u]
    BY <1>2, <1>3
<1>7. entries' \in [Tags -> Entry]
    BY <1>2, <1>3, <1>5
<1>8. TypeOK'
    BY <1>1, <1>7 DEF TypeOK, SourceLoaded, requestVars
<1>9. PairsInv'
  <2>1. ASSUME NEW u \in Tags PROVE Belongs(entries[u])'
    <3>1. CASE u = t BY <3>1, <1>4, <1>5, <1>6 DEF Belongs
    <3>2. CASE u # t BY <3>2, <1>6 DEF Belongs, PairsInv
    <3> QED BY <3>1, <3>2
  <2> QED BY <2>1 DEF PairsInv, Belongs, SourceLoaded, requestVars
<1>10. StoreInv'
  <2> SUFFICES ASSUME NEW u \in Tags, store[u] # Absent, view[u] = store[u].source
               PROVE  entries'[u] = store[u]
      BY DEF StoreInv, SourceLoaded
  <2>1. entries[u] = store[u]
      BY DEF StoreInv, SourceLoaded
  <2>2. store[u].rules = store[u].source
      BY DEF PairsInv, Belongs
  <2>3. CASE u = t
    <3>1. kept = view[t]
        BY <1>2, <2>1, <2>2, <2>3 DEF RetainedRules
    <3>2. store[t] \in Entry
        BY DEF TypeOK
    <3> QED BY <1>5, <1>6, <2>2, <2>3, <3>1, <3>2, EntryIsItsFields
  <2>4. CASE u # t
      BY <2>1, <2>4, <1>6
  <2> QED BY <2>3, <2>4
<1> QED BY <1>1, <1>8, <1>9, <1>10

LEMMA IInvStorePublished == IInv /\ StorePublished => IInv'
<1> SUFFICES ASSUME IInv, StorePublished PROVE IInv'
    OBVIOUS
<1> USE DEF IInv, StorePublished
<1>1. ReloadTypeOK' /\ ReloadInv'
    BY ReloadUnchanged DEF TypeOK, reloadVars, notify, ReloadTypeOK
<1>2. TypeOK'
    BY <1>1, AbsentIsEntry DEF TypeOK, Active, requestVars
<1>3. PairsInv'
    BY AbsentIsEntry DEF PairsInv, Belongs, Active, requestVars, TypeOK
<1>4. StoreInv'
    BY DEF StoreInv, Active
<1> QED BY <1>1, <1>2, <1>3, <1>4

LEMMA IInvWorkerWaits == IInv /\ (WorkerWaits \/ WorkerWakes) => IInv'
<1> SUFFICES ASSUME IInv, WorkerWaits \/ WorkerWakes PROVE IInv'
    OBVIOUS
<1> USE DEF IInv
<1>1. UNCHANGED <<fileVars, pending, task, runtime, bound, view, todo, entries, due,
                  store, requestVars>>
    BY DEF WorkerWaits, WorkerWakes
<1>2. waiting' \subseteq Loops /\ woken' \subseteq Loops
    BY DEF WorkerWaits, WorkerWakes, Registers, Leaves, TypeOK, ReloadTypeOK
<1>3. worker # "loading" /\ worker' \in {"waiting", "starting"}
    BY DEF WorkerWaits, WorkerWakes
<1>4. ReloadTypeOK' /\ ReloadInv'
    BY <1>1, <1>2, ReloadUnchanged DEF TypeOK
<1>5. TypeOK' BY <1>1, <1>3, <1>4 DEF TypeOK, requestVars
<1>6. PairsInv' BY <1>1 DEF PairsInv, Belongs, requestVars
<1>7. StoreInv' BY <1>1, <1>3 DEF StoreInv, Active
<1> QED BY <1>4, <1>5, <1>6, <1>7

LEMMA IInvEntryIsDue == ASSUME NEW t \in Tags, IInv, EntryIsDue(t) PROVE IInv'
<1> USE DEF IInv, EntryIsDue
<1>1. ReloadTypeOK' /\ ReloadInv'
    BY ReloadUnchanged DEF TypeOK, reloadVars, notify, ReloadTypeOK
<1>2. TypeOK' BY <1>1 DEF TypeOK, requestVars
<1>3. PairsInv' BY DEF PairsInv, Belongs, requestVars
<1>4. StoreInv' BY DEF StoreInv, Active
<1> QED BY <1>1, <1>2, <1>3, <1>4

LEMMA IInvRequest == IInv /\ RequestStep => IInv'
<1> SUFFICES ASSUME IInv, RequestStep PROVE IInv'
    OBVIOUS
<1> USE DEF IInv
<1>1. UNCHANGED <<reloadVars, workerVars, store>>
    BY DEF RequestStep, RequestStarts, SetsTaken, RequestEnds
<1>2. ReloadTypeOK' /\ ReloadInv'
    BY <1>1, ReloadUnchanged DEF TypeOK, reloadVars, notify, ReloadTypeOK
<1>3. sets' \in {sets, store, NoEntry}
    BY DEF RequestStep, RequestStarts, SetsTaken, RequestEnds
<1>4. /\ defined' \in [Tags -> Sources \cup {None}]
      /\ stage' \in {"none", "configured", "matching"}
    BY RulesOfConfig
    DEF RequestStep, RequestStarts, SetsTaken, RequestEnds, Nothing, TypeOK, ReloadTypeOK
<1>5. sets' \in [Tags -> Entry]
    BY <1>3, AbsentIsEntry DEF NoEntry, TypeOK
<1>6. TypeOK' BY <1>1, <1>2, <1>4, <1>5 DEF TypeOK, workerVars
<1>7. PairsInv'
  <2>1. \A t \in Tags : Belongs(sets'[t]) /\ (sets'[t] = Absent \/ sets'[t].rules # None)
    <3>1. CASE sets' = sets BY <3>1 DEF PairsInv
    <3>2. CASE sets' = store BY <3>2 DEF PairsInv
    <3>3. CASE sets' = NoEntry BY <3>3, AbsentIsEntry DEF NoEntry, Belongs
    <3> QED BY <1>3, <3>1, <3>2, <3>3
  <2> QED BY <1>1, <2>1 DEF PairsInv, Belongs, workerVars
<1>8. StoreInv' BY <1>1 DEF StoreInv, Active, workerVars
<1> QED BY <1>2, <1>6, <1>7, <1>8

LEMMA IInvStep == IInv /\ [Next]_vars => IInv'
<1> SUFFICES ASSUME IInv, [Next]_vars PROVE IInv'
    OBVIOUS
<1>1. CASE ReloadNext /\ UNCHANGED <<workerVars, store, requestVars>>
    BY <1>1, IInvReload
<1>2. CASE WorkerStep
    BY <1>2, IInvRefreshStarts, IInvSourceLoaded, IInvStorePublished, IInvWorkerWaits
    DEF WorkerStep
<1>3. CASE \E t \in Tags : EntryIsDue(t)
    BY <1>3, IInvEntryIsDue
<1>4. CASE RequestStep
    BY <1>4, IInvRequest
<1>5. CASE UNCHANGED vars
  <2>1. UNCHANGED <<workerVars, store, requestVars>> /\ UNCHANGED reloadVars
      BY <1>5 DEF vars
  <2>2. ReloadTypeOK' /\ ReloadInv'
      BY <2>1, ReloadUnchanged DEF IInv, TypeOK, reloadVars, notify, ReloadTypeOK
  <2>3. TypeOK' BY <2>1, <2>2 DEF IInv, TypeOK, workerVars, requestVars
  <2>4. PairsInv' BY <2>1 DEF IInv, PairsInv, Belongs, workerVars, requestVars
  <2>5. StoreInv' BY <2>1 DEF IInv, StoreInv, Active, workerVars
  <2> QED BY <2>2, <2>3, <2>4, <2>5 DEF IInv
<1> QED BY <1>1, <1>2, <1>3, <1>4, <1>5 DEF Next

\* The inductive invariant, and with it the types of every variable.
THEOREM ReloadInvariance == Spec => []IInv
<1> QED BY InitIInv, IInvStep, PTL DEF Spec
-----------------------------------------------------------------------------
(* The properties *)

\* The running configuration keeps the bound listener and never forwards to it.
THEOREM ListenerIsSafe == Spec => []NeverForwardsToItself
<1>1. IInv => NeverForwardsToItself
    BY DEF IInv, ReloadInv
<1> QED BY <1>1, ReloadInvariance, PTL

\* A request never matches rules that belong to another definition than its own.
THEOREM MatchedRulesBelong == Spec => []RulesBelong
<1>1. IInv => RulesBelong
    BY DEF IInv, PairsInv, Belongs, RulesBelong, Usable
<1> QED BY <1>1, ReloadInvariance, PTL

\* No failed load, and nothing else, takes rules out of the store that the worker's
\* configuration still defines.
THEOREM NoEviction == Spec => LastGoodIsKept
<1> DEFINE Kept == \A t \in Tags :
             store[t] # Absent /\ store'[t] # store[t] => view[t] # store[t].source
<1>1. IInv /\ [Next]_vars => [Kept]_vars
  <2> SUFFICES ASSUME IInv, Next, NEW t \in Tags, store[t] # Absent, store'[t] # store[t]
               PROVE  view[t] # store[t].source
      OBVIOUS
  <2>1. StorePublished
      BY DEF Next, ReloadNext, WorkerStep, RequestStep, RefreshStarts, SourceLoaded,
             WorkerWaits, WorkerWakes, EntryIsDue, RequestStarts, SetsTaken, RequestEnds
  <2>2. store'[t] = Active[t] /\ worker = "loading"
      BY <2>1 DEF StorePublished
  <2>3. store[t].rules # None
      BY DEF IInv, PairsInv
  <2>4. SUFFICES ASSUME view[t] = store[t].source PROVE FALSE
      OBVIOUS
  <2>5. entries[t] = store[t]
      BY <2>2, <2>4 DEF IInv, StoreInv
  <2> QED BY <2>2, <2>3, <2>5 DEF Active
<1> QED BY <1>1, ReloadInvariance, PTL DEF Spec, LastGoodIsKept
=============================================================================
