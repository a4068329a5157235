---------------------------- MODULE Plugin_proofs ----------------------------
(***************************************************************************)
(* The addresses the plugin prefers, and what it makes of an answer.       *)
(***************************************************************************)
EXTENDS OptimizerRound, AnswerRewriting, Subsequences_proofs

-----------------------------------------------------------------------------
(***************************************************************************)
(* A round of the optimizer, for every configuration of it and every network.*)
(*                                                                         *)
(* What the round publishes is the best of what passed because RoundInv    *)
(* keeps the three places an address may be in apart, and because timings  *)
(* are compared in a total order whatever the order the probes end in.     *)
(***************************************************************************)

\* A latency is put among the others.
LEMMA InsertedIs ==
  ASSUME NEW V \in SUBSET Nat, NEW s \in Seq(V), NEW x \in V, Sorted(s)
  PROVE  /\ Inserted(s, x) \in Seq(V) /\ Len(Inserted(s, x)) = Len(s) + 1
         /\ Sorted(Inserted(s, x))
<1> DEFINE n == Len(s)
           r == Inserted(s, x)
<1>1. n \in Nat /\ \A i \in 1 .. n : s[i] \in V /\ s[i] \in Nat
  <2>1. n \in Nat /\ \A i \in 1 .. n : s[i] \in V
    OBVIOUS
  <2> HIDE DEF n
  <2> QED
    BY <2>1
<1>2. x \in Nat
  OBVIOUS
<1>3. r = [i \in 1 .. n + 1 |-> IF i <= n /\ s[i] <= x THEN s[i]
                                ELSE IF i = 1 \/ s[i - 1] <= x THEN x ELSE s[i - 1]]
  BY DEF Inserted
<1>4. \A i \in 1 .. n + 1 : r[i] \in V
  BY <1>1, <1>3
<1>5. r \in Seq(V) /\ Len(r) = n + 1 /\ DOMAIN r = 1 .. n + 1
  BY <1>1, <1>3, <1>4
<1>6. \A i, j \in 1 .. n : i <= j => s[i] <= s[j]
  BY DEF Sorted
<1>7. ASSUME NEW i \in 1 .. n + 1, NEW j \in 1 .. n + 1, i <= j
      PROVE  r[i] <= r[j]
  <2>1. r[i] = IF i <= n /\ s[i] <= x THEN s[i]
               ELSE IF i = 1 \/ s[i - 1] <= x THEN x ELSE s[i - 1]
    BY <1>3
  <2>2. r[j] = IF j <= n /\ s[j] <= x THEN s[j]
               ELSE IF j = 1 \/ s[j - 1] <= x THEN x ELSE s[j - 1]
    BY <1>3
  <2> HIDE DEF r, n
  <2>3. CASE i <= n /\ s[i] <= x
    BY <1>1, <1>2, <1>6, <1>7, <2>1, <2>2, <2>3
  <2>4. CASE ~(i <= n /\ s[i] <= x) /\ (i = 1 \/ s[i - 1] <= x)
    <3>1. \A k \in 1 .. n : i <= k => x < s[k]
      BY <1>1, <1>2, <1>6, <2>4
    <3> QED
      BY <1>1, <1>2, <1>6, <1>7, <2>1, <2>2, <2>4, <3>1
  <2>5. CASE ~(i <= n /\ s[i] <= x) /\ ~(i = 1 \/ s[i - 1] <= x)
    <3>1. i - 1 \in 1 .. n
      BY <1>1, <2>5
    <3>2. \A k \in 1 .. n : i - 1 <= k => x < s[k] /\ s[i - 1] <= s[k]
      BY <1>1, <1>2, <1>6, <2>5, <3>1
    <3> QED
      BY <1>1, <1>2, <1>7, <2>1, <2>2, <2>5, <3>1, <3>2
  <2> QED
    BY <2>3, <2>4, <2>5
<1> HIDE DEF r
<1> QED
  BY <1>5, <1>7 DEF r, Sorted

\* What is drawn is no more than may be.
LEMMA LeastOf ==
  ASSUME NEW x \in Int, NEW y \in Int, NEW z \in Int, NEW S, S = {x, y, z}
  PROVE  Min(S) \in S /\ \A w \in S : Min(S) <= w
<1>1. \E v \in S : \A w \in S : v <= w
  <2>1. CASE x <= y /\ x <= z
    BY <2>1
  <2>2. CASE y <= x /\ y <= z
    BY <2>2
  <2>3. CASE z <= x /\ z <= y
    BY <2>3
  <2> QED
    BY <2>1, <2>2, <2>3
<1> QED
  BY <1>1 DEF Min

Triples == Int \X Int \X Int

\* Timings are ordered, first to last of their three numbers.
LEMMA PrecedesIs ==
  ASSUME NEW x \in Triples, NEW y \in Triples
  PROVE  Precedes(x, y) <=>
           \/ x[1] < y[1]
           \/ x[1] = y[1] /\ x[2] < y[2]
           \/ x[1] = y[1] /\ x[2] = y[2] /\ x[3] < y[3]
<1>1. Precedes(x, y) <=> \E i \in {1, 2, 3} : x[i] < y[i] /\ \A j \in 1 .. i - 1 : x[j] = y[j]
  <2>1. 1 .. 3 = {1, 2, 3}
    OBVIOUS
  <2> QED
    BY <2>1 DEF Precedes
<1>2. 1 .. 1 - 1 = {} /\ 1 .. 2 - 1 = {1} /\ 1 .. 3 - 1 = {1, 2}
  OBVIOUS
<1> QED
  BY <1>1, <1>2

LEMMA PrecedesIsAnOrder ==
  ASSUME NEW x \in Triples, NEW y \in Triples, NEW z \in Triples
  PROVE  /\ ~Precedes(x, x)
         /\ Precedes(x, y) /\ Precedes(y, z) => Precedes(x, z)
<1>1. x[1] \in Int /\ x[2] \in Int /\ x[3] \in Int
  BY DEF Triples
<1>2. y[1] \in Int /\ y[2] \in Int /\ y[3] \in Int
  BY DEF Triples
<1>3. z[1] \in Int /\ z[2] \in Int /\ z[3] \in Int
  BY DEF Triples
<1> QED
  BY <1>1, <1>2, <1>3, PrecedesIs

\* The middle of the samples.
LEMMA MiddleIs ==
  ASSUME NEW n \in Nat \ {0}
  PROVE  (n - 1) \div 2 + 1 \in 1 .. n /\ n \div 2 + 1 \in 1 .. n
OBVIOUS

LEMMA HalfIsMonotone ==
  ASSUME NEW x \in Nat, NEW y \in Nat, x <= y
  PROVE  x \div 2 \in Nat /\ y \div 2 \in Nat /\ x \div 2 <= y \div 2
OBVIOUS

LEMMA SumIsMonotone ==
  ASSUME NEW x \in Nat, NEW y \in Nat, NEW z \in Nat, NEW w \in Nat, x <= z, y <= w
  PROVE  x + y \in Nat /\ z + w \in Nat /\ x + y <= z + w
OBVIOUS

Median(s) == (s[(Len(s) - 1) \div 2 + 1] + s[Len(s) \div 2 + 1]) \div 2

LEMMA TimingIs ==
  ASSUME NEW s \in Seq(Nat), s # << >>
  PROVE  /\ Median(s) \in Nat /\ s[Len(s)] \in Nat
         /\ Timing(s) = <<Median(s) + (s[Len(s)] - Median(s)) \div 2, Median(s), s[Len(s)]>>
         /\ Timing(s) \in Triples
<1>1. Len(s) \in Nat \ {0} /\ \A i \in 1 .. Len(s) : s[i] \in Nat
  OBVIOUS
<1>2. /\ s[(Len(s) - 1) \div 2 + 1] \in Nat /\ s[Len(s) \div 2 + 1] \in Nat
      /\ s[Len(s)] \in Nat
  <2>1. (Len(s) - 1) \div 2 + 1 \in 1 .. Len(s) /\ Len(s) \div 2 + 1 \in 1 .. Len(s)
    BY <1>1, MiddleIs
  <2>2. Len(s) \in 1 .. Len(s)
    BY <1>1
  <2> QED
    BY <1>1, <2>1, <2>2
<1>3. Median(s) \in Nat
  <2> DEFINE p == s[(Len(s) - 1) \div 2 + 1]
             q == s[Len(s) \div 2 + 1]
  <2> HIDE DEF p, q
  <2>1. p + q \in Nat
    BY <1>2 DEF p, q
  <2>2. (p + q) \div 2 \in Nat
    BY <2>1, HalfIsMonotone
  <2> QED
    BY <2>2 DEF Median, p, q
<1>4. (s[Len(s)] - Median(s)) \div 2 \in Int
  BY <1>2, <1>3
<1>5. Timing(s) = <<Median(s) + (s[Len(s)] - Median(s)) \div 2, Median(s), s[Len(s)]>>
  BY DEF Timing, Median
<1>6. Median(s) + (s[Len(s)] - Median(s)) \div 2 \in Int
  BY <1>3, <1>4
<1> QED
  BY <1>2, <1>3, <1>5, <1>6 DEF Triples

LEMMA ScoreIsMonotone ==
  ASSUME NEW m \in Nat, NEW w \in Nat, NEW n \in Nat, NEW v \in Nat, m <= n, w <= v
  PROVE  m + (w - m) \div 2 <= n + (v - n) \div 2
OBVIOUS

\* Whoever was at least as fast in every probe, and faster in the worst, precedes.
LEMMA FasterPrecedes ==
  ASSUME NEW s \in Seq(Nat), NEW t \in Seq(Nat), s # << >>, Len(s) = Len(t),
         \A i \in 1 .. Len(s) : s[i] <= t[i], s[Len(s)] < t[Len(s)]
  PROVE  Precedes(Timing(s), Timing(t))
<1>1. Len(s) \in Nat \ {0} /\ \A i \in 1 .. Len(s) : s[i] \in Nat /\ t[i] \in Nat
  OBVIOUS
<1>2. t # << >>
  BY <1>1
<1>3. Median(s) \in Nat /\ Median(t) \in Nat /\ Median(s) <= Median(t)
  <2> DEFINE i == (Len(s) - 1) \div 2 + 1
             j == Len(s) \div 2 + 1
  <2> HIDE DEF i, j
  <2>1. i \in 1 .. Len(s) /\ j \in 1 .. Len(s)
    BY <1>1, MiddleIs DEF i, j
  <2>2. s[i] + s[j] \in Nat /\ t[i] + t[j] \in Nat /\ s[i] + s[j] <= t[i] + t[j]
    <3>1. s[i] \in Nat /\ s[j] \in Nat /\ t[i] \in Nat /\ t[j] \in Nat /\ s[i] <= t[i] /\ s[j] <= t[j]
      BY <1>1, <2>1
    <3> QED
      BY <3>1, SumIsMonotone
  <2>3. (s[i] + s[j]) \div 2 <= (t[i] + t[j]) \div 2
    BY <2>2, HalfIsMonotone
  <2>4. Median(s) = (s[i] + s[j]) \div 2 /\ Median(t) = (t[i] + t[j]) \div 2
    BY DEF Median, i, j
  <2> QED
    BY <1>2, <2>3, <2>4, TimingIs
<1> DEFINE x == Timing(s)
           y == Timing(t)
<1>4. s[Len(s)] \in Nat /\ t[Len(t)] \in Nat /\ s[Len(s)] < t[Len(t)]
  BY <1>2, TimingIs
<1>5. /\ x = <<Median(s) + (s[Len(s)] - Median(s)) \div 2, Median(s), s[Len(s)]>>
      /\ y = <<Median(t) + (t[Len(t)] - Median(t)) \div 2, Median(t), t[Len(t)]>>
      /\ x \in Triples /\ y \in Triples
  BY <1>2, TimingIs
<1>6. Median(s) + (s[Len(s)] - Median(s)) \div 2 <= Median(t) + (t[Len(t)] - Median(t)) \div 2
  <2> DEFINE m == Median(s)  w == s[Len(s)]  n == Median(t)  v == t[Len(t)]
  <2> HIDE DEF m, w, n, v
  <2>1. m \in Nat /\ w \in Nat /\ n \in Nat /\ v \in Nat /\ m <= n /\ w <= v
    BY <1>3, <1>4 DEF m, w, n, v
  <2>2. m + (w - m) \div 2 <= n + (v - n) \div 2
    BY <2>1, ScoreIsMonotone
  <2> QED
    BY <2>2 DEF m, w, n, v
<1> HIDE DEF x, y
<1>7. /\ x[1] <= y[1] /\ x[2] <= y[2] /\ x[3] < y[3]
      /\ x[1] \in Int /\ y[1] \in Int /\ x[2] \in Int /\ y[2] \in Int
  <2> DEFINE a == Median(s) + (s[Len(s)] - Median(s)) \div 2
             b == Median(t) + (t[Len(t)] - Median(t)) \div 2
  <2> HIDE DEF a, b
  <2>1. a <= b /\ x = <<a, Median(s), s[Len(s)]>> /\ y = <<b, Median(t), t[Len(t)]>>
    BY <1>5, <1>6 DEF a, b
  <2> QED
    BY <1>3, <1>4, <1>5, <2>1 DEF Triples
<1>8. \/ x[1] < y[1]
      \/ x[1] = y[1] /\ x[2] < y[2]
      \/ x[1] = y[1] /\ x[2] = y[2] /\ x[3] < y[3]
  BY <1>7
<1> QED
  BY <1>5, <1>8, PrecedesIs DEF x, y

\* The settings are positive, and the round's own.
LEMMA SettingsAre ==
  ASSUME cfg \in RoundSettings
  PROVE  /\ cfg.candidates \in Seq(SUBSET Addresses)
         /\ cfg.samples_per_cidr \in Nat \ {0} /\ cfg.max_candidates \in Nat \ {0}
         /\ cfg.concurrency \in Nat \ {0} /\ cfg.probes \in Nat \ {0}
  BY RoundSettingsOK DEF Settings

\* A sequence without repetitions extended by another that shares nothing with it.
Apart(s, t) == Range(s) \cap Range(t) = {}
IsJoin(r, s, t) == r = s \o t

LEMMA ConcatenationIs ==
  ASSUME NEW V, NEW s \in Seq(V), NEW t \in Seq(V),
         IsInjective(s), IsInjective(t), Apart(s, t), NEW r, IsJoin(r, s, t)
  PROVE  /\ r \in Seq(V) /\ Len(r) = Len(s) + Len(t)
         /\ IsInjective(r) /\ Range(r) = Range(s) \cup Range(t)
<1>1. /\ r \in Seq(V) /\ Len(r) = Len(s) + Len(t)
      /\ DOMAIN s = 1 .. Len(s) /\ DOMAIN t = 1 .. Len(t) /\ DOMAIN r = 1 .. Len(s) + Len(t)
      /\ Len(s) \in Nat /\ Len(t) \in Nat
      /\ \A i \in 1 .. Len(s) : r[i] = s[i]
      /\ \A i \in Len(s) + 1 .. Len(s) + Len(t) : r[i] = t[i - Len(s)]
  BY DEF IsJoin
<1>2. \A i \in DOMAIN r :
        \/ i \in DOMAIN s /\ r[i] = s[i]
        \/ i \notin DOMAIN s /\ i - Len(s) \in DOMAIN t /\ r[i] = t[i - Len(s)]
  BY <1>1
<1>3. ASSUME NEW k \in DOMAIN t
      PROVE  k + Len(s) \in DOMAIN r /\ r[k + Len(s)] = t[k]
  <2>1. /\ k + Len(s) \in Len(s) + 1 .. Len(s) + Len(t) /\ k + Len(s) - Len(s) = k
        /\ k + Len(s) \in 1 .. Len(s) + Len(t)
    BY <1>1
  <2> QED
    BY <1>1, <2>1
<1>4. \A k \in DOMAIN s : k \in DOMAIN r /\ r[k] = s[k]
  BY <1>1
<1>5. Range(r) = Range(s) \cup Range(t)
  <2>1. Range(r) \subseteq Range(s) \cup Range(t)
    BY <1>2 DEF Range
  <2>2. Range(s) \subseteq Range(r)
    BY <1>4 DEF Range
  <2>3. Range(t) \subseteq Range(r)
    BY <1>3 DEF Range
  <2> QED
    BY <2>1, <2>2, <2>3
<1>6. \A i \in DOMAIN s, k \in DOMAIN t : s[i] # t[k]
  BY DEF Range, Apart
<1>7. ASSUME NEW i \in DOMAIN r, NEW j \in DOMAIN r, r[i] = r[j]
      PROVE  i = j
  <2>1. i \in Int /\ j \in Int /\ Len(s) \in Int
    BY <1>1
  <2>2. i \in DOMAIN s <=> j \in DOMAIN s
    BY <1>2, <1>6, <1>7
  <2>3. CASE i \in DOMAIN s
    BY <1>2, <1>7, <2>2, <2>3 DEF IsInjective
  <2>4. CASE i \notin DOMAIN s
    <3>1. i - Len(s) = j - Len(s)
      BY <1>2, <1>7, <2>2, <2>4 DEF IsInjective
    <3> QED
      BY <2>1, <3>1
  <2> QED
    BY <2>3, <2>4
<1> QED
  BY <1>1, <1>5, <1>7 DEF IsInjective

LEMMA HeadAndTail ==
  ASSUME NEW V, NEW s \in Seq(V), s # << >>
  PROVE  /\ Head(s) \in V /\ Tail(s) \in Seq(V)
         /\ Range(s) = {Head(s)} \cup Range(Tail(s))
         /\ IsInjective(s) => IsInjective(Tail(s)) /\ Head(s) \notin Range(Tail(s))
<1>1. /\ Len(s) \in Nat \ {0} /\ DOMAIN s = 1 .. Len(s)
      /\ DOMAIN Tail(s) = 1 .. Len(s) - 1 /\ Tail(s) \in Seq(V)
      /\ \A i \in 1 .. Len(s) - 1 : Tail(s)[i] = s[i + 1]
      /\ Head(s) = s[1] /\ Head(s) \in V
  OBVIOUS
<1>2. \A i \in DOMAIN Tail(s) : i + 1 \in DOMAIN s /\ Tail(s)[i] = s[i + 1] /\ i \in Nat \ {0}
  BY <1>1
<1>3. Range(s) = {Head(s)} \cup Range(Tail(s))
  <2>1. 1 \in DOMAIN s
    BY <1>1
  <2>2. {Head(s)} \cup Range(Tail(s)) \subseteq Range(s)
    BY <1>1, <1>2, <2>1 DEF Range
  <2>3. ASSUME NEW i \in DOMAIN s, i # 1
        PROVE  i - 1 \in DOMAIN Tail(s) /\ Tail(s)[i - 1] = s[i]
    BY <1>1, <2>3
  <2>4. \A i \in DOMAIN s : s[i] = Head(s) \/ s[i] \in Range(Tail(s))
    BY <1>1, <2>3 DEF Range
  <2> QED
    BY <2>2, <2>4 DEF Range
<1>4. ASSUME IsInjective(s)
      PROVE  IsInjective(Tail(s)) /\ Head(s) \notin Range(Tail(s))
  <2>1. ASSUME NEW i \in DOMAIN Tail(s), NEW j \in DOMAIN Tail(s), Tail(s)[i] = Tail(s)[j]
        PROVE  i = j
    <3>1. i + 1 = j + 1 /\ i \in Nat /\ j \in Nat
      BY <1>2, <1>4, <2>1 DEF IsInjective
    <3> QED
      BY <3>1
  <2>2. ASSUME NEW i \in DOMAIN Tail(s), Tail(s)[i] = Head(s)
        PROVE  FALSE
    <3>1. i + 1 = 1 /\ i \in Nat \ {0}
      BY <1>1, <1>2, <1>4, <2>2 DEF IsInjective
    <3> QED
      BY <3>1
  <2> QED
    BY <2>1, <2>2 DEF IsInjective, Range
<1> QED
  BY <1>1, <1>3, <1>4

\* The first elements of a sequence and the others.
IsSplit(s, n, first, rest) == first = SubSeq(s, 1, n) /\ rest = SubSeq(s, n + 1, Len(s))

LEMMA SplitIs ==
  ASSUME NEW V, NEW s \in Seq(V), IsInjective(s), NEW n \in 1 .. Len(s),
         NEW first, NEW rest, IsSplit(s, n, first, rest)
  PROVE  /\ rest \in Seq(V) /\ IsInjective(rest)
         /\ Range(first) \cup Range(rest) \subseteq Range(s)
         /\ Apart(first, rest)
         /\ Range(first) # {} /\ IsFiniteSet(Range(first)) /\ Cardinality(Range(first)) <= n
<1>1. /\ Len(s) \in Nat /\ DOMAIN s = 1 .. Len(s) /\ n \in Nat \ {0} /\ n <= Len(s)
      /\ DOMAIN first = 1 .. n /\ first \in Seq(V) /\ \A i \in 1 .. n : first[i] = s[i]
  BY DEF IsSplit
<1>2. /\ rest \in Seq(V) /\ DOMAIN rest = 1 .. Len(s) - n
      /\ \A i \in 1 .. Len(s) - n : rest[i] = s[i + n]
  BY DEF IsSplit
<1>3. first \in Surjection(1 .. n, Range(first))
  <2>1. first \in [1 .. n -> Range(first)]
    BY <1>1 DEF Range
  <2> QED
    BY <1>1, <2>1 DEF Surjection, Range
<1>4. IsFiniteSet(1 .. n) /\ Cardinality(1 .. n) = n
  BY <1>1, FS_Interval
<1>5. IsFiniteSet(Range(first)) /\ Cardinality(Range(first)) <= n
  BY <1>3, <1>4, FS_Surjection
<1>6. \A i \in DOMAIN first : i \in DOMAIN s /\ first[i] = s[i] /\ i <= n /\ i \in Nat
  BY <1>1
<1>7. \A i \in DOMAIN rest : i + n \in DOMAIN s /\ rest[i] = s[i + n] /\ i \in Nat \ {0}
  BY <1>1, <1>2
<1>8. Range(first) \cup Range(rest) \subseteq Range(s)
  BY <1>6, <1>7 DEF Range
<1>9. ASSUME NEW i \in DOMAIN first, NEW j \in DOMAIN rest, first[i] = rest[j]
      PROVE  FALSE
  <2>1. i = j + n /\ i <= n /\ j \in Nat \ {0} /\ i \in Nat
    BY <1>6, <1>7, <1>9 DEF IsInjective
  <2> QED
    BY <1>1, <2>1
<1>10. ASSUME NEW i \in DOMAIN rest, NEW j \in DOMAIN rest, rest[i] = rest[j]
       PROVE  i = j
  <2>1. i + n = j + n /\ i \in Nat /\ j \in Nat
    BY <1>7, <1>10 DEF IsInjective
  <2> QED
    BY <1>1, <2>1
<1>11. Range(first) # {}
  <2>1. 1 \in DOMAIN first
    BY <1>1
  <2> QED
    BY <2>1 DEF Range
<1>12. Apart(first, rest)
  BY <1>9 DEF Range, Apart
<1>13. IsInjective(rest)
  BY <1>10 DEF IsInjective
<1> QED
  BY <1>2, <1>5, <1>8, <1>11, <1>12, <1>13

LEMMA NothingIn ==
  /\ << >> \in Seq(Addresses) /\ << >> \in Seq(Latencies)
  /\ Range(<< >>) = {} /\ IsInjective(<< >>) /\ Sorted(<< >>) /\ Len(<< >>) = 0
<1>1. \A V : << >> \in Seq(V)
  OBVIOUS
<1>2. DOMAIN << >> = {} /\ Len(<< >>) = 0
  OBVIOUS
<1> QED
  BY <1>1, <1>2 DEF Range, IsInjective, Sorted

LEMMA RoundInvInit ==
  ASSUME RoundInit
  PROVE  RoundInv
<1> USE DEF RoundInit
<1>1. cfg \in RoundSettings
  OBVIOUS
<1>2. RoundTypeOK
  <2>1. \A a \in Addresses : samples[a] = << >>
    OBVIOUS
  <2>2. samples \in [Addresses -> Seq(Latencies)]
    BY NothingIn
  <2>3. \A a \in Addresses : Len(samples[a]) <= cfg.probes /\ Sorted(samples[a])
    BY <1>1, <2>1, NothingIn, SettingsAre
  <2> QED
    BY <1>1, <2>2, <2>3, NothingIn, SettingsAre DEF RoundTypeOK
<1>3. DrawnAreAllowed
  BY <1>1, NothingIn, SettingsAre DEF DrawnAreAllowed
<1>4. WorkIsShared
  BY <1>1, NothingIn, SettingsAre, FS_EmptySet DEF WorkIsShared
<1>5. FastestAreKept
  BY DEF FastestAreKept, PassedOf
<1> QED
  BY <1>2, <1>3, <1>4, <1>5 DEF RoundInv

\* What is drawn is new, may be drawn and finds room.
LEMMA DrawsKeepsInv ==
  ASSUME RoundInv, DrawsFromNetwork
  PROVE  RoundInv'
<1> USE DEF RoundInv, DrawsFromNetwork
<1> DEFINE network == Head(networks)
           bounds == {cfg.samples_per_cidr, Room, Cardinality(network)}
           count == Min(bounds)
<1>1. /\ cfg \in RoundSettings /\ networks \in Seq(SUBSET Addresses) /\ networks # << >>
      /\ chosen \in Seq(Addresses) /\ Room > 0
  BY DEF RoundTypeOK
<1>2. /\ network \in SUBSET Addresses /\ networks' \in Seq(SUBSET Addresses)
      /\ network \in Range(networks) /\ Range(networks') \subseteq Range(networks)
  <2>1. networks' = Tail(networks)
    OBVIOUS
  <2> QED
    BY <1>1, <2>1, HeadAndTail
<1>3. PICK values \in [1 .. count -> network] :
        /\ IsInjective(values)
        /\ chosen' = chosen \o Subsequence(values, {i \in DOMAIN values : IsEligible(values[i])})
  BY DEF Draws
<1> DEFINE I == {i \in DOMAIN values : IsEligible(values[i])}
           new == Subsequence(values, I)
<1>4. count \in Nat /\ count <= Room
  <2>1. Cardinality(network) \in Nat
    BY <1>2, AddressesOK, FS_Subset, FS_CardinalityType
  <2>2. cfg.samples_per_cidr \in Nat /\ Room \in Int
    BY <1>1, SettingsAre DEF Room
  <2>3. Min(bounds) \in bounds /\ \A w \in bounds : Min(bounds) <= w
    <3> DEFINE c == Cardinality(network)
               r == Room
               n == cfg.samples_per_cidr
    <3>1. c \in Int /\ r \in Int /\ n \in Int /\ bounds = {n, r, c}
      BY <2>1, <2>2
    <3> HIDE DEF c, r, n, bounds
    <3> QED
      BY <3>1, LeastOf
  <2>4. count = cfg.samples_per_cidr \/ count = Room \/ count = Cardinality(network)
    BY <2>3
  <2>5. count <= Room
    BY <2>3
  <2> HIDE DEF count
  <2> QED
    BY <1>1, <2>1, <2>2, <2>4, <2>5
<1> HIDE DEF count, bounds, network
<1>5. values \in Seq(network) /\ DOMAIN values = 1 .. count /\ Len(values) = count
  BY <1>4
<1>6. I \in SUBSET DOMAIN values
  OBVIOUS
<1>7. /\ new \in Seq(network) /\ Len(new) <= count /\ Len(new) \in Nat
      /\ \A k \in DOMAIN new : \E i \in I : new[k] = values[i]
  <2> HIDE DEF I
  <2> QED
    BY <1>5, <1>6, SubsequenceIs
<1>8. IsInjective(new)
  <2> HIDE DEF I
  <2>1. \A i, j \in DOMAIN values : values[i] = values[j] => i = j
    BY <1>3 DEF IsInjective
  <2> QED
    BY <1>5, <1>6, <2>1, SubsequenceInjective DEF IsInjective
<1>9. /\ Range(new) \subseteq network
      /\ \A a \in Range(new) : a \notin cfg.excluded /\ a \in cfg.ranges /\ a \notin Range(chosen)
  <2> HIDE DEF new
  <2>1. \A a \in Range(new) : \E i \in I : a = values[i]
    BY <1>7 DEF Range
  <2> QED
    BY <1>5, <2>1 DEF IsEligible
<1> HIDE DEF new
<1>10. /\ chosen' \in Seq(Addresses) /\ Len(chosen') = Len(chosen) + Len(new)
       /\ IsInjective(chosen') /\ Range(chosen') = Range(chosen) \cup Range(new)
  <2>1. new \in Seq(Addresses)
    BY <1>2, <1>7
  <2>2. IsInjective(chosen) /\ Apart(chosen, new)
    BY <1>9 DEF DrawnAreAllowed, Apart
  <2> DEFINE joined == chosen \o new
  <2>3. IsJoin(joined, chosen, new) /\ chosen' = joined
    BY <1>3 DEF new, IsJoin
  <2> HIDE DEF joined
  <2>4. /\ joined \in Seq(Addresses) /\ Len(joined) = Len(chosen) + Len(new)
        /\ IsInjective(joined) /\ Range(joined) = Range(chosen) \cup Range(new)
    BY <1>1, <1>8, <2>1, <2>2, <2>3, ConcatenationIs
  <2> QED
    BY <2>3, <2>4
<1>11. RoundTypeOK'
  BY <1>2, <1>10 DEF RoundTypeOK
<1>12. DrawnAreAllowed'
  <2>1. Range(networks') \subseteq Range(cfg'.candidates)
    BY <1>2 DEF DrawnAreAllowed
  <2>2. network \subseteq UNION Range(cfg.candidates)
    BY <1>2 DEF DrawnAreAllowed
  <2>3. Range(chosen') \subseteq (cfg.ranges \cap UNION Range(cfg.candidates)) \ cfg.excluded
    BY <1>9, <1>10, <2>2 DEF DrawnAreAllowed
  <2>4. Len(chosen') <= cfg.max_candidates
    <3>1. Len(chosen) \in Nat /\ Len(new) \in Nat /\ cfg.max_candidates \in Nat
      BY <1>1, <1>7, SettingsAre
    <3>2. Len(new) <= cfg.max_candidates - Len(chosen)
      BY <1>4, <1>7, <3>1 DEF Room
    <3> QED
      BY <1>10, <3>1, <3>2
  <2> QED
    BY <1>10, <2>1, <2>3, <2>4 DEF DrawnAreAllowed
<1>13. WorkIsShared'
  BY <1>10 DEF WorkIsShared
<1>14. FastestAreKept'
  BY DEF FastestAreKept, PassedOf
<1> QED
  BY <1>11, <1>12, <1>13, <1>14

\* The first addresses get a worker each, the others wait.
LEMMA StartsWorkersKeepsInv ==
  ASSUME RoundInv, StartsWorkers
  PROVE  RoundInv'
<1> USE DEF RoundInv
<1> DEFINE bounds == {cfg.concurrency, Len(chosen)}
           count == Min(bounds)
           first == SubSeq(chosen, 1, count)
           rest == SubSeq(chosen, count + 1, Len(chosen))
<1>1. /\ round = "drawing" /\ chosen # << >> /\ round' = "probing"
      /\ workers' = Range(first) /\ queue' = rest
      /\ UNCHANGED <<cfg, networks, chosen, samples, verified, best, passed>>
  BY DEF StartsWorkers, HasDrawn
<1>2. /\ cfg \in RoundSettings /\ chosen \in Seq(Addresses)
      /\ Len(chosen) \in Nat \ {0} /\ IsInjective(chosen) /\ passed = {}
  BY <1>1 DEF RoundTypeOK, DrawnAreAllowed, WorkIsShared
<1>3. count \in 1 .. Len(chosen) /\ count <= cfg.concurrency
  <2>1. cfg.concurrency \in Nat \ {0}
    BY <1>2, SettingsAre
  <2>2. Min(bounds) \in bounds /\ \A w \in bounds : Min(bounds) <= w
    <3> DEFINE c == cfg.concurrency
               n == Len(chosen)
    <3>1. c \in Int /\ n \in Int /\ bounds = {c, n, n}
      BY <1>2, <2>1
    <3> HIDE DEF c, n, bounds
    <3> QED
      BY <3>1, LeastOf
  <2>3. /\ count = cfg.concurrency \/ count = Len(chosen)
        /\ count <= cfg.concurrency /\ count <= Len(chosen)
    BY <2>2
  <2> HIDE DEF count
  <2> QED
    BY <1>2, <2>1, <2>3
<1>4. /\ rest \in Seq(Addresses) /\ IsInjective(rest)
      /\ Range(first) \cup Range(rest) \subseteq Range(chosen)
      /\ Apart(first, rest)
      /\ Range(first) # {} /\ IsFiniteSet(Range(first)) /\ Cardinality(Range(first)) <= count
  <2>1. IsSplit(chosen, count, first, rest)
    BY DEF IsSplit
  <2> HIDE DEF first, rest, count
  <2> QED
    BY <1>2, <1>3, <2>1, SplitIs
<1> HIDE DEF first, rest, count, bounds
<1>5. Cardinality(workers') <= cfg.concurrency
  <2>1. Cardinality(Range(first)) \in Nat
    BY <1>4, FS_CardinalityType
  <2>2. count \in Nat /\ cfg.concurrency \in Nat
    BY <1>2, <1>3, SettingsAre
  <2> QED
    BY <1>1, <1>3, <1>4, <2>1, <2>2
<1>6. Range(chosen) \subseteq Addresses
  BY <1>2 DEF Range
<1>7. RoundTypeOK'
  BY <1>1, <1>4, <1>6 DEF RoundTypeOK
<1>8. DrawnAreAllowed'
  BY <1>1 DEF DrawnAreAllowed
<1>9. WorkIsShared'
  BY <1>1, <1>2, <1>4, <1>5 DEF WorkIsShared, Apart
<1>10. FastestAreKept'
  BY <1>1, <1>2 DEF FastestAreKept, PassedOf
<1> QED
  BY <1>7, <1>8, <1>9, <1>10

\* Who is probed has not passed, so what is known of those that passed stays.
LEMMA MeasuresKeepsInv ==
  ASSUME RoundInv, NEW a \in Addresses, NEW latency \in Latencies, Measures(a, latency)
  PROVE  RoundInv'
<1> USE DEF RoundInv, Measures
<1>1. /\ cfg \in RoundSettings /\ samples[a] \in Seq(Latencies) /\ Sorted(samples[a])
      /\ samples \in [Addresses -> Seq(Latencies)] /\ Len(samples[a]) < cfg.probes
  BY DEF RoundTypeOK
<1> DEFINE s == Inserted(samples[a], latency)
<1>2. s \in Seq(Latencies) /\ Len(s) = Len(samples[a]) + 1 /\ Sorted(s)
  BY <1>1, LatenciesOK, InsertedIs
<1>3. samples' = [samples EXCEPT ![a] = s]
  OBVIOUS
<1> HIDE DEF s
<1>4. Len(s) <= cfg.probes
  <2>1. Len(samples[a]) \in Nat /\ cfg.probes \in Nat
    BY <1>1, SettingsAre
  <2> QED
    BY <1>1, <1>2, <2>1
<1>5. RoundTypeOK'
  <2>1. samples' \in [Addresses -> Seq(Latencies)]
    BY <1>1, <1>2, <1>3
  <2>2. \A b \in Addresses : Len(samples'[b]) <= cfg.probes /\ Sorted(samples'[b])
    BY <1>1, <1>2, <1>3, <1>4 DEF RoundTypeOK
  <2> QED
    BY <2>1, <2>2 DEF RoundTypeOK
<1>6. DrawnAreAllowed' /\ WorkIsShared'
  BY DEF DrawnAreAllowed, WorkIsShared
<1>7. \A b \in passed : samples'[b] = samples[b]
  BY <1>1, <1>3 DEF WorkIsShared, RoundTypeOK
<1>8. FastestAreKept'
  <2>1. \A f \in Families : PassedOf(f)' = PassedOf(f) /\ best[f] \subseteq PassedOf(f) /\ PassedOf(f) \subseteq passed
    BY DEF PassedOf, FastestAreKept
  <2> QED
    BY <1>7, <2>1 DEF FastestAreKept
<1> QED
  BY <1>5, <1>6, <1>8

\* Whoever leaves makes room for one that waits.
LEMMA RefillKeepsWork ==
  ASSUME RoundInv, NEW a \in workers, Refills(a)
  PROVE  /\ queue' \in Seq(Addresses) /\ IsInjective(queue')
         /\ workers' \cup Range(queue') = (workers \cup Range(queue)) \ {a}
         /\ workers' \cap Range(queue') = {}
         /\ queue' # << >> => workers' # {}
         /\ IsFiniteSet(workers') /\ Cardinality(workers') <= cfg.concurrency
<1>1. /\ queue \in Seq(Addresses) /\ IsInjective(queue) /\ IsFiniteSet(workers)
      /\ workers \cap Range(queue) = {}
      /\ Cardinality(workers) \in Nat /\ Cardinality(workers) <= cfg.concurrency
      /\ cfg.concurrency \in Nat
  <2>1. IsFiniteSet(workers) /\ cfg \in RoundSettings
    BY DEF RoundInv, RoundTypeOK, WorkIsShared
  <2> QED
    BY <2>1, FS_CardinalityType, SettingsAre DEF RoundInv, RoundTypeOK, WorkIsShared
<1>2. IsFiniteSet(workers \ {a}) /\ Cardinality(workers \ {a}) = Cardinality(workers) - 1
  BY <1>1, FS_RemoveElement
<1>3. CASE queue = << >>
  <2>1. workers' = workers \ {a} /\ queue' = << >>
    BY <1>3 DEF Refills
  <2>2. Cardinality(workers') <= cfg.concurrency
    BY <1>1, <1>2, <2>1
  <2> QED
    BY <1>1, <1>2, <1>3, <2>1, <2>2, NothingIn
<1>4. CASE queue # << >>
  <2>1. workers' = (workers \ {a}) \cup {Head(queue)} /\ queue' = Tail(queue)
    BY <1>4 DEF Refills
  <2>2. /\ Tail(queue) \in Seq(Addresses) /\ IsInjective(Tail(queue))
        /\ Head(queue) \notin Range(Tail(queue))
    BY <1>1, <1>4, HeadAndTail
  <2>3. Range(queue) = {Head(queue)} \cup Range(Tail(queue))
    BY <1>1, <1>4, HeadAndTail
  <2>4. Head(queue) \notin workers
    BY <1>1, <2>3
  <2>5. /\ IsFiniteSet((workers \ {a}) \cup {Head(queue)})
        /\ Cardinality((workers \ {a}) \cup {Head(queue)}) = Cardinality(workers \ {a}) + 1
    <3> DEFINE W == workers \ {a}
    <3>1. Head(queue) \notin W /\ IsFiniteSet(W)
      BY <1>2, <2>4
    <3> HIDE DEF W
    <3> QED
      BY <3>1, FS_AddElement DEF W
  <2>6. Cardinality(workers') <= cfg.concurrency /\ IsFiniteSet(workers')
    BY <1>1, <1>2, <2>1, <2>5
  <2>7. workers' \cup Range(queue') = (workers \cup Range(queue)) \ {a}
    <3>1. a \notin Range(queue)
      BY <1>1
    <3> QED
      BY <2>1, <2>3, <3>1
  <2>8. workers' \cap Range(queue') = {}
    BY <1>1, <2>1, <2>2, <2>3
  <2> QED
    BY <2>1, <2>2, <2>6, <2>7, <2>8
<1> QED
  BY <1>3, <1>4

LEMMA VerifiesKeepsInv ==
  ASSUME RoundInv, NEW a \in Addresses, NEW host \in CompatibleHosts, Verifies(a, host)
  PROVE  RoundInv'
<1> USE DEF RoundInv, Verifies
<1>1. RoundTypeOK'
  BY DEF RoundTypeOK
<1>2. DrawnAreAllowed' /\ WorkIsShared'
  BY DEF DrawnAreAllowed, WorkIsShared
<1>3. FastestAreKept'
  BY DEF FastestAreKept, PassedOf
<1> QED
  BY <1>1, <1>2, <1>3

\* A candidate that fails shows nothing, and none that has passed is touched.
LEMMA FailsProbeKeepsInv ==
  ASSUME RoundInv, NEW a \in Addresses, FailsProbe(a)
  PROVE  RoundInv'
<1> USE DEF RoundInv, FailsProbe
<1>1. /\ queue' \in Seq(Addresses) /\ IsInjective(queue')
      /\ workers' \cup Range(queue') = (workers \cup Range(queue)) \ {a}
      /\ workers' \cap Range(queue') = {}
      /\ queue' # << >> => workers' # {}
      /\ IsFiniteSet(workers') /\ Cardinality(workers') <= cfg.concurrency
  BY RefillKeepsWork
<1>2. samples' = [samples EXCEPT ![a] = << >>] /\ cfg \in RoundSettings
  BY DEF RoundTypeOK
<1>3. RoundTypeOK'
  <2>1. samples' \in [Addresses -> Seq(Latencies)]
    BY <1>2, NothingIn DEF RoundTypeOK
  <2>2. \A b \in Addresses : Len(samples'[b]) <= cfg.probes /\ Sorted(samples'[b])
    BY <1>2, NothingIn, SettingsAre DEF RoundTypeOK
  <2>3. workers' \subseteq Addresses
    BY <1>1 DEF RoundTypeOK, Range
  <2> QED
    BY <1>1, <2>1, <2>2, <2>3 DEF RoundTypeOK
<1>4. DrawnAreAllowed' /\ WorkIsShared'
  BY <1>1 DEF DrawnAreAllowed, WorkIsShared
<1>5. \A b \in passed : samples'[b] = samples[b]
  BY <1>2 DEF WorkIsShared, RoundTypeOK
<1>6. FastestAreKept'
  <2>1. \A f \in Families :
          PassedOf(f)' = PassedOf(f) /\ best[f] \subseteq PassedOf(f) /\ PassedOf(f) \subseteq passed
    BY DEF PassedOf, FastestAreKept
  <2>2. round = "probing"
    BY DEF FastestAreKept, WorkIsShared, RoundTypeOK
  <2> QED
    BY <1>5, <2>1, <2>2 DEF FastestAreKept
<1> QED
  BY <1>3, <1>4, <1>6

\* The timing of an address that has all its samples.
LEMMA TimingOf ==
  ASSUME RoundInv, NEW a \in Addresses, Len(samples[a]) = cfg.probes
  PROVE  /\ samples[a] \in Seq(Nat) /\ samples[a] # << >>
         /\ Timing(samples[a]) \in Triples
<1>1. samples[a] \in Seq(Latencies) /\ cfg \in RoundSettings
  BY DEF RoundInv, RoundTypeOK
<1>2. samples[a] \in Seq(Nat)
  <2>1. samples[a] \in [1 .. Len(samples[a]) -> Latencies] /\ Len(samples[a]) \in Nat
    BY <1>1
  <2>2. samples[a] \in [1 .. Len(samples[a]) -> Nat]
    BY <2>1, LatenciesOK
  <2> QED
    BY <2>1, <2>2
<1>3. samples[a] # << >>
  <2>1. cfg.probes \in Nat \ {0}
    BY <1>1, SettingsAre
  <2> QED
    BY <2>1, NothingIn
<1> QED
  BY <1>2, <1>3, TimingIs

LEMMA FamilyIs ==
  ASSUME NEW a
  PROVE  Family(a) \in Families
BY DEF Family, Families

\* An address that passes is kept if it precedes the one that is kept.
LEMMA PassesKeepsInv ==
  ASSUME RoundInv, NEW a \in Addresses, Passes(a)
  PROVE  RoundInv'
<1> DEFINE time(b) == Timing(samples[b])
           kind == Family(a)
<1>1. /\ a \in workers /\ Len(samples[a]) = cfg.probes /\ Refills(a)
      /\ passed' = passed \cup {a}
      /\ best' = IF IsFaster(a, best[kind]) THEN [best EXCEPT ![kind] = {a}] ELSE best
      /\ UNCHANGED <<cfg, networks, chosen, samples, verified, round>>
  BY DEF Passes
<1>2. /\ queue' \in Seq(Addresses) /\ IsInjective(queue')
      /\ workers' \cup Range(queue') = (workers \cup Range(queue)) \ {a}
      /\ workers' \cap Range(queue') = {}
      /\ queue' # << >> => workers' # {}
      /\ IsFiniteSet(workers') /\ Cardinality(workers') <= cfg.concurrency
  BY <1>1, RefillKeepsWork
<1>3. /\ best \in [Families -> SUBSET Addresses] /\ kind \in Families
      /\ passed \subseteq Addresses /\ round \in {"drawing", "probing", "update", "clear"}
  BY FamilyIs DEF RoundInv, RoundTypeOK
<1>4. RoundTypeOK'
  <2>1. best' \in [Families -> SUBSET Addresses]
    BY <1>1, <1>3
  <2>2. workers' \subseteq Addresses
    BY <1>2 DEF RoundInv, RoundTypeOK, Range
  <2> QED
    BY <1>1, <1>2, <1>3, <2>1, <2>2 DEF RoundInv, RoundTypeOK
<1>5. DrawnAreAllowed'
  BY <1>1 DEF RoundInv, DrawnAreAllowed
<1>6. round = "probing"
  BY <1>1, <1>3 DEF RoundInv, WorkIsShared, FastestAreKept
<1>7. WorkIsShared'
  <2>1. passed' \cap (workers' \cup Range(queue')) = {} /\ workers' \cup Range(queue') \cup passed' \subseteq Range(chosen)
    BY <1>1, <1>2 DEF RoundInv, WorkIsShared
  <2> QED
    BY <1>1, <1>2, <1>6, <2>1 DEF WorkIsShared
<1>8. \A b \in passed : Len(samples[b]) = cfg.probes
  BY DEF RoundInv, FastestAreKept
<1>9. \A b \in passed \cup {a} : time(b) \in Triples
  BY <1>1, <1>3, <1>8, TimingOf
<1>10. \A f \in Families : PassedOf(f)' = IF f = kind THEN PassedOf(f) \cup {a} ELSE PassedOf(f)
  BY <1>1 DEF PassedOf
<1>11. \A f \in Families :
         /\ best[f] \subseteq PassedOf(f) /\ PassedOf(f) \subseteq passed
         /\ PassedOf(f) # {} => \E c \in best[f] : best[f] = {c}
         /\ \A c \in best[f], b \in PassedOf(f) : ~Precedes(time(b), time(c))
  BY DEF RoundInv, FastestAreKept, PassedOf
<1>12. \A b : Timing(samples[b])' = time(b')
  BY <1>1
<1> HIDE DEF time, kind
<1>13. IsFaster(a, best[kind]) <=> \A c \in best[kind] : Precedes(time(a), time(c))
  BY DEF IsFaster, time
<1>14. ASSUME NEW f \in Families
       PROVE  /\ best'[f] \subseteq PassedOf(f)'
              /\ PassedOf(f)' # {} => \E c \in best'[f] : best'[f] = {c}
              /\ \A c \in best'[f], b \in PassedOf(f)' : ~Precedes(time(b), time(c))
  <2>1. CASE f # kind
    <3>1. best'[f] = best[f] /\ PassedOf(f)' = PassedOf(f)
      BY <1>1, <1>3, <1>10, <2>1
    <3> QED
      BY <1>11, <3>1
  <2>2. CASE f = kind /\ IsFaster(a, best[kind])
    <3>1. best'[f] = {a} /\ PassedOf(f)' = PassedOf(f) \cup {a}
      BY <1>1, <1>3, <1>10, <2>2
    <3>2. ASSUME NEW b \in PassedOf(f), Precedes(time(b), time(a))
          PROVE  FALSE
      <4>1. PICK c \in best[f] : best[f] = {c}
        BY <1>11
      <4>2. Precedes(time(a), time(c)) /\ ~Precedes(time(b), time(c))
        BY <1>11, <1>13, <2>2, <4>1
      <4>3. time(a) \in Triples /\ time(b) \in Triples /\ time(c) \in Triples
        BY <1>9, <1>11
      <4> QED
        BY <3>2, <4>2, <4>3, PrecedesIsAnOrder
    <3>3. ~Precedes(time(a), time(a))
      BY <1>9, PrecedesIsAnOrder
    <3> QED
      BY <3>1, <3>2, <3>3
  <2>3. CASE f = kind /\ ~IsFaster(a, best[kind])
    <3>1. best'[f] = best[f] /\ PassedOf(f)' = PassedOf(f) \cup {a}
      BY <1>1, <1>10, <2>3
    <3>2. PICK d \in best[f] : ~Precedes(time(a), time(d))
      BY <1>13, <2>3
    <3>3. best[f] = {d}
      BY <1>11, <3>2
    <3> QED
      BY <1>11, <3>1, <3>2, <3>3
  <2> QED
    BY <2>1, <2>2, <2>3
<1>15. \A b \in passed' : Len(samples'[b]) = cfg'.probes
  BY <1>1, <1>8
<1>16. FastestAreKept'
  <2>1. \A f \in Families : \A c \in best'[f], b \in PassedOf(f)' :
          ~Precedes(Timing(samples'[b]), Timing(samples'[c]))
    BY <1>1, <1>14 DEF time
  <2> QED
    BY <1>1, <1>6, <1>14, <1>15, <2>1 DEF FastestAreKept
<1> QED
  BY <1>4, <1>5, <1>7, <1>16 DEF RoundInv

LEMMA DrawsNothingKeepsInv ==
  ASSUME RoundInv, DrawsNothing
  PROVE  RoundInv'
<1> USE DEF RoundInv, DrawsNothing, HasDrawn
<1>1. RoundTypeOK'
  BY DEF RoundTypeOK
<1>2. DrawnAreAllowed' /\ WorkIsShared'
  BY DEF DrawnAreAllowed, WorkIsShared
<1>3. FastestAreKept'
  BY DEF FastestAreKept, PassedOf, WorkIsShared
<1> QED
  BY <1>1, <1>2, <1>3

\* The round is over when nobody works, for then nobody waits.
LEMMA EndsRoundKeepsInv ==
  ASSUME RoundInv, EndsRound
  PROVE  RoundInv'
<1> USE DEF RoundInv, EndsRound
<1>1. RoundTypeOK'
  BY DEF RoundTypeOK
<1>2. DrawnAreAllowed' /\ WorkIsShared'
  BY DEF DrawnAreAllowed, WorkIsShared
<1>3. (\A f \in Families : best[f] = {}) <=> passed = {}
  <2>1. \A a \in passed : a \in PassedOf(Family(a)) /\ Family(a) \in Families
    BY FamilyIs DEF PassedOf
  <2>2. \A f \in Families : best[f] \subseteq PassedOf(f) /\ (PassedOf(f) # {} => best[f] # {})
    BY DEF FastestAreKept
  <2>3. \A f \in Families : PassedOf(f) \subseteq passed
    BY DEF PassedOf
  <2> QED
    BY <2>1, <2>2, <2>3
<1>4. queue = << >>
  BY DEF WorkIsShared
<1>5. \A f \in Families : PassedOf(f)' = PassedOf(f)
  BY DEF PassedOf
<1>6. FastestAreKept'
  BY <1>3, <1>4, <1>5 DEF FastestAreKept
<1> QED
  BY <1>1, <1>2, <1>6

LEMMA RoundStep ==
  ASSUME RoundInv, [RoundNext]_optimizing
  PROVE  RoundInv'
<1>1. CASE UNCHANGED optimizing
  <2> USE <1>1 DEF optimizing
  <2>1. RoundTypeOK' = RoundTypeOK /\ DrawnAreAllowed' = DrawnAreAllowed /\ WorkIsShared' = WorkIsShared
    BY DEF RoundTypeOK, DrawnAreAllowed, WorkIsShared
  <2>2. FastestAreKept' = FastestAreKept
    BY DEF FastestAreKept, PassedOf
  <2> QED
    BY <2>1, <2>2 DEF RoundInv
<1> QED
  BY <1>1, DrawsKeepsInv, DrawsNothingKeepsInv, StartsWorkersKeepsInv, EndsRoundKeepsInv,
     MeasuresKeepsInv, VerifiesKeepsInv, PassesKeepsInv, FailsProbeKeepsInv
     DEF RoundNext

\* The bookkeeping of a round, for every set of candidates and every order of the probes.
THEOREM RoundInvariance == RoundSpec => []RoundInv
BY RoundInvInit, RoundStep, PTL DEF RoundSpec

\* In whatever order the probes end, a round ends with an address of every family of which
\* one has passed, which no other one beat in every probe; whoever passes was drawn, from
\* the ranges and not from what is excluded; never more workers than may be.
THEOREM BestIsPicked == RoundSpec => []RoundPicksBest
<1>1. RoundInv => RoundPicksBest
  <2> SUFFICES ASSUME RoundInv PROVE RoundPicksBest
    OBVIOUS
  <2>1. ASSUME NEW f \in Families, NEW a \in best[f], NEW b \in PassedOf(f), Beats(b, a)
        PROVE  FALSE
    <3>1. a \in passed /\ b \in passed /\ passed \subseteq Addresses
      BY <2>1 DEF RoundInv, RoundTypeOK, FastestAreKept, PassedOf
    <3>2. Len(samples[a]) = cfg.probes /\ Len(samples[b]) = cfg.probes
      BY <3>1 DEF RoundInv, FastestAreKept
    <3>3. /\ samples[a] \in Seq(Nat) /\ samples[b] \in Seq(Nat) /\ samples[b] # << >>
      BY <3>1, <3>2, TimingOf
    <3>4. Precedes(Timing(samples[b]), Timing(samples[a]))
      BY <2>1, <3>2, <3>3, FasterPrecedes DEF Beats
    <3> QED
      BY <3>4 DEF RoundInv, FastestAreKept
  <2>2. Cardinality(workers) <= cfg.concurrency /\ IsInjective(chosen)
        /\ Len(chosen) <= cfg.max_candidates
    BY DEF RoundInv, DrawnAreAllowed, WorkIsShared
  <2>3. passed \subseteq (cfg.ranges \cap UNION Range(cfg.candidates)) \ cfg.excluded
    BY DEF RoundInv, DrawnAreAllowed, WorkIsShared
  <2>4. \A f \in Families : best[f] \subseteq PassedOf(f) /\ (best[f] = {} => PassedOf(f) = {})
    BY DEF RoundInv, FastestAreKept
  <2>5. round \in {"update", "clear"} => queue = << >> /\ (round = "update" <=> passed # {})
    BY DEF RoundInv, FastestAreKept, WorkIsShared
  <2> QED
    BY <2>1, <2>2, <2>3, <2>4, <2>5 DEF RoundPicksBest
<1> QED
  BY <1>1, RoundInvariance, PTL

-----------------------------------------------------------------------------
(* The plugin that rewrites answers.                                        *)

IsAnswer(records) == records \in Seq(Range(records))

\* The two sequences hold the same records of a type, at the same places.
AgreeOn(r, s, types) ==
  /\ DOMAIN r = DOMAIN s
  /\ \A i \in DOMAIN r : /\ r[i].type \in types <=> s[i].type \in types
                         /\ r[i].type \in types => r[i] = s[i]

LEMMA AgreeingAddresses ==
  ASSUME NEW r, NEW s, NEW types, AgreeOn(r, s, types), NEW type \in types
  PROVE  AddressesOf(r, type) = AddressesOf(s, type)
  BY DEF AgreeOn, AddressesOf, Range

LEMMA AgreeingHints ==
  ASSUME NEW r, NEW s, AgreeOn(r, s, {"HTTPS"}), NEW key
  PROVE  Hints(r, key) = Hints(s, key)
<1>1. {x \in Range(r) : x.type = "HTTPS" /\ x[key] # Absent}
        = {x \in Range(s) : x.type = "HTTPS" /\ x[key] # Absent}
  BY DEF AgreeOn, Range
<1> QED
  BY <1>1 DEF Hints

\* The addresses of a type are judged together.
IsReplaced(r, s, type, offer) ==
  AddressesOf(r, type) = Judged(AddressesOf(s, type), offer)
SameTypes(r, s) == DOMAIN r = DOMAIN s /\ \A i \in DOMAIN s : r[i].type = s[i].type

\* The addresses of a family are replaced together, and only when all are inside.
LEMMA RewriteAddressesIs ==
  ASSUME NEW s, NEW type \in {"A", "AAAA"}, NEW offer,
         NEW r, r = RewriteAddresses(s, type, offer)
  PROVE  /\ \A types : type \notin types => AgreeOn(r, s, types)
         /\ IsReplaced(r, s, type, offer) /\ SameTypes(r, s)
<1>1. CASE (offer = Absent \/ ~AllVerified(AddressesOf(s, type))) /\ r = s
  <2>1. IsReplaced(r, s, type, offer)
    BY <1>1 DEF IsReplaced, Judged, AllVerified
  <2> QED
    BY <1>1, <2>1 DEF AgreeOn, SameTypes
<1>2. CASE /\ offer # Absent /\ AllVerified(AddressesOf(s, type))
           /\ r = [i \in DOMAIN s |-> IF s[i].type = type THEN Address(type, offer, "rewrite")
                                      ELSE s[i]]
  <2>1. /\ DOMAIN r = DOMAIN s
        /\ \A i \in DOMAIN s : IF s[i].type = type
                               THEN r[i].type = type /\ r[i].address = offer
                               ELSE r[i] = s[i]
    BY <1>2 DEF Address
  <2>2. \A types : type \notin types => AgreeOn(r, s, types)
    BY <2>1 DEF AgreeOn
  <2>3. AddressesOf(r, type) \subseteq {offer}
    BY <2>1 DEF AddressesOf, Range
  <2>4. offer \in AddressesOf(r, type)
    <3>1. PICK i \in DOMAIN s : s[i].type = type
      BY <1>2 DEF AllVerified, AddressesOf, Range
    <3> QED
      BY <2>1, <3>1 DEF AddressesOf, Range
  <2>5. IsReplaced(r, s, type, offer)
    <3>1. AddressesOf(r, type) = {offer}
      BY <2>3, <2>4
    <3> QED
      BY <1>2, <3>1 DEF AllVerified, IsReplaced, Judged
  <2>6. SameTypes(r, s)
    BY <2>1 DEF SameTypes
  <2> QED
    BY <2>2, <2>5, <2>6
<1> QED
  BY <1>1, <1>2 DEF RewriteAddresses

\* A hint is replaced when all of it is inside.
LEMMA RewriteServicesIs ==
  ASSUME NEW s, NEW offer, NEW r, r = RewriteServices(s, offer)
  PROVE  /\ \A types : "HTTPS" \notin types => AgreeOn(r, s, types)
         /\ HintsAreJudged(s, r, offer)
<1>1. DOMAIN r = DOMAIN s
  BY DEF RewriteServices
<1>2. \A i \in DOMAIN s :
        \/ /\ r[i] = s[i]
           /\ s[i].type = "HTTPS" => /\ ~IsRewritable(s[i].ipv4hint, offer.ipv4)
                                     /\ ~IsRewritable(s[i].ipv6hint, offer.ipv6)
        \/ /\ s[i].type = "HTTPS" /\ r[i].type = "HTTPS"
           /\ r[i].ipv4hint = RewrittenHint(s[i].ipv4hint, offer.ipv4)
           /\ r[i].ipv6hint = RewrittenHint(s[i].ipv6hint, offer.ipv6)
  BY DEF RewriteServices, Service
<1>3. \A hint, o : /\ RewrittenHint(hint, o) = JudgedHint(hint, o)
                   /\ ~IsRewritable(hint, o) => JudgedHint(hint, o) = hint
  BY DEF RewrittenHint, IsRewritable, AllVerified, JudgedHint, Judged
<1>4. \A types : "HTTPS" \notin types => AgreeOn(r, s, types)
  BY <1>1, <1>2 DEF AgreeOn
<1>5. \A i \in DOMAIN s :
        /\ r[i].type = s[i].type
        /\ s[i].type = "HTTPS" =>
             /\ r[i].ipv4hint = JudgedHint(s[i].ipv4hint, offer.ipv4)
             /\ r[i].ipv6hint = JudgedHint(s[i].ipv6hint, offer.ipv6)
  BY <1>2, <1>3
<1> QED
  BY <1>1, <1>4, <1>5 DEF HintsAreJudged

LEMMA RewriteHintsIs ==
  ASSUME NEW s, NEW offer, NEW r, r = RewriteServices(s, offer)
  PROVE  /\ Hints(s, "ipv4hint") \subseteq Hints(r, "ipv4hint") \cup Inside
         /\ Hints(r, "ipv4hint") \subseteq Hints(s, "ipv4hint") \cup {offer.ipv4}
         /\ Hints(s, "ipv6hint") \subseteq Hints(r, "ipv6hint") \cup Inside
         /\ Hints(r, "ipv6hint") \subseteq Hints(s, "ipv6hint") \cup {offer.ipv6}
<1>1. ASSUME NEW key, NEW offered, DOMAIN r = DOMAIN s,
             \A i \in DOMAIN s :
               /\ r[i].type = "HTTPS" <=> s[i].type = "HTTPS"
               /\ s[i].type = "HTTPS" => r[i][key] = JudgedHint(s[i][key], offered)
      PROVE  /\ Hints(s, key) \subseteq Hints(r, key) \cup Inside
             /\ Hints(r, key) \subseteq Hints(s, key) \cup {offered}
  <2>1. \A t, a : a \in Hints(t, key) <=>
          \E i \in DOMAIN t : t[i].type = "HTTPS" /\ t[i][key] # Absent /\ a \in t[i][key]
    BY DEF Hints, Range
  <2>2. \A i \in DOMAIN s : s[i].type = "HTTPS" =>
          \/ r[i][key] = s[i][key]
          \/ s[i][key] # Absent /\ s[i][key] \subseteq Inside /\ r[i][key] = {offered}
    BY <1>1 DEF JudgedHint, Judged
  <2>3. ASSUME NEW a \in Hints(s, key), a \notin Inside PROVE a \in Hints(r, key)
    <3>1. PICK i \in DOMAIN s : s[i].type = "HTTPS" /\ s[i][key] # Absent /\ a \in s[i][key]
      BY <2>1
    <3>2. r[i][key] = s[i][key]
      BY <2>2, <2>3, <3>1
    <3> QED
      BY <1>1, <2>1, <3>1, <3>2
  <2>4. ASSUME NEW a \in Hints(r, key), a # offered PROVE a \in Hints(s, key)
    <3>1. PICK i \in DOMAIN r : r[i].type = "HTTPS" /\ r[i][key] # Absent /\ a \in r[i][key]
      BY <2>1
    <3>2. r[i][key] = s[i][key]
      BY <1>1, <2>2, <2>4, <3>1
    <3> QED
      BY <1>1, <2>1, <3>1, <3>2
  <2> QED
    BY <2>3, <2>4
<1>2. /\ DOMAIN r = DOMAIN s
      /\ \A i \in DOMAIN s :
           /\ r[i].type = "HTTPS" <=> s[i].type = "HTTPS"
           /\ s[i].type = "HTTPS" => r[i]["ipv4hint"] = JudgedHint(s[i]["ipv4hint"], offer.ipv4)
  BY RewriteServicesIs DEF HintsAreJudged
<1>3. /\ DOMAIN r = DOMAIN s
      /\ \A i \in DOMAIN s :
           /\ r[i].type = "HTTPS" <=> s[i].type = "HTTPS"
           /\ s[i].type = "HTTPS" => r[i]["ipv6hint"] = JudgedHint(s[i]["ipv6hint"], offer.ipv6)
  BY RewriteServicesIs DEF HintsAreJudged
<1>4. /\ Hints(s, "ipv4hint") \subseteq Hints(r, "ipv4hint") \cup Inside
      /\ Hints(r, "ipv4hint") \subseteq Hints(s, "ipv4hint") \cup {offer.ipv4}
  BY <1>1, <1>2
<1>5. /\ Hints(s, "ipv6hint") \subseteq Hints(r, "ipv6hint") \cup Inside
      /\ Hints(r, "ipv6hint") \subseteq Hints(s, "ipv6hint") \cup {offer.ipv6}
  BY <1>1, <1>3
<1> QED
  BY <1>4, <1>5

\* The records without the signatures: the addresses are the same, the others too,
\* and there is no signature left to drop.
LEMMA UnsignedIs ==
  ASSUME NEW V, NEW s \in Seq(V), NEW t, t = Unsigned(s)
  PROVE  /\ t \in Seq(V)
         /\ Unsigned(t) = t /\ OtherRecords(t) = OtherRecords(s)
         /\ \A type \in {"A", "AAAA"} : AddressesOf(t, type) = AddressesOf(s, type)
         /\ \A key : Hints(t, key) = Hints(s, key)
<1> DEFINE I == {i \in DOMAIN s : s[i].type # "RRSIG"}
           others == {"A", "AAAA", "HTTPS", "RRSIG"}
           U == {r \in V : r.type # "RRSIG"}
           W == {r \in V : r.type \notin others}
<1>1. \A i \in DOMAIN s : s[i] \in V
  OBVIOUS
<1>2. I \in SUBSET DOMAIN s /\ t = Subsequence(s, I)
  BY DEF Unsigned
<1>3. /\ t \in Seq(V)
      /\ \A k \in DOMAIN t : \E i \in I : t[k] = s[i]
      /\ \A i \in I : \E k \in DOMAIN t : t[k] = s[i]
  <2> HIDE DEF I
  <2> QED BY <1>2, SubsequenceIs
<1>4. \A k \in DOMAIN t : t[k] \in V
  BY <1>3
<1>5. Unsigned(t) = Subsequence(t, Where(t, U))
  <2>1. Where(t, U) = {k \in DOMAIN t : t[k].type # "RRSIG"}
    BY <1>4 DEF Where
  <2> QED
    BY <2>1 DEF Unsigned
<1>6. OtherRecords(t) = Subsequence(t, Where(t, W))
  <2>1. Where(t, W) = {k \in DOMAIN t : t[k].type \notin others}
    BY <1>4 DEF Where
  <2> QED
    BY <2>1 DEF OtherRecords
<1>7. Unsigned(t) = Subsequence(s, I \cap Where(s, U))
  <2> HIDE DEF I, U
  <2> QED BY <1>2, <1>5, SubsequenceOfSubsequence
<1>8. OtherRecords(t) = Subsequence(s, I \cap Where(s, W))
  <2> HIDE DEF I, W
  <2> QED BY <1>2, <1>6, SubsequenceOfSubsequence
<1>9. I \cap Where(s, U) = I
  BY <1>1 DEF Where
<1>10. I \cap Where(s, W) = {i \in DOMAIN s : s[i].type \notin others}
  BY <1>1 DEF Where
<1>11. Unsigned(t) = t /\ OtherRecords(t) = OtherRecords(s)
  BY <1>2, <1>7, <1>8, <1>9, <1>10 DEF OtherRecords
<1>12. /\ \A x \in Range(t) : x \in Range(s)
       /\ \A x \in Range(s) : x.type # "RRSIG" => x \in Range(t)
  BY <1>3 DEF Range
<1>13. \A type \in {"A", "AAAA"} : AddressesOf(t, type) = AddressesOf(s, type)
  BY <1>12 DEF AddressesOf
<1>14. ASSUME NEW key PROVE Hints(t, key) = Hints(s, key)
  <2>1. {x \in Range(t) : x.type = "HTTPS" /\ x[key] # Absent}
          = {x \in Range(s) : x.type = "HTTPS" /\ x[key] # Absent}
    BY <1>12
  <2> QED
    BY <2>1 DEF Hints
<1> QED
  BY <1>3, <1>11, <1>13, <1>14

\* Signatures are dropped at the same places of two answers with the same types.
LEMMA UnsignedPlaces ==
  ASSUME NEW V, NEW s \in Seq(V), NEW r, NEW offer, HintsAreJudged(s, r, offer)
  PROVE  HintsAreJudged(Unsigned(s), Unsigned(r), offer)
<1> DEFINE I == {i \in DOMAIN s : s[i].type # "RRSIG"}
<1>1. I \in SUBSET DOMAIN s /\ {i \in DOMAIN r : r[i].type # "RRSIG"} = I
  BY DEF HintsAreJudged
<1>2. Unsigned(s) = Subsequence(s, I) /\ Unsigned(r) = Subsequence(r, I)
  BY <1>1 DEF Unsigned
<1> HIDE DEF I
<1>3. IsFiniteSet(I) /\ I \in SUBSET Nat
  BY <1>1, IndicesAre
<1>4. \A k \in 1 .. Cardinality(I) : Nth(I, k) \in DOMAIN s
  BY <1>1, <1>3, NthType
<1>5. /\ DOMAIN Unsigned(s) = 1 .. Cardinality(I) /\ DOMAIN Unsigned(r) = 1 .. Cardinality(I)
      /\ \A k \in 1 .. Cardinality(I) : /\ Unsigned(s)[k] = s[Nth(I, k)]
                                        /\ Unsigned(r)[k] = r[Nth(I, k)]
  BY <1>2 DEF Subsequence
<1> QED
  BY <1>4, <1>5 DEF HintsAreJudged

\* What the three rewriting functions make of an answer's records.
Rewritten(records, offer) ==
  RewriteServices(
    RewriteAddresses(RewriteAddresses(records, "A", offer.ipv4), "AAAA", offer.ipv6), offer)

LEMMA RewrittenIs ==
  ASSUME NEW V, NEW s \in Seq(V), NEW offer, NEW r, r = Rewritten(s, offer)
  PROVE  /\ \E U : r \in Seq(U)
         /\ Reachable(s) \subseteq Reachable(r) \cup Inside
         /\ Reachable(r) \subseteq Reachable(s) \cup {offer.ipv4, offer.ipv6}
         /\ IsReplaced(r, s, "A", offer.ipv4) /\ IsReplaced(r, s, "AAAA", offer.ipv6)
         /\ HintsAreJudged(s, r, offer)
         /\ OtherRecords(r) = OtherRecords(s)
<1> DEFINE first == RewriteAddresses(s, "A", offer.ipv4)
           second == RewriteAddresses(first, "AAAA", offer.ipv6)
<1>1. /\ \A types : "A" \notin types => AgreeOn(first, s, types)
      /\ IsReplaced(first, s, "A", offer.ipv4) /\ SameTypes(first, s)
  BY RewriteAddressesIs
<1>2. /\ \A types : "AAAA" \notin types => AgreeOn(second, first, types)
      /\ IsReplaced(second, first, "AAAA", offer.ipv6) /\ SameTypes(second, first)
  <2> HIDE DEF first
  <2> QED BY RewriteAddressesIs
<1>3. r = RewriteServices(second, offer)
  BY DEF Rewritten
<1> HIDE DEF first, second
<1>4. /\ \A types : "HTTPS" \notin types => AgreeOn(r, second, types)
      /\ HintsAreJudged(second, r, offer)
  BY <1>3, RewriteServicesIs
<1>5. /\ AddressesOf(r, "A") = AddressesOf(first, "A")
      /\ AddressesOf(first, "AAAA") = AddressesOf(s, "AAAA")
      /\ AddressesOf(r, "AAAA") = AddressesOf(second, "AAAA")
  <2>1. /\ AddressesOf(r, "A") = AddressesOf(second, "A")
        /\ AddressesOf(r, "AAAA") = AddressesOf(second, "AAAA")
    <3>1. AgreeOn(r, second, {"A", "AAAA"})
      BY <1>4
    <3> QED
      BY <3>1, AgreeingAddresses
  <2>2. AddressesOf(second, "A") = AddressesOf(first, "A")
    <3>1. AgreeOn(second, first, {"A"})
      BY <1>2
    <3> QED
      BY <3>1, AgreeingAddresses
  <2>3. AddressesOf(first, "AAAA") = AddressesOf(s, "AAAA")
    <3>1. AgreeOn(first, s, {"AAAA"})
      BY <1>1
    <3> QED
      BY <3>1, AgreeingAddresses
  <2> QED
    BY <2>1, <2>2, <2>3
<1>6. IsReplaced(r, s, "A", offer.ipv4) /\ IsReplaced(r, s, "AAAA", offer.ipv6)
  BY <1>1, <1>2, <1>5 DEF IsReplaced
<1>7. AgreeOn(second, s, {"HTTPS"})
  <2>1. AgreeOn(second, first, {"HTTPS"}) /\ AgreeOn(first, s, {"HTTPS"})
    BY <1>1, <1>2
  <2> QED
    BY <2>1 DEF AgreeOn
<1>8. \A key : Hints(second, key) = Hints(s, key)
  BY <1>7, AgreeingHints
<1>9. /\ Hints(s, "ipv4hint") \subseteq Hints(r, "ipv4hint") \cup Inside
      /\ Hints(r, "ipv4hint") \subseteq Hints(s, "ipv4hint") \cup {offer.ipv4}
      /\ Hints(s, "ipv6hint") \subseteq Hints(r, "ipv6hint") \cup Inside
      /\ Hints(r, "ipv6hint") \subseteq Hints(s, "ipv6hint") \cup {offer.ipv6}
  BY <1>3, <1>8, RewriteHintsIs
\* What is judged is kept, or all of it inside.
<1>10. /\ AddressesOf(s, "A") \subseteq AddressesOf(r, "A") \cup Inside
       /\ AddressesOf(r, "A") \subseteq AddressesOf(s, "A") \cup {offer.ipv4}
       /\ AddressesOf(s, "AAAA") \subseteq AddressesOf(r, "AAAA") \cup Inside
       /\ AddressesOf(r, "AAAA") \subseteq AddressesOf(s, "AAAA") \cup {offer.ipv6}
  <2>1. \A addresses, o : /\ addresses \subseteq Judged(addresses, o) \cup Inside
                          /\ Judged(addresses, o) \subseteq addresses \cup {o}
    BY DEF Judged
  <2> QED
    BY <1>6, <2>1 DEF IsReplaced
<1>11. Reachable(s) \subseteq Reachable(r) \cup Inside
  BY <1>9, <1>10 DEF Reachable
<1>12. Reachable(r) \subseteq Reachable(s) \cup {offer.ipv4, offer.ipv6}
  BY <1>9, <1>10 DEF Reachable
\* Each of the other types is left alone by all three.
<1>13. DOMAIN r = DOMAIN s
  <2>1. AgreeOn(r, second, {}) /\ AgreeOn(second, first, {}) /\ AgreeOn(first, s, {})
    BY <1>1, <1>2, <1>4
  <2> QED
    BY <2>1 DEF AgreeOn
<1> DEFINE rewritable == {"A", "AAAA", "HTTPS", "RRSIG"}
           J == {i \in DOMAIN s : s[i].type \notin rewritable}
<1>14. \A i \in DOMAIN s : /\ r[i].type \in rewritable <=> s[i].type \in rewritable
                           /\ s[i].type \notin rewritable => r[i] = s[i]
  <2> SUFFICES ASSUME NEW i \in DOMAIN s
               PROVE  /\ r[i].type \in rewritable <=> s[i].type \in rewritable
                      /\ s[i].type \notin rewritable => r[i] = s[i]
    OBVIOUS
  <2>1. ASSUME NEW types, types \cap rewritable = {}
        PROVE  AgreeOn(r, s, types)
    <3>1. "A" \notin types /\ "AAAA" \notin types /\ "HTTPS" \notin types
      BY <2>1
    <3>2. AgreeOn(r, second, types) /\ AgreeOn(second, first, types) /\ AgreeOn(first, s, types)
      BY <3>1, <1>1, <1>2, <1>4
    <3> QED
      BY <3>2 DEF AgreeOn
  <2>2. CASE s[i].type \notin rewritable
    <3>1. AgreeOn(r, s, {s[i].type})
      BY <2>1, <2>2
    <3>2. r[i].type = s[i].type /\ r[i] = s[i]
      BY <3>1, <1>13 DEF AgreeOn
    <3> QED
      BY <3>2, <2>2
  <2>3. CASE r[i].type \notin rewritable
    <3>1. AgreeOn(r, s, {r[i].type})
      BY <2>1, <2>3
    <3>2. r[i].type = s[i].type /\ r[i] = s[i]
      BY <3>1, <1>13 DEF AgreeOn
    <3> QED
      BY <3>2, <2>3
  <2> QED
    BY <2>2, <2>3
<1>15. OtherRecords(r) = OtherRecords(s)
  <2>1. {i \in DOMAIN r : r[i].type \notin rewritable} = J
    BY <1>13, <1>14
  <2>2. J \in SUBSET DOMAIN s /\ \A i \in J : s[i] = r[i]
    BY <1>14
  <2>3. Subsequence(s, J) = Subsequence(r, J)
    <3> HIDE DEF J
    <3> QED BY <2>2, SameSubsequence
  <2> QED
    BY <2>1, <2>3 DEF OtherRecords
<1>16. \E U : r \in Seq(U)
  <2>1. DOMAIN r = 1 .. Len(s) /\ Len(s) \in Nat
    BY <1>13
  <2>2. r = [i \in DOMAIN r |-> r[i]]
    BY <1>3 DEF RewriteServices
  <2>3. r \in [1 .. Len(s) -> Range(r)]
    BY <2>1, <2>2 DEF Range
  <2>4. r \in Seq(Range(r))
    BY <2>1, <2>3
  <2> QED
    BY <2>4
<1>17. HintsAreJudged(s, r, offer)
  <2>1. \A i \in DOMAIN s : /\ r[i].type = s[i].type
                            /\ s[i].type = "HTTPS" => second[i] = s[i]
    BY <1>1, <1>2, <1>4, <1>7 DEF SameTypes, HintsAreJudged, AgreeOn
  <2> QED
    BY <1>4, <1>7, <1>13, <2>1 DEF HintsAreJudged, AgreeOn
<1> QED
  BY <1>6, <1>11, <1>12, <1>15, <1>16, <1>17

\* Until the plugin runs, the answer is the resolver's.
RewritingInv == ~rewritten => answer \in Messages /\ preferred \in Offers

LEMMA AppliesKeeps ==
  ASSUME answer \in Messages, Applies
  PROVE  KeepsForeign
<1> DEFINE before == answer.answers
           after == answer'.answers
           records == Rewritten(before, preferred)
<1>1. answer \in [answers : Seq(Records), name_servers : Seq(Records),
                  additionals : Seq(Records), ad : BOOLEAN, dnssec_ok : BOOLEAN]
  BY MessagesOK
<1>2. \/ answer' = answer /\ records = before
      \/ answer' = WithoutDnssec([answer EXCEPT !.answers = records])
  BY DEF Applies, Rewrite, Rewritten
<1>3. /\ before \in Seq(Records) /\ answer.name_servers \in Seq(Records)
      /\ answer.additionals \in Seq(Records)
  BY <1>1
<1>4. /\ \E U : records \in Seq(U)
      /\ Reachable(before) \subseteq Reachable(records) \cup Inside
      /\ Reachable(records) \subseteq Reachable(before) \cup {preferred.ipv4, preferred.ipv6}
      /\ IsReplaced(records, before, "A", preferred.ipv4)
      /\ IsReplaced(records, before, "AAAA", preferred.ipv6)
      /\ HintsAreJudged(before, records, preferred)
      /\ OtherRecords(records) = OtherRecords(before)
  <2> HIDE DEF before
  <2> QED BY <1>3, RewrittenIs
\* The signatures that are dropped are none of these.
<1>5. /\ OtherRecords(after) = OtherRecords(records) /\ Reachable(after) = Reachable(records)
      /\ \A type \in {"A", "AAAA"} : AddressesOf(after, type) = AddressesOf(records, type)
      /\ Unsigned(after) = Unsigned(records)
      /\ \/ answer' = answer
         \/ /\ ~answer'.ad /\ ~answer'.dnssec_ok
            /\ \A section \in {"answers", "name_servers", "additionals"} :
                 Unsigned(answer'[section]) = answer'[section]
  <2>1. CASE answer' = answer /\ records = before
    <3>1. after = records
      BY <2>1
    <3> HIDE DEF records, before, after
    <3> QED BY <2>1, <3>1
  <2>2. CASE answer' = WithoutDnssec([answer EXCEPT !.answers = records])
    <3>1. /\ ~answer'.ad /\ ~answer'.dnssec_ok /\ after = Unsigned(records)
          /\ answer'.name_servers = Unsigned(answer.name_servers)
          /\ answer'.additionals = Unsigned(answer.additionals)
      <4> HIDE DEF records
      <4> QED BY <1>1, <2>2 DEF WithoutDnssec
    <3> HIDE DEF records, before, after
    <3>2. PICK U : records \in Seq(U)
      BY <1>4
    <3>3. /\ Unsigned(after) = after /\ OtherRecords(after) = OtherRecords(records)
          /\ \A type \in {"A", "AAAA"} : AddressesOf(after, type) = AddressesOf(records, type)
          /\ \A key : Hints(after, key) = Hints(records, key)
      BY <3>1, <3>2, UnsignedIs
    <3>4. Reachable(after) = Reachable(records)
      BY <3>3 DEF Reachable
    <3>5. /\ Unsigned(answer'.name_servers) = answer'.name_servers
          /\ Unsigned(answer'.additionals) = answer'.additionals
      BY <1>3, <3>1, UnsignedIs
    <3>6. \A section \in {"answers", "name_servers", "additionals"} :
            Unsigned(answer'[section]) = answer'[section]
      BY <3>3, <3>5 DEF after
    <3> QED
      BY <3>1, <3>3, <3>4, <3>6
  <2> QED
    BY <1>2, <2>1, <2>2
<1> HIDE DEF records, before, after
<1>6. HintsAreJudged(Unsigned(before), Unsigned(after), preferred)
  <2>1. HintsAreJudged(Unsigned(before), Unsigned(records), preferred)
    BY <1>3, <1>4, UnsignedPlaces
  <2> QED
    BY <1>5, <2>1
<1>7. /\ AddressesOf(after, "A") = Judged(AddressesOf(before, "A"), preferred.ipv4)
      /\ AddressesOf(after, "AAAA") = Judged(AddressesOf(before, "AAAA"), preferred.ipv6)
  BY <1>4, <1>5 DEF IsReplaced
<1>8. Inside \cap Outside = {}
  BY MessagesOK
<1>9. /\ Reachable(before) \cap Outside \subseteq Reachable(after)
      /\ Reachable(after) \subseteq Reachable(before) \cup {preferred.ipv4, preferred.ipv6}
  BY <1>4, <1>5, <1>8
<1> QED
  BY <1>4, <1>5, <1>6, <1>7, <1>9 DEF before, after, KeepsForeign

\* ForeignIsKept, for every answer and every offer: no address outside the ranges is
\* dropped, what is judged together is replaced together or stays, other records
\* stay, and a rewritten answer claims no DNSSEC in any section.
THEOREM ForeignStays == RewritingSpec => ForeignIsKept
<1>1. RewritingInit => RewritingInv
  BY DEF RewritingInit, RewritingInv
<1>2. RewritingInv /\ [RewritingNext]_rewriting => RewritingInv'
  BY DEF RewritingInv, RewritingNext, Applies, rewriting
<1>3. RewritingSpec => []RewritingInv
  BY <1>1, <1>2, PTL DEF RewritingSpec
<1>4. RewritingInv /\ [RewritingNext]_rewriting => [KeepsForeign]_rewriting
  BY AppliesKeeps DEF RewritingInv, RewritingNext, Applies
<1> QED
  BY <1>3, <1>4, PTL DEF RewritingSpec, ForeignIsKept
=============================================================================
