--------------------------- MODULE CommandLine_proofs ---------------------------
(***************************************************************************)
(* What the runs of the command line tool promise, for all files, imports, *)
(* texts, detectors and options: theorems about ProjectRun and AnalysisRun. *)
(***************************************************************************)
EXTENDS AnalysisRun, ProjectRun, SumTheorems, FiniteSetTheorems, TLAPS

-----------------------------------------------------------------------------
(* Selection and deduplication.                                            *)

(* Ascending(K) enumerates K: the rank of an index is its position.        *)
LEMMA AscendingEnumerates ==
  ASSUME NEW K \in SUBSET Nat, IsFiniteSet(K)
  PROVE  /\ Cardinality(K) \in Nat
         /\ Ascending(K) \in [1 .. Cardinality(K) -> K]
         /\ \A i \in K : \E n \in 1 .. Cardinality(K) : Ascending(K)[n] = i
         /\ IsInjective(Ascending(K))
<1> DEFINE Below(i) == {j \in K : j < i}
           Rank == [i \in K |-> Cardinality(Below(i)) + 1]
           N == Cardinality(K)
<1>1. N \in Nat
  BY FS_CardinalityType
<1>2. \A i \in K : /\ IsFiniteSet(Below(i))
                   /\ Cardinality(Below(i)) \in Nat
                   /\ Cardinality(Below(i)) < N
  <2> TAKE i \in K
  <2>1. Below(i) \in SUBSET K /\ Below(i) # K
    OBVIOUS
  <2>2. IsFiniteSet(Below(i)) /\ Cardinality(Below(i)) <= N /\ Cardinality(Below(i)) # N
    <3> HIDE DEF Below
    <3> QED
      BY <2>1, FS_Subset
  <2>3. Cardinality(Below(i)) \in Nat
    <3> HIDE DEF Below
    <3> QED
      BY <2>2, FS_CardinalityType
  <2> HIDE DEF Below, N
  <2> QED
    BY <1>1, <2>2, <2>3
<1>3. \A i, j \in K : i < j => Cardinality(Below(i)) < Cardinality(Below(j))
  <2> SUFFICES ASSUME NEW i \in K, NEW j \in K, i < j
               PROVE  Cardinality(Below(i)) < Cardinality(Below(j))
    OBVIOUS
  <2>1. Below(i) \in SUBSET Below(j) /\ i \in Below(j) /\ i \notin Below(i)
    <3>1. \A k \in K : k < i => k < j
      BY \A x, y, z \in Nat : x < y /\ y < z => x < z, i \in Nat, j \in Nat
    <3>2. ~ (i < i)
      BY i \in Nat
    <3> QED
      BY <3>1, <3>2
  <2>2. Cardinality(Below(i)) <= Cardinality(Below(j)) /\ Cardinality(Below(i)) # Cardinality(Below(j))
    <3> HIDE DEF Below
    <3> QED
      BY <2>1, <1>2, FS_Subset
  <2> HIDE DEF Below
  <2> QED
    BY <2>2, <1>2
<1>4. Rank \in Injection(K, 1 .. N)
  <2>1. \A i \in K : Rank[i] \in 1 .. N
    <3> HIDE DEF Below, N
    <3> QED
      BY <1>1, <1>2
  <2>2. \A i, j \in K : Rank[i] = Rank[j] => i = j
    <3> HIDE DEF Below
    <3>1. \A i, j \in K : i < j \/ j < i \/ i = j
      OBVIOUS
    <3> QED
      BY <1>2, <1>3, <3>1
  <2> HIDE DEF Below, N
  <2> QED
    BY <2>1, <2>2 DEF Injection, IsInjective
<1>5. \A n \in 1 .. N : \E i \in K : Rank[i] = n
  <2>1. IsFiniteSet(1 .. N) /\ Cardinality(1 .. N) = N
    BY <1>1, FS_Interval
  <2> HIDE DEF Rank
  <2>2. Rank \in Surjection(K, 1 .. N)
    BY <1>4, <2>1, FS_Injection
  <2> QED
    BY <2>2 DEF Surjection
<1>6. \A n \in 1 .. N : Ascending(K)[n] \in K /\ Rank[Ascending(K)[n]] = n
  <2> TAKE n \in 1 .. N
  <2>1. PICK i \in K : Rank[i] = n
    BY <1>5
  <2>2. Cardinality(Below(i)) = n - 1
    BY <1>1, <1>2, <2>1
  <2>3. Ascending(K)[n] = CHOOSE k \in K : Cardinality(Below(k)) = n - 1
    BY DEF Ascending
  <2>4. Ascending(K)[n] \in K /\ Cardinality(Below(Ascending(K)[n])) = n - 1
    <3> HIDE DEF Below, Rank, N
    <3> QED
      BY <2>2, <2>3
  <2> QED
    BY <1>1, <2>4
<1>7. DOMAIN Ascending(K) = 1 .. N /\ Ascending(K) \in [1 .. N -> K]
  BY <1>6 DEF Ascending
<1>8. \A i \in K : Rank[i] \in 1 .. N /\ Ascending(K)[Rank[i]] = i
  <2> HIDE DEF Rank, N
  <2> QED
    BY <1>4, <1>6 DEF Injection, IsInjective
<1> HIDE DEF Rank
<1> QED
  BY <1>1, <1>6, <1>7, <1>8 DEF IsInjective

(* Every key has its first occurrence, and only one.                       *)
LEMMA FirstsCover ==
  ASSUME NEW m \in Nat, NEW keys, DOMAIN keys = 1 .. m
  PROVE  /\ Firsts(keys) \in SUBSET (1 .. m)
         /\ IsFiniteSet(Firsts(keys))
         /\ \A i \in 1 .. m : \E k \in Firsts(keys) : keys[k] = keys[i]
         /\ \A j, k \in Firsts(keys) : keys[j] = keys[k] => j = k
<1>1. Firsts(keys) \in SUBSET (1 .. m)
  BY DEF Firsts
<1>2. IsFiniteSet(Firsts(keys))
  BY <1>1, FS_Interval, FS_Subset
<1>3. \A i \in 1 .. m : \E k \in Firsts(keys) : keys[k] = keys[i]
  <2> TAKE i \in 1 .. m
  <2> DEFINE Same == {j \in 1 .. m : keys[j] = keys[i]}
  <2>1. Same \in SUBSET Nat /\ Same # {}
    OBVIOUS
  <2>2. PICK k \in Same : \A j \in Same : k <= j
    <3> HIDE DEF Same
    <3> QED
      BY <2>1, LeastNatural
  <2>3. \A j \in 1 .. k - 1 : keys[j] # keys[k]
    BY <2>2
  <2> QED
    BY <2>2, <2>3 DEF Firsts
<1>4. \A j, k \in Firsts(keys) : keys[j] = keys[k] => j = k
  <2> SUFFICES ASSUME NEW j \in Firsts(keys), NEW k \in Firsts(keys), keys[j] = keys[k]
               PROVE  ~ (j < k) /\ ~ (k < j)
    BY <1>1
  <2> QED
    BY <1>1 DEF Firsts
<1> QED
  BY <1>1, <1>2, <1>3, <1>4

(* kept are the indices K, in the order in which Selection goes by them.   *)
Selects(fs, K, n, kept) ==
  /\ kept \in [1 .. n -> K]
  /\ Selection(fs, K) = [i \in 1 .. n |-> fs[kept[i]]]
  /\ \A i \in K : \E k \in 1 .. n : kept[k] = i
  /\ IsInjective(kept)

(* A selection goes by the indices in ascending order.                     *)
LEMMA SelectionIs ==
  ASSUME NEW fs, NEW K \in SUBSET Nat, IsFiniteSet(K)
  PROVE  \E n \in Nat : \E kept : Selects(fs, K, n, kept)
<1> DEFINE kept == Ascending(K)
           n == Cardinality(K)
<1>1. Selection(fs, K) = [i \in DOMAIN kept |-> fs[kept[i]]]
  BY DEF Selection
<1>2. /\ n \in Nat
      /\ kept \in [1 .. n -> K]
      /\ \A i \in K : \E k \in 1 .. n : kept[k] = i
      /\ IsInjective(kept)
  BY AscendingEnumerates
<1> HIDE DEF kept, n
<1>3. Selection(fs, K) = [i \in 1 .. n |-> fs[kept[i]]]
  BY <1>1, <1>2
<1>4. Selects(fs, K, n, kept)
  BY <1>2, <1>3 DEF Selects
<1> QED
  BY <1>2, <1>4

(* A selection from a sequence has the entries at the indices chosen.      *)
LEMMA SelectionHas ==
  ASSUME NEW S, NEW s \in Seq(S), NEW K \in SUBSET DOMAIN s
  PROVE  /\ Selection(s, K) \in Seq(S)
         /\ ToSet(Selection(s, K)) = {s[i] : i \in K}
<1>1. PICK m \in Nat : DOMAIN s = 1 .. m
  OBVIOUS
<1>2. K \in SUBSET Nat /\ IsFiniteSet(K)
  <2>1. IsFiniteSet(1 .. m)
    BY FS_Interval
  <2> QED
    BY <1>1, <2>1, FS_Subset
<1>3. PICK n \in Nat : \E kept : Selects(s, K, n, kept)
  BY <1>2, SelectionIs
<1>4. PICK kept : Selects(s, K, n, kept)
  BY <1>3
<1>5. \A i \in 1 .. n : kept[i] \in K /\ s[kept[i]] \in S
  BY <1>4 DEF Selects
<1>6. Selection(s, K) = [i \in 1 .. n |-> s[kept[i]]]
  BY <1>4 DEF Selects
<1>7. [i \in 1 .. n |-> s[kept[i]]] \in Seq(S)
  BY <1>5
<1>8. ToSet(Selection(s, K)) = {s[kept[i]] : i \in 1 .. n}
  BY <1>6 DEF ToSet
<1>9. \A i \in K : \E k \in 1 .. n : kept[k] = i
  BY <1>4 DEF Selects
<1>10. {s[kept[i]] : i \in 1 .. n} = {s[i] : i \in K}
  <2>1. ASSUME NEW i \in K PROVE s[i] \in {s[kept[k]] : k \in 1 .. n}
    <3>1. PICK k \in 1 .. n : kept[k] = i
      BY <1>9
    <3> QED
      BY <3>1
  <2>2. ASSUME NEW k \in 1 .. n PROVE s[kept[k]] \in {s[i] : i \in K}
    BY <1>5
  <2> QED
    BY <2>1, <2>2
<1> QED
  BY <1>6, <1>7, <1>8, <1>10

(* A list of m entries and their keys; kept are the n indices of it that   *)
(* deduplication keeps.                                                    *)
Keyed(fs, keys, m) == DOMAIN fs = 1 .. m /\ DOMAIN keys = 1 .. m
KeptOf(fs, keys, m, n, kept) ==
  /\ kept \in [1 .. n -> 1 .. m]
  /\ Deduplicated(fs, keys) = [i \in 1 .. n |-> fs[kept[i]]]
  /\ \A i \in 1 .. m : \E k \in 1 .. n : keys[kept[k]] = keys[i]
  /\ \A j, k \in 1 .. n : keys[kept[j]] = keys[kept[k]] => j = k

(* A deduplicated list has some of the entries, every key of them, once.   *)
LEMMA DeduplicatedIs ==
  ASSUME NEW m \in Nat, NEW fs, NEW keys, Keyed(fs, keys, m)
  PROVE  \E n \in Nat : \E kept : KeptOf(fs, keys, m, n, kept)
<1> DEFINE K == Firsts(keys)
<1>1. /\ K \in SUBSET (1 .. m)
      /\ IsFiniteSet(K)
      /\ \A i \in 1 .. m : \E k \in K : keys[k] = keys[i]
      /\ \A j, k \in K : keys[j] = keys[k] => j = k
  BY FirstsCover DEF Keyed
<1>2. K \in SUBSET Nat
  BY <1>1
<1>3. Deduplicated(fs, keys) = Selection(fs, K)
  BY DEF Deduplicated
<1> HIDE DEF K
<1>4. PICK n \in Nat : \E kept : Selects(fs, K, n, kept)
  BY <1>1, <1>2, SelectionIs
<1>5. PICK kept : Selects(fs, K, n, kept)
  BY <1>4
<1>6. /\ kept \in [1 .. n -> K]
      /\ \A i \in K : \E k \in 1 .. n : kept[k] = i
      /\ \A j, k \in 1 .. n : kept[j] = kept[k] => j = k
      /\ Deduplicated(fs, keys) = [i \in 1 .. n |-> fs[kept[i]]]
  BY <1>3, <1>5 DEF Selects, IsInjective
<1>7. \A i \in 1 .. m : \E k \in 1 .. n : keys[kept[k]] = keys[i]
  <2> TAKE i \in 1 .. m
  <2>1. PICK q \in K : keys[q] = keys[i]
    BY <1>1
  <2>2. PICK k \in 1 .. n : kept[k] = q
    BY <1>6
  <2> QED
    BY <2>1, <2>2
<1>8. \A j, k \in 1 .. n : keys[kept[j]] = keys[kept[k]] => j = k
  BY <1>1, <1>6
<1>9. kept \in [1 .. n -> 1 .. m]
  BY <1>1, <1>6
<1>10. KeptOf(fs, keys, m, n, kept)
  BY <1>6, <1>7, <1>8, <1>9 DEF KeptOf
<1> QED
  BY <1>10

(* What a concatenation has.                                               *)
LEMMA ConcatHas ==
  ASSUME NEW S, NEW s \in Seq(S), NEW t \in Seq(S)
  PROVE  s \o t \in Seq(S) /\ ToSet(s \o t) = ToSet(s) \cup ToSet(t)
<1>1. s \o t \in Seq(S) /\ Len(s) \in Nat /\ Len(t) \in Nat /\ Len(s \o t) = Len(s) + Len(t)
  OBVIOUS
<1>2. \A i \in DOMAIN (s \o t) : \/ i \in DOMAIN s /\ (s \o t)[i] = s[i]
                                 \/ i - Len(s) \in DOMAIN t /\ (s \o t)[i] = t[i - Len(s)]
  OBVIOUS
<1>3. \A i \in DOMAIN s : i \in DOMAIN (s \o t) /\ (s \o t)[i] = s[i]
  OBVIOUS
<1>4. \A i \in DOMAIN t : i + Len(s) \in DOMAIN (s \o t) /\ (s \o t)[i + Len(s)] = t[i]
  OBVIOUS
<1>5. ASSUME NEW x \in ToSet(s) \cup ToSet(t) PROVE x \in ToSet(s \o t)
  BY <1>3, <1>4 DEF ToSet
<1>6. ASSUME NEW x \in ToSet(s \o t) PROVE x \in ToSet(s) \cup ToSet(t)
  BY <1>2 DEF ToSet
<1> QED
  BY <1>1, <1>5, <1>6

(* What the concatenation of a list of sequences has.                      *)
LEMMA FlattenHas ==
  ASSUME NEW S, NEW seqs \in Seq(Seq(S))
  PROVE  /\ FlattenSeq(seqs) \in Seq(S)
         /\ ToSet(FlattenSeq(seqs)) = UNION {ToSet(seqs[i]) : i \in DOMAIN seqs}
<1> DEFINE n == Len(seqs)
<1>1. n \in Nat /\ DOMAIN seqs = 1 .. n
  OBVIOUS
<1>2. CASE n = 0
  <2>1. seqs = << >> /\ FlattenSeq(seqs) = seqs
    BY <1>2 DEF FlattenSeq
  <2>2. DOMAIN seqs = {} /\ << >> \in Seq(S)
    BY <2>1
  <2>3. ToSet(seqs) = {} /\ UNION {ToSet(seqs[i]) : i \in DOMAIN seqs} = {}
    BY <2>2 DEF ToSet
  <2> QED
    BY <2>1, <2>2, <2>3
<1>3. CASE n # 0
  <2> DEFINE r == CHOOSE q : Flattens(q, seqs)
             Holds(i) == r[i] \in Seq(S) /\ ToSet(r[i]) = UNION {ToSet(seqs[j]) : j \in 1 .. i}
             Done == {m \in Nat : \A i \in 1 .. m : i <= n => Holds(i)}
  <2>1. Flattens(r, seqs)
    BY FlattensExists, Zenon
  <2>2. FlattenSeq(seqs) = r[n]
    BY <1>3, Zenon DEF FlattenSeq, Flattens
  <2> HIDE DEF r
  <2>3. \A i \in 1 .. n : r[i] = IF i = 1 THEN seqs[i] ELSE r[i - 1] \o seqs[i]
    BY <2>1 DEF Flattens
  <2>4. \A i \in 1 .. n : seqs[i] \in Seq(S)
    BY <1>1
  <2>5. 0 \in Done
    OBVIOUS
  <2>6. ASSUME NEW m \in Nat, m \in Done PROVE m + 1 \in Done
    <3> SUFFICES ASSUME m + 1 <= n PROVE Holds(m + 1)
      <4>1. \A i \in 1 .. m + 1 : i = m + 1 \/ i \in 1 .. m
        OBVIOUS
      <4> HIDE DEF Holds
      <4> QED
        BY <2>6, <4>1
    <3>1. m + 1 \in 1 .. n /\ (m = 0 \/ m \in 1 .. n)
      BY <1>1
    <3>2. CASE m = 0
      <4>1. r[1] = seqs[1] /\ seqs[1] \in Seq(S)
        BY <2>3, <2>4, <3>1, <3>2
      <4>2. {ToSet(seqs[j]) : j \in 1 .. 1} = {ToSet(seqs[1])}
        OBVIOUS
      <4> QED
        BY <3>2, <4>1, <4>2
    <3>3. CASE m # 0
      <4>1. Holds(m)
        <5>1. m \in 1 .. m /\ m <= n
          BY <1>1, <3>1, <3>3
        <5> HIDE DEF Holds
        <5> QED
          BY <2>6, <5>1
      <4>2. r[m + 1] = r[m] \o seqs[m + 1] /\ seqs[m + 1] \in Seq(S)
        <5>1. PICK i \in 1 .. n : i = m + 1
          BY <3>1
        <5>2. i # 1 /\ i - 1 = m
          BY <3>3, <5>1
        <5>3. r[i] = r[i - 1] \o seqs[i]
          BY <2>3, <5>2
        <5> QED
          BY <2>4, <5>1, <5>2, <5>3
      <4>3. r[m + 1] \in Seq(S) /\ ToSet(r[m + 1]) = ToSet(r[m]) \cup ToSet(seqs[m + 1])
        BY <4>1, <4>2, ConcatHas
      <4>4. \A j : j \in 1 .. m + 1 <=> j \in 1 .. m \/ j = m + 1
        OBVIOUS
      <4>5. UNION {ToSet(seqs[j]) : j \in 1 .. m + 1} = (UNION {ToSet(seqs[j]) : j \in 1 .. m}) \cup ToSet(seqs[m + 1])
        BY <4>4
      <4> QED
        BY <4>1, <4>3, <4>5
    <3> QED
      BY <3>2, <3>3
  <2>7. \A m \in Nat : m \in Done
    <3> HIDE DEF Done
    <3> QED
      BY <2>5, <2>6, NaturalsIn
  <2>8. Holds(n)
    <3> HIDE DEF Holds
    <3>1. n \in 1 .. n /\ n <= n
      BY <1>1, <1>3
    <3>2. n \in Done
      BY <1>1, <2>7
    <3> QED
      BY <3>1, <3>2
  <2> QED
    BY <1>1, <2>2, <2>8
<1> QED
  BY <1>2, <1>3

-----------------------------------------------------------------------------
(* Orders of a graph.                                                      *)

(* A sequence of the elements of a finite set has each of them once.       *)
LEMMA EachElementOnce ==
  ASSUME NEW S, IsFiniteSet(S), NEW s \in SetToSeqs(S)
  PROVE  /\ Cardinality(S) \in Nat
         /\ s \in [1 .. Cardinality(S) -> S]
         /\ \A i, j \in 1 .. Cardinality(S) : s[i] = s[j] => i = j
         /\ \A x \in S : \E i \in 1 .. Cardinality(S) : s[i] = x
<1> DEFINE N == Cardinality(S)
<1>1. N \in Nat
  BY FS_CardinalityType
<1>2. s \in [1 .. N -> S] /\ \A i, j \in 1 .. N : s[i] = s[j] => i = j
  BY DEF SetToSeqs
<1>3. s \in Injection(1 .. N, S)
  BY <1>2 DEF Injection, IsInjective
<1>4. Cardinality(1 .. N) = N
  BY <1>1, FS_Interval
<1>5. s \in Surjection(1 .. N, S)
  BY <1>3, <1>4, FS_Injection
<1> HIDE DEF N
<1> QED
  BY <1>1, <1>2, <1>5 DEF Surjection, N

(* In such a sequence a topological order is read off the indices.         *)
LEMMA OrderedByIndex ==
  ASSUME NEW S, IsFiniteSet(S), NEW E \in SUBSET (S \X S), NEW s \in SetToSeqs(S)
  PROVE  s \in TopologicalOrders(S, E) <=>
           \A i, j \in 1 .. Cardinality(S) : <<s[i], s[j]>> \in E => i < j
<1> DEFINE N == Cardinality(S)
<1>1. /\ N \in Nat
      /\ s \in [1 .. N -> S]
      /\ \A i, j \in 1 .. N : s[i] = s[j] => i = j
      /\ \A x \in S : \E i \in 1 .. N : s[i] = x
  BY EachElementOnce
<1> HIDE DEF N
<1>2. \A i \in 1 .. N : Positions(s, s[i]) = i
  BY <1>1 DEF Positions
<1>3. s \in TopologicalOrders(S, E) <=> \A e \in E : Positions(s, e[1]) < Positions(s, e[2])
  BY DEF TopologicalOrders
<1>4. ASSUME s \in TopologicalOrders(S, E), NEW i \in 1 .. N, NEW j \in 1 .. N,
             <<s[i], s[j]>> \in E
      PROVE  i < j
  BY <1>2, <1>3, <1>4
<1>5. ASSUME \A i, j \in 1 .. N : <<s[i], s[j]>> \in E => i < j, NEW e \in E
      PROVE  Positions(s, e[1]) < Positions(s, e[2])
  <2>1. PICK x \in S, y \in S : e = <<x, y>>
    OBVIOUS
  <2>2. PICK i \in 1 .. N : s[i] = x
    BY <1>1
  <2>3. PICK j \in 1 .. N : s[j] = y
    BY <1>1
  <2>4. i < j
    BY <1>5, <2>1, <2>2, <2>3
  <2>5. Positions(s, x) = i /\ Positions(s, y) = j
    BY <1>2, <2>2, <2>3
  <2> QED
    BY <2>1, <2>4, <2>5
<1> QED
  BY <1>3, <1>4, <1>5 DEF N

(* A graph in which every set of nodes has one that no other of them, nor  *)
(* itself, leads to can be ordered.                                        *)
LEMMA OrderExists ==
  ASSUME NEW S, IsFiniteSet(S), NEW E \in SUBSET (S \X S),
         \A T \in SUBSET S : T # {} => \E x \in T : \A y \in T : <<y, x>> \notin E
  PROVE  TopologicalOrders(S, E) # {}
<1> DEFINE Ordered(T) == \E s \in SetToSeqs(T) :
              \A i, j \in 1 .. Cardinality(T) : <<s[i], s[j]>> \in E => i < j
           Bad == {T \in SUBSET S : ~ Ordered(T)}
<1>1. SUFFICES ASSUME Bad # {} PROVE FALSE
  <2>1. Ordered(S)
    BY <1>1
  <2>2. PICK s \in SetToSeqs(S) :
              \A i, j \in 1 .. Cardinality(S) : <<s[i], s[j]>> \in E => i < j
    BY <2>1
  <2>3. s \in TopologicalOrders(S, E)
    BY <2>2, OrderedByIndex
  <2> QED
    BY <2>3
<1>2. \A T \in Bad : IsFiniteSet(T)
  BY FS_Subset
<1>3. PICK T \in Bad : \A U \in Bad : Cardinality(T) <= Cardinality(U)
  <2> HIDE DEF Bad
  <2> QED
    BY <1>1, <1>2, LeastFiniteSet
<1>4. IsFiniteSet(T) /\ T \in SUBSET S
  BY <1>2
<1>5. T # {}
  <2> SUFFICES ASSUME T = {} PROVE FALSE
    OBVIOUS
  <2>1. Cardinality(T) = 0
    BY FS_EmptySet
  <2>2. [i \in 1 .. 0 |-> 0] \in SetToSeqs(T)
    BY <2>1 DEF SetToSeqs
  <2>3. Ordered(T)
    BY <2>1, <2>2
  <2> QED
    BY <2>3
<1>6. PICK x \in T : \A y \in T : <<y, x>> \notin E
  BY <1>4, <1>5
<1> DEFINE U == T \ {x}
           n == Cardinality(U)
<1>7. n \in Nat /\ Cardinality(T) = n + 1 /\ IsFiniteSet(U)
  <2>1. IsFiniteSet(U) /\ Cardinality(U) = Cardinality(T) - 1
    BY <1>4, <1>6, FS_RemoveElement
  <2>2. Cardinality(U) \in Nat /\ Cardinality(T) \in Nat
    <3> HIDE DEF U
    <3> QED
      BY <1>4, <2>1, FS_CardinalityType
  <2> QED
    BY <2>1, <2>2
<1>8. U \notin Bad
  <2> HIDE DEF Bad, U
  <2> QED
    BY <1>3, <1>7
<1>9. PICK s \in SetToSeqs(U) : \A i, j \in 1 .. n : <<s[i], s[j]>> \in E => i < j
  BY <1>4, <1>8
<1>10. /\ s \in [1 .. n -> U]
       /\ \A i, j \in 1 .. n : s[i] = s[j] => i = j
  <2> HIDE DEF U
  <2> QED
    BY <1>7, EachElementOnce
<1> DEFINE t == [i \in 1 .. n + 1 |-> IF i = 1 THEN x ELSE s[i - 1]]
<1>11. \A i \in 1 .. n + 1 : i = 1 \/ (i - 1 \in 1 .. n /\ t[i] = s[i - 1] /\ t[i] \in U)
  <2> HIDE DEF U, n
  <2> QED
    BY <1>7, <1>10
<1>12. t[1] = x /\ DOMAIN t = 1 .. n + 1
  <2> HIDE DEF U, n
  <2> QED
    BY <1>7
<1> HIDE DEF t, n
<1>13. t \in SetToSeqs(T)
  <2>1. t \in [1 .. n + 1 -> T]
    <3>1. \A i \in 1 .. n + 1 : t[i] \in T
      BY <1>11, <1>12
    <3>2. t = [i \in 1 .. n + 1 |-> t[i]]
      BY <1>12 DEF t
    <3> QED
      BY <3>1, <3>2
  <2>2. ASSUME NEW i \in 1 .. n + 1, NEW j \in 1 .. n + 1, i # j
        PROVE  t[i] # t[j]
    <3>1. CASE i = 1
      BY <1>11, <1>12, <2>2, <3>1
    <3>2. CASE j = 1
      BY <1>11, <1>12, <2>2, <3>2
    <3>3. CASE i # 1 /\ j # 1
      <4>1. i - 1 # j - 1
        BY <1>7, <2>2
      <4> QED
        BY <1>10, <1>11, <3>3, <4>1
    <3> QED
      BY <3>1, <3>2, <3>3
  <2> QED
    BY <1>7, <2>1, <2>2 DEF SetToSeqs
<1>14. ASSUME NEW i \in 1 .. n + 1, NEW j \in 1 .. n + 1, <<t[i], t[j]>> \in E
       PROVE  i < j
  <2>1. j # 1
    <3>1. t[i] \in T
      BY <1>11, <1>12
    <3> QED
      BY <1>6, <1>12, <1>14, <3>1
  <2>2. CASE i = 1
    BY <1>7, <2>1, <2>2
  <2>3. CASE i # 1
    <3>1. i - 1 \in 1 .. n /\ j - 1 \in 1 .. n /\ <<s[i - 1], s[j - 1]>> \in E
      BY <1>11, <1>14, <2>1, <2>3
    <3>2. i - 1 < j - 1
      BY <1>9, <3>1
    <3> QED
      BY <1>7, <3>2
  <2> QED
    BY <2>2, <2>3
<1>15. Ordered(T)
  BY <1>7, <1>13, <1>14
<1> QED
  BY <1>15

-----------------------------------------------------------------------------
(* ProjectRun: types.                                                      *)

CanonicalPaths == Files \X {"canonical"}

ProjectTypes ==
  /\ project \in [imports : ImportGraphs, unreadable : UnreadableSets,
                  unparsable : UnparsableSets, canonicalRoot : BOOLEAN]
  /\ options \in OptionSets
  /\ phase \in {"collect", "error", "graph", "analyze", "report", "done"}
  /\ unscanned \in Seq(GraphPaths)
  /\ nodes \in SUBSET CanonicalPaths
  /\ order \in Seq(GraphPaths)
  /\ analyzed \in 0 .. Len(order)
  /\ summary \in Summary
  /\ sourceFound \in Seq(Finding)
  /\ depFound \in Seq(Finding)
  /\ allFound \in Seq(Finding)
  /\ exit \in Codes \cup {None}
  /\ phase \in {"collect", "error", "graph"} =>
       order = << >> /\ analyzed = 0 /\ sourceFound = << >> /\ depFound = << >>

(* The graph has finitely many nodes, and an order of it is a sequence.    *)
LEMMA NodesFinite ==
  ASSUME ProjectTypes
  PROVE  /\ IsFiniteSet(nodes)
         /\ \A E : TopologicalOrders(nodes, E) \subseteq SetToSeqs(nodes)
         /\ SetToSeqs(nodes) \subseteq Seq(GraphPaths)
         /\ \A s \in SetToSeqs(nodes) : \A i \in DOMAIN s : s[i] = NodeOf(s[i])
<1>1. IsFiniteSet(CanonicalPaths)
  BY ProjectAssumption, FS_Singleton, FS_Product DEF CanonicalPaths
<1>2. nodes \in SUBSET CanonicalPaths
  BY DEF ProjectTypes
<1>3. IsFiniteSet(nodes)
  BY <1>1, <1>2, FS_Subset
<1>4. \A E : TopologicalOrders(nodes, E) \subseteq SetToSeqs(nodes)
  BY DEF TopologicalOrders
<1>5. ASSUME NEW s \in SetToSeqs(nodes)
      PROVE  s \in Seq(GraphPaths) /\ \A i \in DOMAIN s : s[i] = NodeOf(s[i])
  <2>1. Cardinality(nodes) \in Nat /\ s \in [1 .. Cardinality(nodes) -> nodes]
    BY <1>3, EachElementOnce
  <2>2. nodes \subseteq GraphPaths
    BY <1>2 DEF CanonicalPaths, GraphPaths
  <2>3. s \in Seq(GraphPaths)
    BY <2>1, <2>2
  <2>4. \A p \in nodes : p = NodeOf(p)
    BY <1>2 DEF CanonicalPaths, NodeOf, Canonical, FileOf
  <2> QED
    BY <2>1, <2>3, <2>4
<1> QED
  BY <1>3, <1>4, <1>5

(* A nonempty sequence is its head and its tail.                           *)
LEMMA HeadAndTail ==
  ASSUME NEW S, NEW s \in Seq(S), s # << >>
  PROVE  /\ Head(s) \in S /\ Tail(s) \in Seq(S)
         /\ Head(s) \in ToSet(s)
         /\ ToSet(Tail(s)) \subseteq ToSet(s)
         /\ \A x \in ToSet(s) : x = Head(s) \/ x \in ToSet(Tail(s))
<1>1. Head(s) \in S /\ Tail(s) \in Seq(S) /\ Head(s) = s[1] /\ 1 \in DOMAIN s
  OBVIOUS
<1>2. \A i \in DOMAIN Tail(s) : Tail(s)[i] = s[i + 1] /\ i + 1 \in DOMAIN s
  OBVIOUS
<1>3. \A i \in DOMAIN s : i # 1 => i - 1 \in DOMAIN Tail(s) /\ Tail(s)[i - 1] = s[i]
  OBVIOUS
<1>4. \A x \in ToSet(Tail(s)) : x \in ToSet(s)
  BY <1>2 DEF ToSet
<1>5. \A x \in ToSet(s) : x = Head(s) \/ x \in ToSet(Tail(s))
  <2> TAKE x \in ToSet(s)
  <2>1. PICK i \in DOMAIN s : x = s[i]
    BY DEF ToSet
  <2>2. CASE i = 1
    BY <1>1, <2>1, <2>2
  <2>3. CASE i # 1
    BY <1>3, <2>1, <2>3 DEF ToSet
  <2> QED
    BY <2>2, <2>3
<1>6. Head(s) \in ToSet(s)
  BY <1>1 DEF ToSet
<1> QED
  BY <1>1, <1>4, <1>5, <1>6

(* Listing files keeps their number and their order.                       *)
LEMMA ListedTyped ==
  /\ \A f \in Files : Listed(f) \in GraphPaths /\ FileOf(Listed(f)) = f
  /\ \A fs \in Seq(Files) : /\ ListedPaths(fs) \in Seq(GraphPaths)
                            /\ DOMAIN ListedPaths(fs) = DOMAIN fs
                            /\ \A i \in DOMAIN fs : ListedPaths(fs)[i] = Listed(fs[i]) /\ fs[i] \in Files
<1>1. \A f \in Files : Listed(f) \in GraphPaths /\ FileOf(Listed(f)) = f
  BY DEF Listed, GraphPaths, FileOf
<1> QED
  BY <1>1 DEF ListedPaths

(* The listed paths are paths of the project's files, in the form the      *)
(* project directory was given in.                                         *)
LEMMA ListsTyped ==
  ASSUME ProjectTypes
  PROVE  /\ SourcePaths \in Seq(GraphPaths) /\ DepPaths \in Seq(GraphPaths)
         /\ AllFiles \in Seq(GraphPaths)
         /\ \A i \in DOMAIN AllFiles : AllFiles[i] = Listed(FileOf(AllFiles[i]))
<1>1. \A f \in Files : Listed(f) \in GraphPaths /\ FileOf(Listed(f)) = f
  BY ListedTyped
<1>2. \A fs \in Seq(Files) : /\ ListedPaths(fs) \in Seq(GraphPaths)
                             /\ DOMAIN ListedPaths(fs) = DOMAIN fs
                             /\ \A i \in DOMAIN fs : ListedPaths(fs)[i] = Listed(fs[i]) /\ fs[i] \in Files
  BY ListedTyped
<1>3. SourceFiles \in Seq(Files) /\ LibraryFiles \in Seq(Files)
  BY ProjectAssumption
<1>4. /\ SourcePaths \in Seq(GraphPaths)
      /\ \A i \in DOMAIN SourcePaths : SourcePaths[i] = Listed(FileOf(SourcePaths[i]))
  BY <1>1, <1>2, <1>3 DEF SourcePaths
<1>5. /\ DepPaths \in Seq(GraphPaths)
      /\ \A i \in DOMAIN DepPaths : DepPaths[i] = Listed(FileOf(DepPaths[i]))
  BY <1>1, <1>2, <1>3 DEF DepPaths
<1>6. AllFiles \in Seq(GraphPaths)
  BY <1>4, <1>5 DEF AllFiles
<1>7. ASSUME NEW i \in DOMAIN AllFiles
      PROVE  \/ i \in DOMAIN SourcePaths /\ AllFiles[i] = SourcePaths[i]
             \/ /\ i - Len(SourcePaths) \in DOMAIN DepPaths
                /\ AllFiles[i] = DepPaths[i - Len(SourcePaths)]
  BY <1>4, <1>5 DEF AllFiles
<1> QED
  BY <1>4, <1>5, <1>6, <1>7

(* What is known of a file that is analysed.                               *)
LEMMA FindingsTyped ==
  ASSUME NEW path \in GraphPaths
  PROVE  /\ FileOf(path) \in Files
         /\ Findings[FileOf(path)] \in Seq(Severities)
         /\ FindingsAt(path) \in Seq(Finding)
         /\ DOMAIN FindingsAt(path) = DOMAIN Findings[FileOf(path)]
         /\ \A i \in DOMAIN Findings[FileOf(path)] :
              /\ FindingsAt(path)[i].path = path
              /\ FindingsAt(path)[i].severity = Findings[FileOf(path)][i]
<1>1. FileOf(path) \in Files
  BY DEF GraphPaths, FileOf
<1>2. Findings[FileOf(path)] \in Seq(Severities)
  BY <1>1, ProjectAssumption
<1> DEFINE fs == Findings[FileOf(path)]
           at == [i \in DOMAIN fs |-> [path |-> path, line |-> i, severity |-> fs[i]]]
<1>3. FindingsAt(path) = at
  BY DEF FindingsAt
<1>4. \A i \in DOMAIN fs : at[i] \in Finding /\ at[i].path = path /\ at[i].severity = fs[i]
  BY <1>2 DEF Finding
<1>5. at \in Seq(Finding)
  <2>1. Len(fs) \in Nat /\ DOMAIN fs = 1 .. Len(fs)
    BY <1>2
  <2>2. at \in [1 .. Len(fs) -> Finding]
    <3> HIDE DEF fs
    <3> QED
      BY <1>4, <2>1
  <2> HIDE DEF fs, at
  <2> QED
    BY <2>1, <2>2
<1> QED
  BY <1>1, <1>2, <1>3, <1>4, <1>5

(* Counting findings keeps the summary a summary.                          *)
LEMMA SummaryTyped ==
  ASSUME NEW sum \in Summary, NEW fs \in Seq(Finding)
  PROVE  /\ [sum EXCEPT !.failed = @ + 1] \in Summary
         /\ \A s \in Severities : Cardinality({i \in DOMAIN fs : fs[i].severity = s}) \in Nat
         /\ [sum EXCEPT !.successful = @ + 1, !.total = @ + Len(fs),
                        !.bySeverity = [s \in Severities |->
                           @[s] + Cardinality({i \in DOMAIN fs : fs[i].severity = s})]] \in Summary
<1>1. \A s : Cardinality({i \in DOMAIN fs : fs[i].severity = s}) \in Nat
  <2> TAKE s
  <2> DEFINE D == {i \in DOMAIN fs : fs[i].severity = s}
  <2>1. PICK m \in Nat : m = Len(fs) /\ D \in SUBSET (1 .. m)
    OBVIOUS
  <2> HIDE DEF D
  <2>2. IsFiniteSet(D)
    <3>1. IsFiniteSet(1 .. m)
      BY FS_Interval
    <3> QED
      BY <2>1, <3>1, FS_Subset
  <2>3. Cardinality(D) \in Nat
    BY <2>2, FS_CardinalityType
  <2> QED
    BY <2>3 DEF D
<1> DEFINE more == [s \in Severities |->
              sum.bySeverity[s] + Cardinality({i \in DOMAIN fs : fs[i].severity = s})]
<1>2. more \in [Severities -> Nat]
  <2>1. \A s \in Severities : sum.bySeverity[s] \in Nat
    BY DEF Summary
  <2>2. \A s \in Severities : more[s] \in Nat
    <3>1. \A a, b \in Nat : a + b \in Nat
      OBVIOUS
    <3> QED
      BY <1>1, <2>1, <3>1
  <2> QED
    BY <2>2
<1> HIDE DEF more
<1>3. [sum EXCEPT !.successful = @ + 1, !.total = @ + Len(fs), !.bySeverity = more] \in Summary
  <2>1. Len(fs) \in Nat
    OBVIOUS
  <2>2. sum.total + Len(fs) \in Nat /\ sum.successful + 1 \in Nat
    BY <2>1 DEF Summary
  <2> QED
    BY <1>2, <2>2 DEF Summary
<1>4. [sum EXCEPT !.failed = @ + 1] \in Summary
  BY DEF Summary
<1> QED
  BY <1>1, <1>3, <1>4 DEF more

(* Deduplication only leaves findings out.                                 *)
LEMMA DeduplicatedTyped ==
  ASSUME NEW fs \in Seq(Finding)
  PROVE  /\ Deduplicated(fs, Places(fs)) \in Seq(Finding)
         /\ \A i \in DOMAIN Deduplicated(fs, Places(fs)) :
              \E k \in DOMAIN fs : Deduplicated(fs, Places(fs))[i] = fs[k]
<1> DEFINE keys == Places(fs)
           m == Len(fs)
<1>1. m \in Nat /\ DOMAIN fs = 1 .. m /\ DOMAIN keys = 1 .. m
  BY DEF Places
<1> HIDE DEF keys, m
<1>2. PICK n \in Nat : \E kept : KeptOf(fs, keys, m, n, kept)
  BY <1>1, DeduplicatedIs DEF Keyed
<1>3. PICK kept : KeptOf(fs, keys, m, n, kept)
  BY <1>2
<1>4. \A i \in 1 .. n : kept[i] \in DOMAIN fs /\ fs[kept[i]] \in Finding
  BY <1>1, <1>3 DEF KeptOf
<1>5. [i \in 1 .. n |-> fs[kept[i]]] \in Seq(Finding)
  BY <1>4
<1> QED
  BY <1>3, <1>4, <1>5 DEF keys, KeptOf

(* A project's run starts well typed.                                      *)
LEMMA ProjectTypesInit == ProjectInit => ProjectTypes
<1> SUFFICES ASSUME ProjectInit PROVE ProjectTypes
  OBVIOUS
<1>1. EmptySummary \in Summary
  BY DEF EmptySummary, Summary
<1>2. /\ unscanned = << >> /\ order = << >> /\ sourceFound = << >>
      /\ depFound = << >> /\ allFound = << >>
  BY DEF ProjectInit
<1>3. /\ << >> \in Seq(GraphPaths) /\ << >> \in Seq(Finding) /\ Len(order) = 0
  BY <1>2
<1> QED
  BY <1>1, <1>2, <1>3 DEF ProjectInit, ProjectTypes

(* A step of a project's run keeps its types.                              *)
LEMMA ProjectTypesNext ==
  ASSUME ProjectTypes, [ProjectNext]_projectVars
  PROVE  ProjectTypes'
<1> USE DEF ProjectTypes
<1>1. ASSUME Collect PROVE ProjectTypes'
  <2>1. AllFiles \in Seq(GraphPaths)
    BY ListsTyped
  <2>2. \A p \in ToSet(AllFiles) : NodeOf(p) \in CanonicalPaths
    <3>1. \A p \in ToSet(AllFiles) : p \in GraphPaths
      BY <2>1 DEF ToSet
    <3> QED
      BY <3>1 DEF NodeOf, Canonical, CanonicalPaths, GraphPaths, FileOf
  <2> QED
    BY <1>1, <2>1, <2>2 DEF Collect, collected
<1>2. ASSUME ScanImports PROVE ProjectTypes'
  <2> DEFINE from == Head(unscanned)
             resolved == {<<g, "canonical">> : g \in project.imports[FileOf(from)]}
  <2>1. from \in GraphPaths /\ Tail(unscanned) \in Seq(GraphPaths)
    BY <1>2, HeadAndTail DEF ScanImports
  <2>2. project.imports[FileOf(from)] \in SUBSET Files
    <3>1. project.imports \in [Files -> SUBSET Files]
      BY ProjectAssumption
    <3>2. FileOf(from) \in Files
      BY <2>1 DEF FileOf, GraphPaths
    <3> QED
      BY <3>1, <3>2
  <2>3. WithImported(resolved) \in SUBSET CanonicalPaths
    BY <2>2 DEF WithImported, NodeOf, Canonical, CanonicalPaths, FileOf
  <2> QED
    BY <1>2, <2>1, <2>3 DEF ScanImports, collected
<1>3. ASSUME ScanFails PROVE ProjectTypes'
  <2>1. AllFiles \in Seq(GraphPaths)
    BY ListsTyped
  <2> QED
    BY <1>3, <2>1 DEF ScanFails, graph, collected
<1>4. ASSUME ChooseOrder PROVE ProjectTypes'
  <2>1. AllFiles \in Seq(GraphPaths)
    BY ListsTyped
  <2>2. OrderOf(nodes, edges) \subseteq Seq(GraphPaths)
    BY NodesFinite DEF OrderOf
  <2>3. order' \in Seq(GraphPaths)
    BY <1>4, <2>1, <2>2 DEF ChooseOrder
  <2> QED
    BY <1>4, <2>3 DEF ChooseOrder, graph, collected
<1>5. ASSUME AnalyzeNext PROVE ProjectTypes'
  <2> DEFINE path == order[analyzed + 1]
             fs == FindingsAt(path)
  <2>1. path \in GraphPaths /\ analyzed + 1 \in 0 .. Len(order)
    BY <1>5 DEF AnalyzeNext
  <2>2. fs \in Seq(Finding)
    BY <2>1, FindingsTyped
  <2> HIDE DEF path, fs
  <2>3. /\ [summary EXCEPT !.failed = @ + 1] \in Summary
        /\ [summary EXCEPT !.successful = @ + 1, !.total = @ + Len(fs),
                        !.bySeverity = [s \in Severities |->
                           @[s] + Cardinality({i \in DOMAIN fs : fs[i].severity = s})]] \in Summary
    BY <2>2, SummaryTyped
  <2>4. summary' \in Summary
    BY <1>5, <2>3 DEF AnalyzeNext, path, fs
  <2>5. \A s, t \in Seq(Finding) : s \o t \in Seq(Finding)
    OBVIOUS
  <2>6. /\ sourceFound' \in Seq(Finding) /\ depFound' \in Seq(Finding)
        /\ allFound' \in Seq(Finding)
    <3>1. \/ UNCHANGED collected
          \/ /\ sourceFound' = IF IsDep(path) THEN sourceFound ELSE sourceFound \o fs
             /\ depFound' = IF IsDep(path) THEN depFound \o fs ELSE depFound
             /\ allFound' = allFound \o fs
      BY <1>5 DEF AnalyzeNext, path, fs
    <3> QED
      BY <2>2, <2>5, <3>1 DEF collected
  <2> QED
    BY <1>5, <2>1, <2>4, <2>6 DEF AnalyzeNext, graph
<1>6. ASSUME CrossContract PROVE ProjectTypes'
  <2>1. ASSUME NEW s \in Severities
        PROVE  Append(allFound, [path |-> None, line |-> 1, severity |-> s]) \in Seq(Finding)
    <3>1. [path |-> None, line |-> 1, severity |-> s] \in Finding
      BY DEF Finding
    <3> QED
      BY <3>1
  <2>2. allFound' \in Seq(Finding)
    BY <1>6, <2>1 DEF CrossContract
  <2> QED
    BY <1>6, <2>2 DEF CrossContract, graph
<1>7. ASSUME FinishProject PROVE ProjectTypes'
  <2>1. DetermineExitCode(summary, options.exitConfig) \in Codes
    BY DEF DetermineExitCode, Codes
  <2>2. /\ Deduplicated(sourceFound, Places(sourceFound)) \in Seq(Finding)
        /\ Deduplicated(depFound, Places(depFound)) \in Seq(Finding)
        /\ Deduplicated(allFound, Places(allFound)) \in Seq(Finding)
    BY DeduplicatedTyped
  <2> QED
    BY <1>7, <2>1, <2>2 DEF FinishProject, graph
<1>8. ASSUME UNCHANGED projectVars PROVE ProjectTypes'
  BY <1>8 DEF projectVars, graph, collected
<1> QED
  BY <1>1, <1>2, <1>3, <1>4, <1>5, <1>6, <1>7, <1>8 DEF ProjectNext

-----------------------------------------------------------------------------
(* ProjectRun: the graph and the order.                                    *)

EdgesFrom(p) == {<<NodeOf(p), <<g, "canonical">>>> : g \in project.imports[FileOf(p)]}
Straight == ~ Circular /\ ListedFiles \cap project.unreadable = {}

(* Every edge is an import of a listed file; while the graph is built, the *)
(* listed files whose edges are missing are the unscanned ones; the order  *)
(* that results has the listed files or the nodes of the graph.            *)
GraphBuilt ==
  /\ edges \subseteq nodes \X nodes
  /\ \A e \in edges : \E p \in ToSet(AllFiles) : e \in EdgesFrom(p)
  /\ phase = "collect" => edges = {}
  /\ phase \notin {"collect", "error"} => \A p \in ToSet(AllFiles) : NodeOf(p) \in nodes
  /\ phase = "graph" =>
       /\ ToSet(unscanned) \subseteq ToSet(AllFiles)
       /\ \A p \in ToSet(AllFiles) : p \in ToSet(unscanned) \/ EdgesFrom(p) \subseteq edges
  /\ phase \in {"analyze", "report", "done"} =>
       /\ order = AllFiles \/ order \in SetToSeqs(nodes)
       /\ Straight => /\ order \in OrderOf(nodes, edges)
                      /\ \A p \in ToSet(AllFiles) : EdgesFrom(p) \subseteq edges
  /\ phase \in {"report", "done"} => analyzed = Len(order)

(* No step changes the project, the options, or what is read off them.     *)
LEMMA ProjectFixed ==
  ASSUME [ProjectNext]_projectVars
  PROVE  /\ UNCHANGED <<project, options>>
         /\ AllFiles' = AllFiles /\ DepPaths' = DepPaths
         /\ Straight' = Straight
         /\ \A p : EdgesFrom(p)' = EdgesFrom(p)
<1>1. UNCHANGED <<project, options>>
  BY DEF ProjectNext, Collect, ScanImports, ScanFails, ChooseOrder, AnalyzeNext, CrossContract,
         FinishProject, projectVars
<1>2. AllFiles' = AllFiles /\ DepPaths' = DepPaths
  BY <1>1 DEF AllFiles, SourcePaths, DepPaths, ListedPaths, Listed
<1>3. ListedFiles' = ListedFiles
  BY <1>2 DEF ListedFiles
<1>4. Circular' = Circular
  BY <1>1, <1>3 DEF Circular
<1>5. \A p : EdgesFrom(p)' = EdgesFrom(p)
  BY <1>1 DEF EdgesFrom
<1> QED
  BY <1>1, <1>2, <1>3, <1>4, <1>5 DEF Straight

(* Listed files that do not import each other in a circle make a graph     *)
(* without cycle: what is not listed has no edges of its own.              *)
LEMMA StraightSorted ==
  ASSUME ProjectTypes, GraphBuilt, Straight
  PROVE  ~ HasCycles
<1>1. IsFiniteSet(nodes) /\ edges \in SUBSET (nodes \X nodes)
  BY NodesFinite DEF GraphBuilt
<1>2. ASSUME NEW T \in SUBSET nodes, T # {}
      PROVE  \E x \in T : \A y \in T : <<y, x>> \notin edges
  <2> DEFINE L == {f \in ListedFiles : <<f, "canonical">> \in T}
  <2>1. ASSUME NEW y \in T, NEW x \in T, <<y, x>> \in edges
        PROVE  \E g \in L : \E f \in project.imports[g] : x = <<f, "canonical">>
    <3>1. PICK p \in ToSet(AllFiles) : <<y, x>> \in EdgesFrom(p)
      BY <2>1 DEF GraphBuilt
    <3>2. FileOf(p) \in ListedFiles
      BY DEF ListedFiles
    <3>3. y = <<FileOf(p), "canonical">> /\ \E f \in project.imports[FileOf(p)] : x = <<f, "canonical">>
      BY <3>1 DEF EdgesFrom, NodeOf, Canonical
    <3> QED
      BY <3>2, <3>3
  <2>2. CASE L = {}
    BY <1>2, <2>1, <2>2
  <2>3. CASE L # {}
    <3>1. L \in SUBSET ListedFiles
      OBVIOUS
    <3>2. PICK f \in L : \A g \in L : f \notin project.imports[g]
      <4> HIDE DEF L
      <4> QED
        BY <2>3, <3>1 DEF Straight, Circular
    <3>3. \A y \in T : <<y, <<f, "canonical">>>> \notin edges
      <4> SUFFICES ASSUME NEW y \in T, <<y, <<f, "canonical">>>> \in edges PROVE FALSE
        OBVIOUS
      <4>1. PICK g \in L : \E h \in project.imports[g] : <<f, "canonical">> = <<h, "canonical">>
        BY <2>1
      <4> QED
        BY <3>2, <4>1
    <3> QED
      BY <3>3
  <2> QED
    BY <2>2, <2>3
<1>3. TopologicalOrders(nodes, edges) # {}
  BY <1>1, <1>2, OrderExists
<1> QED
  BY <1>3 DEF HasCycles

(* Nothing is collected or scanned to begin with.                          *)
LEMMA GraphBuiltInit == ProjectInit => GraphBuilt
BY DEF ProjectInit, GraphBuilt

(* The graph has the nodes collected and the edges scanned.                *)
LEMMA GraphBuiltNext ==
  ASSUME ProjectTypes, GraphBuilt, [ProjectNext]_projectVars
  PROVE  GraphBuilt'
<1>0. /\ UNCHANGED <<project, options>>
      /\ AllFiles' = AllFiles
      /\ Straight' = Straight
      /\ \A p : EdgesFrom(p)' = EdgesFrom(p)
  BY ProjectFixed
<1>1. ASSUME Collect PROVE GraphBuilt'
  <2>1. edges' = {} /\ phase' \in {"error", "graph"}
    BY <1>1 DEF Collect, GraphBuilt
  <2>2. \A p \in ToSet(AllFiles) : NodeOf(p) \in nodes'
    BY <1>1 DEF Collect
  <2>3. unscanned' = AllFiles
    BY <1>1 DEF Collect
  <2> QED
    BY <1>0, <2>1, <2>2, <2>3 DEF GraphBuilt, NodeOf, Canonical
<1>2. ASSUME ScanImports PROVE GraphBuilt'
  <2> DEFINE from == Head(unscanned)
             resolved == {<<g, "canonical">> : g \in project.imports[FileOf(from)]}
  <2>1. phase = "graph" /\ phase' = "graph" /\ unscanned' = Tail(unscanned) /\ unscanned # << >>
    BY <1>2 DEF ScanImports
  <2>2. unscanned \in Seq(GraphPaths)
    BY DEF ProjectTypes
  <2>3. /\ from \in ToSet(AllFiles)
        /\ ToSet(unscanned') \subseteq ToSet(AllFiles)
        /\ \A p \in ToSet(unscanned) : p = from \/ p \in ToSet(unscanned')
    BY <2>1, <2>2, HeadAndTail DEF GraphBuilt
  <2>4. nodes' = nodes \cup resolved
    <3>1. \A p \in resolved : NodeOf(p) = p
      BY DEF NodeOf, Canonical, FileOf
    <3>2. nodes' = nodes \cup {NodeOf(p) : p \in resolved}
      BY <1>2 DEF ScanImports, WithImported
    <3> QED
      BY <3>1, <3>2
  <2>5. edges' = edges \cup EdgesFrom(from)
    <3>1. edges' = edges \cup {<<NodeOf(from), NodeOf(p)>> : p \in resolved}
      BY <1>2 DEF ScanImports
    <3>2. \A p \in resolved : NodeOf(p) = p
      BY DEF NodeOf, Canonical, FileOf
    <3>3. {<<NodeOf(from), NodeOf(p)>> : p \in resolved} = EdgesFrom(from)
      BY <3>2 DEF EdgesFrom
    <3> QED
      BY <3>1, <3>3
  <2>6. EdgesFrom(from) \subseteq nodes' \X nodes'
    <3>1. NodeOf(from) \in nodes'
      BY <2>1, <2>3, <2>4 DEF GraphBuilt
    <3> QED
      BY <2>4, <3>1 DEF EdgesFrom
  <2> HIDE DEF from, resolved
  <2>7. edges' \subseteq nodes' \X nodes'
    BY <2>4, <2>5, <2>6 DEF GraphBuilt
  <2>8. \A e \in edges' : \E p \in ToSet(AllFiles) : e \in EdgesFrom(p)
    BY <2>3, <2>5 DEF GraphBuilt
  <2>9. \A p \in ToSet(AllFiles) : NodeOf(p) \in nodes'
    BY <2>1, <2>4 DEF GraphBuilt
  <2>10. \A p \in ToSet(AllFiles) : p \in ToSet(unscanned') \/ EdgesFrom(p) \subseteq edges'
    <3> TAKE p \in ToSet(AllFiles)
    <3>1. p \in ToSet(unscanned) \/ EdgesFrom(p) \subseteq edges
      BY <2>1 DEF GraphBuilt
    <3> QED
      BY <2>3, <2>5, <3>1
  <2> QED
    BY <1>0, <2>1, <2>3, <2>7, <2>8, <2>9, <2>10 DEF GraphBuilt, NodeOf, Canonical
<1>3. ASSUME ScanFails PROVE GraphBuilt'
  <2>1. ~ Straight
    <3>1. Head(unscanned) \in ToSet(AllFiles)
      BY <1>3, HeadAndTail DEF ScanFails, GraphBuilt, ProjectTypes
    <3>2. FileOf(Head(unscanned)) \in ListedFiles
      BY <3>1 DEF ListedFiles
    <3> QED
      BY <1>3, <3>2 DEF ScanFails, Straight
  <2>2. phase = "graph" /\ phase' = "analyze" /\ order' = AllFiles /\ UNCHANGED graph
    BY <1>3 DEF ScanFails
  <2> QED
    BY <1>0, <2>1, <2>2 DEF GraphBuilt, graph, NodeOf, Canonical
<1>4. ASSUME ChooseOrder PROVE GraphBuilt'
  <2>1. phase = "graph" /\ phase' = "analyze" /\ UNCHANGED <<nodes, edges>> /\ unscanned = << >>
    BY <1>4 DEF ChooseOrder, graph
  <2>2. \A p \in ToSet(AllFiles) : EdgesFrom(p) \subseteq edges
    BY <2>1 DEF GraphBuilt, ToSet
  <2>3. order' = AllFiles \/ order' \in SetToSeqs(nodes)
    BY <1>4, NodesFinite DEF ChooseOrder, OrderOf
  <2>4. Straight => order' \in OrderOf(nodes, edges)
    BY <1>4, StraightSorted DEF ChooseOrder
  <2>5. OrderOf(nodes, edges)' = OrderOf(nodes, edges) /\ SetToSeqs(nodes)' = SetToSeqs(nodes)
    BY <2>1
  <2> QED
    BY <1>0, <2>1, <2>2, <2>3, <2>4, <2>5 DEF GraphBuilt, NodeOf, Canonical
<1>5. ASSUME AnalyzeNext PROVE GraphBuilt'
  <2>1. phase = "analyze" /\ phase' = "analyze" /\ UNCHANGED <<nodes, edges, order, unscanned>>
    BY <1>5 DEF AnalyzeNext, graph
  <2> QED
    BY <1>0, <2>1 DEF GraphBuilt, NodeOf, Canonical
<1>6. ASSUME CrossContract PROVE GraphBuilt'
  <2>1. /\ phase = "analyze" /\ phase' = "report" /\ analyzed = Len(order)
        /\ UNCHANGED <<nodes, edges, order, unscanned, analyzed>>
    BY <1>6 DEF CrossContract, graph
  <2> QED
    BY <1>0, <2>1 DEF GraphBuilt, NodeOf, Canonical
<1>7. ASSUME FinishProject PROVE GraphBuilt'
  <2>1. /\ phase = "report" /\ phase' = "done"
        /\ UNCHANGED <<nodes, edges, order, unscanned, analyzed>>
    BY <1>7 DEF FinishProject, graph
  <2> QED
    BY <1>0, <2>1 DEF GraphBuilt, NodeOf, Canonical
<1>8. ASSUME UNCHANGED projectVars PROVE GraphBuilt'
  <2>1. UNCHANGED <<phase, nodes, edges, order, unscanned, analyzed>>
    BY <1>8 DEF projectVars, graph
  <2> QED
    BY <1>0, <2>1 DEF GraphBuilt, NodeOf, Canonical
<1> QED
  BY <1>1, <1>2, <1>3, <1>4, <1>5, <1>6, <1>7, <1>8 DEF ProjectNext

(* A list that names every file once has a path for each file.             *)
LEMMA ListedApart ==
  ASSUME ProjectTypes, ListedOnce
  PROVE  \A i, j \in DOMAIN AllFiles : FileOf(AllFiles[i]) = FileOf(AllFiles[j]) => i = j
<1> DEFINE both == SourceFiles \o LibraryFiles
           n == Len(SourceFiles)
           m == Len(LibraryFiles)
<1>1. SourceFiles \in Seq(Files) /\ LibraryFiles \in Seq(Files)
  BY ProjectAssumption
<1>2. n \in Nat /\ m \in Nat /\ DOMAIN both = 1 .. n + m
  BY <1>1
<1>3. \A i, j \in 1 .. n + m : both[i] = both[j] => i = j
  BY <1>2 DEF ListedOnce, IsInjective
<1>4. /\ \A i \in 1 .. n : both[i] = SourceFiles[i]
      /\ \A i \in 1 .. m : both[n + i] = LibraryFiles[i]
  BY <1>1
<1>5. /\ DOMAIN ListedPaths(SourceFiles) = 1 .. n /\ Len(ListedPaths(SourceFiles)) = n
      /\ DOMAIN ListedPaths(LibraryFiles) = 1 .. m /\ Len(ListedPaths(LibraryFiles)) = m
      /\ \A i \in 1 .. n : FileOf(ListedPaths(SourceFiles)[i]) = SourceFiles[i]
      /\ \A i \in 1 .. m : FileOf(ListedPaths(LibraryFiles)[i]) = LibraryFiles[i]
  BY <1>1 DEF ListedPaths, Listed, FileOf
<1>11. ListedPaths(SourceFiles) \in Seq(GraphPaths) /\ ListedPaths(LibraryFiles) \in Seq(GraphPaths)
  BY <1>1, ListedTyped
<1>6. AllFiles \in {<< >>, ListedPaths(SourceFiles), ListedPaths(LibraryFiles),
                   ListedPaths(SourceFiles) \o ListedPaths(LibraryFiles)}
  <2>1. SourcePaths \in Seq(GraphPaths) /\ DepPaths \in Seq(GraphPaths)
    BY ListsTyped
  <2>2. SourcePaths \in {<< >>, ListedPaths(SourceFiles)} /\ DepPaths \in {<< >>, ListedPaths(LibraryFiles)}
    BY DEF SourcePaths, DepPaths
  <2>3. \A s \in Seq(GraphPaths) : << >> \o s = s /\ s \o << >> = s
    OBVIOUS
  <2> QED
    BY <2>1, <2>2, <2>3 DEF AllFiles
<1> HIDE DEF both, n, m
<1>7. CASE AllFiles = << >>
  BY <1>7
<1>8. CASE AllFiles = ListedPaths(SourceFiles)
  <2>1. 1 .. n \subseteq 1 .. n + m
    BY <1>2
  <2> QED
    BY <1>3, <1>4, <1>5, <1>8, <2>1
<1>9. CASE AllFiles = ListedPaths(LibraryFiles)
  <2>1. ASSUME NEW i \in 1 .. m, NEW j \in 1 .. m, LibraryFiles[i] = LibraryFiles[j]
        PROVE  i = j
    <3>1. n + i \in 1 .. n + m /\ n + j \in 1 .. n + m
      BY <1>2
    <3>2. n + i = n + j
      BY <1>3, <1>4, <2>1, <3>1
    <3> QED
      BY <1>2, <3>2
  <2> QED
    BY <1>5, <1>9, <2>1
<1>10. CASE AllFiles = ListedPaths(SourceFiles) \o ListedPaths(LibraryFiles)
  <2>1. DOMAIN AllFiles = 1 .. n + m
    <3>1. Len(AllFiles) = n + m /\ AllFiles \in Seq(GraphPaths)
      <4>1. \A s, t \in Seq(GraphPaths) : s \o t \in Seq(GraphPaths) /\ Len(s \o t) = Len(s) + Len(t)
        OBVIOUS
      <4>2. Len(AllFiles) = Len(ListedPaths(SourceFiles)) + Len(ListedPaths(LibraryFiles))
        BY <1>10, <1>11, <4>1
      <4> QED
        BY <1>5, <1>10, <1>11, <4>1, <4>2
    <3> QED
      BY <1>2, <3>1
  <2>2. \A i \in 1 .. n + m : FileOf(AllFiles[i]) = both[i]
    <3> TAKE i \in 1 .. n + m
    <3>1. ListedPaths(SourceFiles) \in Seq(GraphPaths) /\ ListedPaths(LibraryFiles) \in Seq(GraphPaths)
      BY <1>11
    <3>2. CASE i \in 1 .. n
      <4>1. AllFiles[i] = ListedPaths(SourceFiles)[i]
        BY <1>2, <1>5, <1>10, <3>1, <3>2
      <4> QED
        BY <1>4, <1>5, <3>2, <4>1
    <3>3. CASE i \notin 1 .. n
      <4>1. i - n \in 1 .. m /\ n + (i - n) = i
        BY <1>2, <3>3
      <4>2. AllFiles[i] = ListedPaths(LibraryFiles)[i - n]
        BY <1>2, <1>5, <1>10, <3>1, <3>3
      <4> QED
        BY <1>4, <1>5, <4>1, <4>2
    <3> QED
      BY <3>2, <3>3
  <2> QED
    BY <1>3, <2>1, <2>2
<1> QED
  BY <1>6, <1>7, <1>8, <1>9, <1>10

(* In an order of the graph, a file is where its node is.                  *)
LEMMA OrderIsOfNodes ==
  ASSUME ProjectTypes, order \in SetToSeqs(nodes)
  PROVE  /\ \A i, j \in DOMAIN order : FileOf(order[i]) = FileOf(order[j]) => i = j
         /\ \A p \in nodes : \E i \in DOMAIN order : order[i] = p
         /\ DOMAIN order = 1 .. Cardinality(nodes)
         /\ \A i \in DOMAIN order : order[i] = <<FileOf(order[i]), "canonical">>
<1>1. IsFiniteSet(nodes) /\ \A i \in DOMAIN order : order[i] = NodeOf(order[i])
  BY NodesFinite
<1>2. /\ order \in [1 .. Cardinality(nodes) -> nodes]
      /\ \A i, j \in 1 .. Cardinality(nodes) : order[i] = order[j] => i = j
      /\ \A p \in nodes : \E i \in 1 .. Cardinality(nodes) : order[i] = p
  BY <1>1, EachElementOnce
<1> QED
  BY <1>1, <1>2 DEF NodeOf, Canonical

(* EveryFileOnce follows from the order of the graph.                      *)
LEMMA OnceFollows ==
  ASSUME ProjectTypes, GraphBuilt
  PROVE  EveryFileOnce
<1>1. order = << >> \/ order = AllFiles \/ order \in SetToSeqs(nodes)
  BY DEF ProjectTypes, GraphBuilt
<1>2. ASSUME order # AllFiles \/ ListedOnce
      PROVE  \A i, j \in DOMAIN order : FileOf(order[i]) = FileOf(order[j]) => i = j
  <2>1. CASE order = << >>
    BY <2>1
  <2>2. CASE order = AllFiles
    BY <1>2, <2>2, ListedApart
  <2>3. CASE order \in SetToSeqs(nodes)
    BY <2>3, OrderIsOfNodes
  <2> QED
    BY <1>1, <2>1, <2>2, <2>3
<1>3. ASSUME phase \in {"report", "done"}, NEW p \in ToSet(AllFiles)
      PROVE  FileOf(p) \in AnalyzedFiles
  <2>1. analyzed = Len(order) /\ NodeOf(p) \in nodes /\ (order = AllFiles \/ order \in SetToSeqs(nodes))
    BY <1>3 DEF GraphBuilt
  <2>2. \E i \in DOMAIN order : FileOf(order[i]) = FileOf(p)
    <3>1. CASE order = AllFiles
      BY <3>1 DEF ToSet
    <3>2. CASE order \in SetToSeqs(nodes)
      <4>1. PICK i \in DOMAIN order : order[i] = NodeOf(p)
        BY <2>1, <3>2, OrderIsOfNodes
      <4> QED
        BY <4>1 DEF NodeOf, Canonical, FileOf
    <3> QED
      BY <2>1, <3>1, <3>2
  <2>3. DOMAIN order = 1 .. analyzed
    BY <2>1 DEF ProjectTypes
  <2> QED
    BY <2>2, <2>3 DEF AnalyzedFiles
<1> QED
  BY <1>2, <1>3 DEF EveryFileOnce

(* So does DependenciesFirst, where the graph could be sorted.             *)
LEMMA FirstFollows ==
  ASSUME ProjectTypes, GraphBuilt
  PROVE  DependenciesFirst
<1> SUFFICES ASSUME Straight, NEW i \in 1 .. analyzed, FileOf(order[i]) \in ListedFiles,
                    NEW g \in project.imports[FileOf(order[i])]
             PROVE  \E j \in 1 .. i - 1 : g = FileOf(order[j])
  BY DEF DependenciesFirst, Straight
<1> DEFINE f == FileOf(order[i])
           back == {<<e[2], e[1]>> : e \in edges}
<1>1. i \in DOMAIN order /\ analyzed \in Nat
  BY DEF ProjectTypes
<1>2. phase \in {"analyze", "report", "done"}
  BY <1>1 DEF ProjectTypes
<1>3. /\ order \in TopologicalOrders(nodes, back)
      /\ order \in SetToSeqs(nodes)
      /\ \A p \in ToSet(AllFiles) : EdgesFrom(p) \subseteq edges
  BY <1>2, NodesFinite DEF GraphBuilt, OrderOf
<1>4. IsFiniteSet(nodes) /\ back \in SUBSET (nodes \X nodes)
  BY NodesFinite DEF GraphBuilt
<1>5. \A j, k \in 1 .. Cardinality(nodes) : <<order[j], order[k]>> \in back => j < k
  BY <1>3, <1>4, OrderedByIndex
<1>6. PICK p \in ToSet(AllFiles) : FileOf(p) = f
  BY DEF ListedFiles
<1>7. order[i] = <<f, "canonical">>
  BY <1>1, <1>3, OrderIsOfNodes
<1>8. <<order[i], <<g, "canonical">>>> \in edges
  BY <1>3, <1>6, <1>7 DEF EdgesFrom, NodeOf, Canonical
<1>9. <<g, "canonical">> \in nodes /\ <<<<g, "canonical">>, order[i]>> \in back
  BY <1>8 DEF GraphBuilt
<1>10. PICK j \in DOMAIN order : order[j] = <<g, "canonical">>
  BY <1>3, <1>9, OrderIsOfNodes
<1>11. DOMAIN order = 1 .. Cardinality(nodes)
  BY <1>3, OrderIsOfNodes
<1>12. j < i
  BY <1>1, <1>5, <1>9, <1>10, <1>11
<1>13. j \in 1 .. i - 1
  BY <1>1, <1>12 DEF ProjectTypes
<1> QED
  BY <1>10, <1>13 DEF FileOf

-----------------------------------------------------------------------------
(* ProjectRun: the summary, the sections of the report and the exit code.  *)

(* The summary counts the failures and the findings of what is analysed,   *)
(* and the exit code comes from it.                                        *)
Counted ==
  /\ \A i \in 1 .. analyzed :
       LET f == FileOf(order[i])
       IN IF f \in Failing THEN summary.failed > 0
          ELSE \A k \in DOMAIN Findings[f] :
                 summary.total > 0 /\ summary.bySeverity[Findings[f][k]] > 0
  /\ exit = None \/ (phase = "done" /\ exit = DetermineExitCode(summary, options.exitConfig))

(* A finding among those of the sources is of a path of the order that is  *)
(* not recognised as a dependency's, one among the others of one that is.  *)
Told ==
  /\ \A i \in DOMAIN sourceFound :
       sourceFound[i].path \in ToSet(order) /\ ~ IsDep(sourceFound[i].path)
  /\ \A i \in DOMAIN depFound : IsDep(depFound[i].path)

(* Nothing is counted and nothing told to begin with.                      *)
LEMMA CountedInit == ProjectInit => Counted /\ Told
BY DEF ProjectInit, Counted, Told

(* What a file adds to the summary.                                        *)
LEMMA Adds ==
  ASSUME NEW sum \in Summary, NEW path \in GraphPaths, NEW k \in DOMAIN Findings[FileOf(path)]
  PROVE  LET fs == FindingsAt(path)
             s == Findings[FileOf(path)][k]
         IN /\ s \in Severities
            /\ sum.total + Len(fs) > 0
            /\ sum.bySeverity[s] + Cardinality({i \in DOMAIN fs : fs[i].severity = s}) > 0
<1> DEFINE fs == FindingsAt(path)
           s == Findings[FileOf(path)][k]
           D == {i \in DOMAIN fs : fs[i].severity = s}
<1>1. fs \in Seq(Finding) /\ k \in DOMAIN fs /\ fs[k].severity = s /\ s \in Severities
  BY FindingsTyped
<1>2. k \in D
  BY <1>1
<1> HIDE DEF fs, s
<1>3. PICK m \in Nat : m = Len(fs) /\ D \in SUBSET (1 .. m) /\ m > 0
  BY <1>1
<1> HIDE DEF D
<1>4. IsFiniteSet(D)
  <2>1. IsFiniteSet(1 .. m)
    BY FS_Interval
  <2> QED
    BY <1>3, <2>1, FS_Subset
<1>5. Cardinality(D) \in Nat /\ Cardinality(D) # 0
  BY <1>2, <1>4, FS_CardinalityType, FS_EmptySet
<1>6. sum.total \in Nat /\ sum.bySeverity[s] \in Nat
  BY <1>1 DEF Summary
<1>7. sum.total + Len(fs) > 0
  BY <1>3, <1>6
<1>8. sum.bySeverity[s] + Cardinality(D) > 0
  BY <1>5, <1>6
<1> QED
  BY <1>1, <1>7, <1>8 DEF D, fs, s

(* A file analysed is counted.                                             *)
LEMMA CountedNext ==
  ASSUME ProjectTypes, Counted, [ProjectNext]_projectVars
  PROVE  Counted'
<1>0. UNCHANGED <<project, options>>
  BY ProjectFixed
<1>1. ASSUME AnalyzeNext PROVE Counted'
  <2> DEFINE path == order[analyzed + 1]
             fs == FindingsAt(path)
             f == FileOf(path)
  <2>1. /\ path \in GraphPaths /\ analyzed \in Nat /\ analyzed' = analyzed + 1
        /\ phase # "done" /\ UNCHANGED <<order, phase, exit>> /\ summary \in Summary
    BY <1>1 DEF AnalyzeNext, ProjectTypes
  <2>2. exit' = None
    BY <2>1 DEF Counted
  <2>3. CASE f \in Failing
    <3>1. summary' = [summary EXCEPT !.failed = @ + 1]
      BY <1>1, <2>3 DEF AnalyzeNext
    <3>2. summary'.failed > 0 /\ summary'.total = summary.total /\ summary'.bySeverity = summary.bySeverity
      BY <2>1, <3>1 DEF Summary
    <3> HIDE DEF path, fs
    <3>3. \A i \in 1 .. analyzed' : i = analyzed + 1 \/ i \in 1 .. analyzed
      BY <2>1
    <3> QED
      BY <1>0, <2>1, <2>2, <2>3, <3>2, <3>3 DEF Counted, Failing, path
  <2>4. CASE f \notin Failing
    <3> DEFINE more == [s \in Severities |->
               summary.bySeverity[s] + Cardinality({i \in DOMAIN fs : fs[i].severity = s})]
    <3>1. summary' = [summary EXCEPT !.successful = @ + 1, !.total = @ + Len(fs), !.bySeverity = more]
      BY <1>1, <2>4 DEF AnalyzeNext
    <3>2. fs \in Seq(Finding) /\ Len(fs) \in Nat
      BY <2>1, FindingsTyped
    <3>3. /\ summary'.failed = summary.failed /\ summary'.total = summary.total + Len(fs)
          /\ summary'.bySeverity = more
      <4> HIDE DEF more, fs
      <4> QED
        BY <2>1, <3>1 DEF Summary
    <3>4. \A k \in DOMAIN Findings[f] : summary'.total > 0 /\ summary'.bySeverity[Findings[f][k]] > 0
      <4> TAKE k \in DOMAIN Findings[f]
      <4> DEFINE v == Findings[f][k]
      <4>1. /\ v \in Severities
            /\ summary.total + Len(fs) > 0
            /\ summary.bySeverity[v] + Cardinality({i \in DOMAIN fs : fs[i].severity = v}) > 0
        BY <2>1, Adds
      <4> HIDE DEF v, fs
      <4> QED
        BY <3>3, <4>1 DEF v
    <3>5. ASSUME NEW s \in Severities, summary.bySeverity[s] > 0
          PROVE  summary'.bySeverity[s] > 0
      <4>1. Cardinality({i \in DOMAIN fs : fs[i].severity = s}) \in Nat
        <5> HIDE DEF fs
        <5> QED
          BY <2>1, <3>2, SummaryTyped
      <4>2. summary.bySeverity[s] \in Nat
        BY <2>1 DEF Summary
      <4>3. summary'.bySeverity[s] = summary.bySeverity[s] + Cardinality({i \in DOMAIN fs : fs[i].severity = s})
        BY <3>3
      <4> HIDE DEF fs
      <4> QED
        BY <3>5, <4>1, <4>2, <4>3
    <3>6. ASSUME summary.total > 0 PROVE summary'.total > 0
      BY <2>1, <3>2, <3>3, <3>6 DEF Summary
    <3> HIDE DEF fs, more
    <3>7. ASSUME NEW i \in 1 .. analyzed, FileOf(order[i]) \notin Failing,
                 NEW k \in DOMAIN Findings[FileOf(order[i])]
          PROVE  summary'.total > 0 /\ summary'.bySeverity[Findings[FileOf(order[i])][k]] > 0
      <4>1. order[i] \in GraphPaths
        BY DEF ProjectTypes
      <4>2. Findings[FileOf(order[i])][k] \in Severities
        BY <4>1, FindingsTyped
      <4>3. summary.total > 0 /\ summary.bySeverity[Findings[FileOf(order[i])][k]] > 0
        BY <3>7 DEF Counted
      <4> QED
        BY <3>5, <3>6, <4>2, <4>3
    <3>8. ASSUME NEW i \in 1 .. analyzed, FileOf(order[i]) \in Failing
          PROVE  summary'.failed > 0
      BY <3>3, <3>8 DEF Counted
    <3> HIDE DEF path
    <3>9. \A i \in 1 .. analyzed' : i = analyzed + 1 \/ i \in 1 .. analyzed
      BY <2>1
    <3> QED
      BY <1>0, <2>1, <2>2, <2>4, <3>4, <3>7, <3>8, <3>9 DEF Counted, Failing, path
  <2> QED
    BY <2>3, <2>4
<1>2. ASSUME FinishProject PROVE Counted'
  <2>1. /\ UNCHANGED <<order, analyzed, summary>> /\ phase' = "done"
        /\ exit' = DetermineExitCode(summary, options.exitConfig)
    BY <1>2 DEF FinishProject
  <2> QED
    BY <1>0, <2>1 DEF Counted, Failing
<1>3. ASSUME UNCHANGED <<order, analyzed, summary, exit>>, phase' = phase \/ phase # "done"
      PROVE  Counted'
  BY <1>0, <1>3 DEF Counted, Failing
<1>4. ASSUME ScanFails \/ ChooseOrder PROVE Counted'
  <2>1. analyzed = 0 /\ analyzed' = 0 /\ phase # "done" /\ exit' = exit
    BY <1>4 DEF ScanFails, ChooseOrder, ProjectTypes
  <2> QED
    BY <2>1 DEF Counted
<1>5. ASSUME Collect \/ ScanImports \/ CrossContract \/ UNCHANGED projectVars
      PROVE  UNCHANGED <<order, analyzed, summary, exit>> /\ (phase' = phase \/ phase # "done")
  BY <1>5 DEF Collect, ScanImports, CrossContract, projectVars
<1> QED
  BY <1>1, <1>2, <1>3, <1>4, <1>5 DEF ProjectNext

(* A file's findings are put where its path says.                          *)
LEMMA ToldNext ==
  ASSUME ProjectTypes, Told, [ProjectNext]_projectVars
  PROVE  Told'
<1>0. DepPaths' = DepPaths
  BY ProjectFixed
<1>1. ASSUME AnalyzeNext PROVE Told'
  <2> DEFINE path == order[analyzed + 1]
             fs == FindingsAt(path)
  <2>1. path \in GraphPaths /\ path \in ToSet(order) /\ order' = order
    BY <1>1 DEF AnalyzeNext, ProjectTypes, ToSet
  <2>2. fs \in Seq(Finding) /\ \A i \in DOMAIN fs : fs[i].path = path
    BY <2>1, FindingsTyped
  <2>3. /\ sourceFound' = sourceFound \/ (~ IsDep(path) /\ sourceFound' = sourceFound \o fs)
        /\ depFound' = depFound \/ (IsDep(path) /\ depFound' = depFound \o fs)
    BY <1>1 DEF AnalyzeNext, collected
  <2>4. sourceFound \in Seq(Finding) /\ depFound \in Seq(Finding)
    BY DEF ProjectTypes
  <2> HIDE DEF path, fs
  <2>5. \A s \in Seq(Finding) : \A i \in DOMAIN (s \o fs) :
          \/ i \in DOMAIN s /\ (s \o fs)[i] = s[i]
          \/ i - Len(s) \in DOMAIN fs /\ (s \o fs)[i] = fs[i - Len(s)]
    BY <2>2
  <2>6. \A i \in DOMAIN sourceFound' :
          sourceFound'[i].path \in ToSet(order) /\ ~ IsDep(sourceFound'[i].path)
    <3> TAKE i \in DOMAIN sourceFound'
    <3>1. \/ i \in DOMAIN sourceFound /\ sourceFound'[i] = sourceFound[i]
          \/ ~ IsDep(path) /\ sourceFound'[i].path = path
      <4>1. CASE sourceFound' = sourceFound
        BY <4>1
      <4>2. CASE ~ IsDep(path) /\ sourceFound' = sourceFound \o fs
        <5>1. \/ i \in DOMAIN sourceFound /\ sourceFound'[i] = sourceFound[i]
              \/ i - Len(sourceFound) \in DOMAIN fs /\ sourceFound'[i] = fs[i - Len(sourceFound)]
          BY <2>4, <2>5, <4>2
        <5> QED
          BY <2>2, <4>2, <5>1
      <4> QED
        BY <2>3, <4>1, <4>2
    <3> QED
      BY <2>1, <3>1 DEF Told
  <2>7. \A i \in DOMAIN depFound' : IsDep(depFound'[i].path)
    <3> TAKE i \in DOMAIN depFound'
    <3>1. \/ i \in DOMAIN depFound /\ depFound'[i] = depFound[i]
          \/ IsDep(path) /\ depFound'[i].path = path
      <4>1. CASE depFound' = depFound
        BY <4>1
      <4>2. CASE IsDep(path) /\ depFound' = depFound \o fs
        <5>1. \/ i \in DOMAIN depFound /\ depFound'[i] = depFound[i]
              \/ i - Len(depFound) \in DOMAIN fs /\ depFound'[i] = fs[i - Len(depFound)]
          BY <2>4, <2>5, <4>2
        <5> QED
          BY <2>2, <4>2, <5>1
      <4> QED
        BY <2>3, <4>1, <4>2
    <3> QED
      BY <3>1 DEF Told
  <2> QED
    BY <1>0, <2>1, <2>6, <2>7 DEF Told, IsDep
<1>2. ASSUME FinishProject PROVE Told'
  <2>1. /\ order' = order
        /\ \A i \in DOMAIN sourceFound' : \E k \in DOMAIN sourceFound : sourceFound'[i] = sourceFound[k]
        /\ \A i \in DOMAIN depFound' : \E k \in DOMAIN depFound : depFound'[i] = depFound[k]
    BY <1>2, DeduplicatedTyped DEF FinishProject, ProjectTypes
  <2> QED
    BY <1>0, <2>1 DEF Told, IsDep
<1>3. ASSUME ScanFails \/ ChooseOrder PROVE Told'
  <2>1. sourceFound' = << >> /\ depFound' = << >>
    BY <1>3 DEF ScanFails, ChooseOrder, ProjectTypes, collected
  <2> QED
    BY <2>1 DEF Told
<1>4. ASSUME Collect \/ ScanImports \/ CrossContract \/ UNCHANGED projectVars
      PROVE  Told'
  <2>1. UNCHANGED <<order, sourceFound, depFound>>
    BY <1>4 DEF Collect, ScanImports, CrossContract, projectVars, collected
  <2> QED
    BY <1>0, <2>1 DEF Told, IsDep
<1> QED
  BY <1>1, <1>2, <1>3, <1>4 DEF ProjectNext

(* What an exit code says of the summary.                                  *)
LEMMA CodeMeans ==
  ASSUME NEW sum \in Summary, NEW config \in ExitConfigs
  PROVE  LET code == DetermineExitCode(sum, config)
         IN /\ code = "success" =>
                 /\ config.errorOnAnalysisFailure => ~ (sum.failed > 0)
                 /\ \A v \in Severities :
                      sum.total > 0 /\ sum.bySeverity[v] > 0 => v < Threshold(config)
            /\ code = "analysis error" => sum.failed > 0 /\ config.errorOnAnalysisFailure
            /\ code = "security issues" =>
                 \/ Threshold(config) = 0 /\ sum.total > 0
                 \/ \E v \in Severities : v >= Threshold(config) /\ sum.bySeverity[v] > 0
<1>1. config.errorOnSeverity \in Severities \cup {None} /\ None \notin Severities
  BY NoneAssumption DEF ExitConfigs
<1>2. CASE config.errorOnAnalysisFailure /\ sum.failed > 0
  BY <1>2 DEF DetermineExitCode
<1>3. CASE ~ (config.errorOnAnalysisFailure /\ sum.failed > 0)
  <2>1. CASE config.errorOnSeverity # None
    BY <1>1, <1>3, <2>1 DEF DetermineExitCode, HasFindingsAtOrAbove, Threshold, Severities
  <2>2. CASE config.errorOnSeverity = None /\ config.errorOnHighSeverity
    BY <1>1, <1>3, <2>2 DEF DetermineExitCode, HasFindingsAtOrAbove, Threshold, Severities, High
  <2>3. CASE config.errorOnSeverity = None /\ ~ config.errorOnHighSeverity
    BY <1>1, <1>3, <2>3 DEF DetermineExitCode, Threshold, Severities
  <2> QED
    BY <2>1, <2>2, <2>3
<1> QED
  BY <1>2, <1>3

(* What the exit code says of the files follows from the counts.           *)
LEMMA ExitFollows ==
  ASSUME ProjectTypes, Counted
  PROVE  ProjectExitFaithful
<1> SUFFICES ASSUME exit = "success"
             PROVE  /\ options.exitConfig.errorOnAnalysisFailure => AnalyzedFiles \cap Failing = {}
                    /\ \A f \in AnalyzedFiles \ Failing :
                         \A k \in DOMAIN Findings[f] : Findings[f][k] < Threshold(options.exitConfig)
  BY DEF ProjectExitFaithful
<1>1. options.exitConfig \in ExitConfigs /\ summary \in Summary
  BY ProjectAssumption DEF ProjectTypes
<1>2. DetermineExitCode(summary, options.exitConfig) = "success"
  BY NoneAssumption DEF Counted, Codes
<1>3. /\ options.exitConfig.errorOnAnalysisFailure => ~ (summary.failed > 0)
      /\ \A v \in Severities :
           summary.total > 0 /\ summary.bySeverity[v] > 0 => v < Threshold(options.exitConfig)
  BY <1>1, <1>2, CodeMeans
<1>4. ASSUME NEW i \in 1 .. analyzed, FileOf(order[i]) \in Failing
      PROVE  summary.failed > 0
  BY <1>4 DEF Counted
<1>5. ASSUME NEW i \in 1 .. analyzed, FileOf(order[i]) \notin Failing,
             NEW k \in DOMAIN Findings[FileOf(order[i])]
      PROVE  Findings[FileOf(order[i])][k] < Threshold(options.exitConfig)
  <2>1. order[i] \in GraphPaths
    BY DEF ProjectTypes
  <2>2. Findings[FileOf(order[i])][k] \in Severities
    BY <2>1, FindingsTyped
  <2>3. summary.total > 0 /\ summary.bySeverity[Findings[FileOf(order[i])][k]] > 0
    BY <1>5 DEF Counted
  <2> QED
    BY <1>3, <2>2, <2>3
<1> QED
  BY <1>3, <1>4, <1>5 DEF AnalyzedFiles

(* What the report says of dependencies follows from the paths.            *)
LEMMA CategoriesFollow ==
  ASSUME ProjectTypes, GraphBuilt, Told
  PROVE  DependenciesCategorized
<1> SUFFICES ASSUME phase = "done", PathsAsListed
             PROVE  /\ \A i \in DOMAIN sourceFound :
                          FileOf(sourceFound[i].path) \in ToSet(LibraryFiles) => DepPaths = << >>
                    /\ \A i \in DOMAIN depFound : FileOf(depFound[i].path) \in ToSet(LibraryFiles)
  BY DEF DependenciesCategorized
<1>1. LibraryFiles \in Seq(Files)
  BY ProjectAssumption
<1>2. DepPaths = << >> \/ DepPaths = ListedPaths(LibraryFiles)
  BY DEF DepPaths
<1>3. \A k \in DOMAIN order : order[k] = Listed(FileOf(order[k]))
  <2>1. CASE order = AllFiles
    BY <2>1, ListsTyped
  <2>2. CASE order # AllFiles
    <3>1. project.canonicalRoot /\ order \in SetToSeqs(nodes)
      BY <2>2 DEF GraphBuilt, PathsAsListed
    <3> QED
      BY <3>1, OrderIsOfNodes DEF Listed
  <2> QED
    BY <2>1, <2>2
<1>4. ASSUME NEW i \in DOMAIN sourceFound, FileOf(sourceFound[i].path) \in ToSet(LibraryFiles),
             DepPaths # << >>
      PROVE  FALSE
  <2> DEFINE f == FileOf(sourceFound[i].path)
  <2>1. sourceFound[i].path = Listed(f) /\ ~ IsDep(sourceFound[i].path)
    BY <1>3 DEF Told, ToSet
  <2>2. PICK k \in DOMAIN LibraryFiles : LibraryFiles[k] = f
    BY <1>4 DEF ToSet
  <2>3. DOMAIN DepPaths = DOMAIN LibraryFiles /\ DepPaths[k] = Listed(f)
    BY <1>1, <1>2, <1>4, <2>2, ListedTyped
  <2>4. IsDep(Listed(f))
    BY <2>2, <2>3 DEF IsDep, ToSet
  <2> QED
    BY <2>1, <2>4
<1>5. ASSUME NEW i \in DOMAIN depFound
      PROVE  FileOf(depFound[i].path) \in ToSet(LibraryFiles)
  <2>1. PICK k \in DOMAIN DepPaths : DepPaths[k] = depFound[i].path
    BY DEF Told, IsDep, ToSet
  <2>2. /\ k \in DOMAIN LibraryFiles /\ DepPaths[k] = Listed(LibraryFiles[k])
        /\ FileOf(DepPaths[k]) = LibraryFiles[k]
    BY <1>1, <1>2, <2>1, ListedTyped
  <2> QED
    BY <2>1, <2>2 DEF ToSet
<1> QED
  BY <1>4, <1>5

(* Each listed file of a project is analysed, none twice, whatever cycles  *)
(* the imports have and whichever files cannot be read.                    *)
THEOREM FilesAnalysedOnce == ProjectSpec => []EveryFileOnce
<1>1. ProjectInit => ProjectTypes /\ GraphBuilt
  BY ProjectTypesInit, GraphBuiltInit
<1>2. ProjectTypes /\ GraphBuilt /\ [ProjectNext]_projectVars => (ProjectTypes /\ GraphBuilt)'
  BY ProjectTypesNext, GraphBuiltNext
<1>3. ProjectTypes /\ GraphBuilt => EveryFileOnce
  BY OnceFollows
<1> QED
  BY <1>1, <1>2, <1>3, PTL DEF ProjectSpec

(* Without cycle or unreadable file among them, a listed file is analysed  *)
(* after every file it imports.                                            *)
THEOREM DependenciesComeFirst == ProjectSpec => []DependenciesFirst
<1>1. ProjectInit => ProjectTypes /\ GraphBuilt
  BY ProjectTypesInit, GraphBuiltInit
<1>2. ProjectTypes /\ GraphBuilt /\ [ProjectNext]_projectVars => (ProjectTypes /\ GraphBuilt)'
  BY ProjectTypesNext, GraphBuiltNext
<1>3. ProjectTypes /\ GraphBuilt => DependenciesFirst
  BY FirstFollows
<1> QED
  BY <1>1, <1>2, <1>3, PTL DEF ProjectSpec

(* A project's run does not succeed over a failure, nor over a finding of  *)
(* its files, that the flags ask about.                                    *)
THEOREM SuccessIsFaithful == ProjectSpec => []ProjectExitFaithful
<1>1. ProjectInit => ProjectTypes /\ Counted
  BY ProjectTypesInit, CountedInit
<1>2. ProjectTypes /\ Counted /\ [ProjectNext]_projectVars => (ProjectTypes /\ Counted)'
  BY ProjectTypesNext, CountedNext
<1>3. ProjectTypes /\ Counted => ProjectExitFaithful
  BY ExitFollows
<1> QED
  BY <1>1, <1>2, <1>3, PTL DEF ProjectSpec

(* Where the order has the paths as they were listed, the report puts a    *)
(* finding with the dependencies if and only if it is of a library file.   *)
THEOREM DependenciesTold == ProjectSpec => []DependenciesCategorized
<1>1. ProjectInit => ProjectTypes /\ GraphBuilt /\ Told
  BY ProjectTypesInit, GraphBuiltInit, CountedInit
<1>2. ProjectTypes /\ GraphBuilt /\ Told /\ [ProjectNext]_projectVars => (ProjectTypes /\ GraphBuilt /\ Told)'
  BY ProjectTypesNext, GraphBuiltNext, ToldNext
<1>3. ProjectTypes /\ GraphBuilt /\ Told => DependenciesCategorized
  BY CategoriesFollow
<1> QED
  BY <1>1, <1>2, <1>3, PTL DEF ProjectSpec

-----------------------------------------------------------------------------
(* AnalysisRun: the detectors and what they report.                        *)

(* A list of detectors can be arranged by priority.                        *)
LEMMA ArrangementExists ==
  ASSUME NEW ds \in Seq(Detectors)
  PROVE  Arrangements(Len(ds), Ahead(ds)) # {}
<1> DEFINE ahead == Ahead(ds)
<1>1. PICK n \in Nat : n = Len(ds) /\ DOMAIN ds = 1 .. n
  OBVIOUS
<1>2. IsFiniteSet(1 .. n) /\ Cardinality(1 .. n) = n
  BY FS_Interval
<1> DEFINE rank(i) == 255 - Priority[ds[i]]
           before == {e \in (1 .. n) \X (1 .. n) :
                        e \in ahead \/ (<<e[2], e[1]>> \notin ahead /\ e[1] < e[2])}
<1>3. \A i \in 1 .. n : Priority[ds[i]] \in 0 .. 255
  BY <1>1, RunAssumption
<1>4. \A i, j \in 1 .. n : <<i, j>> \in ahead <=> Priority[ds[i]] > Priority[ds[j]]
  BY <1>1 DEF Ahead
<1> HIDE DEF ahead
<1>5a. \A i \in 1 .. n : rank(i) \in Nat
  <2> TAKE i \in 1 .. n
  <2>1. \A a \in 0 .. 255 : 255 - a \in Nat
    OBVIOUS
  <2> QED
    BY <1>3, <2>1
<1>5b. ASSUME NEW i \in 1 .. n, NEW j \in 1 .. n
       PROVE  Priority[ds[i]] > Priority[ds[j]] <=> rank(i) < rank(j)
  <2>1. PICK a \in 0 .. 255, b \in 0 .. 255 : a = Priority[ds[i]] /\ b = Priority[ds[j]]
    BY <1>3
  <2> QED
    BY <2>1
<1> HIDE DEF rank
<1>5. ASSUME NEW T \in SUBSET (1 .. n), T # {}
      PROVE  \E x \in T : \A y \in T : <<y, x>> \notin before
  <2> DEFINE R == {rank(i) : i \in T}
  <2>1. R \in SUBSET Nat /\ R # {}
    BY <1>5a, <1>5
  <2>2. PICK r \in R : \A q \in R : r <= q
    <3> HIDE DEF R
    <3> QED
      BY <2>1, LeastNatural
  <2> DEFINE B == {i \in T : rank(i) = r}
  <2>3. B \in SUBSET Nat /\ B # {}
    <3>1. \E i \in T : rank(i) = r
      BY <2>2
    <3>2. T \in SUBSET Nat
      BY <1>1
    <3> QED
      BY <3>1, <3>2
  <2>4. PICK x \in B : \A y \in B : x <= y
    <3> HIDE DEF B
    <3> QED
      BY <2>3, LeastNatural
  <2>5. ASSUME NEW y \in T, <<y, x>> \in before PROVE FALSE
    <3>1. x \in 1 .. n /\ y \in 1 .. n /\ rank(x) = r
      BY <2>4
    <3>2. rank(x) \in Nat /\ rank(y) \in Nat /\ rank(x) <= rank(y)
      BY <1>5a, <2>2, <3>1
    <3>3. rank(x) = rank(y) => x <= y
      BY <2>4, <3>1
    <3>4. ~ (rank(y) < rank(x))
      BY <3>2
    <3>5. <<y, x>> \notin ahead
      BY <1>4, <1>5b, <3>1, <3>4
    <3>6. <<x, y>> \notin ahead /\ y < x
      BY <2>5, <3>5
    <3>7. ~ (rank(x) < rank(y))
      BY <1>4, <1>5b, <3>1, <3>6
    <3>8. rank(x) = rank(y)
      BY <3>2, <3>7
    <3> QED
      BY <3>1, <3>3, <3>6, <3>8
  <2> QED
    BY <2>5
<1>6. before \in SUBSET ((1 .. n) \X (1 .. n))
  OBVIOUS
<1>7. TopologicalOrders(1 .. n, before) # {}
  <2> HIDE DEF before
  <2> QED
    BY <1>2, <1>5, <1>6, OrderExists
<1>8. PICK p : p \in TopologicalOrders(1 .. n, before)
  BY <1>7
<1>9. p \in SetToSeqs(1 .. n)
  BY <1>8 DEF TopologicalOrders
<1>10. \A i, j \in 1 .. n : <<p[i], p[j]>> \in before => i < j
  <2> HIDE DEF before
  <2> QED
    BY <1>2, <1>6, <1>8, <1>9, OrderedByIndex
<1>11. /\ p \in [1 .. n -> 1 .. n]
       /\ \A i, j \in 1 .. n : p[i] = p[j] => i = j
  BY <1>2, <1>9, EachElementOnce
<1>12. ASSUME NEW i \in 1 .. n, NEW j \in 1 .. n, i < j
       PROVE  /\ p[i] # p[j]
              /\ <<p[j], p[i]>> \notin ahead
              /\ <<p[i], p[j]>> \in ahead \/ p[i] < p[j]
  <2>1. p[i] # p[j] /\ p[i] \in 1 .. n /\ p[j] \in 1 .. n
    BY <1>11, <1>12
  <2>2. <<p[j], p[i]>> \notin before
    BY <1>10, <1>12
  <2> QED
    BY <2>1, <2>2
<1>13. p \in Arrangements(n, ahead)
  BY <1>11, <1>12 DEF Arrangements
<1> QED
  BY <1>1, <1>13 DEF ahead

(* Sorting by priority loses no detector.                                  *)
LEMMA ByPriorityHas ==
  ASSUME NEW ds \in Seq(Detectors)
  PROVE  ByPriority(ds) \in Seq(Detectors) /\ ToSet(ByPriority(ds)) = ToSet(ds)
<1>1. PICK n \in Nat : n = Len(ds) /\ DOMAIN ds = 1 .. n
  OBVIOUS
<1>2. PICK p \in Arrangements(n, Ahead(ds)) : ByPriority(ds) = [k \in 1 .. n |-> ds[p[k]]]
  <2>1. Sorted(ds, Ahead(ds)) # {}
    BY ArrangementExists DEF Sorted
  <2>2. ByPriority(ds) \in Sorted(ds, Ahead(ds))
    BY <2>1 DEF ByPriority
  <2> QED
    BY <1>1, <2>2 DEF Sorted
<1>3. p \in [1 .. n -> 1 .. n] /\ \A i, j \in 1 .. n : i < j => p[i] # p[j]
  BY DEF Arrangements
<1>4. \A i, j \in 1 .. n : p[i] = p[j] => i = j
  BY <1>3
<1>5. p \in Injection(1 .. n, 1 .. n)
  BY <1>3, <1>4 DEF Injection, IsInjective
<1>6. IsFiniteSet(1 .. n)
  BY FS_Interval
<1>7. \A j \in 1 .. n : \E i \in 1 .. n : p[i] = j
  <2>1. p \in Surjection(1 .. n, 1 .. n)
    BY <1>5, <1>6, FS_Injection
  <2> QED
    BY <2>1 DEF Surjection
<1>8. \A k \in 1 .. n : p[k] \in 1 .. n /\ ds[p[k]] \in Detectors
  BY <1>1, <1>3
<1>9. ByPriority(ds) \in Seq(Detectors)
  BY <1>2, <1>8
<1>10. ToSet(ByPriority(ds)) = {ds[p[k]] : k \in 1 .. n}
  BY <1>2 DEF ToSet
<1>11. {ds[p[k]] : k \in 1 .. n} = {ds[i] : i \in 1 .. n}
  <2>1. ASSUME NEW i \in 1 .. n PROVE ds[i] \in {ds[p[k]] : k \in 1 .. n}
    <3>1. PICK k \in 1 .. n : p[k] = i
      BY <1>7
    <3> QED
      BY <3>1
  <2> QED
    BY <1>8, <2>1
<1> QED
  BY <1>1, <1>9, <1>10, <1>11 DEF ToSet


Reported == [detector : Detectors, path : Paths, line : Nat, severity : Severities,
             confidence : Confidences]

(* What detector d's finding raw says of the file.                         *)
Named(d, path, raw) ==
  [detector |-> d, path |-> path, line |-> raw.line, severity |-> raw.severity,
   confidence |-> raw.confidence]

Ran(c, src) == {d \in Selected \cap Detectors : CanRun(d, c, src)}
GaveUp(c, src) == options.failFast /\ \E d \in Ran(c, src) : ~ c.reports[d].ok

(* The detectors that run are those selected that can.                     *)
LEMMA DetectorsToRunAre ==
  ASSUME NEW c, NEW src
  PROVE  DetectorsToRun(c, src) \in Seq(Detectors) /\ ToSet(DetectorsToRun(c, src)) = Ran(c, src)
<1> DEFINE able == {i \in DOMAIN Registered : Registered[i] \in Selected /\ CanRun(Registered[i], c, src)}
           ds == Selection(Registered, able)
<1>1. Registered \in Seq(Detectors)
  BY RunAssumption DEF Detectors
<1>2. able \in SUBSET DOMAIN Registered
  OBVIOUS
<1>3. {Registered[i] : i \in able} = Ran(c, src)
  <2>1. ASSUME NEW d \in Ran(c, src) PROVE d \in {Registered[i] : i \in able}
    <3>1. PICK i \in DOMAIN Registered : Registered[i] = d
      BY DEF Ran, Detectors, ToSet
    <3>2. i \in able
      BY <3>1 DEF Ran
    <3> QED
      BY <3>1, <3>2
  <2>2. ASSUME NEW i \in able PROVE Registered[i] \in Ran(c, src)
    BY DEF Ran, Detectors, ToSet
  <2> QED
    BY <2>1, <2>2
<1>4. DetectorsToRun(c, src) = ByPriority(ds)
  BY DEF DetectorsToRun
<1> HIDE DEF able
<1>5. ds \in Seq(Detectors) /\ ToSet(ds) = Ran(c, src)
  BY <1>1, <1>2, <1>3, SelectionHas
<1> HIDE DEF ds
<1> QED
  BY <1>4, <1>5, ByPriorityHas

(* run_analysis says what the detectors that ran and did not fail found,   *)
(* where the registry lets it through, unless it gave up on the contract.  *)
LEMMA RunAnalysisHas ==
  ASSUME NEW path \in Paths, NEW c \in Contract, NEW src, options \in OptionSets
  PROVE  /\ RunAnalysis(path, c, src) \in Seq(Reported)
         /\ ~ GaveUp(c, src) =>
              \A d \in Ran(c, src) : \A raw \in ToSet(c.reports[d].findings) :
                /\ c.reports[d].ok
                /\ AtLeast(Named(d, path, raw), options.registrySeverity, options.registryConfidence)
                => Named(d, path, raw) \in ToSet(RunAnalysis(path, c, src))
<1> DEFINE ds == DetectorsToRun(c, src)
           all == RunSequential(c, ds, options.failFast)
           named(i) == [j \in DOMAIN all[i] |->
                     [detector |-> ds[i], path |-> path, line |-> all[i][j].line,
                      severity |-> all[i][j].severity,
                      confidence |-> all[i][j].confidence]]
           lists == [i \in DOMAIN all |-> named(i)]
           flat == FlattenSeq(lists)
           wanted == {i \in DOMAIN flat :
                        AtLeast(flat[i], options.registrySeverity, options.registryConfidence)}
<1>1. ds \in Seq(Detectors) /\ ToSet(ds) = Ran(c, src)
  BY DetectorsToRunAre
<1>2. RunAnalysis(path, c, src) = Selection(flat, wanted)
  BY DEF RunAnalysis
<1> HIDE DEF ds
<1>3. PICK n \in Nat : DOMAIN ds = 1 .. n /\ \A i \in 1 .. n : ds[i] \in Detectors
  BY <1>1
<1>4. c.reports \in [Detectors -> [ok : BOOLEAN, findings : Seq(RawFinding)]]
  BY DEF Contract
<1>5. PICK m \in {0, n} : /\ DOMAIN all = 1 .. m
                          /\ \A i \in 1 .. m : all[i] \in Seq(RawFinding)
  <2>1. CASE options.failFast /\ \E i \in DOMAIN ds : ~ c.reports[ds[i]].ok
    <3>1. all = << >>
      BY <2>1 DEF RunSequential
    <3> QED
      BY <3>1
  <2>2. CASE ~ (options.failFast /\ \E i \in DOMAIN ds : ~ c.reports[ds[i]].ok)
    <3>1. all = [i \in DOMAIN ds |->
                   IF c.reports[ds[i]].ok THEN c.reports[ds[i]].findings ELSE << >>]
      BY <2>2 DEF RunSequential
    <3> QED
      BY <1>3, <1>4, <3>1
  <2> QED
    BY <2>1, <2>2
<1>6. ASSUME ~ GaveUp(c, src)
      PROVE  m = n /\ \A i \in 1 .. n : c.reports[ds[i]].ok => all[i] = c.reports[ds[i]].findings
  <2>1. \A i \in DOMAIN ds : ds[i] \in Ran(c, src)
    BY <1>1 DEF ToSet
  <2>2. all = [i \in DOMAIN ds |->
                   IF c.reports[ds[i]].ok THEN c.reports[ds[i]].findings ELSE << >>]
    BY <1>6, <2>1 DEF RunSequential, GaveUp
  <2> QED
    BY <1>3, <1>5, <2>2
<1> HIDE DEF all
<1>7. \A i \in 1 .. m : \A j \in DOMAIN all[i] : all[i][j] \in RawFinding
  BY <1>5
<1>8. \A i \in 1 .. m : \A j \in DOMAIN all[i] :
        named(i)[j] = Named(ds[i], path, all[i][j]) /\ named(i)[j] \in Reported
  BY <1>3, <1>5, <1>7 DEF RawFinding, Reported, Named
<1>9. \A i \in 1 .. m : named(i) \in Seq(Reported)
  <2> TAKE i \in 1 .. m
  <2>1. PICK k \in Nat : DOMAIN all[i] = 1 .. k
    BY <1>5
  <2>2. DOMAIN named(i) = 1 .. k
    BY <2>1
  <2>3. \A j \in 1 .. k : named(i)[j] \in Reported
    BY <1>8, <2>1
  <2>4. named(i) = [j \in 1 .. k |-> named(i)[j]]
    BY <2>1
  <2> HIDE DEF named
  <2> QED
    BY <2>3, <2>4
<1>10. /\ \A i \in 1 .. m : DOMAIN named(i) = DOMAIN all[i]
       /\ lists = [i \in 1 .. m |-> named(i)]
  BY <1>5
<1> HIDE DEF named, lists
<1>11. m \in Nat
  BY <1>5
<1>12. lists \in Seq(Seq(Reported)) /\ DOMAIN lists = 1 .. m
  BY <1>9, <1>10, <1>11
<1>13. flat \in Seq(Reported) /\ ToSet(flat) = UNION {ToSet(lists[i]) : i \in DOMAIN lists}
  BY <1>12, FlattenHas
<1> HIDE DEF flat
<1>14. wanted \in SUBSET DOMAIN flat
  OBVIOUS
<1>15. /\ Selection(flat, wanted) \in Seq(Reported)
       /\ ToSet(Selection(flat, wanted)) = {flat[i] : i \in wanted}
  <2> HIDE DEF wanted
  <2> QED
    BY <1>13, <1>14, SelectionHas
<1>16. ASSUME ~ GaveUp(c, src), NEW d \in Ran(c, src), NEW raw \in ToSet(c.reports[d].findings),
              c.reports[d].ok,
              AtLeast(Named(d, path, raw), options.registrySeverity, options.registryConfidence)
       PROVE  Named(d, path, raw) \in ToSet(RunAnalysis(path, c, src))
  <2>1. PICK i \in 1 .. n : ds[i] = d
    BY <1>1, <1>3 DEF ToSet
  <2>2. i \in 1 .. m /\ all[i] = c.reports[d].findings
    BY <1>6, <1>16, <2>1
  <2>3. PICK j \in DOMAIN all[i] : all[i][j] = raw
    BY <2>2 DEF ToSet
  <2>4. lists[i] = named(i) /\ j \in DOMAIN named(i) /\ named(i)[j] = Named(d, path, raw)
    BY <1>8, <1>10, <2>1, <2>2, <2>3
  <2>5. Named(d, path, raw) \in ToSet(lists[i])
    BY <2>4 DEF ToSet
  <2>6. Named(d, path, raw) \in ToSet(flat)
    BY <1>12, <1>13, <2>2, <2>5
  <2>7. PICK k \in DOMAIN flat : flat[k] = Named(d, path, raw)
    BY <2>6 DEF ToSet
  <2>8. k \in wanted
    BY <1>16, <2>7
  <2> QED
    BY <1>2, <1>15, <2>7, <2>8
<1> QED
  BY <1>2, <1>15, <1>16

(* What a file's text holds does not change while the run goes on.         *)
LEMMA AnalysisFixed ==
  ASSUME options' = options
  PROVE  /\ \A p \in Paths, t \in Texts : /\ Analyzed(p, t)' = Analyzed(p, t)
                                          /\ CacheKey(p, t)' = CacheKey(p, t)
                                          /\ Wanted(p, t)' = Wanted(p, t)
<1>1. \A p \in Paths, t \in Texts : Analyzed(p, t)' = Analyzed(p, t)
  BY DEF Analyzed, RunAnalysis
<1>2. \A p \in Paths, t \in Texts : CacheKey(p, t)' = CacheKey(p, t)
  BY DEF CacheKey
<1>3. \A p \in Paths, t \in Texts : Wanted(p, t)' = Wanted(p, t)
  BY DEF Wanted, Expected
<1> QED
  BY <1>1, <1>2, <1>3

(* What analyze_files keeps of the findings.                               *)
LEMMA FilterHas ==
  ASSUME NEW S, NEW fs \in Seq(S)
  PROVE  /\ Filter(fs) \in Seq(S)
         /\ \A i \in DOMAIN fs :
              AtLeast(fs[i], options.minSeverity, options.minConfidence) => fs[i] \in ToSet(Filter(fs))
<1> DEFINE K == {i \in DOMAIN fs : AtLeast(fs[i], options.minSeverity, options.minConfidence)}
<1>1. Filter(fs) = Selection(fs, K)
  BY DEF Filter
<1>2. Selection(fs, K) \in Seq(S) /\ ToSet(Selection(fs, K)) = {fs[i] : i \in K}
  <2>1. K \in SUBSET DOMAIN fs
    OBVIOUS
  <2> HIDE DEF K
  <2> QED
    BY <2>1, SelectionHas
<1> QED
  BY <1>1, <1>2

(* The analysis of a text has all the findings of its contracts that the   *)
(* registry lets through.                                                  *)
LEMMA AnalyzedHas ==
  ASSUME NEW path \in Paths, NEW text \in Texts, options \in OptionSets
  PROVE  /\ Analyzed(path, text) \in Seq(Reported)
         /\ \A f \in Expected(path, text) :
              AtLeast(f, options.registrySeverity, options.registryConfidence) =>
                f \in ToSet(Analyzed(path, text))
<1> DEFINE src == Source[text]
           runs == [i \in DOMAIN src.contracts |-> RunAnalysis(path, src.contracts[i], src)]
<1>1. src.contracts \in Seq(Contract)
  BY RunAssumption DEF SourceOf
<1>2. \A i \in DOMAIN src.contracts : src.contracts[i] \in Contract
  BY <1>1
<1>3. \A i \in DOMAIN src.contracts : runs[i] \in Seq(Reported)
  BY <1>2, RunAnalysisHas
<1>4. runs \in Seq(Seq(Reported)) /\ DOMAIN runs = DOMAIN src.contracts
  <2>1. PICK n \in Nat : DOMAIN src.contracts = 1 .. n
    BY <1>1
  <2>2. DOMAIN runs = 1 .. n /\ runs = [i \in 1 .. n |-> runs[i]]
    BY <2>1
  <2>3. \A i \in 1 .. n : runs[i] \in Seq(Reported)
    BY <1>3, <2>1
  <2> HIDE DEF runs
  <2> QED
    BY <2>1, <2>2, <2>3
<1>5. Analyzed(path, text) = FlattenSeq(runs)
  BY DEF Analyzed
<1>6. /\ FlattenSeq(runs) \in Seq(Reported)
      /\ ToSet(FlattenSeq(runs)) = UNION {ToSet(runs[i]) : i \in DOMAIN runs}
  <2> HIDE DEF runs
  <2> QED
    BY <1>4, FlattenHas
<1>7. ASSUME NEW f \in Expected(path, text),
             AtLeast(f, options.registrySeverity, options.registryConfidence)
      PROVE  f \in ToSet(Analyzed(path, text))
  <2>1. PICK i \in DOMAIN src.contracts :
          /\ ~ GaveUp(src.contracts[i], src)
          /\ \E d \in Ran(src.contracts[i], src) :
               /\ src.contracts[i].reports[d].ok
               /\ \E raw \in ToSet(src.contracts[i].reports[d].findings) : f = Named(d, path, raw)
    <3> DEFINE said(i, d) == {Named(d, path, raw) : raw \in ToSet(src.contracts[i].reports[d].findings)}
               able(i) == {d \in Ran(src.contracts[i], src) : src.contracts[i].reports[d].ok}
               heard == {i \in DOMAIN src.contracts : ~ GaveUp(src.contracts[i], src)}
    <3>1. Expected(path, text) = UNION {UNION {said(i, d) : d \in able(i)} : i \in heard}
      BY DEF Expected, GaveUp, Ran, Named
    <3> HIDE DEF heard, able
    <3>2. PICK i \in heard : f \in UNION {said(i, d) : d \in able(i)}
      BY <3>1
    <3>3. PICK d \in able(i) : f \in said(i, d)
      BY <3>2
    <3> QED
      BY <3>2, <3>3 DEF heard, able
  <2>2. f \in ToSet(runs[i])
    BY <1>2, <1>7, <2>1, RunAnalysisHas
  <2> HIDE DEF runs
  <2> QED
    BY <1>4, <1>5, <1>6, <2>2
<1> QED
  BY <1>5, <1>6, <1>7

(* A finding that is wanted passes the last filter, too.                   *)
LEMMA WantedKept ==
  ASSUME NEW path \in Paths, NEW text \in Texts, options \in OptionSets
  PROVE  /\ Wanted(path, text) \subseteq ToSet(Analyzed(path, text))
         /\ Wanted(path, text) \subseteq ToSet(Filter(Analyzed(path, text)))
         /\ Filter(Analyzed(path, text)) \in Seq(Reported)
<1> DEFINE all == Analyzed(path, text)
<1>1. /\ all \in Seq(Reported)
      /\ \A f \in Expected(path, text) :
              AtLeast(f, options.registrySeverity, options.registryConfidence) => f \in ToSet(all)
  BY AnalyzedHas
<1> HIDE DEF all
<1>2. \A f \in Wanted(path, text) : f \in ToSet(all)
  BY <1>1 DEF Wanted
<1>3. /\ Filter(all) \in Seq(Reported)
      /\ \A i \in DOMAIN all :
           AtLeast(all[i], options.minSeverity, options.minConfidence) => all[i] \in ToSet(Filter(all))
  BY <1>1, FilterHas
<1>4. ASSUME NEW f \in Wanted(path, text) PROVE f \in ToSet(Filter(all))
  <2>1. PICK i \in DOMAIN all : all[i] = f
    BY <1>2 DEF ToSet
  <2> QED
    BY <1>3, <2>1 DEF Wanted
<1> QED
  BY <1>2, <1>3, <1>4 DEF all

(* The data of a cache entry, and the findings made from it.               *)
CachedData(path, text) ==
  [i \in DOMAIN Analyzed(path, text) |-> ToCached(Analyzed(path, text)[i])]
Restored(path, data) == [i \in DOMAIN data |-> FromCached(path, data[i])]

(* They lose nothing but the confidence.                                   *)
LEMMA RestoredHas ==
  ASSUME NEW path \in Paths, NEW text \in Texts, options \in OptionSets,
         NEW data, data = CachedData(path, text)
  PROVE  /\ Filter(Restored(path, data)) \in Seq(Reported)
         /\ options.minConfidence < 3 =>
              Unconfident(Wanted(path, text)) \subseteq Unconfident(ToSet(Filter(Restored(path, data))))
<1> DEFINE all == Analyzed(path, text)
           fs == Restored(path, data)
<1>1. all \in Seq(Reported) /\ Wanted(path, text) \subseteq ToSet(all)
  BY AnalyzedHas, WantedKept
<1>2. data = [i \in DOMAIN all |-> ToCached(all[i])]
  BY DEF CachedData
<1> HIDE DEF all
<1>3. PICK n \in Nat : DOMAIN all = 1 .. n /\ \A i \in 1 .. n : all[i] \in Reported
  BY <1>1
<1>4. fs = [i \in 1 .. n |-> FromCached(path, ToCached(all[i]))]
  BY <1>2, <1>3 DEF Restored
<1>5. \A i \in 1 .. n : /\ fs[i] \in Reported
                        /\ fs[i].severity = all[i].severity
                        /\ fs[i].confidence = 2
                        /\ ToCached(fs[i]) = ToCached(all[i])
  <2> TAKE i \in 1 .. n
  <2>1. all[i] \in Reported
    BY <1>3
  <2>2. fs[i] = [detector |-> all[i].detector, path |-> path, line |-> all[i].line,
                 severity |-> all[i].severity, confidence |-> 2]
    BY <1>4 DEF FromCached, ToCached, HighConfidence
  <2> HIDE DEF fs
  <2> QED
    BY <2>1, <2>2 DEF Reported, Confidences, ToCached
<1>6. fs \in Seq(Reported)
  <2>1. fs = [i \in 1 .. n |-> fs[i]]
    BY <1>4
  <2> HIDE DEF fs
  <2> QED
    BY <1>5, <2>1
<1>7. DOMAIN fs = 1 .. n
  BY <1>4
<1> HIDE DEF fs
<1>8. /\ Filter(fs) \in Seq(Reported)
      /\ \A i \in DOMAIN fs :
           AtLeast(fs[i], options.minSeverity, options.minConfidence) => fs[i] \in ToSet(Filter(fs))
  BY <1>6, FilterHas
<1>9. ASSUME options.minConfidence < 3, NEW f \in Wanted(path, text)
      PROVE  ToCached(f) \in Unconfident(ToSet(Filter(fs)))
  <2>1. PICK i \in 1 .. n : all[i] = f
    BY <1>1, <1>3 DEF ToSet
  <2>2. options.minConfidence \in Confidences
    BY RunAssumption
  <2>3. 2 >= options.minConfidence
    BY <1>9, <2>2 DEF Confidences
  <2>4. f.severity >= options.minSeverity
    BY DEF Wanted, AtLeast
  <2>5. AtLeast(fs[i], options.minSeverity, options.minConfidence)
    BY <1>5, <2>1, <2>3, <2>4 DEF AtLeast
  <2>6. fs[i] \in ToSet(Filter(fs)) /\ ToCached(fs[i]) = ToCached(f)
    BY <1>5, <1>7, <1>8, <2>1, <2>5
  <2> QED
    BY <2>6 DEF Unconfident
<1> QED
  BY <1>8, <1>9 DEF fs, Unconfident

Answer == [path : Paths, text : Texts, findings : Seq(Reported), fromCache : BOOLEAN]

RunTypes ==
  /\ options \in OptionSets
  /\ disk \in [Paths -> Texts \cup {None}]
  /\ todo \in Seq(Paths)
  /\ clock \in Nat
  /\ summary \in Summary
  /\ found \in Seq(Reported)
  /\ answers \in Seq(Answer)

(* An entry of the cache is under the key of a file and a text, and holds  *)
(* what that text's analysis found.                                        *)
CacheSound ==
  \A k \in DOMAIN cache :
    \E p \in Paths, t \in Texts :
      /\ k = CacheKey(p, t)
      /\ cache[k] = [data |-> CachedData(p, t), accessed |-> cache[k].accessed]

(* Count(fs) counts the findings of each severity.                         *)
LEMMA CountsOf ==
  ASSUME NEW fs \in Seq(Reported)
  PROVE  /\ \A s \in Severities : Count(fs)[s] \in Nat
         /\ \A s \in Severities : Count(fs)[s] > 0 <=> \E i \in DOMAIN fs : fs[i].severity = s
<1> SUFFICES ASSUME NEW s \in Severities
             PROVE  /\ Count(fs)[s] \in Nat
                    /\ Count(fs)[s] > 0 <=> \E i \in DOMAIN fs : fs[i].severity = s
  OBVIOUS
<1> DEFINE D == {i \in DOMAIN fs : fs[i].severity = s}
<1>1. Count(fs)[s] = Cardinality(D)
  BY DEF Count
<1>2. (\E i \in DOMAIN fs : fs[i].severity = s) <=> D # {}
  OBVIOUS
<1>3. IsFiniteSet(D)
  <2>1. PICK m \in Nat : DOMAIN fs = 1 .. m
    OBVIOUS
  <2>2. IsFiniteSet(1 .. m)
    BY FS_Interval
  <2>3. D \in SUBSET (1 .. m)
    BY <2>1
  <2> HIDE DEF D
  <2> QED
    BY <2>2, <2>3, FS_Subset
<1> HIDE DEF D
<1>4. Cardinality(D) \in Nat /\ (Cardinality(D) = 0 <=> D = {})
  BY <1>3, FS_CardinalityType, FS_EmptySet
<1>5. \A k \in Nat : k > 0 <=> k # 0
  OBVIOUS
<1> QED
  BY <1>1, <1>2, <1>4, <1>5

(* What a successful answer leaves behind.                                 *)
LEMMA SucceedTyped ==
  ASSUME RunTypes, NEW path \in Paths, NEW text \in Texts, NEW findings \in Seq(Reported),
         NEW fromCache \in BOOLEAN, todo # << >>, Succeed(path, text, findings, fromCache)
  PROVE  /\ summary' \in Summary /\ found' \in Seq(Reported)
         /\ answers' \in Seq(Answer) /\ todo' \in Seq(Paths)
<1>1. /\ summary' = [summary EXCEPT !.successful = @ + 1, !.total = @ + Len(findings),
                       !.bySeverity = [s \in Severities |-> @[s] + Count(findings)[s]]]
      /\ found' = found \o findings
      /\ answers' = Append(answers, [path |-> path, text |-> text, findings |-> findings,
                                     fromCache |-> fromCache])
      /\ todo' = Tail(todo)
  BY DEF Succeed
<1>2. \A s \in Severities : Count(findings)[s] \in Nat
  BY CountsOf
<1> DEFINE more == [s \in Severities |-> summary.bySeverity[s] + Count(findings)[s]]
<1>3. more \in [Severities -> Nat]
  <2>1. \A s \in Severities : summary.bySeverity[s] \in Nat
    BY DEF RunTypes, Summary
  <2>2. \A a, b \in Nat : a + b \in Nat
    OBVIOUS
  <2> QED
    BY <1>2, <2>1, <2>2
<1>4. summary' = [summary EXCEPT !.successful = @ + 1, !.total = @ + Len(findings), !.bySeverity = more]
  BY <1>1
<1>5. summary' \in Summary
  <2>1. Len(findings) \in Nat
    OBVIOUS
  <2>2. summary.total + Len(findings) \in Nat /\ summary.successful + 1 \in Nat
    BY <2>1 DEF RunTypes, Summary
  <2>3. summary \in Summary
    BY DEF RunTypes
  <2> HIDE DEF more
  <2>4. [summary EXCEPT !.successful = @ + 1, !.total = @ + Len(findings), !.bySeverity = more] \in Summary
    BY <1>3, <2>2, <2>3 DEF Summary
  <2> QED
    BY <1>4, <2>4
<1>6. found' \in Seq(Reported)
  BY <1>1, ConcatHas DEF RunTypes
<1>7. answers' \in Seq(Answer)
  <2>1. [path |-> path, text |-> text, findings |-> findings, fromCache |-> fromCache] \in Answer
    BY DEF Answer
  <2>2. \A s \in Seq(Answer), a \in Answer : Append(s, a) \in Seq(Answer)
    OBVIOUS
  <2> QED
    BY <1>1, <2>1, <2>2 DEF RunTypes
<1>8. todo' \in Seq(Paths)
  BY <1>1, HeadAndTail DEF RunTypes
<1> QED
  BY <1>5, <1>6, <1>7, <1>8

(* Storing an analysis and making room changes no other entry.             *)
LEMMA StoredKeeps ==
  ASSUME NEW key, NEW entry, NEW c \in Stored(key, entry)
  PROVE  /\ DOMAIN c \subseteq DOMAIN cache \cup {key}
         /\ \A k \in DOMAIN c : c[k] = IF k = key THEN entry ELSE cache[k]
<1> DEFINE full == [k \in DOMAIN cache \cup {key} |-> IF k = key THEN entry ELSE cache[k]]
<1>1. c = full \/ \E S \in Kept(full, MemoryOf(full)) : c = [k \in S |-> full[k]]
  BY DEF Stored
<1>2. \A S \in Kept(full, MemoryOf(full)) : S \subseteq DOMAIN full
  BY DEF Kept
<1>3. CASE c = full
  BY <1>3
<1>4. CASE \E S \in Kept(full, MemoryOf(full)) : c = [k \in S |-> full[k]]
  <2>1. PICK S \in Kept(full, MemoryOf(full)) : c = [k \in S |-> full[k]]
    BY <1>4
  <2>2. S \subseteq DOMAIN cache \cup {key}
    BY <1>2
  <2>3. DOMAIN c = S /\ \A k \in S : c[k] = full[k]
    BY <2>1
  <2>4. \A k \in S : full[k] = IF k = key THEN entry ELSE cache[k]
    BY <2>2
  <2> QED
    BY <2>2, <2>3, <2>4
<1> QED
  BY <1>1, <1>3, <1>4

(* The options of a run do not change.                                     *)
LEMMA RunFixed ==
  ASSUME [Next]_vars
  PROVE  options' = options
BY DEF Next, vars, AnalyzeFile, Unreadable, AnswerFromCache, ParseError, NoContracts, Analyze,
       Finish, EditFile

(* A hit gives what the analysis of the text found.                        *)
LEMMA HitHas ==
  ASSUME CacheSound, NEW p \in Paths, NEW t \in Texts, CacheKey(p, t) \in DOMAIN cache
  PROVE  cache[CacheKey(p, t)].data = CachedData(p, t)
<1>1. PICK q \in Paths, u \in Texts :
        /\ CacheKey(p, t) = CacheKey(q, u)
        /\ cache[CacheKey(p, t)] = [data |-> CachedData(q, u), accessed |-> cache[CacheKey(p, t)].accessed]
  BY DEF CacheSound
<1>2. p = q /\ t = u
  BY <1>1 DEF CacheKey
<1> QED
  BY <1>1, <1>2

(* A run starts well typed.                                                *)
LEMMA RunTypesInit == Init => RunTypes
<1> SUFFICES ASSUME Init PROVE RunTypes
  OBVIOUS
<1>1. summary \in Summary
  BY DEF Init, EmptySummary, Summary
<1>2. todo \in Seq(Paths)
  <2>1. PICK args \in CommandLines : todo = FilesToAnalyze(args, options)
    BY DEF Init
  <2>2. args \in Seq(Paths)
    BY RunAssumption
  <2>3. Selection(args, {i \in DOMAIN args : args[i] \notin TestPaths}) \in Seq(Paths)
    <3> DEFINE K == {i \in DOMAIN args : args[i] \notin TestPaths}
    <3>1. K \in SUBSET DOMAIN args
      OBVIOUS
    <3> HIDE DEF K
    <3>2. Selection(args, K) \in Seq(Paths)
      BY <2>2, <3>1, SelectionHas
    <3> QED
      BY <3>2 DEF K
  <2> QED
    BY <2>1, <2>2, <2>3 DEF FilesToAnalyze
<1>3. found \in Seq(Reported) /\ answers \in Seq(Answer)
  BY DEF Init
<1> QED
  BY <1>1, <1>2, <1>3 DEF Init, RunTypes

(* The file at hand, when it can be read.                                  *)
LEMMA AtHandIs ==
  ASSUME RunTypes, todo # << >>
  PROVE  /\ AtHand \in Paths
         /\ Tail(todo) \in Seq(Paths)
         /\ disk[AtHand] # None => disk[AtHand] \in Texts
<1>1. AtHand \in Paths /\ Tail(todo) \in Seq(Paths)
  BY HeadAndTail DEF RunTypes, AtHand
<1> QED
  BY <1>1 DEF RunTypes

(* What an answer from the cache answers.                                  *)
LEMMA CacheAnswers ==
  ASSUME RunTypes, CacheSound, AnswerFromCache
  PROVE  /\ AtHand \in Paths /\ disk[AtHand] \in Texts /\ todo # << >>
         /\ CacheKey(AtHand, disk[AtHand]) \in DOMAIN cache
         /\ LET fs == Filter(Restored(AtHand, CachedData(AtHand, disk[AtHand])))
            IN fs \in Seq(Reported) /\ Succeed(AtHand, disk[AtHand], fs, TRUE)
<1>1. todo # << >> /\ disk[AtHand] # None /\ options \in OptionSets
  BY DEF AnswerFromCache, Working, RunTypes
<1>2. PICK p \in Paths, t \in Texts : p = AtHand /\ t = disk[AtHand]
  BY <1>1, AtHandIs
<1>3. CacheKey(p, t) \in DOMAIN cache
  BY <1>2 DEF AnswerFromCache, Hit
<1>4. cache[CacheKey(p, t)].data = CachedData(p, t)
  BY <1>3, HitHas
<1>5. Succeed(AtHand, disk[AtHand], Filter(Restored(AtHand, cache[CacheKey(AtHand, disk[AtHand])].data)), TRUE)
  BY DEF AnswerFromCache, Restored
<1>6. Filter(Restored(p, CachedData(p, t))) \in Seq(Reported)
  BY <1>1, RestoredHas
<1> QED
  BY <1>1, <1>2, <1>3, <1>4, <1>5, <1>6

(* What an analysis answers.                                               *)
LEMMA AnalysisAnswers ==
  ASSUME RunTypes, Analyze
  PROVE  /\ AtHand \in Paths /\ disk[AtHand] \in Texts /\ todo # << >>
         /\ LET fs == Filter(Analyzed(AtHand, disk[AtHand]))
            IN fs \in Seq(Reported) /\ Succeed(AtHand, disk[AtHand], fs, FALSE)
<1>1. todo # << >> /\ disk[AtHand] # None /\ options \in OptionSets
  BY DEF Analyze, Working, RunTypes
<1>2. PICK p \in Paths, t \in Texts : p = AtHand /\ t = disk[AtHand]
  BY <1>1, AtHandIs
<1>3. Filter(Analyzed(p, t)) \in Seq(Reported)
  BY <1>1, WantedKept
<1>4. Succeed(AtHand, disk[AtHand], Filter(Analyzed(AtHand, disk[AtHand])), FALSE)
  BY DEF Analyze
<1> QED
  BY <1>1, <1>2, <1>3, <1>4

(* A file without contracts is answered with no findings.                  *)
LEMMA EmptyAnswers ==
  ASSUME RunTypes, NoContracts
  PROVE  /\ AtHand \in Paths /\ disk[AtHand] \in Texts /\ todo # << >>
         /\ << >> \in Seq(Reported)
         /\ Succeed(AtHand, disk[AtHand], << >>, FALSE)
<1>1. todo # << >> /\ disk[AtHand] # None
  BY DEF NoContracts, Working
<1>2. << >> \in Seq(Reported)
  OBVIOUS
<1>3. Succeed(AtHand, disk[AtHand], << >>, FALSE)
  BY DEF NoContracts
<1>4. AtHand \in Paths /\ disk[AtHand] \in Texts
  BY <1>1, AtHandIs
<1> QED
  BY <1>1, <1>2, <1>3, <1>4

(* A step of a run keeps its types.                                        *)
LEMMA RunTypesNext ==
  ASSUME RunTypes, CacheSound, [Next]_vars
  PROVE  RunTypes'
<1>1. options' = options
  BY RunFixed
<1>2. ASSUME Fail, todo # << >>, UNCHANGED <<disk, clock>> PROVE RunTypes'
  <2>1. summary' = [summary EXCEPT !.failed = @ + 1] /\ summary \in Summary
    BY <1>2 DEF Fail, RunTypes
  <2>2. [summary EXCEPT !.failed = @ + 1] \in Summary
    BY <2>1 DEF Summary
  <2>3. todo' \in Seq(Paths)
    BY <1>2, AtHandIs DEF Fail
  <2> QED
    BY <1>1, <1>2, <2>1, <2>2, <2>3 DEF RunTypes, Fail
<1>3. CASE Unreadable \/ ParseError
  BY <1>2, <1>3 DEF Unreadable, ParseError, Working
<1>4. ASSUME NEW p \in Paths, NEW t \in Texts, NEW fs \in Seq(Reported), NEW b \in BOOLEAN,
             todo # << >>, Succeed(p, t, fs, b), clock' \in Nat, disk' = disk
      PROVE  RunTypes'
  <2>1. /\ summary' \in Summary /\ found' \in Seq(Reported)
        /\ answers' \in Seq(Answer) /\ todo' \in Seq(Paths)
    BY <1>4, SucceedTyped
  <2> QED
    BY <1>1, <1>4, <2>1 DEF RunTypes
<1>5. clock \in Nat /\ (Tick => clock' \in Nat)
  BY DEF Tick, RunTypes
<1>6. CASE AnswerFromCache
  <2>1. clock' \in Nat /\ disk' = disk
    BY <1>5, <1>6 DEF AnswerFromCache
  <2> QED
    BY <1>4, <1>6, <2>1, CacheAnswers
<1>7. CASE NoContracts
  <2>1. clock' \in Nat /\ disk' = disk
    BY <1>5, <1>7 DEF NoContracts
  <2> QED
    BY <1>4, <1>7, <2>1, EmptyAnswers
<1>8. CASE Analyze
  <2>1. clock' \in Nat /\ disk' = disk
    BY <1>5, <1>8 DEF Analyze
  <2> QED
    BY <1>4, <1>8, <2>1, AnalysisAnswers
<1>9. CASE Finish
  BY <1>9 DEF Finish, RunTypes
<1>10. CASE EditFile
  BY <1>10 DEF EditFile, RunTypes
<1>11. CASE UNCHANGED vars
  BY <1>11 DEF vars, RunTypes
<1> QED
  BY <1>3, <1>6, <1>7, <1>8, <1>9, <1>10, <1>11 DEF Next, AnalyzeFile

(* Whatever a step does to the cache, its entries stay sound.              *)
LEMMA CacheSoundNext ==
  ASSUME RunTypes, CacheSound, [Next]_vars
  PROVE  CacheSound'
<1>1. options' = options /\ options \in OptionSets
  BY RunFixed DEF RunTypes
<1>2. \A p \in Paths, t \in Texts : /\ CachedData(p, t)' = CachedData(p, t)
                                    /\ CacheKey(p, t)' = CacheKey(p, t)
  BY <1>1, AnalysisFixed DEF CachedData
<1>3. CASE cache' = cache
  <2> SUFFICES ASSUME NEW k \in DOMAIN cache'
               PROVE  \E p \in Paths, t \in Texts :
                        /\ k = CacheKey(p, t)'
                        /\ cache'[k] = [data |-> CachedData(p, t)', accessed |-> cache'[k].accessed]
    BY DEF CacheSound
  <2>1. PICK p \in Paths, t \in Texts :
          k = CacheKey(p, t) /\ cache[k] = [data |-> CachedData(p, t), accessed |-> cache[k].accessed]
    BY <1>3 DEF CacheSound
  <2> QED
    BY <1>2, <1>3, <2>1
<1>4. CASE AnswerFromCache
  <2> DEFINE key == CacheKey(AtHand, disk[AtHand])
  <2>1. cache' = [cache EXCEPT ![key].accessed = clock']
    BY <1>4 DEF AnswerFromCache
  <2> HIDE DEF key
  <2> SUFFICES ASSUME NEW k \in DOMAIN cache'
               PROVE  \E p \in Paths, t \in Texts :
                        /\ k = CacheKey(p, t)'
                        /\ cache'[k] = [data |-> CachedData(p, t)', accessed |-> cache'[k].accessed]
    BY DEF CacheSound
  <2>2. k \in DOMAIN cache
    BY <2>1
  <2>3. PICK p \in Paths, t \in Texts :
          k = CacheKey(p, t) /\ cache[k] = [data |-> CachedData(p, t), accessed |-> cache[k].accessed]
    BY <2>2 DEF CacheSound
  <2>4. cache'[k] = [data |-> CachedData(p, t), accessed |-> cache'[k].accessed]
    <3>1. CASE k = key
      <4>1. cache'[k] = [cache[k] EXCEPT !.accessed = clock']
        BY <2>1, <2>2, <3>1
      <4> QED
        BY <2>3, <4>1
    <3>2. CASE k # key
      BY <2>1, <2>2, <2>3, <3>2
    <3> QED
      BY <3>1, <3>2
  <2> QED
    BY <1>2, <2>3, <2>4
<1>5. CASE Analyze /\ cache' # cache
  <2> DEFINE key == CacheKey(AtHand, disk[AtHand])
             entry == [data |-> CachedData(AtHand, disk[AtHand]), accessed |-> clock']
  <2>1. cache' \in Stored(key, entry)
    BY <1>5 DEF Analyze, CachedData
  <2>2. AtHand \in Paths /\ disk[AtHand] \in Texts
    BY <1>5, AnalysisAnswers
  <2> SUFFICES ASSUME NEW k \in DOMAIN cache'
               PROVE  \E p \in Paths, t \in Texts :
                        /\ k = CacheKey(p, t)'
                        /\ cache'[k] = [data |-> CachedData(p, t)', accessed |-> cache'[k].accessed]
    BY DEF CacheSound
  <2>3. k \in DOMAIN cache \cup {key} /\ cache'[k] = IF k = key THEN entry ELSE cache[k]
    <3> HIDE DEF key, entry
    <3> QED
      BY <2>1, StoredKeeps
  <2>4. PICK p \in Paths, t \in Texts :
          k = CacheKey(p, t) /\ cache'[k] = [data |-> CachedData(p, t), accessed |-> cache'[k].accessed]
    <3>1. CASE k = key
      <4>1. cache'[k] = [data |-> CachedData(AtHand, disk[AtHand]), accessed |-> cache'[k].accessed]
        BY <2>3, <3>1
      <4> QED
        BY <2>2, <3>1, <4>1
    <3>2. CASE k # key
      BY <2>3, <3>2 DEF CacheSound
    <3> QED
      BY <3>1, <3>2
  <2> QED
    BY <1>2, <2>4
<1> QED
  BY <1>3, <1>4, <1>5 DEF Next, AnalyzeFile, vars, Unreadable, ParseError, NoContracts, Finish, EditFile

(* An empty cache is sound.                                                *)
LEMMA CacheSoundInit == Init => CacheSound
BY DEF Init, CacheSound

(* The summary counts what was found, and what was found is what the       *)
(* answers say.                                                            *)
FoundCounted ==
  /\ \A f \in ToSet(found) : summary.total > 0 /\ summary.bySeverity[f.severity] > 0
  /\ summary.total > 0 => ToSet(found) # {}
  /\ \A v \in Severities : summary.bySeverity[v] > 0 => \E f \in ToSet(found) : f.severity = v
FoundAnswered ==
  /\ \A i \in DOMAIN answers : ToSet(answers[i].findings) \subseteq ToSet(found)
  /\ \A f \in ToSet(found) : \E i \in DOMAIN answers : f \in ToSet(answers[i].findings)

(* An answer from an analysis has what is wanted of the text, one from the *)
(* cache has it but for the confidence.                                    *)
AnswersComplete ==
  \A i \in DOMAIN answers :
    LET a == answers[i]
    IN IF a.fromCache
       THEN options.minConfidence < 3 =>
              Unconfident(Wanted(a.path, a.text)) \subseteq Unconfident(ToSet(a.findings))
       ELSE Wanted(a.path, a.text) \subseteq ToSet(a.findings)

(* The exit code and the report are made of what was found.                *)
ReportMade ==
  exit = "running" \/ (/\ exit = DetermineExitCode(summary, options.exitConfig)
                       /\ exit \in Codes
                       /\ report = Deduplicated(found, KeysOf(found)))

RunSound == FoundCounted /\ FoundAnswered /\ AnswersComplete /\ ReportMade

(* Nothing is found, answered or reported to begin with.                   *)
LEMMA RunSoundInit == Init => RunSound
<1> SUFFICES ASSUME Init PROVE RunSound
  OBVIOUS
<1>1. found = << >> /\ answers = << >> /\ summary = EmptySummary /\ exit = "running"
  BY DEF Init
<1>2. ToSet(found) = {} /\ DOMAIN answers = {}
  BY <1>1 DEF ToSet
<1>3. ~ (summary.total > 0) /\ \A v \in Severities : ~ (summary.bySeverity[v] > 0)
  BY <1>1 DEF EmptySummary
<1> QED
  BY <1>1, <1>2, <1>3 DEF RunSound, FoundCounted, FoundAnswered, AnswersComplete, ReportMade

(* The answers are of files and texts, the findings reported ones.         *)
LEMMA AnswersTyped ==
  ASSUME RunTypes
  PROVE  /\ \A i \in DOMAIN answers : answers[i] \in Answer /\ answers[i].path \in Paths /\ answers[i].text \in Texts
         /\ \A f \in ToSet(found) : f \in Reported /\ f.severity \in Severities
<1>1. \A s \in Seq(Answer) : \A i \in DOMAIN s : s[i] \in Answer
  OBVIOUS
<1>2. \A s \in Seq(Reported) : \A i \in DOMAIN s : s[i] \in Reported
  OBVIOUS
<1>3. \A i \in DOMAIN answers : answers[i] \in Answer
  BY <1>1 DEF RunTypes
<1>4. \A f \in ToSet(found) : f \in Reported
  BY <1>2 DEF RunTypes, ToSet
<1>5. \A x \in Answer : x.path \in Paths /\ x.text \in Texts
  BY DEF Answer
<1>6. \A x \in Reported : x.severity \in Severities
  BY DEF Reported
<1> QED
  BY <1>3, <1>4, <1>5, <1>6

(* A step that neither answers nor finishes.                               *)
LEMMA QuietStep ==
  ASSUME RunSound, options' = options, UNCHANGED <<found, answers, report, exit>>,
         summary'.total = summary.total /\ summary'.bySeverity = summary.bySeverity,
         exit = "running" \/ summary' = summary, RunTypes
  PROVE  RunSound'
<1>1. FoundCounted'
  BY DEF RunSound, FoundCounted
<1>2. FoundAnswered'
  BY DEF RunSound, FoundAnswered
<1>3. \A i \in DOMAIN answers : answers[i].path \in Paths /\ answers[i].text \in Texts
  BY AnswersTyped
<1>4. \A p \in Paths, t \in Texts : Wanted(p, t)' = Wanted(p, t)
  BY AnalysisFixed
<1>5. AnswersComplete'
  BY <1>3, <1>4 DEF RunSound, AnswersComplete
<1>6. ReportMade'
  BY DEF RunSound, ReportMade
<1> QED
  BY <1>1, <1>2, <1>5, <1>6 DEF RunSound

(* A step that answers.                                                    *)
LEMMA AnswerStep ==
  ASSUME RunTypes, RunSound, options' = options, UNCHANGED exit, exit = "running",
         NEW path \in Paths, NEW text \in Texts, NEW findings \in Seq(Reported),
         NEW fromCache \in BOOLEAN, Succeed(path, text, findings, fromCache),
         IF fromCache
         THEN options.minConfidence < 3 =>
                Unconfident(Wanted(path, text)) \subseteq Unconfident(ToSet(findings))
         ELSE Wanted(path, text) \subseteq ToSet(findings)
  PROVE  RunSound'
<1> DEFINE a == [path |-> path, text |-> text, findings |-> findings, fromCache |-> fromCache]
           more == [s \in Severities |-> summary.bySeverity[s] + Count(findings)[s]]
<1>1. /\ summary' = [summary EXCEPT !.successful = @ + 1, !.total = @ + Len(findings),
                       !.bySeverity = more]
      /\ found' = found \o findings
      /\ answers' = Append(answers, a)
  BY DEF Succeed
<1>2. ToSet(found') = ToSet(found) \cup ToSet(findings)
  BY <1>1, ConcatHas DEF RunTypes
<1>3. summary \in Summary
  BY DEF RunTypes
<1>4. summary'.total = summary.total + Len(findings) /\ summary'.bySeverity = more
  <2> HIDE DEF more
  <2> QED
    BY <1>1, <1>3 DEF Summary
<1>5. /\ summary.total \in Nat /\ Len(findings) \in Nat
      /\ Len(findings) > 0 <=> ToSet(findings) # {}
  <2>1. Len(findings) > 0 <=> DOMAIN findings # {}
    <3>1. PICK m \in Nat : m = Len(findings) /\ DOMAIN findings = 1 .. m
      OBVIOUS
    <3>2. (m > 0 => 1 \in 1 .. m) /\ (~ (m > 0) => 1 .. m = {})
      OBVIOUS
    <3> QED
      BY <3>1, <3>2
  <2> QED
    BY <1>3, <2>1 DEF Summary, ToSet
<1>6. ASSUME NEW v \in Severities
      PROVE  /\ summary.bySeverity[v] \in Nat /\ Count(findings)[v] \in Nat
             /\ summary'.bySeverity[v] = summary.bySeverity[v] + Count(findings)[v]
             /\ Count(findings)[v] > 0 <=> \E f \in ToSet(findings) : f.severity = v
  <2>1. Count(findings)[v] \in Nat /\ (Count(findings)[v] > 0 <=> \E i \in DOMAIN findings : findings[i].severity = v)
    BY CountsOf
  <2>2. summary.bySeverity[v] \in Nat
    BY <1>3 DEF Summary
  <2>3. (\E f \in ToSet(findings) : f.severity = v) <=> \E i \in DOMAIN findings : findings[i].severity = v
    BY DEF ToSet
  <2> QED
    BY <1>4, <2>1, <2>2, <2>3
<1> HIDE DEF more
<1>7. \A m, n \in Nat : m + n > 0 <=> m > 0 \/ n > 0
  OBVIOUS
<1>8. summary'.total > 0 <=> summary.total > 0 \/ ToSet(findings) # {}
  BY <1>4, <1>5, <1>7
<1>9. \A v \in Severities : summary'.bySeverity[v] > 0 <=>
        summary.bySeverity[v] > 0 \/ \E f \in ToSet(findings) : f.severity = v
  BY <1>6, <1>7
<1>10. \A f \in ToSet(findings) \cup ToSet(found) : f.severity \in Severities
  <2>1. \A s \in Seq(Reported) : \A i \in DOMAIN s : s[i] \in Reported
    OBVIOUS
  <2>2. \A f \in ToSet(findings) : f \in Reported
    BY <2>1 DEF ToSet
  <2>3. \A f \in Reported : f.severity \in Severities
    BY DEF Reported
  <2> QED
    BY <2>2, <2>3, AnswersTyped
<1>11. FoundCounted'
  <2>1. \A f \in ToSet(found') : summary'.total > 0 /\ summary'.bySeverity[f.severity] > 0
    BY <1>2, <1>8, <1>9, <1>10 DEF RunSound, FoundCounted
  <2>2. summary'.total > 0 => ToSet(found') # {}
    BY <1>2, <1>8 DEF RunSound, FoundCounted
  <2>3. \A v \in Severities : summary'.bySeverity[v] > 0 => \E f \in ToSet(found') : f.severity = v
    BY <1>2, <1>9 DEF RunSound, FoundCounted
  <2> QED
    BY <2>1, <2>2, <2>3 DEF FoundCounted
<1>12. PICK n \in Nat : /\ DOMAIN answers = 1 .. n
                        /\ DOMAIN answers' = 1 .. n + 1
                        /\ answers'[n + 1] = a
                        /\ \A i \in 1 .. n : answers'[i] = answers[i]
  <2>1. answers \in Seq(Answer) /\ a \in Answer
    BY DEF RunTypes, Answer
  <2>2. \A s \in Seq(Answer), b \in Answer :
           /\ Len(s) \in Nat /\ DOMAIN s = 1 .. Len(s)
           /\ DOMAIN Append(s, b) = 1 .. Len(s) + 1
           /\ Append(s, b)[Len(s) + 1] = b
           /\ \A i \in 1 .. Len(s) : Append(s, b)[i] = s[i]
    OBVIOUS
  <2> HIDE DEF a
  <2> QED
    BY <1>1, <2>1, <2>2
<1>13. \A i \in DOMAIN answers' : i = n + 1 \/ i \in DOMAIN answers
  BY <1>12
<1>14. n + 1 \in DOMAIN answers' /\ DOMAIN answers \subseteq DOMAIN answers'
  BY <1>12
<1>15. a.findings = findings /\ a.path = path /\ a.text = text /\ a.fromCache = fromCache
  OBVIOUS
<1> HIDE DEF a
<1>16. FoundAnswered'
  <2>1. \A i \in DOMAIN answers' : ToSet(answers'[i].findings) \subseteq ToSet(found')
    BY <1>2, <1>12, <1>13, <1>15 DEF RunSound, FoundAnswered
  <2>2. \A f \in ToSet(found') : \E i \in DOMAIN answers' : f \in ToSet(answers'[i].findings)
    BY <1>2, <1>12, <1>14, <1>15 DEF RunSound, FoundAnswered
  <2> QED
    BY <2>1, <2>2 DEF FoundAnswered
<1>17. \A i \in DOMAIN answers : answers[i].path \in Paths /\ answers[i].text \in Texts
  BY AnswersTyped
<1>18. \A p \in Paths, t \in Texts : Wanted(p, t)' = Wanted(p, t)
  BY AnalysisFixed
<1>19. AnswersComplete'
  BY <1>12, <1>13, <1>15, <1>17, <1>18 DEF RunSound, AnswersComplete
<1> QED
  BY <1>11, <1>16, <1>19 DEF RunSound, ReportMade

(* A step keeps count, answers and report in agreement.                    *)
LEMMA RunSoundNext ==
  ASSUME RunTypes, CacheSound, RunSound, [Next]_vars
  PROVE  RunSound'
<1>1. options' = options /\ options \in OptionSets
  BY RunFixed DEF RunTypes
<1>2. CASE Unreadable \/ ParseError
  <2>1. /\ UNCHANGED <<found, answers, report, exit>> /\ exit = "running"
        /\ summary' = [summary EXCEPT !.failed = @ + 1]
    BY <1>2 DEF Unreadable, ParseError, Fail, Working
  <2>2. summary'.total = summary.total /\ summary'.bySeverity = summary.bySeverity
    BY <2>1 DEF RunTypes, Summary
  <2> QED
    BY <1>1, <2>1, <2>2, QuietStep
<1>3. CASE EditFile \/ UNCHANGED vars
  <2>1. UNCHANGED <<found, answers, report, exit, summary>>
    BY <1>3 DEF EditFile, vars
  <2> QED
    BY <1>1, <2>1, QuietStep
<1>4. CASE AnswerFromCache
  <2>1. PICK p \in Paths, t \in Texts : p = AtHand /\ t = disk[AtHand]
    BY <1>4, CacheAnswers
  <2>2. PICK fs \in Seq(Reported) : /\ fs = Filter(Restored(p, CachedData(p, t)))
                                    /\ Succeed(p, t, fs, TRUE)
    BY <1>4, <2>1, CacheAnswers
  <2>3. options.minConfidence < 3 =>
          Unconfident(Wanted(p, t)) \subseteq Unconfident(ToSet(fs))
    BY <1>1, <2>2, RestoredHas
  <2>4. UNCHANGED exit /\ exit = "running"
    BY <1>4 DEF AnswerFromCache, Working
  <2> QED
    BY <1>1, <2>2, <2>3, <2>4, AnswerStep
<1>5. CASE Analyze
  <2>1. PICK p \in Paths, t \in Texts : p = AtHand /\ t = disk[AtHand]
    BY <1>5, AnalysisAnswers
  <2>2. PICK fs \in Seq(Reported) : fs = Filter(Analyzed(p, t)) /\ Succeed(p, t, fs, FALSE)
    BY <1>5, <2>1, AnalysisAnswers
  <2>3. Wanted(p, t) \subseteq ToSet(fs)
    BY <1>1, <2>2, WantedKept
  <2>4. UNCHANGED exit /\ exit = "running"
    BY <1>5 DEF Analyze, Working
  <2> QED
    BY <1>1, <2>2, <2>3, <2>4, AnswerStep
<1>6. CASE NoContracts
  <2>1. PICK p \in Paths, t \in Texts : /\ p = AtHand /\ t = disk[AtHand]
                                        /\ Succeed(p, t, << >>, FALSE) /\ << >> \in Seq(Reported)
    BY <1>6, EmptyAnswers
  <2>2. Source[t].contracts = << >>
    BY <1>6, <2>1 DEF NoContracts
  <2>3. Wanted(p, t) = {}
    BY <2>2 DEF Wanted, Expected
  <2>4. UNCHANGED exit /\ exit = "running"
    BY <1>6 DEF NoContracts, Working
  <2>5. Wanted(p, t) \subseteq ToSet(<< >>)
    BY <2>3
  <2> QED
    BY <1>1, <2>1, <2>4, <2>5, AnswerStep
<1>7. CASE Finish
  <2>1. /\ exit' = DetermineExitCode(summary, options.exitConfig)
        /\ report' = Deduplicated(found, KeysOf(found))
        /\ UNCHANGED <<found, answers, summary>>
    BY <1>7 DEF Finish
  <2>2. DetermineExitCode(summary, options.exitConfig) \in Codes
    BY DEF DetermineExitCode, Codes
  <2>3. ReportMade'
    BY <1>1, <2>1, <2>2 DEF ReportMade, KeysOf
  <2>4. FoundCounted'
    BY <2>1 DEF RunSound, FoundCounted
  <2>5. FoundAnswered'
    BY <2>1 DEF RunSound, FoundAnswered
  <2>6. \A i \in DOMAIN answers : answers[i].path \in Paths /\ answers[i].text \in Texts
    BY AnswersTyped
  <2>7. \A p \in Paths, t \in Texts : Wanted(p, t)' = Wanted(p, t)
    BY <1>1, AnalysisFixed
  <2>8. AnswersComplete'
    BY <1>1, <2>1, <2>6, <2>7 DEF RunSound, AnswersComplete
  <2> QED
    BY <2>3, <2>4, <2>5, <2>8 DEF RunSound
<1> QED
  BY <1>2, <1>3, <1>4, <1>5, <1>6, <1>7 DEF Next, AnalyzeFile

-----------------------------------------------------------------------------
(* The report names the places of the findings, each once.                 *)
LEMMA ReportFollows ==
  ASSUME RunTypes, RunSound
  PROVE  ReportComplete
<1> SUFFICES ASSUME exit # "running"
             PROVE  /\ IsInjective([i \in DOMAIN report |-> FindingKey(report[i])])
                    /\ \A i \in DOMAIN answers : ~ answers[i].fromCache =>
                         \A f \in Wanted(answers[i].path, answers[i].text) :
                           \E g \in ToSet(report) : FindingKey(g) = FindingKey(f)
  BY DEF ReportComplete
<1> DEFINE keys == KeysOf(found)
           m == Len(found)
<1>1. report = Deduplicated(found, keys)
  BY DEF RunSound, ReportMade
<1>2. m \in Nat /\ DOMAIN found = 1 .. m /\ DOMAIN keys = 1 .. m
  BY DEF KeysOf, RunTypes
<1>3. \A i \in 1 .. m : keys[i] = FindingKey(found[i])
  BY <1>2 DEF KeysOf
<1> HIDE DEF keys, m
<1>4. PICK n \in Nat : \E kept : KeptOf(found, keys, m, n, kept)
  BY <1>2, DeduplicatedIs DEF Keyed
<1>5. PICK kept : KeptOf(found, keys, m, n, kept)
  BY <1>4
<1>6. /\ kept \in [1 .. n -> 1 .. m]
      /\ report = [i \in 1 .. n |-> found[kept[i]]]
      /\ \A i \in 1 .. m : \E k \in 1 .. n : keys[kept[k]] = keys[i]
      /\ \A j, k \in 1 .. n : keys[kept[j]] = keys[kept[k]] => j = k
  BY <1>1, <1>5 DEF KeptOf
<1>7. \A i \in 1 .. n : FindingKey(report[i]) = keys[kept[i]]
  BY <1>3, <1>6
<1>8. DOMAIN report = 1 .. n
  BY <1>6
<1>9. IsInjective([i \in DOMAIN report |-> FindingKey(report[i])])
  BY <1>6, <1>7, <1>8 DEF IsInjective
<1>10. ASSUME NEW i \in DOMAIN answers, ~ answers[i].fromCache,
              NEW f \in Wanted(answers[i].path, answers[i].text)
       PROVE  \E g \in ToSet(report) : FindingKey(g) = FindingKey(f)
  <2>1. f \in ToSet(answers[i].findings)
    BY <1>10 DEF RunSound, AnswersComplete
  <2>2. f \in ToSet(found)
    BY <2>1 DEF RunSound, FoundAnswered
  <2>3. PICK j \in 1 .. m : found[j] = f
    BY <1>2, <2>2 DEF ToSet
  <2>4. PICK k \in 1 .. n : keys[kept[k]] = keys[j]
    BY <1>6
  <2>5. report[k] \in ToSet(report) /\ FindingKey(report[k]) = FindingKey(f)
    BY <1>3, <1>7, <1>8, <2>3, <2>4 DEF ToSet
  <2> QED
    BY <2>5
<1> QED
  BY <1>9, <1>10

(* The exit code says what was found.                                      *)
LEMMA CodeFollows ==
  ASSUME RunTypes, RunSound
  PROVE  ExitCodeFaithful
<1> DEFINE config == options.exitConfig
<1>1. config \in ExitConfigs /\ summary \in Summary
  BY RunAssumption DEF RunTypes
<1> HIDE DEF config
<1>2. ASSUME exit # "running"
      PROVE  /\ exit = DetermineExitCode(summary, config)
             /\ ToSet(report) \subseteq ToSet(found)
  <2>1. exit = DetermineExitCode(summary, options.exitConfig) /\ report = Deduplicated(found, KeysOf(found))
    BY <1>2 DEF RunSound, ReportMade
  <2>2. Deduplicated(found, KeysOf(found)) = Selection(found, Firsts(KeysOf(found)))
    BY DEF Deduplicated
  <2>3. Firsts(KeysOf(found)) \in SUBSET DOMAIN found
    BY DEF Firsts, KeysOf
  <2>4. ToSet(Selection(found, Firsts(KeysOf(found)))) = {found[i] : i \in Firsts(KeysOf(found))}
    BY <2>3, SelectionHas DEF RunTypes
  <2> QED
    BY <2>1, <2>2, <2>3, <2>4 DEF config, ToSet
<1>3. /\ exit = "success" =>
            /\ config.errorOnAnalysisFailure => ~ (summary.failed > 0)
            /\ \A v \in Severities :
                 summary.total > 0 /\ summary.bySeverity[v] > 0 => v < Threshold(config)
      /\ exit = "analysis error" => summary.failed > 0 /\ config.errorOnAnalysisFailure
      /\ exit = "security issues" =>
            \/ Threshold(config) = 0 /\ summary.total > 0
            \/ \E v \in Severities : v >= Threshold(config) /\ summary.bySeverity[v] > 0
  BY <1>1, <1>2, CodeMeans
<1>4. summary.failed \in Nat
  BY <1>1 DEF Summary
<1>5. ASSUME exit = "success"
      PROVE  /\ \A f \in ToSet(report) : f.severity < Threshold(config)
             /\ config.errorOnAnalysisFailure => summary.failed = 0
  <2>1. \A f \in ToSet(report) : /\ f.severity \in Severities
                                 /\ summary.total > 0 /\ summary.bySeverity[f.severity] > 0
    BY <1>2, <1>5, AnswersTyped DEF RunSound, FoundCounted
  <2> QED
    BY <1>3, <1>4, <1>5, <2>1
<1>6. ASSUME exit = "security issues"
      PROVE  \E i \in DOMAIN answers : \E f \in ToSet(answers[i].findings) : f.severity >= Threshold(config)
  <2>1. \E f \in ToSet(found) : f.severity >= Threshold(config)
    <3>1. CASE Threshold(config) = 0 /\ summary.total > 0
      <4>1. PICK f \in ToSet(found) : f.severity \in Severities
        BY <3>1, AnswersTyped DEF RunSound, FoundCounted
      <4>2. f.severity >= 0
        BY <4>1 DEF Severities
      <4> QED
        BY <3>1, <4>1, <4>2
    <3>2. CASE \E v \in Severities : v >= Threshold(config) /\ summary.bySeverity[v] > 0
      BY <3>2 DEF RunSound, FoundCounted
    <3> QED
      BY <1>3, <1>6, <3>1, <3>2
  <2>2. PICK f \in ToSet(found) : f.severity >= Threshold(config)
    BY <2>1
  <2> QED
    BY <2>2 DEF RunSound, FoundAnswered
<1> QED
  BY <1>3, <1>5, <1>6 DEF ExitCodeFaithful, config

(* The invariants of a run together.                                       *)
RunInvariant == RunTypes /\ CacheSound /\ RunSound

(* They hold of every state.                                               *)
LEMMA RunInvariantHolds ==
  /\ Init => RunInvariant
  /\ RunInvariant /\ [Next]_vars => RunInvariant'
<1>1. Init => RunInvariant
  BY RunTypesInit, CacheSoundInit, RunSoundInit DEF RunInvariant
<1>2. RunInvariant /\ [Next]_vars => RunInvariant'
  BY RunTypesNext, CacheSoundNext, RunSoundNext DEF RunInvariant
<1> QED
  BY <1>1, <1>2

(* An answer from the cache has every finding that an analysis of the text *)
(* just read would have reported, unless confirmed ones only are asked for. *)
THEOREM NothingHidden == Spec => []CacheHidesNothing
<1>1. RunInvariant => CacheHidesNothing
  BY DEF RunInvariant, RunSound, AnswersComplete, CacheHidesNothing
<1> QED
  BY <1>1, RunInvariantHolds, PTL DEF Spec

(* The report of a run has every place something wanted was found at, and  *)
(* none twice.                                                             *)
THEOREM ReportHasAll == Spec => []ReportComplete
<1>1. RunInvariant => ReportComplete
  BY ReportFollows DEF RunInvariant
<1> QED
  BY <1>1, RunInvariantHolds, PTL DEF Spec

(* An exit code of success is never wrong, and one of failure has its      *)
(* cause.                                                                  *)
THEOREM ExitCodeSound == Spec => []ExitCodeFaithful
<1>1. RunInvariant => ExitCodeFaithful
  BY CodeFollows DEF RunInvariant
<1> QED
  BY <1>1, RunInvariantHolds, PTL DEF Spec

-----------------------------------------------------------------------------
(* The cache keeps within its limits.                                      *)
CacheWithin == IsFiniteSet(DOMAIN cache) /\ CacheBounded

(* An entry's estimated size is a number.                                  *)
LEMMA CachedSize ==
  ASSUME NEW p \in Paths, NEW t \in Texts, options \in OptionSets
  PROVE  Len(CachedData(p, t)) \in Nat
<1>1. Analyzed(p, t) \in Seq(Reported)
  BY AnalyzedHas
<1>2. PICK n \in Nat : DOMAIN Analyzed(p, t) = 1 .. n
  BY <1>1
<1>3. CachedData(p, t) = [i \in 1 .. n |-> ToCached(Analyzed(p, t)[i])]
  BY <1>2 DEF CachedData
<1>4. Len(CachedData(p, t)) = n
  BY <1>3
<1> QED
  BY <1>4

(* What store_analysis leaves is within the limits.                        *)
LEMMA StoredWithin ==
  ASSUME IsFiniteSet(DOMAIN cache), \A k \in DOMAIN cache : EntrySize(cache[k]) \in Nat,
         NEW key, NEW entry, EntrySize(entry) \in Nat, NEW c \in Stored(key, entry)
  PROVE  /\ IsFiniteSet(DOMAIN c)
         /\ Cardinality(DOMAIN c) <= MaxEntries
         /\ MemoryOf(c) <= MaxMemory
<1> DEFINE full == [k \in DOMAIN cache \cup {key} |-> IF k = key THEN entry ELSE cache[k]]
           size == [k \in DOMAIN full |-> EntrySize(full[k])]
           mem == MemoryOf(full)
           part(S) == [k \in S |-> full[k]]
<1>1. DOMAIN full = DOMAIN cache \cup {key} /\ DOMAIN size = DOMAIN full
  OBVIOUS
<1>2. IsFiniteSet(DOMAIN full)
  BY <1>1, FS_AddElement
<1>3. \A k \in DOMAIN full : size[k] = EntrySize(full[k]) /\ size[k] \in Nat
  OBVIOUS
<1>4. mem = SumFunctionOnSet(size, DOMAIN full)
  BY <1>1 DEF MemoryOf, SumFunction
<1>5. mem \in Nat /\ Cardinality(DOMAIN full) \in Nat
  <2> HIDE DEF size, full, mem
  <2> QED
    BY <1>2, <1>3, <1>4, SumNatural, FS_CardinalityType
<1>6. \/ ~ Over(full, mem) /\ c = full
      \/ Over(full, mem) /\ \E S \in Kept(full, mem) : c = part(S)
  BY DEF Stored
<1>7. MaxEntries \in Nat /\ MaxMemory \in Nat
  BY RunAssumption
<1> HIDE DEF full, size, mem
<1>8. CASE ~ Over(full, mem) /\ c = full
  BY <1>2, <1>5, <1>7, <1>8 DEF Over, mem
<1>9. CASE \E S \in Kept(full, mem) : c = part(S)
  <2>1. PICK S \in Kept(full, mem) : c = part(S)
    BY <1>9
  <2>2. DOMAIN c = S
    BY <2>1
  <2>3. CASE mem > (MaxMemory * 80) \div 100
    <3>1. S = {}
      BY <2>3 DEF Kept
    <3>2. DOMAIN [k \in DOMAIN c |-> EntrySize(c[k])] = {}
      BY <2>2, <3>1
    <3>3. MemoryOf(c) = 0
      BY <3>2, SumEmpty DEF MemoryOf, SumFunction
    <3>4. IsFiniteSet(DOMAIN c) /\ Cardinality(DOMAIN c) = 0
      BY <2>2, <3>1, FS_EmptySet
    <3> QED
      BY <1>7, <3>3, <3>4
  <2>4. CASE ~ (mem > (MaxMemory * 80) \div 100)
    <3>1. S \in SUBSET DOMAIN full /\ Cardinality(S) = (MaxEntries * 80) \div 100
      BY <2>4 DEF Kept
    <3>2. IsFiniteSet(S)
      BY <1>2, <3>1, FS_Subset
    <3>3. \A n \in Nat : (n * 80) \div 100 <= n
      OBVIOUS
    <3>4. Cardinality(DOMAIN c) <= MaxEntries
      BY <1>7, <2>2, <3>1, <3>3
    <3> DEFINE sizes == [k \in DOMAIN c |-> EntrySize(c[k])]
    <3>5. \A k \in S : sizes[k] = size[k]
      BY <1>3, <2>1, <2>2, <3>1
    <3>6. MemoryOf(c) = SumFunctionOnSet(sizes, S)
      BY <2>2 DEF MemoryOf, SumFunction
    <3> HIDE DEF sizes
    <3>7. SumFunctionOnSet(sizes, S) = SumFunctionOnSet(size, S)
      BY <3>2, <3>5, SumSame
    <3>8. SumFunctionOnSet(size, S) <= SumFunctionOnSet(size, DOMAIN full)
      BY <1>2, <1>3, <3>1, SumMonotone
    <3>9. SumFunctionOnSet(size, S) \in Nat
      BY <1>3, <3>1, <3>2, SumNatural
    <3>10. \A m, n, k \in Nat : m <= n /\ ~ (n > (k * 80) \div 100) => m <= k
      OBVIOUS
    <3>11. MemoryOf(c) <= MaxMemory
      BY <1>4, <1>5, <1>7, <2>4, <3>6, <3>7, <3>8, <3>9, <3>10
    <3> QED
      BY <2>2, <3>2, <3>4, <3>11
  <2> QED
    BY <2>3, <2>4
<1> QED
  BY <1>6, <1>8, <1>9

(* An empty cache is within its limits.                                    *)
LEMMA CacheWithinInit == Init => CacheWithin
<1> SUFFICES ASSUME Init PROVE CacheWithin
  OBVIOUS
<1>1. DOMAIN cache = {} /\ memory = 0
  BY DEF Init
<1>2. DOMAIN [k \in DOMAIN cache |-> EntrySize(cache[k])] = {}
  BY <1>1
<1>3. MemoryOf(cache) = 0
  BY <1>2, SumEmpty DEF MemoryOf, SumFunction
<1>4. IsFiniteSet(DOMAIN cache) /\ Cardinality(DOMAIN cache) = 0
  BY <1>1, FS_EmptySet
<1> QED
  BY <1>1, <1>3, <1>4, RunAssumption DEF CacheWithin, CacheBounded

(* Every store and every hit leaves the cache within its limits.           *)
LEMMA CacheWithinNext ==
  ASSUME RunTypes, CacheSound, CacheWithin, [Next]_vars
  PROVE  CacheWithin'
<1>1. CASE UNCHANGED <<cache, memory>>
  BY <1>1 DEF CacheWithin, CacheBounded, MemoryOf
<1>2. CASE AnswerFromCache
  <2> DEFINE key == CacheKey(AtHand, disk[AtHand])
             sizes(c) == [k \in DOMAIN c |-> EntrySize(c[k])]
  <2>1. cache' = [cache EXCEPT ![key].accessed = clock'] /\ memory' = memory
    BY <1>2 DEF AnswerFromCache
  <2> HIDE DEF key
  <2>2. DOMAIN cache' = DOMAIN cache
    BY <2>1
  <2>3. \A k \in DOMAIN cache : cache'[k].data = cache[k].data
    <3> TAKE k \in DOMAIN cache
    <3>1. PICK x, y : cache[k] = [data |-> x, accessed |-> y]
      BY DEF CacheSound
    <3>2. CASE k = key
      <4>1. cache'[k] = [cache[k] EXCEPT !.accessed = clock']
        BY <2>1, <3>2
      <4> QED
        BY <3>1, <4>1
    <3>3. CASE k # key
      BY <2>1, <3>3
    <3> QED
      BY <3>2, <3>3
  <2>4. \A k \in DOMAIN cache : EntrySize(cache'[k]) = EntrySize(cache[k])
    BY <2>3 DEF EntrySize
  <2>5. sizes(cache') = sizes(cache)
    BY <2>2, <2>4
  <2>6. MemoryOf(cache') = MemoryOf(cache)
    BY <2>5 DEF MemoryOf
  <2>7. /\ Cardinality(DOMAIN cache') <= MaxEntries /\ IsFiniteSet(DOMAIN cache')
        /\ memory' <= MaxMemory /\ memory' = MemoryOf(cache')
    BY <2>1, <2>2, <2>6 DEF CacheWithin, CacheBounded
  <2> QED
    BY <2>7 DEF CacheWithin, CacheBounded, MemoryOf
<1>3. CASE Analyze /\ ~ UNCHANGED <<cache, memory>>
  <2> DEFINE key == CacheKey(AtHand, disk[AtHand])
             entry == [data |-> CachedData(AtHand, disk[AtHand]), accessed |-> clock']
  <2>1. cache' \in Stored(key, entry) /\ memory' = MemoryOf(cache')
    BY <1>3 DEF Analyze, CachedData
  <2>2. EntrySize(entry) \in Nat
    <3>1. PICK p \in Paths, t \in Texts : p = AtHand /\ t = disk[AtHand]
      BY <1>3, AnalysisAnswers
    <3>2. Len(CachedData(p, t)) \in Nat
      BY CachedSize DEF RunTypes
    <3>3. 1 + Len(CachedData(AtHand, disk[AtHand])) \in Nat
      BY <3>1, <3>2
    <3> QED
      BY <3>3 DEF EntrySize
  <2>3. \A k \in DOMAIN cache : EntrySize(cache[k]) \in Nat
    <3> TAKE k \in DOMAIN cache
    <3>1. PICK p \in Paths, t \in Texts :
            cache[k] = [data |-> CachedData(p, t), accessed |-> cache[k].accessed]
      BY DEF CacheSound
    <3>2. Len(CachedData(p, t)) \in Nat
      BY CachedSize DEF RunTypes
    <3>3. EntrySize(cache[k]) = 1 + Len(CachedData(p, t))
      BY <3>1 DEF EntrySize
    <3> QED
      BY <3>2, <3>3
  <2> HIDE DEF key, entry
  <2>4. PICK c \in Stored(key, entry) : c = cache'
    BY <2>1
  <2>5. /\ IsFiniteSet(DOMAIN c)
        /\ Cardinality(DOMAIN c) <= MaxEntries
        /\ MemoryOf(c) <= MaxMemory
    BY <2>2, <2>3, StoredWithin DEF CacheWithin
  <2>6. /\ Cardinality(DOMAIN cache') <= MaxEntries /\ IsFiniteSet(DOMAIN cache')
        /\ memory' <= MaxMemory /\ memory' = MemoryOf(cache')
    BY <2>1, <2>4, <2>5
  <2> QED
    BY <2>6 DEF CacheWithin, CacheBounded, MemoryOf
<1> QED
  BY <1>1, <1>2, <1>3 DEF Next, AnalyzeFile, vars, Unreadable, ParseError, NoContracts, Finish, EditFile

(* The cache stays within its two limits, and its estimate of the memory   *)
(* is that of the entries it holds.                                        *)
THEOREM CacheStaysBounded == Spec => []CacheBounded
<1>1. Init => RunInvariant /\ CacheWithin
  BY RunInvariantHolds, CacheWithinInit
<1>2. RunInvariant /\ CacheWithin /\ [Next]_vars => (RunInvariant /\ CacheWithin)'
  BY RunInvariantHolds, CacheWithinNext DEF RunInvariant
<1>3. RunInvariant /\ CacheWithin => CacheBounded
  BY DEF CacheWithin
<1> QED
  BY <1>1, <1>2, <1>3, PTL DEF Spec
=============================================================================
