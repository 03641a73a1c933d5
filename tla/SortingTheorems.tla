--------------------------- MODULE SortingTheorems ---------------------------
(***************************************************************************)
(* What InOrder, Max and a stable sort return, for every finite set of       *)
(* integers and every list of keys, and the induction and the fold over a    *)
(* list that the other proofs appeal to.                                     *)
(***************************************************************************)
EXTENDS Sorting, SequencesExt, FiniteSetsExt, FunctionTheorems, FiniteSetTheorems, TLAPS

\* A larger element has a larger rank, and no rank reaches the cardinality.
LEMMA RankIncreases ==
    ASSUME NEW S \in SUBSET Int, IsFiniteSet(S),
           NEW x \in S, NEW y \in S, x < y
    PROVE  Rank(S, x) < Rank(S, y)
<1> DEFINE X == {z \in S : z < x}
           Y == {z \in S : z < y}
<1>1. X \in SUBSET Y /\ x \in Y /\ x \notin X
  <2>1. \A z \in S : z < x => z < y
    OBVIOUS
  <2>2. ~(x < x)
    OBVIOUS
  <2> QED
    BY <2>1, <2>2
<1>2. IsFiniteSet(Y)
  BY FS_Subset
<1>3. Cardinality(X) <= Cardinality(Y) /\ Cardinality(X) # Cardinality(Y)
  BY <1>1, <1>2, FS_Subset
<1>4. Cardinality(X) \in Nat /\ Cardinality(Y) \in Nat
  BY <1>1, <1>2, FS_Subset, FS_CardinalityType
<1> QED
  BY <1>3, <1>4 DEF Rank

LEMMA RankType ==
    ASSUME NEW S \in SUBSET Int, IsFiniteSet(S), NEW x \in S
    PROVE  Rank(S, x) \in 0 .. Cardinality(S) - 1
<1> DEFINE X == {z \in S : z < x}
<1>1. X \in SUBSET S /\ x \in S /\ x \notin X
  OBVIOUS
<1>2. IsFiniteSet(X) /\ Cardinality(X) <= Cardinality(S) /\ Cardinality(X) # Cardinality(S)
  BY <1>1, FS_Subset
<1>3. Cardinality(X) \in Nat /\ Cardinality(S) \in Nat
  BY <1>2, FS_CardinalityType
<1> QED
  BY <1>2, <1>3 DEF Rank

\* Every rank below the cardinality is taken.
LEMMA RankOnto ==
    ASSUME NEW S \in SUBSET Int, IsFiniteSet(S),
           NEW k \in 0 .. Cardinality(S) - 1
    PROVE  \E x \in S : Rank(S, x) = k
<1> DEFINE n == Cardinality(S)
           f == [x \in S |-> Rank(S, x)]
<1>1. n \in Nat
  BY FS_CardinalityType
<1>2. f \in [S -> 0 .. n - 1]
  BY RankType
<1>3. \A x, y \in S : f[x] = f[y] => x = y
  <2> SUFFICES ASSUME NEW x \in S, NEW y \in S, f[x] = f[y], x # y PROVE FALSE
    OBVIOUS
  <2>1. x < y \/ y < x
    OBVIOUS
  <2>2. Rank(S, x) \in Int /\ Rank(S, y) \in Int
    BY RankType
  <2> QED
    BY <2>1, <2>2, RankIncreases
<1>4. IsFiniteSet(0 .. n - 1) /\ Cardinality(0 .. n - 1) = n
  BY <1>1, FS_Interval
<1>5. f \in Injection(S, 0 .. n - 1)
  BY <1>2, <1>3 DEF Injection, IsInjective
<1>6. f \in Surjection(S, 0 .. n - 1)
  BY <1>4, <1>5, FS_Injection
<1> QED
  BY <1>6 DEF Surjection

\* A set of naturals has a least element: what a proof by induction over a
\* concrete property appeals to, as the first counterexample.
LEMMA LeastNatural ==
    ASSUME NEW S \in SUBSET Nat, S # {}
    PROVE  \E x \in S : \A y \in S : x <= y
<1>1. PICK n \in S : TRUE
  OBVIOUS
<1> DEFINE T == {y \in S : y <= n}
<1>2. n \in Nat /\ n \in T /\ T \in SUBSET Int
  <2>1. n \in Nat /\ n <= n /\ \A y \in S : y \in Int
    OBVIOUS
  <2> QED
    BY <2>1
<1>3. IsFiniteSet(T)
  <2>1. IsFiniteSet(0 .. n) /\ T \in SUBSET (0 .. n)
    BY <1>2, FS_Interval
  <2> QED
    BY <2>1, FS_Subset
<1>4. Cardinality(T) \in Nat /\ Cardinality(T) # 0
  BY <1>2, <1>3, FS_CardinalityType, FS_EmptySet
<1> HIDE DEF T
<1>5. PICK x \in T : Rank(T, x) = 0
  BY <1>2, <1>3, <1>4, RankOnto
<1>6. {y \in T : y < x} = {}
  <2>1. {y \in T : y < x} \in SUBSET T
    OBVIOUS
  <2>2. IsFiniteSet({y \in T : y < x})
    BY <1>3, <2>1, FS_Subset
  <2> QED
    BY <1>5, <2>2, FS_EmptySet DEF Rank
<1>7. x \in S /\ x <= n
  BY DEF T
<1>8. ASSUME NEW y \in S PROVE x <= y
  <2>1. CASE y <= n
    BY <1>6, <1>7, <2>1 DEF T
  <2>2. CASE ~(y <= n)
    BY <1>2, <1>7, <2>2
  <2> QED
    BY <2>1, <2>2
<1> QED
  BY <1>7, <1>8

\* InOrder lists the set, each element once and lowest first.
THEOREM InOrderSorts ==
    ASSUME NEW S \in SUBSET Int, IsFiniteSet(S)
    PROVE  /\ InOrder(S) \in [1 .. Cardinality(S) -> S]
           /\ InOrder(S) \in Seq(S)
           /\ Len(InOrder(S)) = Cardinality(S)
           /\ Cardinality(S) \in Nat
           /\ \A i, j \in 1 .. Cardinality(S) : i < j => InOrder(S)[i] < InOrder(S)[j]
           /\ \A x \in S : \E i \in 1 .. Cardinality(S) : InOrder(S)[i] = x
<1> DEFINE n == Cardinality(S)
           q == InOrder(S)
<1>1. n \in Nat
  BY FS_CardinalityType
<1>2. \A i \in 1 .. n : q[i] \in S /\ Rank(S, q[i]) = i - 1
  <2> SUFFICES ASSUME NEW i \in 1 .. n
               PROVE  q[i] \in S /\ Rank(S, q[i]) = i - 1
    OBVIOUS
  <2>1. \E x \in S : Rank(S, x) = i - 1
    BY <1>1, RankOnto
  <2> QED
    BY <2>1 DEF InOrder
<1>3. q \in [1 .. n -> S]
  BY <1>2 DEF InOrder
<1> HIDE DEF n, q
<1>4. q \in Seq(S) /\ Len(q) = n
  BY <1>1, <1>3
<1>5. \A x, y \in S : Rank(S, x) < Rank(S, y) => x < y
  <2> SUFFICES ASSUME NEW x \in S, NEW y \in S, Rank(S, x) < Rank(S, y), ~(x < y)
               PROVE  FALSE
    OBVIOUS
  <2>1. Rank(S, x) \in Int /\ Rank(S, y) \in Int
    BY RankType
  <2>2. y < x \/ x = y
    OBVIOUS
  <2> QED
    BY <2>1, <2>2, RankIncreases
<1>6. \A i, j \in 1 .. n : i < j => q[i] < q[j]
  <2> SUFFICES ASSUME NEW i \in 1 .. n, NEW j \in 1 .. n, i < j PROVE q[i] < q[j]
    OBVIOUS
  <2>1. /\ q[i] \in S /\ q[j] \in S
        /\ Rank(S, q[i]) = i - 1 /\ Rank(S, q[j]) = j - 1
    BY <1>2
  <2>2. i - 1 < j - 1
    BY <1>1
  <2> QED
    BY <1>5, <2>1, <2>2
<1>7. \A x \in S : \E i \in 1 .. n : q[i] = x
  <2> SUFFICES ASSUME NEW x \in S PROVE \E i \in 1 .. n : q[i] = x
    OBVIOUS
  <2>1. Rank(S, x) \in 0 .. n - 1
    BY RankType DEF n
  <2>2. q[Rank(S, x) + 1] \in S /\ Rank(S, q[Rank(S, x) + 1]) = Rank(S, x)
    <3>1. PICK i : i = Rank(S, x) + 1
      OBVIOUS
    <3>2. i \in 1 .. n /\ i - 1 = Rank(S, x)
      BY <1>1, <2>1, <3>1
    <3>3. q[i] \in S /\ Rank(S, q[i]) = i - 1
      BY <1>2, <3>2
    <3> QED
      BY <3>1, <3>2, <3>3
  <2>3. q[Rank(S, x) + 1] = x
    <3> DEFINE y == q[Rank(S, x) + 1]
    <3> HIDE DEF y
    <3>1. y \in S /\ Rank(S, y) = Rank(S, x)
      BY <2>2 DEF y
    <3>2. Rank(S, x) \in Int
      BY RankType
    <3>3. ~(x < y)
      <4> SUFFICES ASSUME x < y PROVE FALSE
        OBVIOUS
      <4>1. Rank(S, x) < Rank(S, y)
        BY <3>1, RankIncreases
      <4> QED
        BY <3>1, <3>2, <4>1
    <3>4. ~(y < x)
      <4> SUFFICES ASSUME y < x PROVE FALSE
        OBVIOUS
      <4>1. Rank(S, y) < Rank(S, x)
        BY <3>1, RankIncreases
      <4> QED
        BY <3>1, <3>2, <4>1
    <3>5. y = x
      BY <3>1, <3>3, <3>4
    <3> QED
      BY <3>5 DEF y
  <2>4. Rank(S, x) + 1 \in 1 .. n
    BY <1>1, <2>1
  <2> QED
    BY <2>3, <2>4
<1> QED
  BY <1>1, <1>3, <1>4, <1>6, <1>7 DEF n, q

\* Max of a finite set is its largest element.
LEMMA FiniteMax ==
    ASSUME NEW S \in SUBSET Int, IsFiniteSet(S), S # {}
    PROVE  Max(S) \in S /\ \A x \in S : x <= Max(S)
<1> DEFINE n == Cardinality(S)
           order == InOrder(S)
<1>1. /\ order \in [1 .. n -> S] /\ n \in Nat
      /\ \A i, j \in 1 .. n : i < j => order[i] < order[j]
      /\ \A x \in S : \E i \in 1 .. n : order[i] = x
  BY InOrderSorts
<1> HIDE DEF order, n
<1>2. n # 0 /\ n \in 1 .. n
  <2>1. PICK x \in S : TRUE
    OBVIOUS
  <2>2. PICK i \in 1 .. n : order[i] = x
    BY <1>1
  <2> QED
    BY <1>1, <2>2
<1>3. ASSUME NEW x \in S PROVE order[n] >= x
  <2>1. PICK i \in 1 .. n : order[i] = x
    BY <1>1
  <2>2. i = n \/ order[i] < order[n]
    BY <1>1, <1>2
  <2>3. order[i] \in Int /\ order[n] \in Int
    BY <1>1, <1>2
  <2> QED
    BY <2>1, <2>2, <2>3
<1>4. order[n] \in S
  BY <1>1, <1>2
<1>5. Max(S) \in S /\ \A y \in S : Max(S) >= y
  <2>1. \E x \in S : \A y \in S : x >= y
    BY <1>3, <1>4
  <2> QED
    BY <2>1 DEF Max
<1> QED
  BY <1>5

\* The elements at some positions, each from one of them.
THEOREM SeqAtIs ==
    ASSUME NEW S, NEW seq \in Seq(S), NEW positions \in SUBSET DOMAIN seq
    PROVE  /\ SeqAt(seq, positions) \in Seq(S)
           /\ Len(SeqAt(seq, positions)) = Cardinality(positions)
           /\ DOMAIN SeqAt(seq, positions) = 1 .. Cardinality(positions)
           /\ Cardinality(positions) \in Nat
           /\ \A k \in 1 .. Cardinality(positions) :
                 /\ InOrder(positions)[k] \in positions
                 /\ SeqAt(seq, positions)[k] = seq[InOrder(positions)[k]]
           /\ \A i \in positions :
                 \E k \in 1 .. Cardinality(positions) : InOrder(positions)[k] = i
           /\ \A j, k \in 1 .. Cardinality(positions) :
                 j < k => InOrder(positions)[j] < InOrder(positions)[k]
<1> DEFINE n == Cardinality(positions)
           order == InOrder(positions)
<1>1. positions \in SUBSET Int /\ IsFiniteSet(positions)
  <2>1. DOMAIN seq = 1 .. Len(seq) /\ Len(seq) \in Nat
    OBVIOUS
  <2>2. IsFiniteSet(1 .. Len(seq))
    BY <2>1, FS_Interval
  <2> QED
    BY <2>1, <2>2, FS_Subset
<1>2. /\ order \in [1 .. n -> positions] /\ n \in Nat
      /\ \A x \in positions : \E i \in 1 .. n : order[i] = x
      /\ \A i, j \in 1 .. n : i < j => order[i] < order[j]
  BY <1>1, InOrderSorts
<1>3. SeqAt(seq, positions) = [k \in 1 .. n |-> seq[order[k]]]
  BY DEF SeqAt
<1> HIDE DEF order, n
<1>4. \A k \in 1 .. n : order[k] \in positions /\ seq[order[k]] \in S
  BY <1>2
<1>5. [k \in 1 .. n |-> seq[order[k]]] \in Seq(S)
  BY <1>2, <1>4
<1>6. Len([k \in 1 .. n |-> seq[order[k]]]) = n
  BY <1>2
<1> QED
  BY <1>2, <1>3, <1>4, <1>5, <1>6 DEF n, order

-----------------------------------------------------------------------------
(* The stable order of a list of keys.                                     *)

\* Keys are before one another like the numbers of a line.
LEMMA KeyBeforeOrders ==
    ASSUME NEW n \in Nat, NEW keys \in [1 .. n -> Int]
    PROVE  /\ \A i \in 1 .. n : ~KeyBefore(keys, i, i)
           /\ \A i, j \in 1 .. n : i = j \/ KeyBefore(keys, i, j) \/ KeyBefore(keys, j, i)
           /\ \A i, j, k \in 1 .. n :
                 KeyBefore(keys, i, j) /\ KeyBefore(keys, j, k) => KeyBefore(keys, i, k)
           /\ \A i, j \in 1 .. n : KeyBefore(keys, i, j) => ~KeyBefore(keys, j, i)
<1>1. \A i \in 1 .. n : keys[i] \in Int /\ i \in Int
  OBVIOUS
<1> QED
  BY <1>1 DEF KeyBefore

LEMMA KeyRankIncreases ==
    ASSUME NEW n \in Nat, NEW keys \in [1 .. n -> Int],
           NEW i \in 1 .. n, NEW j \in 1 .. n, KeyBefore(keys, i, j)
    PROVE  KeyRank(keys, i) < KeyRank(keys, j)
<1> DEFINE X == {k \in 1 .. n : KeyBefore(keys, k, i)}
           Y == {k \in 1 .. n : KeyBefore(keys, k, j)}
<1>1. X \in SUBSET Y /\ i \in Y /\ i \notin X
  BY KeyBeforeOrders
<1>2. IsFiniteSet(Y)
  <2>1. IsFiniteSet(1 .. n)
    BY FS_Interval
  <2>2. Y \in SUBSET (1 .. n)
    OBVIOUS
  <2> QED
    BY <2>1, <2>2, FS_Subset
<1>3. Cardinality(X) <= Cardinality(Y) /\ Cardinality(X) # Cardinality(Y)
  BY <1>1, <1>2, FS_Subset
<1>4. Cardinality(X) \in Nat /\ Cardinality(Y) \in Nat
  BY <1>1, <1>2, FS_Subset, FS_CardinalityType
<1>5. KeyRank(keys, i) = Cardinality(X) /\ KeyRank(keys, j) = Cardinality(Y)
  BY DEF KeyRank
<1> QED
  BY <1>3, <1>4, <1>5

LEMMA KeyRankType ==
    ASSUME NEW n \in Nat, NEW keys \in [1 .. n -> Int], NEW i \in 1 .. n
    PROVE  KeyRank(keys, i) \in 0 .. n - 1
<1> DEFINE X == {k \in 1 .. n : KeyBefore(keys, k, i)}
<1>1. X \in SUBSET (1 .. n) /\ i \notin X
  BY KeyBeforeOrders
<1>2. IsFiniteSet(1 .. n) /\ Cardinality(1 .. n) = n
  BY FS_Interval
<1>3. IsFiniteSet(X) /\ Cardinality(X) <= n /\ Cardinality(X) # n
  <2> HIDE DEF X
  <2>1. IsFiniteSet(X) /\ Cardinality(X) <= Cardinality(1 .. n)
    BY <1>1, <1>2, FS_Subset
  <2>2. X # 1 .. n
    BY <1>1
  <2>3. Cardinality(X) # Cardinality(1 .. n)
    BY <1>1, <1>2, <2>2, FS_Subset
  <2> QED
    BY <1>2, <2>1, <2>3
<1>4. Cardinality(X) \in Nat
  BY <1>3, FS_CardinalityType
<1>5. KeyRank(keys, i) = Cardinality(X)
  BY DEF KeyRank
<1> QED
  BY <1>3, <1>4, <1>5

LEMMA KeyRankOnto ==
    ASSUME NEW n \in Nat, NEW keys \in [1 .. n -> Int], NEW r \in 0 .. n - 1
    PROVE  \E i \in 1 .. n : KeyRank(keys, i) = r
<1> DEFINE f == [i \in 1 .. n |-> KeyRank(keys, i)]
<1>1. f \in [1 .. n -> 0 .. n - 1]
  BY KeyRankType
<1>2. \A i, j \in 1 .. n : f[i] = f[j] => i = j
  <2> SUFFICES ASSUME NEW i \in 1 .. n, NEW j \in 1 .. n, f[i] = f[j], i # j PROVE FALSE
    OBVIOUS
  <2>1. KeyBefore(keys, i, j) \/ KeyBefore(keys, j, i)
    BY KeyBeforeOrders
  <2>2. KeyRank(keys, i) \in Int /\ KeyRank(keys, j) \in Int
    BY KeyRankType
  <2>3. KeyBefore(keys, i, j) => KeyRank(keys, i) < KeyRank(keys, j)
    BY KeyRankIncreases
  <2>4. KeyBefore(keys, j, i) => KeyRank(keys, j) < KeyRank(keys, i)
    BY KeyRankIncreases
  <2> QED
    BY <2>1, <2>2, <2>3, <2>4
<1>3. /\ IsFiniteSet(0 .. n - 1) /\ Cardinality(0 .. n - 1) = n
      /\ IsFiniteSet(1 .. n) /\ Cardinality(1 .. n) = n
  BY FS_Interval
<1>4. f \in Injection(1 .. n, 0 .. n - 1)
  BY <1>1, <1>2 DEF Injection, IsInjective
<1>5. f \in Surjection(1 .. n, 0 .. n - 1)
  BY <1>3, <1>4, FS_Injection
<1> QED
  BY <1>5 DEF Surjection

\* A stable sort lists every position once, smaller keys first and equal ones
\* in their order.
THEOREM StableOrderSorts ==
    ASSUME NEW n \in Nat, NEW keys \in [1 .. n -> Int]
    PROVE  /\ StableOrder(keys) \in [1 .. n -> 1 .. n]
           /\ StableOrder(keys) \in Seq(1 .. n)
           /\ Len(StableOrder(keys)) = n
           /\ \A i \in 1 .. n : \E k \in 1 .. n : StableOrder(keys)[k] = i
           /\ \A j, k \in 1 .. n :
                 j < k => KeyBefore(keys, StableOrder(keys)[j], StableOrder(keys)[k])
           /\ \A j, k \in 1 .. n : StableOrder(keys)[j] = StableOrder(keys)[k] => j = k
<1> DEFINE q == StableOrder(keys)
<1>1. \A k \in 1 .. n : q[k] \in 1 .. n /\ KeyRank(keys, q[k]) = k - 1
  <2> SUFFICES ASSUME NEW k \in 1 .. n
               PROVE  q[k] \in 1 .. n /\ KeyRank(keys, q[k]) = k - 1
    OBVIOUS
  <2>1. \E i \in 1 .. n : KeyRank(keys, i) = k - 1
    BY KeyRankOnto
  <2> QED
    BY <2>1 DEF StableOrder
<1>2. q \in [1 .. n -> 1 .. n]
  BY <1>1 DEF StableOrder
<1> HIDE DEF q
<1>3. q \in Seq(1 .. n) /\ Len(q) = n
  BY <1>2
<1>4. \A j, k \in 1 .. n : j < k => KeyBefore(keys, q[j], q[k])
  <2> SUFFICES ASSUME NEW j \in 1 .. n, NEW k \in 1 .. n, j < k, ~KeyBefore(keys, q[j], q[k])
               PROVE  FALSE
    OBVIOUS
  <2>1. PICK a, b : a = q[j] /\ b = q[k]
    OBVIOUS
  <2>2. a \in 1 .. n /\ b \in 1 .. n /\ KeyRank(keys, a) = j - 1 /\ KeyRank(keys, b) = k - 1
    BY <1>1, <2>1
  <2>3. a = b \/ KeyBefore(keys, b, a)
    BY <2>1, <2>2, KeyBeforeOrders
  <2>4. KeyBefore(keys, b, a) => KeyRank(keys, b) < KeyRank(keys, a)
    BY <2>2, KeyRankIncreases
  <2> QED
    BY <2>2, <2>3, <2>4
<1>5. \A j, k \in 1 .. n : q[j] = q[k] => j = k
  BY <1>1
<1>6. \A i \in 1 .. n : \E k \in 1 .. n : q[k] = i
  <2>1. IsFiniteSet(1 .. n)
    BY FS_Interval
  <2>2. q \in Injection(1 .. n, 1 .. n)
    BY <1>2, <1>5 DEF Injection, IsInjective
  <2>3. q \in Surjection(1 .. n, 1 .. n)
    BY <2>1, <2>2, FS_Injection
  <2> QED
    BY <2>3 DEF Surjection
<1> QED
  BY <1>2, <1>3, <1>4, <1>5, <1>6 DEF q

\* Sorted by keys, what was there.
THEOREM StableSortIs ==
    ASSUME NEW S, NEW seq \in Seq(S), NEW keys \in [1 .. Len(seq) -> Int]
    PROVE  /\ StableSort(seq, keys) \in Seq(S)
           /\ Len(StableSort(seq, keys)) = Len(seq)
           /\ \A k \in 1 .. Len(seq) :
                 \E i \in 1 .. Len(seq) : StableSort(seq, keys)[k] = seq[i]
           /\ \A i \in 1 .. Len(seq) :
                 \E k \in 1 .. Len(seq) : StableSort(seq, keys)[k] = seq[i]
<1> DEFINE n == Len(seq)
           q == StableOrder(keys)
<1>1. n \in Nat /\ \A i \in 1 .. n : seq[i] \in S
  OBVIOUS
<1>2. q \in [1 .. n -> 1 .. n] /\ \A i \in 1 .. n : \E k \in 1 .. n : q[k] = i
  BY <1>1, StableOrderSorts
<1>3. StableSort(seq, keys) = [k \in 1 .. n |-> seq[q[k]]]
  BY DEF StableSort
<1> HIDE DEF q, n
<1>4. \A k \in 1 .. n : q[k] \in 1 .. n /\ seq[q[k]] \in S
  BY <1>1, <1>2
<1>5. [k \in 1 .. n |-> seq[q[k]]] \in Seq(S)
  BY <1>1, <1>4
<1>6. Len([k \in 1 .. n |-> seq[q[k]]]) = n
  BY <1>1
<1>7. \A k \in 1 .. n : StableSort(seq, keys)[k] = seq[q[k]]
  BY <1>3
<1>8. \A k \in 1 .. n : \E i \in 1 .. n : StableSort(seq, keys)[k] = seq[i]
  BY <1>4, <1>7
<1>9. \A i \in 1 .. n : \E k \in 1 .. n : StableSort(seq, keys)[k] = seq[i]
  BY <1>2, <1>7
<1> QED
  BY <1>3, <1>5, <1>6, <1>8, <1>9 DEF n

-----------------------------------------------------------------------------
(* Induction along a run of steps and over the sets of a finite set.       *)

\* What the first state has and every step keeps, every state has.
LEMMA Along ==
    ASSUME NEW n \in Nat, NEW s, NEW S,
           s[0] \in S[0],
           \A k \in 1 .. n : s[k - 1] \in S[k - 1] => s[k] \in S[k]
    PROVE  \A k \in 0 .. n : s[k] \in S[k]
<1> DEFINE Bad == {k \in 0 .. n : s[k] \notin S[k]}
<1> SUFFICES ASSUME Bad # {} PROVE FALSE
  OBVIOUS
<1>1. Bad \in SUBSET Nat
  OBVIOUS
<1>2. PICK k \in Bad : \A j \in Bad : k <= j
  BY <1>1, LeastNatural
<1>3. k # 0 /\ k \in 1 .. n
  BY <1>2
<1>4. k - 1 \in 0 .. n /\ k - 1 \notin Bad
  BY <1>2, <1>3
<1> QED
  BY <1>2, <1>3, <1>4

\* The largest of the first numbers.
LEMMA MaxOfFirst ==
    /\ \A n \in Nat \ {0} : Max(1 .. n) = n /\ (1 .. n) \ {n} = 1 .. (n - 1) /\ 1 .. n # {}
    /\ \A n \in Nat : \A s \in SUBSET (1 .. (n + 1)) :
          n + 1 \in s => Max(s) = n + 1 /\ s \ {n + 1} \in SUBSET (1 .. n)
    /\ \A n \in Nat : \A s \in SUBSET (1 .. n) :
          s # {} => Max(s) \in s /\ s \ {Max(s)} \in SUBSET (1 .. n)
<1>1. ASSUME NEW n \in Nat, NEW s \in SUBSET (1 .. n), NEW m \in s, \A k \in s : m >= k
      PROVE  Max(s) = m
  <2>1. \A x \in s : (\A y \in s : x >= y) => x = m
    <3> SUFFICES ASSUME NEW x \in s, \A y \in s : x >= y PROVE x = m
      OBVIOUS
    <3>1. x \in Int /\ m \in Int /\ x >= m /\ m >= x
      BY <1>1
    <3> QED
      BY <3>1
  <2> QED
    BY <1>1, <2>1 DEF Max
<1>2. \A n \in Nat \ {0} : Max(1 .. n) = n /\ (1 .. n) \ {n} = 1 .. (n - 1) /\ 1 .. n # {}
  <2> SUFFICES ASSUME NEW n \in Nat \ {0}
               PROVE  Max(1 .. n) = n /\ (1 .. n) \ {n} = 1 .. (n - 1) /\ 1 .. n # {}
    OBVIOUS
  <2>1. n \in 1 .. n /\ \A k \in 1 .. n : n >= k
    OBVIOUS
  <2>2. Max(1 .. n) = n
    BY <1>1, <2>1
  <2> QED
    BY <2>1, <2>2
<1>3. \A n \in Nat : \A s \in SUBSET (1 .. (n + 1)) :
          n + 1 \in s => Max(s) = n + 1 /\ s \ {n + 1} \in SUBSET (1 .. n)
  <2> SUFFICES ASSUME NEW n \in Nat, NEW s \in SUBSET (1 .. (n + 1)), n + 1 \in s
               PROVE  Max(s) = n + 1 /\ s \ {n + 1} \in SUBSET (1 .. n)
    OBVIOUS
  <2>1. n + 1 \in Nat /\ \A k \in s : n + 1 >= k
    OBVIOUS
  <2>2. Max(s) = n + 1
    BY <1>1, <2>1
  <2> QED
    BY <2>2
<1>4. \A n \in Nat : \A s \in SUBSET (1 .. n) :
          s # {} => Max(s) \in s /\ s \ {Max(s)} \in SUBSET (1 .. n)
  <2> SUFFICES ASSUME NEW n \in Nat, NEW s \in SUBSET (1 .. n), s # {}
               PROVE  Max(s) \in s /\ s \ {Max(s)} \in SUBSET (1 .. n)
    OBVIOUS
  <2>1. {n - k : k \in s} \in SUBSET Nat /\ {n - k : k \in s} # {}
    <3>1. \A k \in s : n - k \in Nat
      OBVIOUS
    <3>2. PICK k \in s : TRUE
      OBVIOUS
    <3>3. n - k \in {n - j : j \in s}
      OBVIOUS
    <3> QED
      BY <3>1, <3>3
  <2>2. PICK d \in {n - k : k \in s} : \A c \in {n - k : k \in s} : d <= c
    <3> DEFINE D == {n - k : k \in s}
    <3>1. D \in SUBSET Nat /\ D # {}
      BY <2>1
    <3> HIDE DEF D
    <3>2. \E d \in D : \A c \in D : d <= c
      BY <3>1, LeastNatural
    <3> QED
      BY <3>2 DEF D
  <2>3. PICK m \in s : d = n - m
    BY <2>2
  <2>4. \A k \in s : m >= k
    BY <2>2, <2>3
  <2>5. Max(s) = m
    BY <1>1, <2>4
  <2> QED
    BY <2>5
<1> QED
  BY <1>2, <1>3, <1>4

\* A property of finite sets by their size, as the set of those that have it:
\* a set has it once everything smaller has.
LEMMA BySize ==
    ASSUME NEW S, IsFiniteSet(S), NEW G \in SUBSET (SUBSET S),
           \A s \in SUBSET S : (\A t \in SUBSET s : t # s => t \in G) => s \in G
    PROVE  G = SUBSET S
<1> DEFINE Bad == {n \in Nat : \E s \in SUBSET S : s \notin G /\ Cardinality(s) = n}
<1>1. \A s \in SUBSET S : IsFiniteSet(s) /\ Cardinality(s) \in Nat
  BY FS_Subset, FS_CardinalityType
<1> SUFFICES ASSUME NEW t \in SUBSET S, t \notin G PROVE FALSE
  OBVIOUS
<1>2. Bad \in SUBSET Nat /\ Bad # {}
  <2>1. Cardinality(t) \in Bad
    BY <1>1
  <2> QED
    BY <2>1
<1> HIDE DEF Bad
<1>3. PICK n \in Bad : \A m \in Bad : n <= m
  BY <1>2, LeastNatural
<1>4. PICK s \in SUBSET S : s \notin G /\ Cardinality(s) = n
  BY <1>3 DEF Bad
<1>5. PICK u \in SUBSET s : u # s /\ u \notin G
  BY <1>4
<1>6. Cardinality(u) < n /\ Cardinality(u) \in Nat
  BY <1>1, <1>2, <1>3, <1>4, <1>5, FS_Subset
<1>7. Cardinality(u) \in Bad
  BY <1>5, <1>6 DEF Bad
<1> QED
  BY <1>2, <1>3, <1>6, <1>7

-----------------------------------------------------------------------------
(* Folding a list, lowest position first.                                  *)

\* A step as a table, the recursive function its fold is, and its run.
IsTable(op, V, n) == op \in [V \X (1 .. n) -> V]

IsFoldOf(h, op, base, V, n) ==
    /\ h \in [SUBSET (1 .. n) -> V]
    /\ h = [s \in SUBSET (1 .. n) |->
              IF s = {} THEN base ELSE op[<<h[s \ {Max(s)}], Max(s)>>]]

IsRunOf(r, op, base, V, n) ==
    /\ r \in [0 .. n -> V]
    /\ r[0] = base
    /\ \A k \in 1 .. n : r[k] = op[<<r[k - 1], k>>]

\* Two recursions that agree step by step agree.
StepsAgree(f, h, n) ==
    /\ f[{}] = h[{}]
    /\ \A s \in SUBSET (1 .. n) :
          s # {} /\ f[s \ {Max(s)}] = h[s \ {Max(s)}] => f[s] = h[s]

LEMMA FoldAgrees ==
    ASSUME NEW n \in Nat, NEW f, NEW h, StepsAgree(f, h, n)
    PROVE  f[1 .. n] = h[1 .. n]
<1> USE DEF StepsAgree
<1> DEFINE G == {s \in SUBSET (1 .. n) : f[s] = h[s]}
<1>1. ASSUME NEW s \in SUBSET (1 .. n), \A t \in SUBSET s : t # s => t \in G
      PROVE  s \in G
  <2>1. CASE s = {}
    BY <2>1
  <2>2. CASE s # {}
    <3>1. Max(s) \in s
      BY <2>2, MaxOfFirst
    <3>2. s \ {Max(s)} \in SUBSET s /\ s \ {Max(s)} # s
      BY <3>1
    <3>3. s \ {Max(s)} \in G
      BY <1>1, <3>2
    <3> QED
      BY <2>2, <3>3
  <2> QED
    BY <2>1, <2>2
<1>2. G \in SUBSET (SUBSET (1 .. n)) /\ IsFiniteSet(1 .. n)
  BY FS_Interval
<1> HIDE DEF G
<1>3. G = SUBSET (1 .. n)
  BY <1>1, <1>2, BySize
<1>4. \A s \in SUBSET (1 .. n) : f[s] = h[s]
  BY <1>3 DEF G
<1> QED
  BY <1>4

\* The fold exists and is what a run of its steps ends in.
THEOREM FoldRuns ==
    ASSUME NEW n \in Nat, NEW V, NEW base \in V, NEW op, IsTable(op, V, n)
    PROVE  \E h, r : /\ IsFoldOf(h, op, base, V, n)
                     /\ IsRunOf(r, op, base, V, n)
                     /\ r[n] = h[1 .. n]
<1>0. op \in [V \X (1 .. n) -> V]
  BY DEF IsTable
<1> DEFINE Holds(h, k) == /\ h \in [SUBSET (1 .. k) -> V]
                          /\ h[{}] = base
                          /\ \A s \in SUBSET (1 .. k) :
                                s # {} => h[s] = op[<<h[s \ {Max(s)}], Max(s)>>]
           Bad == {k \in 0 .. n : ~ \E h : Holds(h, k)}
<1>1. Bad = {}
  <2> SUFFICES ASSUME Bad # {} PROVE FALSE
    OBVIOUS
  <2>1. Bad \in SUBSET Nat
    OBVIOUS
  <2>2. PICK k \in Bad : \A j \in Bad : k <= j
    <3> HIDE DEF Bad
    <3> QED
      BY <2>1, LeastNatural
  <2>3. k # 0
    <3> SUFFICES ASSUME k = 0 PROVE FALSE
      OBVIOUS
    <3>1. SUBSET (1 .. 0) = {{}}
      OBVIOUS
    <3>2. Holds([s \in SUBSET (1 .. 0) |-> base], 0)
      BY <3>1
    <3> QED
      BY <2>2, <3>2
  <2> DEFINE j == k - 1
  <2>4. j \in 0 .. n /\ j \in Nat /\ k = j + 1 /\ k \in 1 .. n /\ j \notin Bad
    <3>1. k \in 0 .. n
      BY <2>2
    <3>2. j \in 0 .. n /\ ~(k <= j)
      BY <2>3, <3>1
    <3> HIDE DEF Bad
    <3> QED
      BY <2>2, <2>3, <3>1, <3>2
  <2>5. PICK f : Holds(f, j)
    BY <2>4
  <2> HIDE DEF Bad, j
  <2> DEFINE g == [s \in SUBSET (1 .. k) |->
                     IF k \in s THEN op[<<f[s \ {k}], k>>] ELSE f[s]]
  <2>6. ASSUME NEW s \in SUBSET (1 .. k), k \in s
        PROVE  Max(s) = k /\ s \ {k} \in SUBSET (1 .. j)
    <3>1. j + 1 \in s /\ s \in SUBSET (1 .. (j + 1))
      BY <2>4, <2>6
    <3>2. Max(s) = j + 1 /\ s \ {j + 1} \in SUBSET (1 .. j)
      BY <2>4, <3>1, MaxOfFirst
    <3> QED
      BY <2>4, <3>2
  <2>7. ASSUME NEW s \in SUBSET (1 .. k), k \notin s
        PROVE  s \in SUBSET (1 .. j)
    BY <2>4, <2>7
  <2>8. \A s \in SUBSET (1 .. k) : g[s] \in V
    <3> SUFFICES ASSUME NEW s \in SUBSET (1 .. k) PROVE g[s] \in V
      OBVIOUS
    <3>1. CASE k \in s
      <4>1. f[s \ {k}] \in V
        BY <2>5, <2>6, <3>1
      <4>2. <<f[s \ {k}], k>> \in V \X (1 .. n)
        BY <2>4, <4>1
      <4> QED
        BY <1>0, <3>1, <4>2
    <3>2. CASE k \notin s
      BY <2>5, <2>7, <3>2
    <3> QED
      BY <3>1, <3>2
  <2>9. g[{}] = base
    BY <2>5
  <2>10. ASSUME NEW s \in SUBSET (1 .. k), s # {}
         PROVE  g[s] = op[<<g[s \ {Max(s)}], Max(s)>>]
    <3>1. CASE k \in s
      <4>1. g[s] = op[<<f[s \ {k}], k>>] /\ g[s \ {k}] = f[s \ {k}]
        BY <3>1
      <4> HIDE DEF g
      <4> QED
        BY <2>6, <3>1, <4>1
    <3>2. CASE k \notin s
      <4>1. s \in SUBSET (1 .. j)
        BY <2>7, <3>2
      <4>2. Max(s) \in s /\ s \ {Max(s)} \in SUBSET (1 .. j)
        BY <2>4, <2>10, <4>1, MaxOfFirst
      <4>3. f[s] = op[<<f[s \ {Max(s)}], Max(s)>>]
        BY <2>5, <2>10, <4>1
      <4>4. g[s] = f[s] /\ g[s \ {Max(s)}] = f[s \ {Max(s)}]
        BY <3>2
      <4> HIDE DEF g
      <4> QED
        BY <4>3, <4>4
    <3> QED
      BY <3>1, <3>2
  <2>11. g \in [SUBSET (1 .. k) -> V]
    BY <2>8
  <2>12. Holds(g, k)
    <3> HIDE DEF g
    <3> QED
      BY <2>9, <2>10, <2>11
  <2> HIDE DEF Holds, g
  <2> QED
    BY <2>2, <2>12 DEF Bad
<1>2. PICK h : Holds(h, n)
  <2> HIDE DEF Holds
  <2>1. n \in 0 .. n
    OBVIOUS
  <2> QED
    BY <1>1, <2>1
<1> DEFINE r == [k \in 0 .. n |-> h[1 .. k]]
<1>3. IsFoldOf(h, op, base, V, n)
  <2>1. \A s \in SUBSET (1 .. n) :
           h[s] = IF s = {} THEN base ELSE op[<<h[s \ {Max(s)}], Max(s)>>]
    BY <1>2
  <2>2. h = [s \in SUBSET (1 .. n) |-> h[s]]
    BY <1>2
  <2> HIDE DEF Holds
  <2>3. h = [s \in SUBSET (1 .. n) |->
               IF s = {} THEN base ELSE op[<<h[s \ {Max(s)}], Max(s)>>]]
    BY <2>1, <2>2
  <2> QED
    BY <1>2, <2>3 DEF IsFoldOf, Holds
<1>4. r \in [0 .. n -> V]
  <2>1. \A k \in 0 .. n : 1 .. k \in SUBSET (1 .. n)
    OBVIOUS
  <2> QED
    BY <1>2, <2>1
<1>5. r[0] = base /\ r[n] = h[1 .. n]
  <2>1. 1 .. 0 = {}
    OBVIOUS
  <2> QED
    BY <1>2, <2>1
<1>6. ASSUME NEW k \in 1 .. n PROVE r[k] = op[<<r[k - 1], k>>]
  <2>1. 1 .. k \in SUBSET (1 .. n) /\ k \in Nat \ {0} /\ k \in 0 .. n /\ k - 1 \in 0 .. n
    OBVIOUS
  <2>2. Max(1 .. k) = k /\ (1 .. k) \ {k} = 1 .. (k - 1) /\ 1 .. k # {}
    BY <2>1, MaxOfFirst
  <2>3. h[1 .. k] = op[<<h[(1 .. k) \ {Max(1 .. k)}], Max(1 .. k)>>]
    BY <1>2, <2>1, <2>2
  <2>4. h[1 .. k] = op[<<h[1 .. (k - 1)], k>>]
    BY <2>2, <2>3
  <2>5. r[k] = h[1 .. k] /\ r[k - 1] = h[1 .. (k - 1)]
    BY <2>1
  <2> QED
    BY <2>4, <2>5
<1> HIDE DEF r, Holds
<1>7. IsRunOf(r, op, base, V, n)
  BY <1>4, <1>5, <1>6 DEF IsRunOf
<1> QED
  BY <1>3, <1>5, <1>7

\* A list of lists, end to end.
THEOREM FlattenSeqIs ==
    ASSUME NEW S, NEW seqs \in Seq(Seq(S))
    PROVE  /\ FlattenSeq(seqs) \in Seq(S)
           /\ seqs # <<>> /\ seqs[1] # <<>> => FlattenSeq(seqs) # <<>>
<1> DEFINE n == Len(seqs)
           op == [p \in Seq(S) \X (1 .. n) |-> p[1] \o seqs[p[2]]]
           Unfolds(f) == f = [i \in 1 .. n |-> IF i = 1 THEN seqs[i] ELSE f[i - 1] \o seqs[i]]
           flat == CHOOSE f : Unfolds(f)
<1>1. n \in Nat /\ \A i \in 1 .. n : seqs[i] \in Seq(S)
  OBVIOUS
<1>2. op \in [Seq(S) \X (1 .. n) -> Seq(S)]
  <2>1. \A p \in Seq(S) \X (1 .. n) : p[1] \in Seq(S) /\ seqs[p[2]] \in Seq(S)
    BY <1>1
  <2>2. \A p \in Seq(S) \X (1 .. n) : p[1] \o seqs[p[2]] \in Seq(S)
    BY <2>1
  <2> QED
    BY <2>2
<1>3. <<>> \in Seq(S)
  OBVIOUS
<1>4. PICK r : /\ r \in [0 .. n -> Seq(S)]
               /\ r[0] = <<>>
               /\ \A k \in 1 .. n : r[k] = op[<<r[k - 1], k>>]
  <2> DEFINE V == Seq(S)
             base == <<>>
  <2>1. IsTable(op, V, n) /\ base \in V /\ n \in Nat
    BY <1>1, <1>2, <1>3 DEF IsTable
  <2> HIDE DEF n, op, V, base
  <2>2. \E r : IsRunOf(r, op, base, V, n)
    BY <2>1, FoldRuns
  <2> QED
    BY <2>2 DEF V, base, IsRunOf
<1>5. \A k \in 1 .. n : r[k] = r[k - 1] \o seqs[k]
  <2> SUFFICES ASSUME NEW k \in 1 .. n PROVE r[k] = r[k - 1] \o seqs[k]
    OBVIOUS
  <2>1. k - 1 \in 0 .. n
    BY <1>1
  <2>2. <<r[k - 1], k>> \in Seq(S) \X (1 .. n)
    BY <1>4, <2>1
  <2> QED
    BY <1>4, <2>2
<1>6. 1 \in 1 .. n => r[1] = seqs[1]
  <2> SUFFICES ASSUME 1 \in 1 .. n PROVE r[1] = seqs[1]
    OBVIOUS
  <2>1. seqs[1] \in Seq(S) /\ r[1] = r[1 - 1] \o seqs[1]
    BY <1>1, <1>5
  <2>2. r[1] = <<>> \o seqs[1]
    <3>1. 1 - 1 = 0 /\ r[0] = <<>>
      BY <1>4
    <3> HIDE DEF n
    <3> QED
      BY <2>1, <3>1
  <2> QED
    BY <2>1, <2>2
<1>7. CASE n = 0
  <2>1. FlattenSeq(seqs) = seqs /\ seqs = <<>>
    BY <1>7 DEF FlattenSeq
  <2> QED
    BY <2>1
<1>8. CASE n # 0
  <2> HIDE DEF n, op
  <2>1. 1 \in 1 .. n /\ n \in 1 .. n
    BY <1>1, <1>8
  <2>2. \E f : Unfolds(f)
    <3> DEFINE f == [i \in 1 .. n |-> r[i]]
    <3>1. ASSUME NEW i \in 1 .. n
          PROVE  f[i] = IF i = 1 THEN seqs[i] ELSE f[i - 1] \o seqs[i]
      <4>1. CASE i = 1
        BY <1>6, <2>1, <4>1
      <4>2. CASE i # 1
        <5>1. i - 1 \in 1 .. n
          BY <1>1, <4>2
        <5> QED
          BY <1>5, <4>2, <5>1
      <4> QED
        BY <4>1, <4>2
    <3>2. f = [i \in 1 .. n |-> f[i]]
      OBVIOUS
    <3> HIDE DEF f
    <3>3. Unfolds(f)
      BY <3>1, <3>2
    <3> QED
      BY <3>3
  <2>3. Unfolds(flat)
    <3> HIDE DEF Unfolds
    <3> QED
      BY <2>2
  <2>4. FlattenSeq(seqs) = flat[n]
    BY <1>8, SMT DEF FlattenSeq, n
  <2> HIDE DEF flat
  <2>5. \A i \in 1 .. n : flat[i] = IF i = 1 THEN seqs[i] ELSE flat[i - 1] \o seqs[i]
    BY <2>3
  <2> DEFINE Bad == {i \in 1 .. n : flat[i] # r[i]}
  <2>6. Bad = {}
    <3> SUFFICES ASSUME Bad # {} PROVE FALSE
      OBVIOUS
    <3>1. Bad \in SUBSET Nat
      OBVIOUS
    <3>2. PICK k \in Bad : \A j \in Bad : k <= j
      <4> HIDE DEF Bad
      <4> QED
        BY <3>1, LeastNatural
    <3>3. k # 1
      BY <1>6, <2>1, <2>5, <3>2
    <3>4. k \in 1 .. n /\ k - 1 \in 1 .. n
      BY <1>1, <3>2, <3>3
    <3>5. flat[k - 1] = r[k - 1]
      <4>1. ~(k <= k - 1)
        BY <3>4
      <4>2. k - 1 \notin Bad
        BY <3>2, <4>1
      <4> QED
        BY <3>4, <4>2
    <3> QED
      BY <1>5, <2>5, <3>2, <3>3, <3>4, <3>5
  <2>7. flat[n] = r[n] /\ r[n] \in Seq(S)
    <3>1. n \notin Bad
      BY <2>6
    <3>2. flat[n] = r[n]
      BY <2>1, <3>1
    <3>3. n \in 0 .. n
      BY <1>1
    <3> QED
      BY <1>4, <3>2, <3>3
  <2>8. ASSUME seqs[1] # <<>> PROVE r[n] # <<>>
    <3> DEFINE good == [k \in 0 .. n |-> IF k = 0 THEN {<<>>} ELSE {q \in Seq(S) : q # <<>>}]
    <3>1. r[0] \in good[0]
      BY <1>1, <1>4
    <3>2. ASSUME NEW k \in 1 .. n, r[k - 1] \in good[k - 1] PROVE r[k] \in good[k]
      <4>0. k \in 0 .. n /\ k # 0 /\ k - 1 \in 0 .. n
        BY <1>1
      <4>1. CASE k = 1
        <5>1. r[1] = seqs[1] /\ seqs[1] \in Seq(S)
          BY <1>1, <1>6, <2>1
        <5> QED
          BY <2>8, <4>0, <4>1, <5>1
      <4>2. CASE k # 1
        <5>1. r[k - 1] \in Seq(S) /\ r[k - 1] # <<>> /\ seqs[k] \in Seq(S)
          BY <1>1, <3>2, <4>0, <4>2
        <5>2. r[k - 1] \o seqs[k] \in Seq(S) /\ r[k - 1] \o seqs[k] # <<>>
          BY <5>1
        <5> QED
          BY <1>5, <4>0, <5>2
      <4> QED
        BY <4>1, <4>2
    <3> HIDE DEF good
    <3>3. \A k \in 0 .. n : r[k] \in good[k]
      BY <1>1, <3>1, <3>2, Along
    <3>4. n \in 0 .. n
      BY <1>1
    <3> QED
      BY <1>8, <3>3, <3>4 DEF good
  <2> QED
    BY <2>4, <2>7, <2>8
<1> QED
  BY <1>7, <1>8

-----------------------------------------------------------------------------
(* Lists put end to end.                                                   *)

LEMMA ConcatIs ==
    ASSUME NEW S, NEW a \in Seq(S), NEW b \in Seq(S)
    PROVE  /\ a \o b \in Seq(S)
           /\ Len(a \o b) = Len(a) + Len(b)
           /\ Len(a) \in Nat /\ Len(b) \in Nat
           /\ \A i \in 1 .. Len(a) : (a \o b)[i] = a[i]
           /\ \A i \in 1 .. Len(b) : (a \o b)[Len(a) + i] = b[i]
<1>1. a \o b \in Seq(S) /\ Len(a \o b) = Len(a) + Len(b) /\ Len(a) \in Nat /\ Len(b) \in Nat
  OBVIOUS
<1>2. \A i \in 1 .. Len(a) : (a \o b)[i] = a[i]
  OBVIOUS
<1>3. \A i \in 1 .. Len(b) : (a \o b)[Len(a) + i] = b[i]
  OBVIOUS
<1> QED
  BY <1>1, <1>2, <1>3

LEMMA AppendIs ==
    ASSUME NEW S, NEW a \in Seq(S), NEW x \in S
    PROVE  /\ Append(a, x) \in Seq(S)
           /\ Len(Append(a, x)) = Len(a) + 1
           /\ DOMAIN Append(a, x) = 1 .. Len(a) + 1
           /\ Len(a) \in Nat
           /\ \A i \in 1 .. Len(a) : Append(a, x)[i] = a[i]
           /\ Append(a, x)[Len(a) + 1] = x
  OBVIOUS
=============================================================================
