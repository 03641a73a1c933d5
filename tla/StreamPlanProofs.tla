--------------------------- MODULE StreamPlanProofs ---------------------------
(***************************************************************************)
(* Proofs about StreamPlan, for any units, any policy and any prices: the  *)
(* schedule that is chosen can be run.                                     *)
(***************************************************************************)
EXTENDS StreamPlan, SortingTheorems, SequenceTheorems

-----------------------------------------------------------------------------
(* Sums over finite sets.  SumOf and FoldLeft are one recursion, with      *)
(* another choice of what to add next.                                     *)

\* The function a sum is, adding each time the element chosen of those left.
IsSum(g, choice, d, base, S) ==
    g = [s \in SUBSET S |->
            IF s = {} THEN base ELSE d[choice[s]] + g[s \ {choice[s]}]]

\* A choice out of every set of elements.
Chooses(choice, S) == \A s \in SUBSET S : s # {} => choice[s] \in s

\* What is added is a number.
IsIntegral(d, S) == \A x \in S : d[x] \in Int

\* A sum that does not depend on the choice.
IsAdditive(g, d, S) ==
    /\ g \in [SUBSET S -> Int]
    /\ \A s \in SUBSET S : \A x \in s : g[s] = d[x] + g[s \ {x}]

\* There is such a function.
LEMMA SumExists ==
    ASSUME NEW S, IsFiniteSet(S), NEW choice, NEW d, NEW base,
           Chooses(choice, S)
    PROVE  \E g : IsSum(g, choice, d, base, S)
<1> DEFINE Value(g, s) == IF s = {} THEN base ELSE d[choice[s]] + g[s \ {choice[s]}]
           Upto2(n) == {s \in SUBSET S : Cardinality(s) <= n}
           Bad == {n \in Nat : ~ \E g : g = [s \in Upto2(n) |-> Value(g, s)]}
<1>1. \A s \in SUBSET S : IsFiniteSet(s) /\ Cardinality(s) \in Nat
  BY FS_Subset, FS_CardinalityType
<1>2. Bad = {}
  <2> SUFFICES ASSUME Bad # {} PROVE FALSE
    OBVIOUS
  <2>1. Bad \in SUBSET Nat
    OBVIOUS
  <2>2. PICK n \in Bad : \A m \in Bad : n <= m
    <3> HIDE DEF Bad
    <3> QED
      BY <2>1, LeastNatural
  <2>3. n # 0
    <3> SUFFICES ASSUME n = 0 PROVE FALSE
      OBVIOUS
    <3> DEFINE g == [s \in Upto2(0) |-> base]
    <3>1. \A s \in Upto2(0) : s = {}
      <4> SUFFICES ASSUME NEW s \in Upto2(0) PROVE s = {}
        OBVIOUS
      <4>1. Cardinality(s) = 0 /\ IsFiniteSet(s)
        BY <1>1
      <4> QED
        BY <4>1, FS_EmptySet
    <3>2. g = [s \in Upto2(0) |-> Value(g, s)]
      BY <3>1
    <3> QED
      BY <2>2, <3>2
  <2>4. n - 1 \in Nat /\ n - 1 \notin Bad
    <3>1. n \in Nat
      OBVIOUS
    <3> HIDE DEF Bad
    <3>2. n - 1 \in Nat /\ ~(n <= n - 1)
      BY <2>3, <3>1
    <3> QED
      BY <2>2, <3>2
  <2>5. PICK f : f = [s \in Upto2(n - 1) |-> Value(f, s)]
    BY <2>4
  <2> DEFINE g == [s \in Upto2(n) |-> IF s \in Upto2(n - 1) THEN f[s] ELSE Value(f, s)]
  <2>6. ASSUME NEW s \in Upto2(n), s # {}
        PROVE  /\ s \ {choice[s]} \in Upto2(n - 1)
               /\ g[s \ {choice[s]}] = f[s \ {choice[s]}]
    <3>1. choice[s] \in s
      BY <2>6 DEF Chooses
    <3>2. Cardinality(s \ {choice[s]}) = Cardinality(s) - 1
      BY <1>1, <3>1, FS_RemoveElement
    <3>3. n \in Nat /\ Cardinality(s) \in Nat /\ Cardinality(s) <= n
      BY <1>1, <2>2
    <3>4. s \ {choice[s]} \in Upto2(n - 1) /\ s \ {choice[s]} \in Upto2(n)
      BY <3>2, <3>3
    <3> QED
      BY <3>4
  <2>7. \A s \in Upto2(n - 1) : f[s] = Value(f, s)
    <3> HIDE DEF Upto2, Bad, g
    <3> QED
      BY <2>5
  <2>8. \A s \in Upto2(n) : g[s] = Value(g, s)
    <3> SUFFICES ASSUME NEW s \in Upto2(n) PROVE g[s] = Value(g, s)
      OBVIOUS
    <3>1. g[s] = Value(f, s)
      BY <2>7
    <3>2. Value(f, s) = Value(g, s)
      BY <2>6
    <3> QED
      BY <3>1, <3>2
  <2>9. g = [s \in Upto2(n) |-> Value(g, s)]
    <3>1. g = [s \in Upto2(n) |-> g[s]]
      OBVIOUS
    <3> HIDE DEF g
    <3> QED
      BY <2>8, <3>1
  <2> QED
    BY <2>2, <2>9
<1>3. Cardinality(S) \in Nat /\ Upto2(Cardinality(S)) = SUBSET S
  <2>1. \A s \in SUBSET S : Cardinality(s) <= Cardinality(S)
    BY FS_Subset
  <2> QED
    BY <1>1, <2>1
<1>4. PICK g : g = [s \in Upto2(Cardinality(S)) |-> Value(g, s)]
  BY <1>2, <1>3
<1>5. g = [s \in SUBSET S |-> Value(g, s)]
  BY <1>3, <1>4
<1> QED
  BY <1>5 DEF IsSum

\* Adding in whatever order gives the same.
LEMMA SumIsAdditive ==
    ASSUME NEW S, IsFiniteSet(S), NEW choice, NEW d, NEW base \in Int, NEW g,
           Chooses(choice, S), IsIntegral(d, S),
           IsSum(g, choice, d, base, S)
    PROVE  IsAdditive(g, d, S) /\ g[{}] = base
<1> DEFINE G == {s \in SUBSET S : g[s] \in Int /\ \A x \in s : g[s] = d[x] + g[s \ {x}]}
<1>1. \A s \in SUBSET S :
         g[s] = IF s = {} THEN base ELSE d[choice[s]] + g[s \ {choice[s]}]
  BY DEF IsSum
<1>2. ASSUME NEW s \in SUBSET S, \A t \in SUBSET s : t # s => t \in G
      PROVE  s \in G
  <2>1. CASE s = {}
    BY <1>1, <2>1
  <2>2. CASE s # {}
    <3> DEFINE c == choice[s]
    <3>1. c \in s /\ g[s] = d[c] + g[s \ {c}]
      BY <1>1, <2>2 DEF Chooses
    <3> HIDE DEF c
    <3>0. ASSUME NEW x \in s
          PROVE  /\ s \ {x} \in SUBSET S /\ d[x] \in Int /\ g[s \ {x}] \in Int
                 /\ \A y \in s \ {x} : g[s \ {x}] = d[y] + g[(s \ {x}) \ {y}]
      <4>1. s \ {x} \in SUBSET s /\ s \ {x} # s
        OBVIOUS
      <4>2. s \ {x} \in G
        BY <1>2, <4>1
      <4> QED
        BY <4>2 DEF IsIntegral
    <3>2. g[s \ {c}] \in Int /\ d[c] \in Int
      BY <3>0, <3>1
    <3>3. ASSUME NEW x \in s PROVE g[s] = d[x] + g[s \ {x}]
      <4>1. CASE x = c
        BY <3>1, <4>1
      <4>2. CASE x # c
        <5>1. x \in s \ {c} /\ c \in s \ {x}
          BY <3>1, <4>2
        <5>2. g[s \ {c}] = d[x] + g[(s \ {c}) \ {x}]
          BY <3>0, <3>1, <5>1
        <5>3. g[s \ {x}] = d[c] + g[(s \ {x}) \ {c}]
          BY <3>0, <5>1
        <5>4. (s \ {c}) \ {x} = (s \ {x}) \ {c}
          OBVIOUS
        <5>5. g[(s \ {x}) \ {c}] \in Int
          <6>1. (s \ {x}) \ {c} \in SUBSET s /\ (s \ {x}) \ {c} # s
            BY <5>1
          <6>2. (s \ {x}) \ {c} \in G
            BY <1>2, <6>1
          <6> QED
            BY <6>2
        <5>6. d[x] \in Int
          BY DEF IsIntegral
        <5>7. g[s \ {c}] = d[x] + g[(s \ {x}) \ {c}]
          BY <5>2, <5>4, Zenon
        <5> QED
          BY <3>1, <3>2, <5>3, <5>5, <5>6, <5>7
      <4> QED
        BY <4>1, <4>2
    <3>4. g[s] \in Int
      BY <3>1, <3>2
    <3> QED
      BY <3>3, <3>4
  <2> QED
    BY <2>1, <2>2
<1>3. G = SUBSET S
  <2>1. G \in SUBSET (SUBSET S)
    OBVIOUS
  <2> HIDE DEF G
  <2> QED
    BY <1>2, <2>1, BySize
<1>4. g = [s \in SUBSET S |-> g[s]]
  BY DEF IsSum
<1>5. g \in [SUBSET S -> Int]
  BY <1>3, <1>4
<1>6. g[{}] = base
  BY <1>1
<1> QED
  BY <1>3, <1>5, <1>6 DEF IsAdditive

\* What is added twice over may be added apart.
LEMMA AdditiveSplits ==
    ASSUME NEW S, IsFiniteSet(S), NEW d, NEW d1, NEW d2, NEW g, NEW g1, NEW g2,
           IsAdditive(g, d, S), IsAdditive(g1, d1, S), IsAdditive(g2, d2, S),
           \A x \in S : d1[x] \in Int /\ d2[x] \in Int /\ d[x] = d1[x] + d2[x]
    PROVE  \A s \in SUBSET S : g[s] - g[{}] = (g1[s] - g1[{}]) + (g2[s] - g2[{}])
<1> DEFINE G == {s \in SUBSET S : g[s] - g[{}] = (g1[s] - g1[{}]) + (g2[s] - g2[{}])}
<1>1. \A s \in SUBSET S : g[s] \in Int /\ g1[s] \in Int /\ g2[s] \in Int
  BY DEF IsAdditive
<1>2. ASSUME NEW s \in SUBSET S, \A t \in SUBSET s : t # s => t \in G
      PROVE  s \in G
  <2>1. CASE s = {}
    BY <1>1, <2>1
  <2>2. CASE s # {}
    <3>1. PICK x \in s : TRUE
      BY <2>2
    <3> DEFINE t == s \ {x}
    <3>2. t \in SUBSET s /\ t # s /\ t \in SUBSET S /\ {} \in SUBSET S
      OBVIOUS
    <3>3. t \in G
      BY <1>2, <3>2
    <3>4. /\ g[s] = d[x] + g[t] /\ g1[s] = d1[x] + g1[t] /\ g2[s] = d2[x] + g2[t]
      BY <3>1 DEF IsAdditive
    <3>5. d1[x] \in Int /\ d2[x] \in Int /\ d[x] = d1[x] + d2[x]
      OBVIOUS
    <3> HIDE DEF t
    <3> QED
      BY <1>1, <3>2, <3>3, <3>4, <3>5
  <2> QED
    BY <2>1, <2>2
<1>3. G = SUBSET S
  <2>1. G \in SUBSET (SUBSET S)
    OBVIOUS
  <2> HIDE DEF G
  <2> QED
    BY <1>2, <2>1, BySize
<1> QED
  BY <1>3

\* Nothing is as well left out.
LEMMA AdditiveSkipsZero ==
    ASSUME NEW S, IsFiniteSet(S), NEW d, NEW g, IsAdditive(g, d, S),
           NEW T \in SUBSET S, \A x \in S \ T : d[x] = 0
    PROVE  g[S] = g[T]
<1> DEFINE G == {s \in SUBSET S : T \in SUBSET s => g[s] = g[T]}
<1>1. \A s \in SUBSET S : g[s] \in Int
  BY DEF IsAdditive
<1>2. ASSUME NEW s \in SUBSET S, \A t \in SUBSET s : t # s => t \in G
      PROVE  s \in G
  <2>1. CASE s = T \/ T \notin SUBSET s
    BY <2>1
  <2>2. CASE s # T /\ T \in SUBSET s
    <3>1. PICK x \in s : x \notin T
      BY <2>2
    <3> DEFINE t == s \ {x}
    <3>2. t \in SUBSET s /\ t # s /\ t \in SUBSET S /\ T \in SUBSET t
      BY <2>2, <3>1
    <3>3. g[t] = g[T]
      BY <1>2, <3>2
    <3>4. g[s] = d[x] + g[t] /\ d[x] = 0
      BY <3>1 DEF IsAdditive
    <3>5. g[t] \in Int
      BY <1>1, <3>2
    <3> QED
      BY <3>3, <3>4, <3>5
  <2> QED
    BY <2>1, <2>2
<1>3. G = SUBSET S
  <2>1. G \in SUBSET (SUBSET S)
    OBVIOUS
  <2> HIDE DEF G
  <2> QED
    BY <1>2, <2>1, BySize
<1> QED
  BY <1>3

\* SumOf is such a sum.
LEMMA SumOfIs ==
    ASSUME NEW values, IsFiniteSet(DOMAIN values),
           \A x \in DOMAIN values : values[x] \in Int
    PROVE  \E g : /\ IsAdditive(g, values, DOMAIN values)
                  /\ g[{}] = 0
                  /\ SumOf(values) = g[DOMAIN values]
<1> DEFINE D == DOMAIN values
           choice == [s \in SUBSET D |-> CHOOSE x \in s : TRUE]
           Unfolds(g) ==
              g = [s \in SUBSET D |->
                      IF s = {} THEN 0
                      ELSE values[CHOOSE x \in s : TRUE] + g[s \ {CHOOSE x \in s : TRUE}]]
           g == CHOOSE h : Unfolds(h)
<1>1. Chooses(choice, D)
  BY DEF Chooses
<1>2. \A h : IsSum(h, choice, values, 0, D) <=> Unfolds(h)
  BY DEF IsSum
<1>3. \E h : IsSum(h, choice, values, 0, D)
  <2> HIDE DEF choice
  <2> QED
    BY <1>1, SumExists
<1>4. Unfolds(g)
  <2> HIDE DEF Unfolds
  <2> QED
    BY <1>2, <1>3
<1>5. SumOf(values) = g[D]
  BY SMT DEF SumOf, FoldFunctionOnSet, MapThenFoldSet
<1> HIDE DEF g
<1>6. IsSum(g, choice, values, 0, D)
  BY <1>2, <1>4
<1> HIDE DEF choice, Unfolds
<1>7. IsAdditive(g, values, D) /\ g[{}] = 0
  BY <1>1, <1>6, SumIsAdditive DEF IsIntegral
<1> QED
  BY <1>5, <1>7

\* A sum of naturals is one.
LEMMA SumOfNaturals ==
    ASSUME NEW values, IsFiniteSet(DOMAIN values),
           \A x \in DOMAIN values : values[x] \in Nat
    PROVE  SumOf(values) \in Nat
<1>1. PICK g : /\ IsAdditive(g, values, DOMAIN values)
               /\ g[{}] = 0
               /\ SumOf(values) = g[DOMAIN values]
  BY SumOfIs
<1> DEFINE D == DOMAIN values
           G == {s \in SUBSET D : g[s] \in Nat}
<1>2. ASSUME NEW s \in SUBSET D, \A t \in SUBSET s : t # s => t \in G
      PROVE  s \in G
  <2>1. CASE s = {}
    BY <1>1, <2>1
  <2>2. CASE s # {}
    <3>1. PICK x \in s : TRUE
      BY <2>2
    <3>2. s \ {x} \in SUBSET s /\ s \ {x} # s
      BY <3>1
    <3>3. s \ {x} \in G
      BY <1>2, <3>2
    <3>4. g[s] = values[x] + g[s \ {x}]
      BY <1>1, <3>1 DEF IsAdditive
    <3>5. values[x] \in Nat /\ g[s \ {x}] \in Nat
      BY <3>1, <3>3
    <3> QED
      BY <3>4, <3>5
  <2> QED
    BY <2>1, <2>2
<1>3. G = SUBSET D
  <2>1. G \in SUBSET (SUBSET D) /\ IsFiniteSet(D)
    OBVIOUS
  <2> HIDE DEF G, D
  <2> QED
    BY <1>2, <2>1, BySize
<1> QED
  BY <1>1, <1>3

-----------------------------------------------------------------------------
(* Prices are whole and never negative.                                    *)

LEMMA PowersOfTwo == \A n \in Nat : 2^n \in Nat
<1> SUFFICES ASSUME NEW n \in Nat PROVE 2^n \in Nat
  OBVIOUS
<1>1. IsFiniteSet(1 .. n) /\ Cardinality(1 .. n) = n
  BY FS_Interval
<1>2. IsFiniteSet(SUBSET (1 .. n)) /\ Cardinality(SUBSET (1 .. n)) = 2^n
  BY <1>1, FS_SUBSET
<1> QED
  BY <1>2, FS_CardinalityType

LEMMA MinOfTwo ==
    ASSUME NEW a \in Int, NEW b \in Int
    PROVE  Min({a, b}) \in {a, b}
<1>1. \E x \in {a, b} : \A y \in {a, b} : x <= y
  OBVIOUS
<1> QED
  BY <1>1 DEF Min

LEMMA ScatteredNodesType ==
    ASSUME NEW leaves \in Nat, NEW depth \in Nat
    PROVE  scattered_nodes(leaves, depth) \in Nat
<1> DEFINE values == [k \in 1 .. depth |-> Min({leaves, 2^(depth - k)})]
<1>1. ASSUME NEW k \in 1 .. depth PROVE values[k] \in Nat
  <2>1. 2^(depth - k) \in Nat
    <3>1. depth - k \in Nat
      OBVIOUS
    <3> QED
      BY <3>1, PowersOfTwo
  <2>2. Min({leaves, 2^(depth - k)}) \in {leaves, 2^(depth - k)}
    BY <2>1, MinOfTwo
  <2>3. Min({leaves, 2^(depth - k)}) \in Nat
    BY <2>1, <2>2
  <2> QED
    BY <2>3
<1>2. DOMAIN values = 1 .. depth /\ IsFiniteSet(1 .. depth)
  BY FS_Interval
<1>3. scattered_nodes(leaves, depth) = SumOf(values)
  BY DEF scattered_nodes
<1> HIDE DEF values
<1> QED
  BY <1>1, <1>2, <1>3, SumOfNaturals

LEMMA PricesAre ==
    /\ Prover.stage_floor \in Nat /\ Prover.per_validator \in Nat
    /\ Prover.per_member \in Nat /\ Prover.acc_node \in Nat /\ Prover.message \in Nat
    /\ Prover.fp12 \in Nat /\ Prover.final_exp \in Nat /\ Prover.wrap \in Nat
    /\ Prover.recursion_verify \in Nat /\ Prover.first_child \in Nat
    /\ Prover.acc_depth \in Nat /\ Prover.committee_depth \in Nat
    /\ SecondsPerSlot \in Nat
  BY ProverAssumption

LEMMA OpenScatteredType ==
    ASSUME NEW leaves \in Nat, NEW depth \in Nat
    PROVE  open_scattered(leaves, depth) \in Nat
<1>1. scattered_nodes(leaves, depth) \in Nat
  BY ScatteredNodesType
<1>2. leaves * Prover.per_validator \in Nat
  BY PricesAre
<1>3. scattered_nodes(leaves, depth) * Prover.acc_node \in Nat
  BY <1>1, PricesAre
<1> QED
  BY <1>2, <1>3 DEF open_scattered

LEMMA ComplementPriceType ==
    ASSUME NEW named \in Nat, NEW slots \in Nat, NEW messages \in Nat
    PROVE  complement_s(named, slots, messages) \in Nat
<1>1. open_scattered(named, Prover.acc_depth) \in Nat
  BY PricesAre, OpenScatteredType
<1>2. open_scattered(slots, Prover.committee_depth) \in Nat
  BY PricesAre, OpenScatteredType
<1>3. messages * Prover.message \in Nat
  BY PricesAre
<1> QED
  BY <1>1, <1>2, <1>3 DEF complement_s, named_s

LEMMA GroupPriceType ==
    ASSUME NEW named \in Nat, NEW slots \in Nat, NEW messages \in Nat
    PROVE  group_s(named, slots, messages) \in Nat
<1>1. complement_s(named, slots, messages) \in Nat
  BY ComplementPriceType
<1> QED
  BY <1>1, PricesAre DEF group_s

LEMMA FoldPriceType ==
    ASSUME NEW groups \in Nat, NEW opening \in BOOLEAN
    PROVE  fold_s(groups, opening) \in Nat
<1>1. (groups + (IF opening THEN 2 ELSE 1)) * Prover.recursion_verify \in Nat
  <2>1. groups + (IF opening THEN 2 ELSE 1) \in Nat
    OBVIOUS
  <2> QED
    BY <2>1, PricesAre
<1>2. groups * Prover.fp12 \in Nat
  BY PricesAre
<1> QED
  BY <1>1, <1>2, PricesAre DEF fold_s

LEMMA FinalPriceType ==
    ASSUME NEW named \in Nat, NEW slots \in Nat, NEW messages \in Nat,
           NEW absorbed \in Nat, NEW folded \in BOOLEAN
    PROVE  final_s(named, slots, messages, absorbed, folded) \in Nat
<1>1. complement_s(named, slots, messages) \in Nat
  BY ComplementPriceType
<1>2. (absorbed + (IF folded THEN 2 ELSE 3)) * Prover.recursion_verify \in Nat
  <2>1. absorbed + (IF folded THEN 2 ELSE 3) \in Nat
    OBVIOUS
  <2> QED
    BY <2>1, PricesAre
<1>3. (absorbed + 1) * Prover.fp12 \in Nat
  BY PricesAre
<1> QED
  BY <1>1, <1>2, <1>3, PricesAre DEF final_s

LEMMA CeilDivType ==
    ASSUME NEW a \in Nat, NEW b \in Nat \ {0}
    PROVE  CeilDiv(a, b) \in Nat
<1>1. a + b - 1 \in Nat
  OBVIOUS
<1> QED
  BY <1>1 DEF CeilDiv

LEMMA CommitteePricesType ==
    ASSUME NEW validators \in Nat, NEW chunks \in Nat \ {0}
    PROVE  committee_chunk_s(validators, chunks) \in Nat /\ committee_fold_s(chunks) \in Nat
<1>1. committee_tree \in Nat
  <2>1. Prover.committee_depth + 1 \in Nat
    BY PricesAre
  <2>2. 2^(Prover.committee_depth + 1) \in Nat
    BY <2>1, PowersOfTwo
  <2>3. 2^(Prover.committee_depth + 1) # 0
    <3>1. IsFiniteSet(1 .. Prover.committee_depth + 1)
          /\ Cardinality(1 .. Prover.committee_depth + 1) = Prover.committee_depth + 1
      BY <2>1, FS_Interval
    <3>2. IsFiniteSet(SUBSET (1 .. Prover.committee_depth + 1))
          /\ Cardinality(SUBSET (1 .. Prover.committee_depth + 1)) = 2^(Prover.committee_depth + 1)
      BY <3>1, FS_SUBSET
    <3>3. SUBSET (1 .. Prover.committee_depth + 1) # {}
      OBVIOUS
    <3> QED
      BY <3>2, <3>3, FS_EmptySet
  <2>4. 2^(Prover.committee_depth + 1) - 1 \in Nat
    BY <2>2, <2>3
  <2> QED
    BY <2>4, PricesAre DEF committee_tree
<1>2. open_contiguous(CeilDiv(validators, chunks), Prover.acc_depth) \in Nat
  <2> DEFINE leaves == CeilDiv(validators, chunks)
             values == [k \in 1 .. Prover.acc_depth |-> CeilDiv(leaves, 2^k)]
  <2>1. leaves \in Nat
    BY CeilDivType
  <2> HIDE DEF leaves
  <2>2. ASSUME NEW k \in 1 .. Prover.acc_depth PROVE values[k] \in Nat
    <3>1. k \in Nat
      BY PricesAre
    <3>2. IsFiniteSet(1 .. k) /\ Cardinality(1 .. k) = k
      BY <3>1, FS_Interval
    <3>3. IsFiniteSet(SUBSET (1 .. k)) /\ Cardinality(SUBSET (1 .. k)) = 2^k
      BY <3>2, FS_SUBSET
    <3>4. SUBSET (1 .. k) # {}
      OBVIOUS
    <3>5. 2^k \in Nat \ {0}
      BY <3>1, <3>3, <3>4, FS_EmptySet, PowersOfTwo
    <3> QED
      BY <2>1, <3>5, CeilDivType
  <2>3. DOMAIN values = 1 .. Prover.acc_depth /\ IsFiniteSet(1 .. Prover.acc_depth)
    <3>1. 1 \in Int /\ Prover.acc_depth \in Int
      BY PricesAre
    <3>2. IsFiniteSet(1 .. Prover.acc_depth)
      BY <3>1, FS_Interval
    <3> QED
      BY <3>2
  <2>4. contiguous_nodes(leaves, Prover.acc_depth) = SumOf(values)
    BY DEF contiguous_nodes
  <2> HIDE DEF values
  <2>5. contiguous_nodes(leaves, Prover.acc_depth) \in Nat
    BY <2>2, <2>3, <2>4, SumOfNaturals
  <2>6. open_contiguous(leaves, Prover.acc_depth) \in Nat
    BY <2>1, <2>5, PricesAre DEF open_contiguous
  <2> QED
    BY <2>6 DEF leaves
<1>3. (chunks + 1) * Prover.recursion_verify \in Nat
  BY PricesAre
<1> QED
  BY <1>1, <1>2, <1>3, PricesAre DEF committee_chunk_s, committee_fold_s

-----------------------------------------------------------------------------
(* Lanes.  A window is where it starts and ends; a lane's windows do not   *)
(* overlap and are kept in order of their starts.                          *)

Windows == {w \in Int \X Int : w[1] <= w[2]}

\* One is over before the other starts.
Apart(v, w) == v[2] <= w[1] \/ w[2] <= v[1]

IsLane(q) ==
    /\ q \in Seq(Windows)
    /\ \A j, k \in 1 .. Len(q) : j < k => q[j][1] <= q[k][1] /\ Apart(q[j], q[k])

IsClear(q, start, duration) ==
    \A k \in 1 .. Len(q) : Apart(q[k], <<start, start + duration>>)

\* A start that is clear of the windows on a lane.
LEMMA EarliestIsClear ==
    ASSUME NEW q, IsLane(q), NEW release \in Int, NEW duration \in Nat
    PROVE  /\ earliest(q, release, duration) \in Int
           /\ earliest(q, release, duration) >= release
           /\ IsClear(q, earliest(q, release, duration), duration)
<1> DEFINE n == Len(q)
           next(start, w) == IF w[1] < start + duration /\ start < w[2] THEN w[2] ELSE start
           op == [p \in Int \X (1 .. n) |-> next(p[1], q[p[2]])]
           Unfolds(f) == f = [s \in SUBSET (1 .. n) |->
                                IF s = {} THEN release ELSE next(f[s \ {Max(s)}], q[Max(s)])]
           fold == CHOOSE f : Unfolds(f)
<1>1. n \in Nat /\ \A k \in 1 .. n : q[k] \in Windows /\ q[k][1] \in Int /\ q[k][2] \in Int
                                     /\ q[k][1] <= q[k][2]
  BY DEF IsLane, Windows
<1>2. IsTable(op, Int, n)
  <2>1. \A p \in Int \X (1 .. n) : next(p[1], q[p[2]]) \in Int
    BY <1>1
  <2> QED
    BY <2>1 DEF IsTable
<1>3. DOMAIN q = 1 .. n
  BY DEF IsLane
<1>4. PICK h, r : IsFoldOf(h, op, release, Int, n) /\ IsRunOf(r, op, release, Int, n)
                  /\ r[n] = h[1 .. n]
  <2> HIDE DEF n, op
  <2> QED
    BY <1>1, <1>2, FoldRuns
<1>5. h \in [SUBSET (1 .. n) -> Int]
      /\ h = [s \in SUBSET (1 .. n) |->
                IF s = {} THEN release ELSE op[<<h[s \ {Max(s)}], Max(s)>>]]
  BY <1>4 DEF IsFoldOf
<1>6. \A s \in SUBSET (1 .. n) : s # {} =>
         op[<<h[s \ {Max(s)}], Max(s)>>] = next(h[s \ {Max(s)}], q[Max(s)])
  <2> SUFFICES ASSUME NEW s \in SUBSET (1 .. n), s # {}
               PROVE  op[<<h[s \ {Max(s)}], Max(s)>>] = next(h[s \ {Max(s)}], q[Max(s)])
    OBVIOUS
  <2>1. Max(s) \in 1 .. n /\ s \ {Max(s)} \in SUBSET (1 .. n)
    BY <1>1, MaxOfFirst
  <2>2. <<h[s \ {Max(s)}], Max(s)>> \in Int \X (1 .. n)
    BY <1>5, <2>1
  <2> HIDE DEF next
  <2> QED
    BY <2>2
<1>7. Unfolds(h)
  <2> HIDE DEF next, op
  <2>1. [s \in SUBSET (1 .. n) |->
           IF s = {} THEN release ELSE op[<<h[s \ {Max(s)}], Max(s)>>]]
        = [s \in SUBSET (1 .. n) |->
             IF s = {} THEN release ELSE next(h[s \ {Max(s)}], q[Max(s)])]
    BY <1>6
  <2> QED
    BY <1>5, <2>1
<1>8. Unfolds(fold)
  <2> HIDE DEF Unfolds
  <2> QED
    BY <1>7
<1>9. earliest(q, release, duration) = fold[1 .. n]
  BY <1>3, SMT DEF earliest, FoldLeft, MapThenFoldSet
<1> HIDE DEF fold
<1>10. fold[1 .. n] = r[n]
  <2> HIDE DEF next, op, n
  <2>1. \A s \in SUBSET (1 .. n) :
           fold[s] = IF s = {} THEN release ELSE next(fold[s \ {Max(s)}], q[Max(s)])
    BY <1>8
  <2>2. \A s \in SUBSET (1 .. n) :
           h[s] = IF s = {} THEN release ELSE next(h[s \ {Max(s)}], q[Max(s)])
    BY <1>7
  <2>3. fold[{}] = h[{}]
    BY <2>1, <2>2
  <2>4. StepsAgree(fold, h, n)
    BY <2>1, <2>2, <2>3 DEF StepsAgree
  <2>5. fold[1 .. n] = h[1 .. n]
    BY <1>1, <2>4, FoldAgrees
  <2> QED
    BY <1>4, <2>5
<1>11. r[0] = release /\ \A k \in 1 .. n : r[k] = next(r[k - 1], q[k])
  <2>1. r \in [0 .. n -> Int] /\ r[0] = release
        /\ \A k \in 1 .. n : r[k] = op[<<r[k - 1], k>>]
    BY <1>4 DEF IsRunOf
  <2>2. ASSUME NEW k \in 1 .. n PROVE op[<<r[k - 1], k>>] = next(r[k - 1], q[k])
    <3>1. k - 1 \in 0 .. n
      BY <1>1
    <3>2. <<r[k - 1], k>> \in Int \X (1 .. n)
      BY <2>1, <3>1
    <3> HIDE DEF next
    <3> QED
      BY <3>2
  <2> HIDE DEF op, next
  <2> QED
    BY <2>1, <2>2
<1> DEFINE good == [k \in 0 .. n |->
                      {x \in Int : /\ x >= release
                                   /\ \A j \in 1 .. k : Apart(q[j], <<x, x + duration>>)}]
<1>12. r[0] \in good[0]
  BY <1>1, <1>11
<1>13. ASSUME NEW k \in 1 .. n, r[k - 1] \in good[k - 1] PROVE r[k] \in good[k]
  <2>1. k \in 0 .. n /\ k - 1 \in 0 .. n
    BY <1>1
  <2>2. PICK x : x = r[k - 1]
    OBVIOUS
  <2>3. x \in Int /\ x >= release /\ \A j \in 1 .. k - 1 : Apart(q[j], <<x, x + duration>>)
    BY <1>13, <2>1, <2>2
  <2>4. q[k][1] \in Int /\ q[k][2] \in Int /\ q[k][1] <= q[k][2]
    BY <1>1
  <2> DEFINE y == next(x, q[k])
  <2>5. y \in Int /\ y >= release
    BY <2>3, <2>4
  <2>6. ASSUME NEW j \in 1 .. k PROVE Apart(q[j], <<y, y + duration>>)
    <3>1. j \in 1 .. n /\ q[j][1] \in Int /\ q[j][2] \in Int /\ q[j][1] <= q[j][2]
      BY <1>1
    <3>2. CASE j = k
      BY <2>3, <2>4, <3>2 DEF Apart
    <3>3. CASE j # k
      <4>1. j < k /\ j \in 1 .. k - 1
        BY <1>1, <3>3
      <4>2. Apart(q[j], <<x, x + duration>>) /\ Apart(q[j], q[k]) /\ q[j][1] <= q[k][1]
        BY <2>3, <3>1, <4>1 DEF IsLane
      <4>3. q[j][2] <= x \/ x + duration <= q[j][1]
        BY <4>2 DEF Apart
      <4>4. q[j][2] <= q[k][1] \/ q[k][2] <= q[j][1]
        BY <4>2 DEF Apart
      <4>5. q[j][2] <= y \/ y + duration <= q[j][1]
        BY <2>3, <2>4, <3>1, <4>2, <4>3, <4>4
      <4> QED
        BY <4>5 DEF Apart
    <3> QED
      BY <3>2, <3>3
  <2>7. r[k] = y
    BY <1>11, <2>2
  <2> HIDE DEF y, n
  <2> QED
    BY <2>1, <2>5, <2>6, <2>7
<1>14. r[n] \in good[n] /\ n \in 0 .. n
  <2> HIDE DEF good, n
  <2>1. \A k \in 0 .. n : r[k] \in good[k]
    BY <1>1, <1>12, <1>13, Along
  <2> QED
    BY <1>1, <2>1
<1>15. earliest(q, release, duration) = r[n]
  BY <1>9, <1>10
<1> HIDE DEF n
<1>16. r[n] \in Int /\ r[n] >= release
       /\ \A k \in 1 .. n : Apart(q[k], <<r[n], r[n] + duration>>)
  BY <1>14
<1> QED
  BY <1>15, <1>16 DEF n, IsClear

\* A window clear of a lane's goes in among them, and none is lost.
Taken(q, start, duration) ==
    SeqAt(q, {i \in DOMAIN q : q[i][1] < start}) \o <<<<start, start + duration>>>>
        \o SeqAt(q, {i \in DOMAIN q : q[i][1] >= start})

Has(q, w) == \E j \in 1 .. Len(q) : q[j] = w

\* The windows of a lane at some positions, in their order.
ArePicked(q, positions, picked, n) ==
    /\ picked \in Seq(Windows) /\ Len(picked) = n /\ n \in Nat
    /\ \A k \in 1 .. n : InOrder(positions)[k] \in positions /\ picked[k] = q[InOrder(positions)[k]]
    /\ \A i \in positions : \E k \in 1 .. n : InOrder(positions)[k] = i
    /\ \A j, k \in 1 .. n : j < k => InOrder(positions)[j] < InOrder(positions)[k]

LEMMA PickedAre ==
    ASSUME NEW q \in Seq(Windows), NEW positions \in SUBSET DOMAIN q
    PROVE  ArePicked(q, positions, SeqAt(q, positions), Cardinality(positions))
<1>1. PICK picked, n : picked = SeqAt(q, positions) /\ n = Cardinality(positions)
  OBVIOUS
<1>2. /\ picked \in Seq(Windows) /\ Len(picked) = n /\ n \in Nat
      /\ \A i \in positions : \E k \in 1 .. n : InOrder(positions)[k] = i
      /\ \A j, k \in 1 .. n : j < k => InOrder(positions)[j] < InOrder(positions)[k]
  BY <1>1, SeqAtIs
<1>3. \A k \in 1 .. n : InOrder(positions)[k] \in positions /\ picked[k] = q[InOrder(positions)[k]]
  BY <1>1, SeqAtIs
<1>4. ArePicked(q, positions, picked, n)
  BY <1>2, <1>3 DEF ArePicked
<1> QED
  BY <1>1, <1>4

LEMMA LaneTakesWindow ==
    ASSUME NEW q, IsLane(q), NEW start \in Int, NEW duration \in Nat,
           IsClear(q, start, duration)
    PROVE  /\ IsLane(Taken(q, start, duration))
           /\ \A w : Has(q, w) => Has(Taken(q, start, duration), w)
           /\ Has(Taken(q, start, duration), <<start, start + duration>>)
           /\ \A w : Has(Taken(q, start, duration), w)
                        => Has(q, w) \/ w = <<start, start + duration>>
<1> DEFINE A == {i \in DOMAIN q : q[i][1] < start}
           B == {i \in DOMAIN q : q[i][1] >= start}
           a == SeqAt(q, A)
           b == SeqAt(q, B)
           na == Cardinality(A)
           nb == Cardinality(B)
           w == <<start, start + duration>>
           taken == Taken(q, start, duration)
<1>1. q \in Seq(Windows) /\ DOMAIN q = 1 .. Len(q) /\ Len(q) \in Nat
  BY DEF IsLane
<1>2. A \in SUBSET DOMAIN q /\ B \in SUBSET DOMAIN q
  OBVIOUS
<1>3. /\ a \in Seq(Windows) /\ Len(a) = na /\ na \in Nat
      /\ \A k \in 1 .. na : InOrder(A)[k] \in A /\ a[k] = q[InOrder(A)[k]]
      /\ \A i \in A : \E k \in 1 .. na : InOrder(A)[k] = i
      /\ \A j, k \in 1 .. na : j < k => InOrder(A)[j] < InOrder(A)[k]
  <2> HIDE DEF A
  <2>1. ArePicked(q, A, a, na)
    BY <1>1, <1>2, PickedAre
  <2> HIDE DEF a, na
  <2> QED
    BY <2>1 DEF ArePicked
<1>4. /\ b \in Seq(Windows) /\ Len(b) = nb /\ nb \in Nat
      /\ \A k \in 1 .. nb : InOrder(B)[k] \in B /\ b[k] = q[InOrder(B)[k]]
      /\ \A i \in B : \E k \in 1 .. nb : InOrder(B)[k] = i
      /\ \A j, k \in 1 .. nb : j < k => InOrder(B)[j] < InOrder(B)[k]
  <2> HIDE DEF B
  <2>1. ArePicked(q, B, b, nb)
    BY <1>1, <1>2, PickedAre
  <2> HIDE DEF b, nb
  <2> QED
    BY <2>1 DEF ArePicked
<1>5. \A i \in 1 .. Len(q) : q[i] \in Windows /\ q[i][1] \in Int /\ q[i][2] \in Int
                             /\ q[i][1] <= q[i][2]
  BY <1>1 DEF Windows
<1>6. w \in Windows /\ w[1] = start /\ w[2] = start + duration
  BY DEF Windows
<1>7. taken = (a \o <<w>>) \o b
  BY DEF Taken
<1> DEFINE fa == InOrder(A)
           fb == InOrder(B)
<1>8. \A k \in 1 .. na : fa[k] \in 1 .. Len(q) /\ q[fa[k]][1] < start
  BY <1>1, <1>3
<1>9. \A k \in 1 .. nb : fb[k] \in 1 .. Len(q) /\ q[fb[k]][1] >= start
  BY <1>1, <1>4
<1>10. \A i \in 1 .. Len(q) : (\E k \in 1 .. na : fa[k] = i) \/ (\E k \in 1 .. nb : fb[k] = i)
  <2> SUFFICES ASSUME NEW i \in 1 .. Len(q)
               PROVE  (\E k \in 1 .. na : fa[k] = i) \/ (\E k \in 1 .. nb : fb[k] = i)
    OBVIOUS
  <2>1. i \in A \/ i \in B
    BY <1>1, <1>5
  <2>2. CASE i \in A
    BY <1>3, <2>2
  <2>3. CASE i \in B
    BY <1>4, <2>3
  <2> QED
    BY <2>1, <2>2, <2>3
<1>11. /\ a \in Seq(Windows) /\ b \in Seq(Windows) /\ Len(a) = na /\ Len(b) = nb
       /\ na \in Nat /\ nb \in Nat
       /\ \A k \in 1 .. na : a[k] = q[fa[k]]
       /\ \A k \in 1 .. nb : b[k] = q[fb[k]]
       /\ \A j, k \in 1 .. na : j < k => fa[j] < fa[k]
       /\ \A j, k \in 1 .. nb : j < k => fb[j] < fb[k]
  BY <1>3, <1>4
<1> HIDE DEF a, b, na, nb, fa, fb, A, B, w, taken
<1> DEFINE c == a \o <<w>>
<1>20. /\ c \in Seq(Windows) /\ Len(c) = na + 1
       /\ \A j \in 1 .. na : c[j] = a[j]
       /\ c[na + 1] = w
  <2>1. <<w>> \in Seq(Windows) /\ Len(<<w>>) = 1 /\ <<w>>[1] = w
    BY <1>6
  <2>2. /\ c \in Seq(Windows) /\ Len(c) = Len(a) + Len(<<w>>)
        /\ \A j \in 1 .. Len(a) : c[j] = a[j]
        /\ \A j \in 1 .. Len(<<w>>) : c[Len(a) + j] = <<w>>[j]
    BY <1>11, <2>1, ConcatIs
  <2>3. 1 \in 1 .. Len(<<w>>)
    BY <2>1
  <2> HIDE DEF c
  <2> QED
    BY <1>11, <2>1, <2>2, <2>3
<1>21. taken = c \o b
  BY <1>7
<1> HIDE DEF c
<1>22. /\ taken \in Seq(Windows) /\ Len(taken) = Len(c) + Len(b)
       /\ \A j \in 1 .. Len(c) : taken[j] = c[j]
       /\ \A j \in 1 .. Len(b) : taken[Len(c) + j] = b[j]
  <2>1. c \in Seq(Windows) /\ b \in Seq(Windows)
    BY <1>11, <1>20
  <2>2. /\ c \o b \in Seq(Windows) /\ Len(c \o b) = Len(c) + Len(b)
        /\ \A j \in 1 .. Len(c) : (c \o b)[j] = c[j]
        /\ \A j \in 1 .. Len(b) : (c \o b)[Len(c) + j] = b[j]
    BY <2>1, ConcatIs
  <2> QED
    BY <1>21, <2>2
<1>12. /\ taken \in Seq(Windows) /\ Len(taken) = na + 1 + nb
  BY <1>11, <1>20, <1>22
<1>13. /\ \A j \in 1 .. na : taken[j] = q[fa[j]]
       /\ taken[na + 1] = w
       /\ \A j \in 1 .. nb : taken[na + 1 + j] = q[fb[j]]
  <2>1. ASSUME NEW j \in 1 .. na PROVE taken[j] = q[fa[j]]
    <3>1. j \in 1 .. Len(c)
      BY <1>11, <1>20
    <3> QED
      BY <1>11, <1>20, <1>22, <3>1
  <2>2. taken[na + 1] = w
    <3>1. na + 1 \in 1 .. Len(c)
      BY <1>11, <1>20
    <3> QED
      BY <1>20, <1>22, <3>1
  <2>3. ASSUME NEW j \in 1 .. nb PROVE taken[na + 1 + j] = q[fb[j]]
    <3>1. taken[Len(c) + j] = b[j] /\ b[j] = q[fb[j]]
      BY <1>11, <1>22
    <3> QED
      BY <1>20, <3>1
  <2> QED
    BY <2>1, <2>2, <2>3
<1>14. \A i, k \in 1 .. Len(q) : i < k => q[i][1] <= q[k][1] /\ Apart(q[i], q[k])
  BY DEF IsLane
<1>15. \A k \in 1 .. Len(q) : Apart(q[k], w)
  BY DEF w, IsClear
<1>16. ASSUME NEW j \in 1 .. Len(taken), NEW k \in 1 .. Len(taken), j < k
       PROVE  taken[j][1] <= taken[k][1] /\ Apart(taken[j], taken[k])
  <2>1. CASE j \in 1 .. na /\ k \in 1 .. na
    <3>1. fa[j] \in 1 .. Len(q) /\ fa[k] \in 1 .. Len(q) /\ fa[j] < fa[k]
      BY <1>8, <1>11, <1>16, <2>1
    <3> QED
      BY <1>13, <1>14, <2>1, <3>1
  <2>2. CASE j \in 1 .. na /\ k = na + 1
    <3>1. fa[j] \in 1 .. Len(q) /\ q[fa[j]][1] < start /\ q[fa[j]][1] \in Int
      BY <1>5, <1>8, <2>2
    <3>2. taken[j] = q[fa[j]] /\ taken[k] = w
      BY <1>13, <2>2
    <3>3. Apart(q[fa[j]], w)
      BY <1>15, <3>1
    <3>4. q[fa[j]][1] <= w[1]
      BY <1>6, <3>1
    <3> QED
      BY <3>2, <3>3, <3>4
  <2>3. CASE j \in 1 .. na /\ k > na + 1
    <3>1. k - (na + 1) \in 1 .. nb
      BY <1>11, <1>12, <2>3
    <3>2. PICK i : i = k - (na + 1)
      OBVIOUS
    <3>3. i \in 1 .. nb /\ k = na + 1 + i
      BY <1>11, <3>1, <3>2
    <3>4. taken[j] = q[fa[j]] /\ taken[k] = q[fb[i]]
      BY <1>13, <2>3, <3>3
    <3>5. fa[j] \in 1 .. Len(q) /\ fb[i] \in 1 .. Len(q) /\ q[fa[j]][1] < start
          /\ q[fb[i]][1] >= start
      BY <1>8, <1>9, <2>3, <3>3
    <3>6. q[fa[j]][1] \in Int /\ q[fb[i]][1] \in Int
      BY <1>5, <3>5
    <3>7. q[fa[j]][1] < q[fb[i]][1]
      BY <3>5, <3>6
    <3>8. fa[j] < fb[i]
      <4> SUFFICES ASSUME ~(fa[j] < fb[i]) PROVE FALSE
        OBVIOUS
      <4>1. fb[i] = fa[j] \/ fb[i] < fa[j]
        BY <1>1, <3>5
      <4>2. q[fb[i]][1] <= q[fa[j]][1]
        BY <1>14, <3>5, <3>6, <4>1
      <4> QED
        BY <3>6, <3>7, <4>2
    <3> QED
      BY <1>14, <3>4, <3>5, <3>8
  <2>4. CASE j = na + 1
    <3>1. k - (na + 1) \in 1 .. nb
      BY <1>11, <1>12, <1>16, <2>4
    <3>2. PICK i : i = k - (na + 1)
      OBVIOUS
    <3>3. i \in 1 .. nb /\ k = na + 1 + i
      BY <1>11, <3>1, <3>2
    <3>4. taken[j] = w /\ taken[k] = q[fb[i]]
      BY <1>13, <2>4, <3>3
    <3>5. fb[i] \in 1 .. Len(q) /\ q[fb[i]][1] >= start /\ q[fb[i]][1] \in Int
      BY <1>5, <1>9, <3>3
    <3>6. Apart(w, q[fb[i]])
      BY <1>15, <3>5 DEF Apart
    <3> QED
      BY <1>6, <3>4, <3>5, <3>6
  <2>5. CASE j > na + 1
    <3>1. j - (na + 1) \in 1 .. nb /\ k - (na + 1) \in 1 .. nb
      BY <1>11, <1>12, <1>16, <2>5
    <3>2. PICK i, m : i = j - (na + 1) /\ m = k - (na + 1)
      OBVIOUS
    <3>3. i \in 1 .. nb /\ j = na + 1 + i /\ m \in 1 .. nb /\ k = na + 1 + m /\ i < m
      BY <1>11, <1>16, <3>1, <3>2
    <3>4. fb[i] \in 1 .. Len(q) /\ fb[m] \in 1 .. Len(q) /\ fb[i] < fb[m]
      BY <1>9, <1>11, <3>3
    <3>5. taken[j] = q[fb[i]] /\ taken[k] = q[fb[m]]
      BY <1>13, <3>3
    <3> QED
      BY <1>14, <3>4, <3>5
  <2> QED
    BY <1>11, <1>12, <1>16, <2>1, <2>2, <2>3, <2>4, <2>5
<1>17. IsLane(taken)
  BY <1>12, <1>16 DEF IsLane
<1>18. ASSUME NEW k \in 1 .. Len(q) PROVE \E j \in 1 .. Len(taken) : taken[j] = q[k]
  <2>1. CASE \E j \in 1 .. na : fa[j] = k
    <3>1. PICK j \in 1 .. na : fa[j] = k
      BY <2>1
    <3>2. j \in 1 .. Len(taken)
      BY <1>11, <1>12
    <3>3. taken[j] = q[k]
      BY <1>13, <3>1
    <3> QED
      BY <3>2, <3>3
  <2>2. CASE \E j \in 1 .. nb : fb[j] = k
    <3>1. PICK j \in 1 .. nb : fb[j] = k
      BY <2>2
    <3>2. na + 1 + j \in 1 .. Len(taken)
      BY <1>11, <1>12
    <3>3. taken[na + 1 + j] = q[k]
      BY <1>13, <3>1
    <3> QED
      BY <3>2, <3>3
  <2> QED
    BY <1>10, <2>1, <2>2
<1>19. na + 1 \in 1 .. Len(taken) /\ taken[na + 1] = w
  BY <1>11, <1>12, <1>13
<1>23. ASSUME NEW j \in 1 .. Len(taken)
       PROVE  taken[j] = w \/ \E k \in 1 .. Len(q) : q[k] = taken[j]
  <2>1. CASE j \in 1 .. na
    BY <1>8, <1>13, <2>1
  <2>2. CASE j = na + 1
    BY <1>13, <2>2
  <2>3. CASE j > na + 1
    <3>1. PICK i : i = j - (na + 1)
      OBVIOUS
    <3>2. i \in 1 .. nb /\ j = na + 1 + i
      <4>1. na \in Nat /\ nb \in Nat
        BY <1>11
      <4>2. j \in 1 .. (na + 1 + nb)
        BY <1>12
      <4> QED
        BY <2>3, <3>1, <4>1, <4>2
    <3>3. taken[na + 1 + i] = q[fb[i]]
      BY <1>13, <3>2
    <3>4. fb[i] \in 1 .. Len(q)
      BY <1>9, <3>2
    <3>5. taken[j] = q[fb[i]]
      BY <3>2, <3>3
    <3> QED
      BY <3>4, <3>5
  <2> QED
    BY <1>11, <1>12, <2>1, <2>2, <2>3
<1> QED
  BY <1>17, <1>18, <1>19, <1>23 DEF w, taken, Has

-----------------------------------------------------------------------------
(* Placing a proof.                                                        *)

Stages == {"group", "fold", "final", "wrap", "committee", "committee_fold"}

Placed == {p \in [stage : Stages, covers : SUBSET Int, lane : Int, start : Int, end : Int] :
              p.start <= p.end}

Window(p) == <<p.start, p.end>>

\* A lane's windows are those of its proofs.
AreProofs(lanes, proofs, L) ==
    \A l \in Indices(L) : \A w : Has(lanes[l], w) =>
        \E i \in 1 .. Len(proofs) : proofs[i].lane = l /\ Window(proofs[i]) = w

\* Proofs on L lanes: every one has its window, and no two on a lane overlap.
IsHeld(held, L) ==
    /\ AreProofs(held.lanes, held.proofs, L)
    /\ held.lanes \in [Indices(L) -> Seq(Windows)]
    /\ \A l \in Indices(L) : IsLane(held.lanes[l])
    /\ held.proofs \in Seq(Placed)
    /\ \A i \in 1 .. Len(held.proofs) :
          /\ held.proofs[i].lane \in Indices(L)
          /\ Has(held.lanes[held.proofs[i].lane], Window(held.proofs[i]))
    /\ \A i, j \in 1 .. Len(held.proofs) :
          i < j /\ held.proofs[i].lane = held.proofs[j].lane
             => Apart(Window(held.proofs[i]), Window(held.proofs[j]))

\* One more proof, on a lane whose windows are clear of it.
LEMMA PlaceAtKeeps ==
    ASSUME NEW L \in Nat, NEW held, IsHeld(held, L),
           NEW at, at.lane \in Indices(L), at.start \in Int, NEW duration \in Nat,
           NEW stage \in Stages, NEW covers \in SUBSET Int,
           IsClear(held.lanes[at.lane], at.start, duration),
           NEW proof,
           proof = [stage |-> stage, covers |-> covers, lane |-> at.lane,
                    start |-> at.start, end |-> at.start + duration],
           NEW lanes, lanes = LaneCommit(held.lanes, at.lane, at.start, duration)
    PROVE  /\ IsHeld([lanes |-> lanes, proofs |-> Append(held.proofs, proof)], L)
           /\ proof \in Placed
<1> DEFINE q == held.lanes[at.lane]
           taken == Taken(q, at.start, duration)
           after == [lanes |-> lanes, proofs |-> Append(held.proofs, proof)]
           n == Len(held.proofs)
<1>1. IsLane(q)
  BY DEF IsHeld
<1>2. /\ IsLane(taken)
      /\ \A w : Has(q, w) => Has(taken, w)
      /\ Has(taken, <<at.start, at.start + duration>>)
      /\ \A w : Has(taken, w) => Has(q, w) \/ w = <<at.start, at.start + duration>>
  BY <1>1, LaneTakesWindow
<1>3. held.lanes \in [Indices(L) -> Seq(Windows)]
      /\ lanes = [held.lanes EXCEPT ![at.lane] = taken]
  BY DEF IsHeld, LaneCommit, Taken
<1>4. proof \in Placed /\ Window(proof) = <<at.start, at.start + duration>>
      /\ proof.lane = at.lane
  <2>1. at.lane \in Int
    BY DEF Indices
  <2>2. PICK l, t : l = at.lane /\ t = at.start
    OBVIOUS
  <2>3. proof = [stage |-> stage, covers |-> covers, lane |-> l, start |-> t,
                 end |-> t + duration]
        /\ l \in Int /\ t \in Int /\ t <= t + duration
    BY <2>1, <2>2
  <2>4. proof \in Placed
    BY <2>3 DEF Placed
  <2>5. Window(proof) = <<t, t + duration>> /\ proof.lane = l
    BY <2>3 DEF Window
  <2> QED
    BY <2>2, <2>4, <2>5
<1>5. held.proofs \in Seq(Placed)
  BY DEF IsHeld
<1> HIDE DEF taken, q
<1>6. lanes \in [Indices(L) -> Seq(Windows)] /\ lanes[at.lane] = taken
      /\ \A l \in Indices(L) : l # at.lane => lanes[l] = held.lanes[l]
  BY <1>2, <1>3 DEF IsLane
<1>7. \A l \in Indices(L) : IsLane(lanes[l])
  <2> SUFFICES ASSUME NEW l \in Indices(L) PROVE IsLane(lanes[l])
    OBVIOUS
  <2>1. IsLane(held.lanes[l])
    BY DEF IsHeld
  <2>2. CASE l = at.lane
    BY <1>2, <1>6, <2>2
  <2>3. CASE l # at.lane
    BY <1>6, <2>1, <2>3
  <2> QED
    BY <2>2, <2>3
<1> DEFINE proofs == Append(held.proofs, proof)
<1>8. /\ proofs \in Seq(Placed) /\ Len(proofs) = n + 1 /\ n \in Nat
      /\ \A i \in 1 .. n : proofs[i] = held.proofs[i]
      /\ proofs[n + 1] = proof
  BY <1>4, <1>5, AppendIs
<1> HIDE DEF proofs
<1>9. ASSUME NEW i \in 1 .. n
      PROVE  /\ held.proofs[i].lane \in Indices(L)
             /\ Has(lanes[held.proofs[i].lane], Window(held.proofs[i]))
  <2>1. PICK p : p = held.proofs[i]
    OBVIOUS
  <2>2. p.lane \in Indices(L) /\ Has(held.lanes[p.lane], Window(p))
    BY <2>1 DEF IsHeld
  <2>3. CASE p.lane = at.lane
    <3>1. Has(q, Window(p))
      BY <2>2, <2>3 DEF q
    <3>2. Has(taken, Window(p))
      BY <1>2, <3>1
    <3> QED
      BY <1>6, <2>1, <2>2, <2>3, <3>2
  <2>4. CASE p.lane # at.lane
    BY <1>6, <2>1, <2>2, <2>4
  <2> QED
    BY <2>3, <2>4
<1>10. ASSUME NEW i \in 1 .. n + 1
       PROVE  /\ proofs[i].lane \in Indices(L)
              /\ Has(lanes[proofs[i].lane], Window(proofs[i]))
  <2>1. CASE i \in 1 .. n
    BY <1>8, <1>9, <2>1
  <2>2. CASE i = n + 1
    <3>1. Has(taken, Window(proof))
      BY <1>2, <1>4
    <3> QED
      BY <1>4, <1>6, <1>8, <2>2, <3>1
  <2> QED
    BY <1>8, <2>1, <2>2
<1>11. ASSUME NEW i \in 1 .. n + 1, NEW j \in 1 .. n + 1, i < j,
              proofs[i].lane = proofs[j].lane
       PROVE  Apart(Window(proofs[i]), Window(proofs[j]))
  <2>1. i \in 1 .. n
    BY <1>8, <1>11
  <2>2. CASE j \in 1 .. n
    <3>1. proofs[i] = held.proofs[i] /\ proofs[j] = held.proofs[j]
      BY <1>8, <2>1, <2>2
    <3> QED
      BY <1>11, <2>1, <2>2, <3>1 DEF IsHeld
  <2>3. CASE j = n + 1
    <3>1. PICK p : p = held.proofs[i]
      OBVIOUS
    <3>2. proofs[i] = p /\ proofs[j] = proof /\ p.lane = at.lane
      BY <1>4, <1>8, <1>11, <2>1, <2>3, <3>1
    <3>3. Has(q, Window(p))
      BY <2>1, <3>1, <3>2 DEF IsHeld, q
    <3>4. Apart(Window(p), <<at.start, at.start + duration>>)
      BY <3>3 DEF q, IsClear, Has
    <3> QED
      BY <1>4, <3>2, <3>4
  <2> QED
    BY <1>8, <2>2, <2>3
<1>12. after.lanes = lanes /\ after.proofs = proofs
  BY DEF proofs
<1>14. AreProofs(lanes, proofs, L)
  <2> SUFFICES ASSUME NEW l \in Indices(L), NEW w, Has(lanes[l], w)
               PROVE  \E i \in 1 .. Len(proofs) : proofs[i].lane = l /\ Window(proofs[i]) = w
    BY DEF AreProofs
  <2>1. CASE Has(held.lanes[l], w)
    <3>1. PICK i \in 1 .. n : held.proofs[i].lane = l /\ Window(held.proofs[i]) = w
      BY <2>1 DEF IsHeld, AreProofs
    <3>2. i \in 1 .. Len(proofs) /\ proofs[i] = held.proofs[i]
      BY <1>8, <3>1
    <3> QED
      BY <3>1, <3>2
  <2>2. CASE ~Has(held.lanes[l], w)
    <3>1. l = at.lane
      BY <1>6, <2>2
    <3>2. Has(taken, w) /\ ~Has(q, w)
      BY <1>6, <2>2, <3>1 DEF q
    <3>3. w = Window(proof)
      BY <1>2, <1>4, <3>2
    <3>4. n + 1 \in 1 .. Len(proofs) /\ proofs[n + 1] = proof
      BY <1>8
    <3> QED
      BY <1>4, <3>1, <3>3, <3>4
  <2> QED
    BY <2>1, <2>2
<1> HIDE DEF after
<1>13. IsHeld(after, L)
  BY <1>6, <1>7, <1>8, <1>10, <1>11, <1>12, <1>14 DEF IsHeld
<1> QED
  BY <1>4, <1>13 DEF after

LEMMA UptoIs ==
    ASSUME NEW k \in Nat
    PROVE  Upto(k) \in Seq(Indices(k)) /\ Len(Upto(k)) = k
  BY DEF Upto, Indices

LEMMA ReverseIs ==
    ASSUME NEW S, NEW q \in Seq(S)
    PROVE  Reverse(q) \in Seq(S) /\ Len(Reverse(q)) = Len(q)
<1>1. \A i \in 1 .. Len(q) : q[(Len(q) - i) + 1] \in S
  <2> SUFFICES ASSUME NEW i \in 1 .. Len(q) PROVE q[(Len(q) - i) + 1] \in S
    OBVIOUS
  <2>1. (Len(q) - i) + 1 \in 1 .. Len(q)
    OBVIOUS
  <2> QED
    BY <2>1
<1> QED
  BY <1>1 DEF Reverse

\* The lanes a stage may run on are lanes of the pool, and there is one.
LEMMA EligibleIs ==
    ASSUME NEW policy, policy.lanes \in Nat \ {0}, NEW stage
    PROVE  /\ eligible(policy, stage) \in Seq(Indices(policy.lanes))
           /\ eligible(policy, stage) # <<>>
<1> DEFINE L == policy.lanes
           last == Largest(L - 1, 0)
           fold == Largest(last - 1, 0)
           lanes == IF policy.pool = "fungible" THEN Upto(L)
                    ELSE IF stage \in {"group", "committee"} THEN Upto(Largest(fold, 1))
                    ELSE IF stage \in {"fold", "committee_fold"} THEN <<fold>>
                    ELSE <<last>>
<1>1. last \in Indices(L) /\ fold \in Indices(L) /\ Largest(fold, 1) \in 1 .. L
  BY DEF Largest, Indices
<1>2. PICK k : k = Largest(fold, 1)
  OBVIOUS
<1>3. k \in Nat /\ k > 0 /\ Indices(k) \in SUBSET Indices(L)
  BY <1>1, <1>2 DEF Indices
<1> HIDE DEF last, fold
<1>4. Upto(L) \in Seq(Indices(L)) /\ Upto(L) # <<>>
  <2>1. Upto(L) \in Seq(Indices(L)) /\ Len(Upto(L)) = L
    BY UptoIs
  <2> QED
    BY <2>1
<1>5. Upto(k) \in Seq(Indices(L)) /\ Upto(k) # <<>>
  <2>1. Upto(k) \in Seq(Indices(k)) /\ Len(Upto(k)) = k
    BY <1>3, UptoIs
  <2> QED
    BY <1>3, <2>1
<1>6. <<fold>> \in Seq(Indices(L)) /\ <<fold>> # <<>>
      /\ <<last>> \in Seq(Indices(L)) /\ <<last>> # <<>>
  BY <1>1
<1>7. lanes \in Seq(Indices(L)) /\ lanes # <<>>
  BY <1>2, <1>4, <1>5, <1>6
<1>8. eligible(policy, stage)
        = IF stage \in {"committee", "committee_fold"} THEN Reverse(lanes) ELSE lanes
  BY DEF eligible, last, fold
<1> HIDE DEF lanes
<1>9. Reverse(lanes) \in Seq(Indices(L)) /\ Len(Reverse(lanes)) = Len(lanes)
  BY <1>7, ReverseIs
<1>10. Reverse(lanes) # <<>>
  BY <1>7, <1>9
<1> QED
  BY <1>7, <1>8, <1>9, <1>10

\* Among the listed lanes one can start it first, and is clear then.
LEMMA LanePeekIs ==
    ASSUME NEW L \in Nat, NEW lanes, \A l \in Indices(L) : IsLane(lanes[l]),
           NEW listed \in Seq(Indices(L)), listed # <<>>,
           NEW release \in Int, NEW duration \in Nat,
           NEW at, at = LanePeek(lanes, listed, release, duration)
    PROVE  /\ at.lane \in Indices(L)
           /\ at.start \in Int /\ at.start >= release
           /\ IsClear(lanes[at.lane], at.start, duration)
<1> DEFINE n == Len(listed)
           start(i) == earliest(lanes[listed[i]], release, duration)
           keys == [i \in 1 .. n |-> start(i)]
           IsBest(i) == \A j \in DOMAIN listed : start(i) < start(j)
                                                 \/ (start(i) = start(j) /\ i <= j)
           best == CHOOSE i \in DOMAIN listed : IsBest(i)
<1>1. n \in Nat /\ n # 0 /\ DOMAIN listed = 1 .. n /\ \A i \in 1 .. n : listed[i] \in Indices(L)
  OBVIOUS
<1>2. ASSUME NEW i \in 1 .. n
      PROVE  /\ start(i) \in Int /\ start(i) >= release
             /\ IsClear(lanes[listed[i]], start(i), duration)
  <2>1. IsLane(lanes[listed[i]])
    BY <1>1
  <2> QED
    BY <2>1, EarliestIsClear
<1>3. \E i \in DOMAIN listed : IsBest(i)
  <2> HIDE DEF n, start
  <2> DEFINE order == StableOrder(keys)
  <2>1. keys \in [1 .. n -> Int] /\ \A i \in 1 .. n : keys[i] = start(i)
    BY <1>2
  <2> HIDE DEF keys
  <2>2. /\ order \in [1 .. n -> 1 .. n]
        /\ \A i \in 1 .. n : \E k \in 1 .. n : order[k] = i
        /\ \A j, k \in 1 .. n : j < k => KeyBefore(keys, order[j], order[k])
    BY <1>1, <2>1, StableOrderSorts
  <2> HIDE DEF order
  <2>3. 1 \in 1 .. n /\ order[1] \in 1 .. n
    BY <1>1, <2>2
  <2>4. PICK i \in 1 .. n : i = order[1]
    BY <2>3
  <2>5. ASSUME NEW j \in 1 .. n PROVE start(i) < start(j) \/ (start(i) = start(j) /\ i <= j)
    <3>1. PICK k \in 1 .. n : order[k] = j
      BY <2>2
    <3>2. CASE k = 1
      BY <1>1, <2>1, <2>4, <3>1, <3>2
    <3>3. CASE k # 1
      <4>1. 1 < k
        BY <1>1, <3>3
      <4>2. KeyBefore(keys, i, j)
        BY <2>2, <2>3, <2>4, <3>1, <4>1
      <4>3. keys[i] = start(i) /\ keys[j] = start(j)
        BY <2>1
      <4>4. i \in Int /\ j \in Int /\ start(i) \in Int /\ start(j) \in Int
        BY <1>1, <1>2
      <4> QED
        BY <4>2, <4>3, <4>4 DEF KeyBefore
    <3> QED
      BY <3>2, <3>3
  <2>6. IsBest(i)
    BY <1>1, <2>5
  <2> QED
    BY <1>1, <2>4, <2>6
<1>4. best \in 1 .. n
  <2> HIDE DEF IsBest
  <2>1. best \in DOMAIN listed
    BY <1>3
  <2> QED
    BY <1>1, <2>1
<1>5. at = [lane |-> listed[best], start |-> start(best)]
  BY DEF LanePeek
<1> HIDE DEF best
<1> QED
  BY <1>1, <1>2, <1>4, <1>5

Held(L) == {h \in [lanes : [Indices(L) -> Seq(Windows)], proofs : Seq(Placed)] :
               IsHeld(h, L)}

\* What placing a proof does.
IsPlaced(held, policy, stage, covers, release, duration) ==
    \E p \in Placed :
       /\ p.stage = stage /\ p.covers = covers
       /\ p.start >= release /\ p.end = p.start + duration
       /\ Place(held, policy, stage, covers, release, duration).proofs = Append(held.proofs, p)
       /\ Place(held, policy, stage, covers, release, duration) \in Held(policy.lanes)

\* Place, whole.
LEMMA PlaceKeeps ==
    ASSUME NEW policy, policy.lanes \in Nat \ {0},
           NEW held, IsHeld(held, policy.lanes),
           NEW stage \in Stages, NEW covers \in SUBSET Int,
           NEW release \in Int, NEW duration \in Nat
    PROVE  IsPlaced(held, policy, stage, covers, release, duration)
<1> DEFINE L == policy.lanes
           listed == eligible(policy, stage)
           at == LanePeek(held.lanes, listed, release, duration)
           proof == [stage |-> stage, covers |-> covers, lane |-> at.lane,
                     start |-> at.start, end |-> at.start + duration]
           lanes == LaneCommit(held.lanes, at.lane, at.start, duration)
           after == Place(held, policy, stage, covers, release, duration)
<1>1. L \in Nat /\ listed \in Seq(Indices(L)) /\ listed # <<>>
  BY EligibleIs
<1>2. \A l \in Indices(L) : IsLane(held.lanes[l])
  BY DEF IsHeld
<1>3. after = [lanes |-> lanes, proofs |-> Append(held.proofs, proof)]
  BY DEF Place, PlaceAt
<1> HIDE DEF listed, after
<1>4. /\ at.lane \in Indices(L)
      /\ at.start \in Int /\ at.start >= release
      /\ IsClear(held.lanes[at.lane], at.start, duration)
  <2>1. PICK hl : hl = held.lanes
    OBVIOUS
  <2>2. PICK a : a = LanePeek(hl, listed, release, duration)
    OBVIOUS
  <2>3. /\ a.lane \in Indices(L)
        /\ a.start \in Int /\ a.start >= release
        /\ IsClear(hl[a.lane], a.start, duration)
    BY <1>1, <1>2, <2>1, <2>2, LanePeekIs
  <2> QED
    BY <2>1, <2>2, <2>3
<1>5. PICK a : a = at
  OBVIOUS
<1>6. PICK p : p = proof
  OBVIOUS
<1>7. PICK ln : ln = lanes
  OBVIOUS
<1> HIDE DEF at
<1>8. /\ IsHeld([lanes |-> ln, proofs |-> Append(held.proofs, p)], L)
      /\ p \in Placed
  <2>1. p = [stage |-> stage, covers |-> covers, lane |-> a.lane,
             start |-> a.start, end |-> a.start + duration]
    BY <1>5, <1>6
  <2>2. ln = LaneCommit(held.lanes, a.lane, a.start, duration)
    BY <1>5, <1>7
  <2>3. a.lane \in Indices(L) /\ a.start \in Int
        /\ IsClear(held.lanes[a.lane], a.start, duration)
    BY <1>4, <1>5
  <2>4. L \in Nat /\ IsHeld(held, L)
    BY <1>1
  <2> HIDE DEF lanes, proof, L
  <2> QED
    BY <2>1, <2>2, <2>3, <2>4, PlaceAtKeeps
<1>9. after = [lanes |-> ln, proofs |-> Append(held.proofs, p)]
  BY <1>3, <1>6, <1>7
<1>10. /\ p.stage = stage /\ p.covers = covers
       /\ p.start >= release /\ p.end = p.start + duration
  BY <1>4, <1>6
<1>11. after.proofs = Append(held.proofs, p) /\ IsHeld(after, L)
  BY <1>8, <1>9
<1>12. after \in Held(L)
  <2>1. ln \in [Indices(L) -> Seq(Windows)] /\ Append(held.proofs, p) \in Seq(Placed)
    BY <1>8 DEF IsHeld
  <2> QED
    BY <1>9, <1>11, <2>1 DEF Held
<1> QED
  BY <1>8, <1>10, <1>11, <1>12 DEF after, IsPlaced

-----------------------------------------------------------------------------
(* Units and the groups they are put in.                                   *)

\* A unit has a slot and names finitely many, and there is one.
IsUnits(units) ==
    /\ Len(units) \in Nat \ {0}
    /\ DOMAIN units = 1 .. Len(units)
    /\ \A i \in 1 .. Len(units) : /\ units[i].slot \in Int
                                  /\ IsFiniteSet(units[i].named)
                                  /\ IsFiniteSet(units[i].secondary)

IsGroups(groups, n) ==
    /\ groups \in Seq(SUBSET (1 .. n))
    /\ \A g \in 1 .. Len(groups) : groups[g] # {}

LEMMA ArrivalType ==
    ASSUME NEW units, IsUnits(units), NEW i \in 1 .. Len(units)
    PROVE  arrival(units, i) \in Int
<1>1. units[i].slot \in Int /\ units[1].slot \in Int
  BY DEF IsUnits
<1>2. PICK d \in Int : d = units[i].slot - units[1].slot
  BY <1>1
<1>3. PICK t \in Nat : t = SecondsPerSlot
  BY PricesAre
<1>4. d * t \in Int
  OBVIOUS
<1> QED
  BY <1>2, <1>3, <1>4 DEF arrival

LEMMA LastOfIs ==
    ASSUME NEW n \in Nat, NEW members \in SUBSET (1 .. n), members # {}
    PROVE  LastOf(members) \in members /\ \A j \in members : j <= LastOf(members)
<1>1. IsFiniteSet(members)
  <2>1. IsFiniteSet(1 .. n)
    BY FS_Interval
  <2> QED
    BY <2>1, FS_Subset
<1>2. Max(members) \in members /\ \A j \in members : j <= Max(members)
  BY <1>1, FiniteMax
<1> QED
  BY <1>2 DEF LastOf

LEMMA UnitSumsType ==
    ASSUME NEW units, IsUnits(units), NEW members \in SUBSET (1 .. Len(units))
    PROVE  /\ NamedBy(units, members) \in Nat
           /\ MessagesOf(units, members) \in Nat
           /\ Cardinality(members) \in Nat
           /\ IsFiniteSet(members)
<1>1. IsFiniteSet(members) /\ Cardinality(members) \in Nat
  <2>1. Len(units) \in Int
    BY DEF IsUnits
  <2>2. IsFiniteSet(1 .. Len(units))
    BY <2>1, FS_Interval
  <2> QED
    BY <2>2, FS_Subset, FS_CardinalityType
<1> DEFINE named == [i \in members |-> Cardinality(units[i].named)]
           messages == [i \in members |-> 1 + Cardinality(units[i].secondary)]
<1>2. \A i \in members : named[i] \in Nat /\ messages[i] \in Nat
  <2> SUFFICES ASSUME NEW i \in members PROVE named[i] \in Nat /\ messages[i] \in Nat
    OBVIOUS
  <2>1. IsFiniteSet(units[i].named) /\ IsFiniteSet(units[i].secondary)
    BY DEF IsUnits
  <2>2. Cardinality(units[i].named) \in Nat /\ Cardinality(units[i].secondary) \in Nat
    BY <2>1, FS_CardinalityType
  <2> QED
    BY <2>2
<1>3. DOMAIN named = members /\ DOMAIN messages = members
  OBVIOUS
<1>4. NamedBy(units, members) = SumOf(named) /\ MessagesOf(units, members) = SumOf(messages)
  BY DEF NamedBy, MessagesOf
<1> HIDE DEF named, messages
<1>5. SumOf(named) \in Nat
  BY <1>1, <1>2, <1>3, SumOfNaturals
<1>6. SumOf(messages) \in Nat
  BY <1>1, <1>2, <1>3, SumOfNaturals
<1> QED
  BY <1>1, <1>4, <1>5, <1>6

LEMMA GroupCostType ==
    ASSUME NEW units, IsUnits(units), NEW members \in SUBSET (1 .. Len(units))
    PROVE  GroupCost(units, members) \in Nat
  BY UnitSumsType, GroupPriceType DEF GroupCost

LEMMA FinalCostType ==
    ASSUME NEW units, IsUnits(units), NEW tail \in SUBSET (1 .. Len(units)),
           NEW absorbed \in Nat, NEW folded \in BOOLEAN
    PROVE  final_s(NamedBy(units, tail), Cardinality(tail), MessagesOf(units, tail),
                   absorbed, folded) \in Nat
  BY UnitSumsType, FinalPriceType

-----------------------------------------------------------------------------
(* The groups are placed first, each once its last unit is there.          *)

AreGroups(proofs, units, groups, k) ==
    /\ Len(proofs) >= k
    /\ \A g \in 1 .. k : /\ proofs[g].stage = "group" /\ proofs[g].covers = {g}
                         /\ proofs[g].start >= arrival(units, LastOf(groups[g]))

NoneHeld(L) == [lanes |-> [l \in Indices(L) |-> <<>>], proofs |-> <<>>]

LEMMA NoneHeldIs == \A L \in Nat : NoneHeld(L) \in Held(L) /\ Len(NoneHeld(L).proofs) = 0
<1> SUFFICES ASSUME NEW L \in Nat PROVE NoneHeld(L) \in Held(L) /\ Len(NoneHeld(L).proofs) = 0
  OBVIOUS
<1> DEFINE h == NoneHeld(L)
<1>1. h = [lanes |-> [l \in Indices(L) |-> <<>>], proofs |-> <<>>]
  BY DEF NoneHeld
<1>2. h.lanes = [l \in Indices(L) |-> <<>>] /\ h.proofs = <<>>
  BY <1>1
<1>3. IsLane(<<>>) /\ <<>> \in Seq(Windows) /\ <<>> \in Seq(Placed) /\ Len(<<>>) = 0
  BY DEF IsLane
<1> HIDE DEF h
<1>4. IsHeld(h, L)
  <2>1. AreProofs(h.lanes, h.proofs, L)
    BY <1>2, <1>3 DEF AreProofs, Has
  <2> QED
    BY <1>2, <1>3, <2>1 DEF IsHeld
<1>5. h \in [lanes : [Indices(L) -> Seq(Windows)], proofs : Seq(Placed)]
  BY <1>1, <1>3
<1> QED
  BY <1>2, <1>3, <1>4, <1>5 DEF Held, h

LEMMA HeldIs ==
    ASSUME NEW L, NEW h \in Held(L)
    PROVE  /\ IsHeld(h, L)
           /\ h.lanes \in [Indices(L) -> Seq(Windows)]
           /\ h.proofs \in Seq(Placed) /\ Len(h.proofs) \in Nat
  BY DEF Held

\* Placing one group more.
LEMMA GroupIsPlaced ==
    ASSUME NEW units, IsUnits(units), NEW groups, IsGroups(groups, Len(units)),
           NEW policy, policy.lanes \in Nat \ {0},
           NEW held \in Held(policy.lanes), NEW g \in 1 .. Len(groups)
    PROVE  \E p \in Placed :
              /\ p.stage = "group" /\ p.covers = {g}
              /\ p.start >= arrival(units, LastOf(groups[g]))
              /\ Place(held, policy, "group", {g}, arrival(units, LastOf(groups[g])),
                       GroupCost(units, groups[g])).proofs = Append(held.proofs, p)
              /\ Place(held, policy, "group", {g}, arrival(units, LastOf(groups[g])),
                       GroupCost(units, groups[g])) \in Held(policy.lanes)
<1>1. groups[g] \in SUBSET (1 .. Len(units)) /\ groups[g] # {} /\ Len(units) \in Nat
  BY DEF IsGroups, IsUnits
<1>2. LastOf(groups[g]) \in 1 .. Len(units)
  BY <1>1, LastOfIs
<1>3. arrival(units, LastOf(groups[g])) \in Int
  BY <1>2, ArrivalType
<1>4. GroupCost(units, groups[g]) \in Nat
  BY <1>1, GroupCostType
<1>5. "group" \in Stages /\ IsHeld(held, policy.lanes)
  BY HeldIs DEF Stages
<1>8. PICK covers \in SUBSET Int : covers = {g}
  <2>1. g \in Int
    BY DEF IsGroups
  <2> QED
    BY <2>1
<1>6. PICK release \in Int, duration \in Nat :
          release = arrival(units, LastOf(groups[g])) /\ duration = GroupCost(units, groups[g])
  BY <1>3, <1>4
<1>7. IsPlaced(held, policy, "group", covers, release, duration)
  BY <1>5, PlaceKeeps
<1> QED
  BY <1>6, <1>7, <1>8 DEF IsPlaced

LEMMA PlaceGroupsKeeps ==
    ASSUME NEW units, IsUnits(units), NEW groups, IsGroups(groups, Len(units)),
           NEW policy, policy.lanes \in Nat \ {0},
           NEW placed, placed = PlaceGroups(units, groups, policy)
    PROVE  /\ placed \in Held(policy.lanes)
           /\ Len(placed.proofs) = Len(groups)
           /\ AreGroups(placed.proofs, units, groups, Len(groups))
<1> DEFINE n == Len(groups)
           V == Held(policy.lanes)
           none == NoneHeld(policy.lanes)
           each == [g \in DOMAIN groups |-> g]
           next(held, g) == Place(held, policy, "group", {g}, arrival(units, LastOf(groups[g])),
                                  GroupCost(units, groups[g]))
           op == [p \in V \X (1 .. n) |-> next(p[1], p[2])]
           Unfolds(f) == f = [s \in SUBSET (1 .. n) |->
                                IF s = {} THEN none ELSE next(f[s \ {Max(s)}], each[Max(s)])]
           fold == CHOOSE f : Unfolds(f)
<1>1. n \in Nat /\ DOMAIN groups = 1 .. n /\ DOMAIN each = 1 .. n
  BY DEF IsGroups
<1>2. none \in V /\ Len(none.proofs) = 0
  BY NoneHeldIs
<1>3. IsTable(op, V, n)
  <2>1. ASSUME NEW held \in V, NEW g \in 1 .. n PROVE next(held, g) \in V
    BY GroupIsPlaced
  <2> HIDE DEF next, V, n
  <2> QED
    BY <2>1 DEF IsTable
<1>4. PICK h, r : IsFoldOf(h, op, none, V, n) /\ IsRunOf(r, op, none, V, n)
                  /\ r[n] = h[1 .. n]
  <2> HIDE DEF n, op, V, none
  <2> QED
    BY <1>1, <1>2, <1>3, FoldRuns
<1>5. h \in [SUBSET (1 .. n) -> V]
      /\ h = [s \in SUBSET (1 .. n) |->
                IF s = {} THEN none ELSE op[<<h[s \ {Max(s)}], Max(s)>>]]
  BY <1>4 DEF IsFoldOf
<1>6. \A s \in SUBSET (1 .. n) : s # {} =>
         op[<<h[s \ {Max(s)}], Max(s)>>] = next(h[s \ {Max(s)}], each[Max(s)])
  <2> SUFFICES ASSUME NEW s \in SUBSET (1 .. n), s # {}
               PROVE  op[<<h[s \ {Max(s)}], Max(s)>>] = next(h[s \ {Max(s)}], each[Max(s)])
    OBVIOUS
  <2>1. Max(s) \in 1 .. n /\ s \ {Max(s)} \in SUBSET (1 .. n)
    BY <1>1, MaxOfFirst
  <2>2. each[Max(s)] = Max(s)
    BY <1>1, <2>1
  <2> HIDE DEF next, V, n
  <2>3. h[s \ {Max(s)}] \in V
    BY <1>5, <2>1
  <2>4. <<h[s \ {Max(s)}], Max(s)>> \in V \X (1 .. n)
    BY <2>1, <2>3
  <2>5. op[<<h[s \ {Max(s)}], Max(s)>>] = next(h[s \ {Max(s)}], Max(s))
    BY <2>4
  <2> QED
    BY <2>2, <2>5
<1>7. Unfolds(h)
  <2> HIDE DEF next, op, n, none, each
  <2>1. [s \in SUBSET (1 .. n) |->
           IF s = {} THEN none ELSE op[<<h[s \ {Max(s)}], Max(s)>>]]
        = [s \in SUBSET (1 .. n) |->
             IF s = {} THEN none ELSE next(h[s \ {Max(s)}], each[Max(s)])]
    BY <1>6
  <2> QED
    BY <1>5, <2>1
<1>8. Unfolds(fold)
  <2> HIDE DEF Unfolds
  <2> QED
    BY <1>7
<1>9. placed = fold[1 .. n]
  BY <1>1, SMT DEF PlaceGroups, FoldLeft, MapThenFoldSet, NoneHeld
<1> HIDE DEF fold
<1>10. fold[1 .. n] = r[n]
  <2> HIDE DEF next, op, n, none, each
  <2>1. \A s \in SUBSET (1 .. n) :
           fold[s] = IF s = {} THEN none ELSE next(fold[s \ {Max(s)}], each[Max(s)])
    BY <1>8
  <2>2. \A s \in SUBSET (1 .. n) :
           h[s] = IF s = {} THEN none ELSE next(h[s \ {Max(s)}], each[Max(s)])
    BY <1>7
  <2>3. fold[{}] = h[{}]
    BY <2>1, <2>2
  <2>4. StepsAgree(fold, h, n)
    BY <2>1, <2>2, <2>3 DEF StepsAgree
  <2>5. fold[1 .. n] = h[1 .. n]
    BY <1>1, <2>4, FoldAgrees
  <2> QED
    BY <1>4, <2>5
<1>11. r \in [0 .. n -> V] /\ r[0] = none /\ \A k \in 1 .. n : r[k] = next(r[k - 1], k)
  <2>1. r \in [0 .. n -> V] /\ r[0] = none
        /\ \A k \in 1 .. n : r[k] = op[<<r[k - 1], k>>]
    BY <1>4 DEF IsRunOf
  <2>2. ASSUME NEW k \in 1 .. n PROVE op[<<r[k - 1], k>>] = next(r[k - 1], k)
    <3>1. k - 1 \in 0 .. n
      BY <1>1
    <3> HIDE DEF next, V, n
    <3>2. r[k - 1] \in V
      BY <2>1, <3>1
    <3>3. <<r[k - 1], k>> \in V \X (1 .. n)
      BY <3>2
    <3> QED
      BY <3>3
  <2> HIDE DEF op, next
  <2> QED
    BY <2>1, <2>2
<1> DEFINE good == [k \in 0 .. n |->
                      {x \in V : Len(x.proofs) = k /\ AreGroups(x.proofs, units, groups, k)}]
<1>12. r[0] \in good[0]
  <2>1. AreGroups(none.proofs, units, groups, 0)
    BY <1>2 DEF AreGroups
  <2>2. 0 \in 0 .. n
    BY <1>1
  <2> HIDE DEF none, V
  <2> QED
    BY <1>2, <1>11, <2>1, <2>2
<1>13. ASSUME NEW k \in 1 .. n, r[k - 1] \in good[k - 1] PROVE r[k] \in good[k]
  <2>1. k \in 0 .. n /\ k - 1 \in 0 .. n /\ k \in Int
    BY <1>1
  <2>2. PICK x : x = r[k - 1]
    OBVIOUS
  <2>3. x \in V /\ Len(x.proofs) = k - 1 /\ AreGroups(x.proofs, units, groups, k - 1)
    BY <1>13, <2>1, <2>2
  <2>4. PICK y : y = next(x, k)
    OBVIOUS
  <2>5. PICK p \in Placed : /\ p.stage = "group" /\ p.covers = {k}
                            /\ p.start >= arrival(units, LastOf(groups[k]))
                            /\ y.proofs = Append(x.proofs, p) /\ y \in V
    <3>1. \E p \in Placed :
             /\ p.stage = "group" /\ p.covers = {k}
             /\ p.start >= arrival(units, LastOf(groups[k]))
             /\ next(x, k).proofs = Append(x.proofs, p) /\ next(x, k) \in V
      BY <2>3, GroupIsPlaced
    <3> HIDE DEF next, V
    <3> QED
      BY <2>4, <3>1
  <2>6. x.proofs \in Seq(Placed)
    BY <2>3, HeldIs
  <2>7. /\ Len(y.proofs) = k
        /\ \A g \in 1 .. k - 1 : y.proofs[g] = x.proofs[g]
        /\ y.proofs[k] = p
    BY <2>1, <2>3, <2>5, <2>6, AppendIs
  <2>8. ASSUME NEW g \in 1 .. k
        PROVE  y.proofs[g].stage = "group" /\ y.proofs[g].covers = {g}
               /\ y.proofs[g].start >= arrival(units, LastOf(groups[g]))
    <3>1. CASE g = k
      BY <2>5, <2>7, <3>1
    <3>2. CASE g # k
      <4>1. g \in 1 .. k - 1
        BY <2>1, <3>2
      <4>2. y.proofs[g] = x.proofs[g]
        BY <2>7, <4>1
      <4> QED
        BY <2>3, <4>1, <4>2 DEF AreGroups
    <3> QED
      BY <3>1, <3>2
  <2>9. AreGroups(y.proofs, units, groups, k)
    BY <2>1, <2>7, <2>8 DEF AreGroups
  <2>10. r[k] = y
    BY <1>11, <2>2, <2>4
  <2> HIDE DEF V, n, next
  <2> QED
    BY <2>1, <2>5, <2>7, <2>9, <2>10
<1>14. r[n] \in good[n] /\ n \in 0 .. n
  <2> HIDE DEF good, n
  <2>1. \A k \in 0 .. n : r[k] \in good[k]
    BY <1>1, <1>12, <1>13, Along
  <2> QED
    BY <1>1, <2>1
<1>15. placed = r[n]
  BY <1>9, <1>10
<1> HIDE DEF V, n
<1>16. r[n] \in V /\ Len(r[n].proofs) = n /\ AreGroups(r[n].proofs, units, groups, n)
  BY <1>14
<1> QED
  BY <1>15, <1>16 DEF n, V

-----------------------------------------------------------------------------
(* Folds take the finished groups in order of their ends.                  *)

\* No two positions hold the same.
OneEach(order, n) == \A j, k \in 1 .. n : order[j] = order[k] => j = k

\* Every number has its position.
HoldsAll(order, n) == \A g \in 1 .. n : \E k \in 1 .. n : order[k] = g

Stretch(order, a, b) == {order[i] : i \in a .. b}

\* A stretch of such a list holds as many as there are positions.
LEMMA StretchSize ==
    ASSUME NEW n \in Nat, NEW S, NEW order \in [1 .. n -> S], OneEach(order, n),
           NEW a \in 1 .. n + 1, NEW b \in 0 .. n, a <= b + 1
    PROVE  /\ IsFiniteSet(Stretch(order, a, b))
           /\ Cardinality(Stretch(order, a, b)) = (b - a) + 1
<1> DEFINE T == {order[i] : i \in a .. b}
           f == [i \in a .. b |-> order[i]]
<1>1. IsFiniteSet(a .. b) /\ Cardinality(a .. b) = (b - a) + 1
  <2>1. a \in Int /\ b \in Int
    OBVIOUS
  <2>2. IsFiniteSet(a .. b) /\ Cardinality(a .. b) = IF a <= b THEN (b - a) + 1 ELSE 0
    BY <2>1, FS_Interval
  <2> QED
    BY <2>1, <2>2
<1>2. \A i \in a .. b : i \in 1 .. n
  OBVIOUS
<1>3. f \in [a .. b -> T] /\ \A t \in T : \E i \in a .. b : f[i] = t
  OBVIOUS
<1>4. \A i, j \in a .. b : f[i] = f[j] => i = j
  BY <1>2 DEF OneEach
<1> HIDE DEF f, T
<1>5. f \in Bijection(a .. b, T)
  BY <1>3, <1>4, Fun_IsBij
<1>6. ExistsBijection(a .. b, T)
  BY <1>5 DEF ExistsBijection
<1> QED
  BY <1>1, <1>6, FS_Bijection DEF T, Stretch

\* The groups in the order they end in.
IsEndOrder(order, first) ==
    LET n == Len(first)
    IN /\ order \in [1 .. n -> 1 .. n]
       /\ Len(order) = n
       /\ HoldsAll(order, n)
       /\ OneEach(order, n)
       /\ \A j, k \in 1 .. n : j <= k => first[order[j]].end <= first[order[k]].end

\* The first proofs are still the groups'.
Keeps(proofs, first) ==
    /\ Len(proofs) >= Len(first)
    /\ \A g \in 1 .. Len(first) : proofs[g] = first[g]

\* A fold starts after its groups and after the fold before it.
AreFolds(proofs, first, folds) ==
    /\ Len(proofs) >= Len(first) + Len(folds)
    /\ \A k \in 1 .. Len(folds) :
          /\ proofs[Len(first) + k].stage = "fold"
          /\ proofs[Len(first) + k].covers = folds[k]
          /\ \A g \in folds[k] : proofs[Len(first) + k].start >= first[g].end
          /\ k > 1 => proofs[Len(first) + k].start >= proofs[Len(first) + (k - 1)].end

\* The folds take what comes before the cursor, each group once.
TakesBefore(folds, order, cursor, n) ==
    /\ \A k \in 1 .. Len(folds) : folds[k] # {}
    /\ \A i \in 1 .. n : i < cursor <=> \E k \in 1 .. Len(folds) : order[i] \in folds[k]
    /\ \A g \in 1 .. n : \A j, k \in 1 .. Len(folds) :
          g \in folds[j] /\ g \in folds[k] => j = k

\* The folds end by a time.
EndedBy(proofs, first, folds, time) ==
    \A k \in 1 .. Len(folds) : proofs[Len(first) + k].end <= time

IsFolding(h, first, order, L) ==
    /\ IsHeld(h, L)
    /\ h.order = order
    /\ h.folds \in Seq(SUBSET (1 .. Len(first)))
    /\ h.cursor \in 1 .. Len(first) + 1
    /\ h.chainFree \in Int
    /\ Len(h.proofs) = Len(first) + Len(h.folds)
    /\ Keeps(h.proofs, first)
    /\ AreFolds(h.proofs, first, h.folds)
    /\ TakesBefore(h.folds, order, h.cursor, Len(first))
    /\ EndedBy(h.proofs, first, h.folds, h.chainFree)

Folding(L, first, order) ==
    {h \in [lanes : [Indices(L) -> Seq(Windows)], proofs : Seq(Placed), cursor : Nat,
            chainFree : Int, late : BOOLEAN, folds : Seq(SUBSET (1 .. Len(first))),
            order : {order}] :
        IsFolding(h, first, order, L)}

\* What a fold takes is a stretch of the order that starts at the cursor.
LEMMA FoldTakesStretch ==
    ASSUME NEW first \in Seq(Placed), NEW order, IsEndOrder(order, first),
           NEW cursor \in 1 .. Len(first), NEW ready \in Int,
           first[order[cursor]].end <= ready
    PROVE  \E m \in cursor .. Len(first) :
              /\ {k \in cursor .. Len(first) : first[order[k]].end <= ready} = cursor .. m
              /\ Cardinality(Stretch(order, cursor, m)) = (m - cursor) + 1
<1> DEFINE n == Len(first)
           K == {k \in cursor .. n : first[order[k]].end <= ready}
<1>1. n \in Nat /\ \A k \in 1 .. n : order[k] \in 1 .. n /\ first[order[k]].end \in Int
  <2>1. n \in Nat /\ \A g \in 1 .. n : first[g].end \in Int
    BY DEF Placed
  <2> QED
    BY <2>1 DEF IsEndOrder
<1>2. IsFiniteSet(K) /\ K # {} /\ K \in SUBSET Int
  <2>1. IsFiniteSet(cursor .. n)
    BY <1>1, FS_Interval
  <2>2. cursor \in K
    BY <1>1
  <2> QED
    BY <2>1, <2>2, FS_Subset
<1>3. PICK m \in K : \A k \in K : k <= m
  <2> HIDE DEF K
  <2> QED
    BY <1>2, FiniteMax
<1>4. K = cursor .. m
  <2>1. ASSUME NEW k \in cursor .. m PROVE k \in K
    <3>1. k \in 1 .. n /\ m \in 1 .. n /\ k <= m /\ k \in cursor .. n
      BY <1>1, <1>3
    <3>2. first[order[k]].end <= first[order[m]].end /\ first[order[m]].end <= ready
      BY <1>3, <3>1 DEF IsEndOrder
    <3> QED
      BY <1>1, <3>1, <3>2
  <2>2. ASSUME NEW k \in K PROVE k \in cursor .. m
    BY <1>3
  <2> QED
    BY <2>1, <2>2
<1>5. m \in 0 .. n /\ cursor \in 1 .. n + 1 /\ cursor <= m + 1 /\ m \in cursor .. n
  BY <1>1, <1>3
<1>6. order \in [1 .. n -> 1 .. n] /\ OneEach(order, n)
  BY DEF IsEndOrder
<1>7. Cardinality(Stretch(order, cursor, m)) = (m - cursor) + 1
  <2> HIDE DEF K, n
  <2>1. PICK S : S = 1 .. n
    OBVIOUS
  <2>2. order \in [1 .. n -> S]
    BY <1>6, <2>1
  <2> QED
    BY <1>1, <1>5, <1>6, <2>2, StretchSize
<1> QED
  BY <1>4, <1>5, <1>7

\* Taking one stretch more.
LEMMA TakesMore ==
    ASSUME NEW n \in Nat, NEW order \in [1 .. n -> 1 .. n], OneEach(order, n),
           HoldsAll(order, n),
           NEW folds \in Seq(SUBSET (1 .. n)), NEW cursor \in 1 .. n, NEW m \in cursor .. n,
           TakesBefore(folds, order, cursor, n)
    PROVE  TakesBefore(Append(folds, Stretch(order, cursor, m)), order, m + 1, n)
<1> DEFINE c == Len(folds)
           covers == Stretch(order, cursor, m)
           after == Append(folds, covers)
<1>1. covers \in SUBSET (1 .. n)
  <2>1. ASSUME NEW i \in cursor .. m PROVE order[i] \in 1 .. n
    <3>1. i \in 1 .. n
      OBVIOUS
    <3> QED
      BY <3>1
  <2> QED
    BY <2>1 DEF Stretch
<1>2. /\ c \in Nat /\ Len(after) = c + 1
      /\ \A k \in 1 .. c : after[k] = folds[k]
      /\ after[c + 1] = covers
  <2> HIDE DEF covers
  <2> QED
    BY <1>1
<1>3. \A i \in 1 .. n : order[i] \in covers <=> i \in cursor .. m
  <2> SUFFICES ASSUME NEW i \in 1 .. n PROVE order[i] \in covers <=> i \in cursor .. m
    OBVIOUS
  <2>1. ASSUME order[i] \in covers PROVE i \in cursor .. m
    <3>1. PICK j \in cursor .. m : order[j] = order[i]
      BY <2>1 DEF Stretch
    <3>2. j \in 1 .. n
      OBVIOUS
    <3>3. j = i
      BY <3>1, <3>2 DEF OneEach
    <3> QED
      BY <3>3
  <2> QED
    BY <2>1 DEF Stretch
<1> HIDE DEF covers, after
<1>4. ASSUME NEW i \in 1 .. n
      PROVE  i < m + 1 <=> \E k \in 1 .. c + 1 : order[i] \in after[k]
  <2>1. i < cursor <=> \E k \in 1 .. c : order[i] \in folds[k]
    BY DEF TakesBefore
  <2>2. (\E k \in 1 .. c + 1 : order[i] \in after[k])
        <=> (\E k \in 1 .. c : order[i] \in folds[k]) \/ order[i] \in covers
    <3>1. ASSUME NEW k \in 1 .. c + 1, order[i] \in after[k]
          PROVE  (\E j \in 1 .. c : order[i] \in folds[j]) \/ order[i] \in covers
      <4>1. c \in Nat
        BY <1>2
      <4>2. k \in 1 .. c \/ k = c + 1
        BY <4>1
      <4> QED
        BY <1>2, <3>1, <4>2
    <3>2. \A k \in 1 .. c : k \in 1 .. c + 1
      BY <1>2
    <3>3. c + 1 \in 1 .. c + 1
      BY <1>2
    <3> QED
      BY <1>2, <3>1, <3>2, <3>3
  <2>3. i < m + 1 <=> i < cursor \/ i \in cursor .. m
    <3>1. i \in Int /\ m \in Int /\ cursor \in Int /\ cursor <= m
      OBVIOUS
    <3> QED
      BY <3>1
  <2> QED
    BY <1>3, <2>1, <2>2, <2>3
<1>5. ASSUME NEW g \in 1 .. n, NEW j \in 1 .. c + 1, NEW k \in 1 .. c + 1,
             g \in after[j], g \in after[k]
      PROVE  j = k
  <2>1. PICK i \in 1 .. n : order[i] = g
    BY DEF HoldsAll
  <2>2. (j \in 1 .. c \/ j = c + 1) /\ (k \in 1 .. c \/ k = c + 1)
    <3>1. c \in Nat
      BY <1>2
    <3> QED
      BY <3>1
  <2>3. ASSUME NEW l \in 1 .. c, g \in after[l] PROVE g \notin covers
    <3>1. i < cursor
      BY <1>2, <2>1, <2>3 DEF TakesBefore
    <3> QED
      BY <1>3, <2>1, <3>1
  <2>4. CASE j \in 1 .. c /\ k \in 1 .. c
    <3>1. g \in folds[j] /\ g \in folds[k]
      BY <1>2, <1>5, <2>4
    <3> QED
      BY <2>4, <3>1 DEF TakesBefore
  <2> QED
    BY <1>2, <1>5, <2>2, <2>3, <2>4
<1>6. ASSUME NEW k \in 1 .. c + 1 PROVE after[k] # {}
  <2>1. order[cursor] \in covers
    <3>1. cursor \in cursor .. m
      OBVIOUS
    <3> QED
      BY <1>3, <3>1
  <2>2. CASE k \in 1 .. c
    <3>1. after[k] = folds[k] /\ folds[k] # {}
      BY <1>2, <2>2 DEF TakesBefore
    <3> QED
      BY <3>1
  <2>3. CASE k = c + 1
    BY <1>2, <2>1, <2>3
  <2>4. k \in 1 .. c \/ k = c + 1
    <3>1. c \in Nat
      BY <1>2
    <3> QED
      BY <3>1
  <2> QED
    BY <2>2, <2>3, <2>4
<1> QED
  BY <1>2, <1>4, <1>5, <1>6 DEF TakesBefore, after, covers

EndBy(first, covers, time) == \A g \in covers : first[g].end <= time

ChainEndsBy(proofs, first, folds, time) ==
    folds # <<>> => proofs[Len(first) + Len(folds)].end <= time

HasFolded(proofs, first, folds, p) ==
    /\ Len(proofs) = Len(first) + Len(folds)
    /\ Keeps(proofs, first)
    /\ AreFolds(proofs, first, folds)
    /\ proofs[Len(first) + Len(folds)] = p

\* Placing one fold more.
LEMMA FoldsMore ==
    ASSUME NEW first \in Seq(Placed), NEW proofs \in Seq(Placed),
           NEW folds \in Seq(SUBSET (1 .. Len(first))),
           Len(proofs) = Len(first) + Len(folds),
           Keeps(proofs, first), AreFolds(proofs, first, folds),
           NEW covers \in SUBSET (1 .. Len(first)), NEW ready \in Int,
           EndBy(first, covers, ready), ChainEndsBy(proofs, first, folds, ready),
           NEW p \in Placed, p.stage = "fold", p.covers = covers, p.start >= ready
    PROVE  HasFolded(Append(proofs, p), first, Append(folds, covers), p)
<1> DEFINE n == Len(first)
           c == Len(folds)
           after == Append(proofs, p)
           taken == Append(folds, covers)
<1>1. n \in Nat /\ c \in Nat
  OBVIOUS
<1>2. /\ Len(after) = n + c + 1
      /\ \A i \in 1 .. n + c : after[i] = proofs[i]
      /\ after[n + (c + 1)] = p
  <2>1. /\ Len(after) = Len(proofs) + 1
        /\ \A i \in 1 .. Len(proofs) : after[i] = proofs[i]
        /\ after[Len(proofs) + 1] = p
    OBVIOUS
  <2> HIDE DEF after
  <2> QED
    BY <1>1, <2>1
<1>3. /\ Len(taken) = c + 1
      /\ \A k \in 1 .. c : taken[k] = folds[k]
      /\ taken[c + 1] = covers
  BY AppendIs
<1> HIDE DEF after, taken
<1>4. \A g \in 1 .. n : after[g] = first[g]
  BY <1>1, <1>2 DEF Keeps
<1>5. ASSUME NEW k \in 1 .. c + 1
      PROVE  /\ after[n + k].stage = "fold" /\ after[n + k].covers = taken[k]
             /\ \A g \in taken[k] : after[n + k].start >= first[g].end
             /\ k > 1 => after[n + k].start >= after[n + (k - 1)].end
  <2>1. CASE k \in 1 .. c
    <3>1. n + k \in 1 .. n + c /\ (k > 1 => n + (k - 1) \in 1 .. n + c)
      BY <1>1, <2>1
    <3>2. after[n + k] = proofs[n + k] /\ (k > 1 => after[n + (k - 1)] = proofs[n + (k - 1)])
      BY <1>2, <3>1
    <3>3. taken[k] = folds[k]
      BY <1>3, <2>1
    <3>4. /\ proofs[n + k].stage = "fold" /\ proofs[n + k].covers = folds[k]
          /\ \A g \in folds[k] : proofs[n + k].start >= first[g].end
          /\ k > 1 => proofs[n + k].start >= proofs[n + (k - 1)].end
      BY <2>1 DEF AreFolds
    <3> QED
      BY <3>2, <3>3, <3>4
  <2>2. CASE k = c + 1
    <3>1. after[n + k] = p /\ taken[k] = covers
      BY <1>2, <1>3, <2>2
    <3>2. p.start \in Int /\ p.stage = "fold"
      BY DEF Placed
    <3>3. ASSUME NEW g \in covers PROVE p.start >= first[g].end
      <4>1. g \in 1 .. n
        OBVIOUS
      <4>2. first[g] \in Placed /\ first[g].end <= ready
        BY <4>1 DEF EndBy
      <4>3. first[g].end \in Int
        BY <4>2 DEF Placed
      <4> QED
        BY <3>2, <4>2, <4>3
    <3>4. ASSUME k > 1 PROVE p.start >= after[n + (k - 1)].end
      <4>1. c \in 1 .. c /\ n + c \in 1 .. n + c /\ n + (k - 1) = n + c /\ folds # <<>>
        BY <1>1, <2>2, <3>4
      <4>2. after[n + (k - 1)] = proofs[n + c]
        BY <1>2, <4>1
      <4>3. n + c \in 1 .. Len(proofs)
        BY <4>1
      <4>4. proofs[n + c].end \in Int /\ proofs[n + c].end <= ready
        BY <4>1, <4>3 DEF Placed, ChainEndsBy
      <4> QED
        BY <3>2, <4>2, <4>4
    <3> QED
      BY <3>1, <3>2, <3>3, <3>4
  <2> QED
    BY <1>1, <2>1, <2>2
<1>6. Keeps(after, first)
  BY <1>1, <1>2, <1>4 DEF Keeps
<1>7. AreFolds(after, first, taken)
  BY <1>1, <1>2, <1>3, <1>5 DEF AreFolds
<1>8. Len(after) = n + Len(taken) /\ after[n + Len(taken)] = p
  BY <1>1, <1>2, <1>3
<1> QED
  BY <1>6, <1>7, <1>8 DEF after, taken, HasFolded

LEMMA EndedMore ==
    ASSUME NEW first \in Seq(Placed), NEW proofs \in Seq(Placed),
           NEW folds \in Seq(SUBSET (1 .. Len(first))),
           Len(proofs) = Len(first) + Len(folds),
           NEW time \in Int, EndedBy(proofs, first, folds, time),
           NEW covers \in SUBSET (1 .. Len(first)),
           NEW p \in Placed, p.start >= time
    PROVE  EndedBy(Append(proofs, p), first, Append(folds, covers), p.end)
<1> DEFINE n == Len(first)
           c == Len(folds)
           after == Append(proofs, p)
           taken == Append(folds, covers)
<1>1. n \in Nat /\ c \in Nat /\ Len(taken) = c + 1
  OBVIOUS
<1>2. p.start \in Int /\ p.end \in Int /\ p.start <= p.end
  BY DEF Placed
<1>3. ASSUME NEW k \in 1 .. c + 1 PROVE after[n + k].end <= p.end
  <2>1. CASE k \in 1 .. c
    <3>1. n + k \in 1 .. Len(proofs)
      BY <1>1, <2>1
    <3>2. after[n + k] = proofs[n + k] /\ proofs[n + k] \in Placed
      BY <3>1
    <3>3. proofs[n + k].end \in Int /\ proofs[n + k].end <= time
      BY <2>1, <3>2 DEF Placed, EndedBy
    <3> QED
      BY <1>2, <3>2, <3>3
  <2>2. CASE k = c + 1
    <3>1. n + k = Len(proofs) + 1
      BY <1>1, <2>2
    <3>2. after[Len(proofs) + 1] = p
      OBVIOUS
    <3> QED
      BY <1>2, <3>1, <3>2
  <2> QED
    BY <1>1, <2>1, <2>2
<1> QED
  BY <1>1, <1>3 DEF EndedBy

\* The lanes and proofs of what is held, without the rest.
Bare(h) == [lanes |-> h.lanes, proofs |-> h.proofs]

LEMMA BareIs ==
    ASSUME NEW L, NEW h, IsHeld(h, L)
    PROVE  Bare(h) \in Held(L) /\ Bare(h).proofs = h.proofs /\ Bare(h).lanes = h.lanes
<1>1. Bare(h).proofs = h.proofs /\ Bare(h).lanes = h.lanes
  BY DEF Bare
<1>2. IsHeld(Bare(h), L)
  BY <1>1 DEF IsHeld
<1>3. h.lanes \in [Indices(L) -> Seq(Windows)] /\ h.proofs \in Seq(Placed)
  BY DEF IsHeld
<1>4. Bare(h) \in [lanes : [Indices(L) -> Seq(Windows)], proofs : Seq(Placed)]
  BY <1>3 DEF Bare
<1> QED
  BY <1>1, <1>2, <1>4 DEF Held

\* The last of the proofs is the one just placed.
LEMMA EndOfPlaced ==
    ASSUME NEW L, NEW h \in Held(L), NEW placed, NEW p \in Placed,
           placed.proofs = Append(h.proofs, p)
    PROVE  EndOf(placed) = p.end /\ Last(placed.proofs) = p /\ p.end \in Int
<1>1. h.proofs \in Seq(Placed)
  BY HeldIs
<1>2. Len(placed.proofs) = Len(h.proofs) + 1 /\ placed.proofs[Len(h.proofs) + 1] = p
  BY <1>1
<1>3. Last(placed.proofs) = p
  BY <1>2 DEF Last
<1> QED
  BY <1>3 DEF EndOf, Placed

LEMMA FoldIsPlaced ==
    ASSUME NEW first \in Seq(Placed), NEW order, IsEndOrder(order, first),
           NEW policy, policy.lanes \in Nat \ {0}, NEW deadline,
           NEW held \in Folding(policy.lanes, first, order), held.cursor <= Len(first)
    PROVE  PlaceFold(held, policy,
                     Largest(GroupEnd(held, held.order[held.cursor]), held.chainFree),
                     deadline) \in Folding(policy.lanes, first, order)
<1> DEFINE n == Len(first)
           L == policy.lanes
           ready == Largest(GroupEnd(held, held.order[held.cursor]), held.chainFree)
           K == {k \in held.cursor .. Len(held.order) : GroupEnd(held, held.order[k]) <= ready}
           covers == {held.order[i] : i \in K}
           base == [lanes |-> held.lanes, proofs |-> held.proofs]
           cost == fold_s(Cardinality(covers), held.folds = <<>>)
           placed == Place(base, policy, "fold", covers, ready, cost)
           after == [held EXCEPT !.lanes = placed.lanes, !.proofs = placed.proofs,
                                 !.cursor = @ + Cardinality(covers), !.chainFree = EndOf(placed),
                                 !.folds = Append(@, covers)]
<1>1. /\ held \in [lanes : [Indices(L) -> Seq(Windows)], proofs : Seq(Placed), cursor : Nat,
                   chainFree : Int, late : BOOLEAN, folds : Seq(SUBSET (1 .. n)),
                   order : {order}]
      /\ IsFolding(held, first, order, L)
  BY DEF Folding
<1>2. /\ IsHeld(held, L) /\ held.order = order
      /\ held.folds \in Seq(SUBSET (1 .. n)) /\ held.cursor \in 1 .. n + 1
      /\ held.chainFree \in Int /\ Len(held.proofs) = n + Len(held.folds)
      /\ Keeps(held.proofs, first) /\ AreFolds(held.proofs, first, held.folds)
      /\ TakesBefore(held.folds, order, held.cursor, n)
      /\ EndedBy(held.proofs, first, held.folds, held.chainFree)
  BY <1>1 DEF IsFolding
<1>3. n \in Nat /\ held.cursor \in 1 .. n
  <2>1. n \in Nat
    OBVIOUS
  <2> HIDE DEF n
  <2>2. PICK cursor : cursor = held.cursor
    OBVIOUS
  <2>3. cursor \in 1 .. n + 1 /\ cursor <= n
    BY <1>2, <2>2 DEF n
  <2>4. cursor \in 1 .. n
    BY <2>1, <2>3
  <2> QED
    BY <2>1, <2>2, <2>4
<1>4. /\ order \in [1 .. n -> 1 .. n] /\ Len(order) = n
      /\ OneEach(order, n) /\ HoldsAll(order, n)
  BY DEF IsEndOrder
<1>5. \A k \in 1 .. n : GroupEnd(held, held.order[k]) = first[order[k]].end
                        /\ first[order[k]].end \in Int
  <2> SUFFICES ASSUME NEW k \in 1 .. n
               PROVE  GroupEnd(held, held.order[k]) = first[order[k]].end
                      /\ first[order[k]].end \in Int
    OBVIOUS
  <2>1. order[k] \in 1 .. n
    BY <1>4
  <2>2. held.proofs[order[k]] = first[order[k]] /\ first[order[k]] \in Placed
    BY <1>2, <2>1 DEF Keeps
  <2>3. first[order[k]].end \in Int
    BY <2>2 DEF Placed
  <2> QED
    BY <1>2, <2>2, <2>3 DEF GroupEnd
<1>6. /\ ready \in Int /\ ready >= first[order[held.cursor]].end
      /\ ready >= held.chainFree
  BY <1>2, <1>3, <1>5 DEF Largest
<1> HIDE DEF ready
<1>7. PICK m \in held.cursor .. n :
         /\ {k \in held.cursor .. n : first[order[k]].end <= ready} = held.cursor .. m
         /\ Cardinality(Stretch(order, held.cursor, m)) = (m - held.cursor) + 1
  <2>1. PICK cursor \in 1 .. n : cursor = held.cursor
    BY <1>3
  <2>2. first[order[cursor]].end <= ready
    BY <1>3, <1>5, <1>6, <2>1
  <2>3. \E m \in cursor .. Len(first) :
           /\ {k \in cursor .. Len(first) : first[order[k]].end <= ready} = cursor .. m
           /\ Cardinality(Stretch(order, cursor, m)) = (m - cursor) + 1
    BY <1>6, <2>2, FoldTakesStretch
  <2> QED
    BY <2>1, <2>3
<1>8. K = held.cursor .. m
  <2>1. K = {k \in held.cursor .. n : first[order[k]].end <= ready}
    <3>1. \A k \in held.cursor .. n : k \in 1 .. n
      BY <1>3
    <3>2. Len(held.order) = n
      BY <1>2, <1>4
    <3> HIDE DEF n
    <3> QED
      BY <1>5, <3>1, <3>2
  <2> QED
    BY <1>7, <2>1
<1>9. covers = Stretch(order, held.cursor, m)
  <2> HIDE DEF K
  <2> QED
    BY <1>2, <1>8 DEF Stretch
<1>10. covers \in SUBSET (1 .. n) /\ \A g \in covers : first[g].end <= ready
  <2>1. ASSUME NEW k \in K PROVE held.order[k] \in 1 .. n /\ first[held.order[k]].end <= ready
    <3>1. k \in 1 .. n /\ GroupEnd(held, held.order[k]) <= ready
      BY <1>2, <1>3, <1>4
    <3> QED
      BY <1>2, <1>4, <1>5, <3>1
  <2> HIDE DEF K
  <2> QED
    BY <2>1
<1>11. PICK taken \in Nat : taken = Cardinality(covers) /\ held.cursor + taken = m + 1
  <2>1. PICK cursor \in 1 .. n : cursor = held.cursor
    BY <1>3
  <2>2. m \in Int /\ m >= cursor
    BY <1>7, <2>1
  <2>3. (m - cursor) + 1 \in Nat /\ cursor + ((m - cursor) + 1) = m + 1
    BY <2>2
  <2> HIDE DEF covers
  <2> QED
    BY <1>7, <1>9, <2>1, <2>3
<1> HIDE DEF K, covers
<1>12. cost \in Nat
  BY <1>11, FoldPriceType
<1>13. base \in Held(L) /\ base.proofs = held.proofs
  BY <1>2, BareIs DEF Bare
<1> HIDE DEF cost, base
<1>14. IsPlaced(base, policy, "fold", covers, ready, cost)
  <2>1. covers \in SUBSET Int /\ "fold" \in Stages
    BY <1>10 DEF Stages
  <2>2. IsHeld(base, policy.lanes)
    BY <1>13, HeldIs
  <2> QED
    BY <1>6, <1>12, <2>1, <2>2, PlaceKeeps
<1>15. PICK p \in Placed : /\ p.stage = "fold" /\ p.covers = covers /\ p.start >= ready
                           /\ placed.proofs = Append(held.proofs, p)
                           /\ placed \in Held(L)
  BY <1>13, <1>14 DEF IsPlaced
<1>16. EndOf(placed) = p.end /\ p.end \in Int
  <2> HIDE DEF placed
  <2> QED
    BY <1>13, <1>15, EndOfPlaced
<1>17. PlaceFold(held, policy, ready, deadline)
         = IF EndOf(placed) > deadline THEN [held EXCEPT !.late = TRUE] ELSE after
  BY DEF PlaceFold, Folded, covers, K, base, cost
<1> HIDE DEF placed
<1>18. [held EXCEPT !.late = TRUE] \in Folding(L, first, order)
  <2> DEFINE x == [held EXCEPT !.late = TRUE]
  <2>1. /\ x.lanes = held.lanes /\ x.proofs = held.proofs /\ x.cursor = held.cursor
        /\ x.chainFree = held.chainFree /\ x.folds = held.folds /\ x.order = held.order
    BY <1>1
  <2>2. x \in [lanes : [Indices(L) -> Seq(Windows)], proofs : Seq(Placed), cursor : Nat,
               chainFree : Int, late : BOOLEAN, folds : Seq(SUBSET (1 .. n)),
               order : {order}]
    BY <1>1
  <2> HIDE DEF x
  <2>3. IsHeld(x, L)
    BY <1>2, <2>1 DEF IsHeld
  <2>4. IsFolding(x, first, order, L)
    BY <1>2, <2>1, <2>3 DEF IsFolding
  <2>5. x \in Folding(L, first, order)
    BY <2>2, <2>4 DEF Folding
  <2> QED
    BY <2>5 DEF x
<1>19. after \in Folding(L, first, order)
  <2>1. placed.lanes \in [Indices(L) -> Seq(Windows)] /\ placed.proofs \in Seq(Placed)
        /\ IsHeld(placed, L)
    BY <1>15, HeldIs
  <2>2. held.folds \in Seq(SUBSET (1 .. n)) /\ Append(held.folds, covers) \in Seq(SUBSET (1 .. n))
    BY <1>2, <1>10
  <2>3. /\ after.lanes = placed.lanes /\ after.proofs = placed.proofs
        /\ after.cursor = m + 1 /\ after.chainFree = p.end
        /\ after.folds = Append(held.folds, covers) /\ after.order = order
    BY <1>1, <1>2, <1>11, <1>16
  <2>4. after \in [lanes : [Indices(L) -> Seq(Windows)], proofs : Seq(Placed), cursor : Nat,
                   chainFree : Int, late : BOOLEAN, folds : Seq(SUBSET (1 .. n)),
                   order : {order}]
    <3>1. held.cursor + Cardinality(covers) \in Nat
      BY <1>3, <1>11
    <3> QED
      BY <1>1, <1>16, <2>1, <2>2, <3>1
  <2> HIDE DEF after
  <2>5. IsHeld(after, L)
    BY <2>1, <2>3 DEF IsHeld
  <2>6. m + 1 \in 1 .. n + 1
    BY <1>3, <1>7
  <2>7. TakesBefore(Append(held.folds, covers), order, m + 1, n)
    <3>1. PICK cursor \in 1 .. n : cursor = held.cursor
      BY <1>3
    <3>2. PICK folds \in Seq(SUBSET (1 .. n)) : folds = held.folds
      BY <1>2
    <3>3. TakesBefore(folds, order, cursor, n) /\ m \in cursor .. n
      BY <1>2, <1>7, <3>1, <3>2
    <3>4. TakesBefore(Append(folds, Stretch(order, cursor, m)), order, m + 1, n)
      BY <1>3, <1>4, <3>3, TakesMore
    <3> QED
      BY <1>9, <3>1, <3>2, <3>4
  <2>8. /\ Len(placed.proofs) = n + Len(Append(held.folds, covers))
        /\ Keeps(placed.proofs, first)
        /\ AreFolds(placed.proofs, first, Append(held.folds, covers))
        /\ placed.proofs[n + Len(Append(held.folds, covers))] = p
    <3>1. PICK proofs \in Seq(Placed) : proofs = held.proofs
      BY <1>1
    <3>2. PICK folds \in Seq(SUBSET (1 .. n)) : folds = held.folds
      BY <1>2
    <3>3. /\ Len(proofs) = n + Len(folds) /\ Keeps(proofs, first)
          /\ AreFolds(proofs, first, folds)
      BY <1>2, <3>1, <3>2
    <3>6. ChainEndsBy(proofs, first, folds, ready)
      <4> SUFFICES ASSUME folds # <<>> PROVE proofs[n + Len(folds)].end <= ready
        BY DEF ChainEndsBy
      <4>1. Len(folds) \in 1 .. Len(folds) /\ n + Len(folds) \in 1 .. Len(proofs)
        BY <1>3, <3>3
      <4>2. proofs[n + Len(folds)] \in Placed
        BY <4>1
      <4>3. proofs[n + Len(folds)].end \in Int
        BY <4>2 DEF Placed
      <4>4. proofs[n + Len(folds)].end <= held.chainFree
        BY <1>2, <3>1, <3>2, <4>1 DEF EndedBy
      <4> QED
        BY <1>2, <1>6, <4>3, <4>4
    <3>4. ChainEndsBy(proofs, first, folds, ready) /\ EndBy(first, covers, ready)
      BY <1>10, <3>6 DEF EndBy
    <3>5. /\ Len(Append(proofs, p)) = n + Len(Append(folds, covers))
          /\ Keeps(Append(proofs, p), first)
          /\ AreFolds(Append(proofs, p), first, Append(folds, covers))
          /\ Append(proofs, p)[n + Len(Append(folds, covers))] = p
      <4>1. PICK c \in SUBSET (1 .. Len(first)) : c = covers
        BY <1>10
      <4>2. PICK time \in Int : time = ready
        BY <1>6
      <4>3. EndBy(first, c, time) /\ ChainEndsBy(proofs, first, folds, time)
        BY <3>4, <4>1, <4>2
      <4>4. p \in Placed /\ p.stage = "fold" /\ p.covers = c /\ p.start >= time
        BY <1>15, <4>1, <4>2
      <4>5. folds \in Seq(SUBSET (1 .. Len(first))) /\ Len(proofs) = Len(first) + Len(folds)
        BY <3>3
      <4>6. HasFolded(Append(proofs, p), first, Append(folds, c), p)
        BY <3>3, <4>3, <4>4, <4>5, FoldsMore
      <4> QED
        BY <4>1, <4>6 DEF HasFolded
    <3> QED
      BY <1>15, <3>1, <3>2, <3>5
  <2>10. EndedBy(placed.proofs, first, Append(held.folds, covers), p.end)
    <3>1. PICK proofs \in Seq(Placed) : proofs = held.proofs
      BY <1>1
    <3>2. PICK folds \in Seq(SUBSET (1 .. Len(first))) : folds = held.folds
      BY <1>2
    <3>3. PICK time \in Int : time = held.chainFree
      BY <1>2
    <3>4. /\ Len(proofs) = Len(first) + Len(folds)
          /\ EndedBy(proofs, first, folds, time)
      BY <1>2, <3>1, <3>2, <3>3
    <3>5. p.start >= time
      <4>1. p.start \in Int /\ p.start >= ready /\ ready >= time
        BY <1>6, <1>15, <3>3 DEF Placed
      <4> QED
        BY <1>6, <4>1
    <3>6. PICK c \in SUBSET (1 .. Len(first)) : c = covers
      BY <1>10
    <3>7. EndedBy(Append(proofs, p), first, Append(folds, c), p.end)
      BY <3>4, <3>5, EndedMore
    <3> QED
      BY <1>15, <3>1, <3>2, <3>6, <3>7
  <2>9. IsFolding(after, first, order, L)
    BY <1>16, <2>2, <2>3, <2>5, <2>6, <2>7, <2>8, <2>10 DEF IsFolding
  <2> QED
    BY <2>4, <2>9 DEF Folding
<1> HIDE DEF after
<1>20. PlaceFold(held, policy, ready, deadline) \in Folding(L, first, order)
  BY <1>17, <1>18, <1>19
<1> QED
  BY <1>20 DEF ready

\* The order the folds follow, and what they start from.
EndOrder(placed) == StableOrder([g \in DOMAIN placed.proofs |-> GroupEnd(placed, g)])

Unfolded(placed) ==
    [lanes |-> placed.lanes, proofs |-> placed.proofs, cursor |-> 1, chainFree |-> 0,
     late |-> FALSE, folds |-> <<>>, order |-> EndOrder(placed)]

LEMMA EndOrderIs ==
    ASSUME NEW L, NEW placed \in Held(L)
    PROVE  IsEndOrder(EndOrder(placed), placed.proofs)
<1> DEFINE n == Len(placed.proofs)
           keys == [g \in DOMAIN placed.proofs |-> GroupEnd(placed, g)]
           order == StableOrder(keys)
<1>1. placed.proofs \in Seq(Placed) /\ n \in Nat /\ DOMAIN placed.proofs = 1 .. n
  BY HeldIs
<1>2. \A g \in 1 .. n : keys[g] = placed.proofs[g].end /\ keys[g] \in Int
  BY <1>1 DEF GroupEnd, Placed
<1>3. keys \in [1 .. n -> Int]
  BY <1>1, <1>2
<1> HIDE DEF keys, n
<1>4. /\ order \in [1 .. n -> 1 .. n]
      /\ Len(order) = n
      /\ \A i \in 1 .. n : \E k \in 1 .. n : order[k] = i
      /\ \A j, k \in 1 .. n : j < k => KeyBefore(keys, order[j], order[k])
      /\ \A j, k \in 1 .. n : order[j] = order[k] => j = k
  BY <1>1, <1>3, StableOrderSorts
<1> HIDE DEF order
<1>5. ASSUME NEW j \in 1 .. n, NEW k \in 1 .. n, j <= k
      PROVE  placed.proofs[order[j]].end <= placed.proofs[order[k]].end
  <2>1. PICK a \in 1 .. n, b \in 1 .. n : a = order[j] /\ b = order[k]
    BY <1>4
  <2>2. keys[a] = placed.proofs[a].end /\ keys[b] = placed.proofs[b].end
        /\ keys[a] \in Int /\ keys[b] \in Int
    BY <1>2
  <2>3. CASE j = k
    BY <2>1, <2>2, <2>3
  <2>4. CASE j # k
    <3>1. j < k
      BY <1>1, <1>5, <2>4
    <3>2. KeyBefore(keys, a, b)
      BY <1>4, <2>1, <3>1
    <3> QED
      BY <2>1, <2>2, <3>2 DEF KeyBefore
  <2> QED
    BY <2>3, <2>4
<1>6. OneEach(order, n) /\ HoldsAll(order, n)
  BY <1>4 DEF OneEach, HoldsAll
<1>7. EndOrder(placed) = order
  BY DEF EndOrder, order, keys
<1> QED
  BY <1>4, <1>5, <1>6, <1>7 DEF IsEndOrder, n

LEMMA UnfoldedIs ==
    ASSUME NEW L, NEW placed \in Held(L), NEW order, order = EndOrder(placed)
    PROVE  Unfolded(placed) \in Folding(L, placed.proofs, order)
<1> DEFINE x == Unfolded(placed)
           n == Len(placed.proofs)
<1>1. placed \in [lanes : [Indices(L) -> Seq(Windows)], proofs : Seq(Placed)]
      /\ IsHeld(placed, L)
  BY DEF Held
<1>2. x = [lanes |-> placed.lanes, proofs |-> placed.proofs, cursor |-> 1, chainFree |-> 0,
           late |-> FALSE, folds |-> <<>>, order |-> order]
  BY DEF Unfolded
<1>3. n \in Nat /\ placed.proofs \in Seq(Placed)
  BY <1>1
<1>4. /\ x.lanes = placed.lanes /\ x.proofs = placed.proofs /\ x.cursor = 1
      /\ x.chainFree = 0 /\ x.folds = <<>> /\ x.order = order
  BY <1>2
<1>5. x \in [lanes : [Indices(L) -> Seq(Windows)], proofs : Seq(Placed), cursor : Nat,
             chainFree : Int, late : BOOLEAN, folds : Seq(SUBSET (1 .. n)), order : {order}]
  <2>1. <<>> \in Seq(SUBSET (1 .. n))
    OBVIOUS
  <2> QED
    BY <1>1, <1>2, <2>1
<1> HIDE DEF x
<1>6. IsHeld(x, L)
  BY <1>1, <1>4 DEF IsHeld
<1>7. Len(<<>>) = 0 /\ n + 0 = n
  BY <1>3
<1>8. Keeps(placed.proofs, placed.proofs) /\ AreFolds(placed.proofs, placed.proofs, <<>>)
  BY <1>3, <1>7 DEF Keeps, AreFolds
<1>9. TakesBefore(<<>>, order, 1, n)
  BY <1>3, <1>7 DEF TakesBefore
<1>10. <<>> \in Seq(SUBSET (1 .. n)) /\ 1 \in 1 .. n + 1
       /\ EndedBy(placed.proofs, placed.proofs, <<>>, 0)
  BY <1>3, <1>7 DEF EndedBy
<1>11. IsFolding(x, placed.proofs, order, L)
  BY <1>4, <1>6, <1>7, <1>8, <1>9, <1>10 DEF IsFolding
<1> QED
  BY <1>5, <1>11 DEF Folding, x

LEMMA PlaceFoldsKeeps ==
    ASSUME NEW policy, policy.lanes \in Nat \ {0}, NEW deadline,
           NEW placed \in Held(policy.lanes),
           NEW order, order = EndOrder(placed)
    PROVE  /\ IsEndOrder(order, placed.proofs)
           /\ PlaceFolds(placed, policy, deadline)
                 \in Folding(policy.lanes, placed.proofs, order)
<1> DEFINE n == Len(placed.proofs)
           V == Folding(policy.lanes, placed.proofs, order)
           start == Unfolded(placed)
           next(held) ==
              IF held.late \/ held.cursor > Len(held.order) THEN held
              ELSE PlaceFold(held, policy,
                             Largest(GroupEnd(held, held.order[held.cursor]), held.chainFree),
                             deadline)
           op == [p \in V \X (1 .. n) |-> next(p[1])]
           Unfolds(f) == f = [s \in SUBSET (1 .. n) |->
                                IF s = {} THEN start ELSE next(f[s \ {Max(s)}])]
           fold == CHOOSE f : Unfolds(f)
<1>1. placed.proofs \in Seq(Placed) /\ n \in Nat /\ DOMAIN placed.proofs = 1 .. n
  BY HeldIs
<1>2. IsEndOrder(order, placed.proofs) /\ start \in V
  BY EndOrderIs, UnfoldedIs
<1>3. IsTable(op, V, n)
  <2>1. ASSUME NEW held \in V PROVE next(held) \in V
    <3>1. held.order = order /\ Len(order) = n /\ held.cursor \in Nat
      BY <1>2 DEF Folding, IsFolding, IsEndOrder
    <3>2. CASE held.late \/ held.cursor > Len(held.order)
      BY <3>2
    <3>3. CASE ~(held.late \/ held.cursor > Len(held.order))
      <4>1. held.cursor <= Len(placed.proofs)
        BY <1>1, <3>1, <3>3
      <4>2. PlaceFold(held, policy,
                      Largest(GroupEnd(held, held.order[held.cursor]), held.chainFree),
                      deadline) \in Folding(policy.lanes, placed.proofs, order)
        <5>1. PICK first \in Seq(Placed) : first = placed.proofs
          BY <1>1
        <5>2. IsEndOrder(order, first) /\ held \in Folding(policy.lanes, first, order)
              /\ held.cursor <= Len(first)
          BY <1>2, <4>1, <5>1
        <5>3. PlaceFold(held, policy,
                      Largest(GroupEnd(held, held.order[held.cursor]), held.chainFree),
                      deadline) \in Folding(policy.lanes, first, order)
          BY <5>2, FoldIsPlaced
        <5> QED
          BY <5>1, <5>3
      <4> QED
        BY <3>3, <4>2
    <3> QED
      BY <3>2, <3>3
  <2> HIDE DEF next, V, n
  <2> QED
    BY <2>1 DEF IsTable
<1>4. PICK h, r : IsFoldOf(h, op, start, V, n) /\ IsRunOf(r, op, start, V, n)
                  /\ r[n] = h[1 .. n]
  <2> HIDE DEF n, op, V, start
  <2> QED
    BY <1>1, <1>2, <1>3, FoldRuns
<1>5. h \in [SUBSET (1 .. n) -> V]
      /\ h = [s \in SUBSET (1 .. n) |->
                IF s = {} THEN start ELSE op[<<h[s \ {Max(s)}], Max(s)>>]]
  BY <1>4 DEF IsFoldOf
<1>6. \A s \in SUBSET (1 .. n) : s # {} =>
         op[<<h[s \ {Max(s)}], Max(s)>>] = next(h[s \ {Max(s)}])
  <2> SUFFICES ASSUME NEW s \in SUBSET (1 .. n), s # {}
               PROVE  op[<<h[s \ {Max(s)}], Max(s)>>] = next(h[s \ {Max(s)}])
    OBVIOUS
  <2>1. Max(s) \in 1 .. n /\ s \ {Max(s)} \in SUBSET (1 .. n)
    BY <1>1, MaxOfFirst
  <2> HIDE DEF next, V, n
  <2>3. h[s \ {Max(s)}] \in V
    BY <1>5, <2>1
  <2>4. <<h[s \ {Max(s)}], Max(s)>> \in V \X (1 .. n)
    BY <2>1, <2>3
  <2> QED
    BY <2>4
<1>7. Unfolds(h)
  <2> HIDE DEF next, op, n, start
  <2>1. [s \in SUBSET (1 .. n) |->
           IF s = {} THEN start ELSE op[<<h[s \ {Max(s)}], Max(s)>>]]
        = [s \in SUBSET (1 .. n) |->
             IF s = {} THEN start ELSE next(h[s \ {Max(s)}])]
    BY <1>6
  <2> QED
    BY <1>5, <2>1
<1>8. Unfolds(fold)
  <2> HIDE DEF Unfolds
  <2> QED
    BY <1>7
<1>9. PlaceFolds(placed, policy, deadline) = fold[1 .. n]
  BY <1>1, SMT DEF PlaceFolds, FoldLeft, MapThenFoldSet, Unfolded, EndOrder
<1> HIDE DEF fold
<1>10. fold[1 .. n] = r[n]
  <2> HIDE DEF next, op, n, start
  <2>1. \A s \in SUBSET (1 .. n) :
           fold[s] = IF s = {} THEN start ELSE next(fold[s \ {Max(s)}])
    BY <1>8
  <2>2. \A s \in SUBSET (1 .. n) :
           h[s] = IF s = {} THEN start ELSE next(h[s \ {Max(s)}])
    BY <1>7
  <2>3. fold[{}] = h[{}]
    BY <2>1, <2>2
  <2>4. StepsAgree(fold, h, n)
    BY <2>1, <2>2, <2>3 DEF StepsAgree
  <2>5. fold[1 .. n] = h[1 .. n]
    BY <1>1, <2>4, FoldAgrees
  <2> QED
    BY <1>4, <2>5
<1>11. r[n] \in V
  <2>1. r \in [0 .. n -> V] /\ n \in 0 .. n
    BY <1>1, <1>4 DEF IsRunOf
  <2> HIDE DEF n, V
  <2> QED
    BY <2>1
<1> QED
  BY <1>2, <1>9, <1>10, <1>11

-----------------------------------------------------------------------------
(* The final proof takes the rest, and starts after everything.            *)

\* A group is in one fold, or the final proof's own.
Splits(folds, absorbed, n) ==
    /\ \A g \in 1 .. n : g \in absorbed <=> ~ \E k \in 1 .. Len(folds) : g \in folds[k]
    /\ \A g \in 1 .. n : \A j, k \in 1 .. Len(folds) :
          g \in folds[j] /\ g \in folds[k] => j = k
    /\ \A k \in 1 .. Len(folds) : folds[k] # {}

IsFinal(p, proofs, first, folds, absorbed, deadline) ==
    /\ p.stage = "final" /\ p.covers = absorbed
    /\ p.start >= deadline
    /\ \A g \in absorbed : p.start >= first[g].end
    /\ EndedBy(proofs, first, folds, p.start)

IsFinished(w, first, L, deadline) ==
    LET n == Len(first)
        f == Len(w.folds)
    IN /\ IsHeld(w, L)
       /\ w.folds \in Seq(SUBSET (1 .. n)) /\ w.absorbed \in SUBSET (1 .. n)
       /\ Keeps(w.proofs, first) /\ AreFolds(w.proofs, first, w.folds)
       /\ Splits(w.folds, w.absorbed, n)
       /\ Len(w.proofs) = n + f + 2
       /\ IsFinal(w.proofs[n + f + 1], w.proofs, first, w.folds, w.absorbed, deadline)
       /\ w.proofs[n + f + 2].stage = "wrap"

LEMMA ShiftedBack ==
    ASSUME NEW n \in Nat, NEW c \in 1 .. n + 1, NEW i \in c .. n
    PROVE  \E j \in 1 .. (n - c) + 1 : (c + j) - 1 = i
<1>1. i \in Int /\ c \in Int /\ i >= c /\ i <= n
  OBVIOUS
<1>2. (i - c) + 1 \in 1 .. (n - c) + 1 /\ (c + ((i - c) + 1)) - 1 = i
  BY <1>1
<1> QED
  BY <1>2

\* What the folds leave.
RestOf(order, cursor) == ToSet(SubSeq(order, cursor, Len(order)))
LEMMA AbsorbedIs ==
    ASSUME NEW n \in Nat, NEW order \in [1 .. n -> 1 .. n], Len(order) = n,
           OneEach(order, n), HoldsAll(order, n),
           NEW folds, NEW cursor \in 1 .. n + 1, TakesBefore(folds, order, cursor, n),
           NEW absorbed, absorbed = RestOf(order, cursor)
    PROVE  absorbed \in SUBSET (1 .. n) /\ Splits(folds, absorbed, n)
<1>1. order \in Seq(1 .. n)
  <2>1. order = [i \in 1 .. Len(order) |-> order[i]] /\ \A i \in 1 .. n : order[i] \in 1 .. n
    OBVIOUS
  <2> QED
    BY <2>1, SeqDef
<1>2. /\ SubSeq(order, cursor, n) = [i \in 1 .. (n - cursor) + 1 |-> order[(cursor + i) - 1]]
      /\ Len(SubSeq(order, cursor, n)) = (n - cursor) + 1
  BY <1>1
<1>3. \A g : g \in absorbed <=> \E i \in cursor .. n : order[i] = g
  <2>1. ASSUME NEW g, g \in absorbed PROVE \E i \in cursor .. n : order[i] = g
    <3>1. PICK i \in 1 .. (n - cursor) + 1 : g = order[(cursor + i) - 1]
      BY <1>2, <2>1 DEF ToSet, RestOf
    <3>2. (cursor + i) - 1 \in cursor .. n
      OBVIOUS
    <3> QED
      BY <3>1, <3>2
  <2>2. ASSUME NEW i \in cursor .. n PROVE order[i] \in absorbed
    <3>2. PICK j \in 1 .. (n - cursor) + 1 : (cursor + j) - 1 = i
      BY ShiftedBack
    <3>3. SubSeq(order, cursor, n)[j] = order[i] /\ j \in DOMAIN SubSeq(order, cursor, n)
      BY <1>2, <3>2
    <3> QED
      BY <3>3 DEF ToSet, RestOf
  <2> QED
    BY <2>1, <2>2
<1>4. absorbed \in SUBSET (1 .. n)
  <2> SUFFICES ASSUME NEW g \in absorbed PROVE g \in 1 .. n
    OBVIOUS
  <2>1. PICK i \in cursor .. n : order[i] = g
    BY <1>3
  <2>2. i \in 1 .. n
    OBVIOUS
  <2> QED
    BY <2>1, <2>2
<1>5. ASSUME NEW g \in 1 .. n
      PROVE  g \in absorbed <=> ~ \E k \in 1 .. Len(folds) : g \in folds[k]
  <2>1. PICK i \in 1 .. n : order[i] = g
    BY DEF HoldsAll
  <2>2. i < cursor <=> \E k \in 1 .. Len(folds) : g \in folds[k]
    BY <2>1 DEF TakesBefore
  <2>3. g \in absorbed <=> ~(i < cursor)
    <3>1. ASSUME g \in absorbed PROVE ~(i < cursor)
      <4>1. PICK j \in cursor .. n : order[j] = g
        BY <1>3, <3>1
      <4>2. j \in 1 .. n /\ j >= cursor
        OBVIOUS
      <4>3. i = j
        BY <2>1, <4>1, <4>2 DEF OneEach
      <4> QED
        BY <4>2, <4>3
    <3>2. ASSUME ~(i < cursor) PROVE g \in absorbed
      <4>1. i \in cursor .. n
        BY <3>2
      <4> QED
        BY <1>3, <2>1, <4>1
    <3> QED
      BY <3>1, <3>2
  <2> QED
    BY <2>2, <2>3
<1> QED
  BY <1>4, <1>5 DEF Splits, TakesBefore

\* The final proof is released after all that it waits for.
LEMMA FinalReleaseIs ==
    ASSUME NEW n \in Nat, NEW absorbed \in SUBSET (1 .. n),
           NEW first \in Seq(Placed), Len(first) = n,
           NEW deadline \in Int, NEW chainFree \in Int,
           NEW ends, ends = {first[g].end : g \in absorbed}
    PROVE  /\ FinalRelease(deadline, chainFree, ends) \in Int
           /\ FinalRelease(deadline, chainFree, ends) >= deadline
           /\ FinalRelease(deadline, chainFree, ends) >= chainFree
           /\ \A g \in absorbed : FinalRelease(deadline, chainFree, ends) >= first[g].end
<1> DEFINE f == [g \in absorbed |-> first[g].end]
           S == {deadline, chainFree} \cup ends
<1>1. IsFiniteSet(absorbed)
  <2>1. IsFiniteSet(1 .. n)
    BY FS_Interval
  <2> QED
    BY <2>1, FS_Subset
<1>2. ends \in SUBSET Int
  <2>1. ASSUME NEW g \in absorbed PROVE first[g].end \in Int
    <3>1. first[g] \in Placed
      <4>1. g \in 1 .. Len(first)
        OBVIOUS
      <4> HIDE DEF Placed
      <4> QED
        BY <4>1
    <3> QED
      BY <3>1 DEF Placed
  <2> QED
    BY <2>1
<1>3. f \in Surjection(absorbed, ends)
  <2>1. f \in [absorbed -> ends] /\ \A t \in ends : \E g \in absorbed : f[g] = t
    OBVIOUS
  <2> HIDE DEF f
  <2> QED
    BY <2>1, Fun_IsSurj
<1>4. IsFiniteSet(ends)
  <2> HIDE DEF f
  <2> QED
    BY <1>1, <1>3, FS_Surjection
<1>5. IsFiniteSet(S) /\ S # {} /\ S \in SUBSET Int
  <2>1. IsFiniteSet({deadline}) /\ IsFiniteSet({chainFree})
    BY FS_Singleton
  <2>2. IsFiniteSet({deadline} \cup {chainFree})
    BY <2>1, FS_Union
  <2>3. {deadline} \cup {chainFree} = {deadline, chainFree}
    OBVIOUS
  <2>4. IsFiniteSet({deadline, chainFree})
    BY <2>2, <2>3
  <2>5. IsFiniteSet(S)
    BY <1>4, <2>4, FS_Union
  <2> QED
    BY <1>2, <2>5
<1>6. Max(S) \in S /\ \A x \in S : x <= Max(S)
  <2> HIDE DEF S
  <2> QED
    BY <1>5, FiniteMax
<1>7. Max(S) \in Int /\ deadline \in S /\ chainFree \in S
      /\ \A g \in absorbed : first[g].end \in S
  BY <1>5, <1>6
<1>8. FinalRelease(deadline, chainFree, ends) = Max(S)
  BY DEF FinalRelease
<1> HIDE DEF S
<1>9. \A x \in S : x \in Int /\ Max(S) >= x
  BY <1>5, <1>6
<1> QED
  BY <1>7, <1>8, <1>9

\* Two proofs more, one after the other, disturb nothing before them.
LEMMA TwoMore ==
    ASSUME NEW q \in Seq(Placed), NEW p \in Placed, NEW u \in Placed
    PROVE  /\ Append(Append(q, p), u) \in Seq(Placed)
           /\ Len(Append(Append(q, p), u)) = Len(q) + 2
           /\ \A i \in 1 .. Len(q) : Append(Append(q, p), u)[i] = q[i]
           /\ Append(Append(q, p), u)[Len(q) + 1] = p
           /\ Append(Append(q, p), u)[Len(q) + 2] = u
<1>1. /\ Append(q, p) \in Seq(Placed) /\ Len(Append(q, p)) = Len(q) + 1
      /\ \A i \in 1 .. Len(q) : Append(q, p)[i] = q[i]
      /\ Append(q, p)[Len(q) + 1] = p /\ Len(q) \in Nat
  BY AppendIs
<1>2. PICK s \in Seq(Placed) : s = Append(q, p)
  BY <1>1
<1>3. /\ Append(s, u) \in Seq(Placed) /\ Len(Append(s, u)) = Len(s) + 1
      /\ \A i \in 1 .. Len(s) : Append(s, u)[i] = s[i]
      /\ Append(s, u)[Len(s) + 1] = u
  BY AppendIs
<1>4. Len(s) = Len(q) + 1 /\ \A i \in 1 .. Len(q) : i \in 1 .. Len(s) /\ s[i] = q[i]
  BY <1>1, <1>2
<1>5. Len(q) + 1 \in 1 .. Len(s) /\ s[Len(q) + 1] = p
  BY <1>1, <1>2
<1> QED
  BY <1>1, <1>2, <1>3, <1>4, <1>5

\* What was kept of a list is kept of one that goes on from it.
LEMMA KeptOn ==
    ASSUME NEW first \in Seq(Placed), NEW q \in Seq(Placed), NEW t \in Seq(Placed),
           NEW folds \in Seq(SUBSET (1 .. Len(first))),
           Len(q) >= Len(first) + Len(folds), Len(t) >= Len(q),
           \A i \in 1 .. Len(q) : t[i] = q[i]
    PROVE  /\ Keeps(q, first) => Keeps(t, first)
           /\ AreFolds(q, first, folds) => AreFolds(t, first, folds)
           /\ \A time : EndedBy(q, first, folds, time) => EndedBy(t, first, folds, time)
<1> DEFINE n == Len(first)
           c == Len(folds)
<1>1. n \in Nat /\ c \in Nat /\ Len(q) \in Nat /\ Len(t) \in Nat
  OBVIOUS
<1>2. \A g \in 1 .. n : t[g] = q[g]
  <2> SUFFICES ASSUME NEW g \in 1 .. n PROVE t[g] = q[g]
    OBVIOUS
  <2>1. g \in 1 .. Len(q)
    BY <1>1
  <2> QED
    BY <2>1
<1>3. \A k \in 1 .. c : t[n + k] = q[n + k] /\ (k > 1 => t[n + (k - 1)] = q[n + (k - 1)])
  <2> SUFFICES ASSUME NEW k \in 1 .. c
               PROVE  t[n + k] = q[n + k] /\ (k > 1 => t[n + (k - 1)] = q[n + (k - 1)])
    OBVIOUS
  <2>1. n + k \in 1 .. Len(q) /\ (k > 1 => n + (k - 1) \in 1 .. Len(q))
    BY <1>1
  <2> QED
    BY <2>1
<1>4. Len(t) >= n + c /\ Len(t) >= n /\ Len(q) >= n
  BY <1>1
<1>5. Keeps(q, first) => Keeps(t, first)
  BY <1>2, <1>4 DEF Keeps
<1>6. AreFolds(q, first, folds) => AreFolds(t, first, folds)
  BY <1>3, <1>4 DEF AreFolds
<1>7. \A time : EndedBy(q, first, folds, time) => EndedBy(t, first, folds, time)
  BY <1>3 DEF EndedBy
<1> QED
  BY <1>5, <1>6, <1>7

\* A wrap goes right after a proof that starts when every other has ended.
LEMMA WrapIsClear ==
    ASSUME NEW L \in Nat, NEW h \in Held(L), NEW p \in Placed, NEW placed \in Held(L),
           placed.proofs = Append(h.proofs, p),
           \A i \in 1 .. Len(h.proofs) : h.proofs[i].end <= p.start
    PROVE  IsClear(placed.lanes[p.lane], p.end, Prover.wrap) /\ p.lane \in Indices(L)
<1> DEFINE n == Len(h.proofs)
           q == placed.lanes[p.lane]
<1>1. h.proofs \in Seq(Placed) /\ n \in Nat /\ IsHeld(placed, L)
  BY HeldIs
<1>2. /\ Len(placed.proofs) = n + 1 /\ placed.proofs[n + 1] = p
      /\ \A i \in 1 .. n : placed.proofs[i] = h.proofs[i]
  BY <1>1, AppendIs
<1>3. p.lane \in Indices(L)
  <2>1. n + 1 \in 1 .. Len(placed.proofs)
    BY <1>1, <1>2
  <2> QED
    BY <1>1, <1>2, <2>1 DEF IsHeld
<1>4. p.start \in Int /\ p.end \in Int /\ p.start <= p.end
  BY DEF Placed
<1>5. ASSUME NEW k \in 1 .. Len(q) PROVE Apart(q[k], <<p.end, p.end + Prover.wrap>>)
  <2>1. Has(q, q[k])
    BY DEF Has
  <2>2. PICK i \in 1 .. n + 1 : Window(placed.proofs[i]) = q[k]
    <3>1. AreProofs(placed.lanes, placed.proofs, L)
      BY <1>1 DEF IsHeld
    <3> HIDE DEF q
    <3>2. PICK w : w = q[k]
      OBVIOUS
    <3>3. Has(placed.lanes[p.lane], w)
      BY <2>1, <3>2 DEF q
    <3>4. \E i \in 1 .. Len(placed.proofs) : Window(placed.proofs[i]) = w
      BY <1>3, <3>1, <3>3 DEF AreProofs
    <3> QED
      BY <1>2, <3>2, <3>4
  <2>3. placed.proofs[i].end <= p.end
    <3>1. CASE i = n + 1
      BY <1>2, <1>4, <3>1
    <3>2. CASE i # n + 1
      <4>1. i \in 1 .. n
        BY <1>1, <3>2
      <4>2. h.proofs[i] \in Placed /\ h.proofs[i].end <= p.start
        BY <1>1, <4>1
      <4>3. h.proofs[i].end \in Int
        BY <4>2 DEF Placed
      <4> QED
        BY <1>2, <1>4, <4>1, <4>2, <4>3
    <3> QED
      BY <3>1, <3>2
  <2>4. q[k][2] = placed.proofs[i].end
    BY <2>2 DEF Window
  <2> QED
    BY <2>3, <2>4 DEF Apart
<1> QED
  BY <1>3, <1>5 DEF IsClear

LEMMA FinalIsPlaced ==
    ASSUME NEW units, IsUnits(units), NEW tail \in SUBSET (1 .. Len(units)),
           NEW first \in Seq(Placed), NEW order, IsEndOrder(order, first),
           NEW policy, policy.lanes \in Nat \ {0}, NEW deadline \in Int,
           NEW held \in Folding(policy.lanes, first, order),
           NEW finished, finished = PlaceFinal(held, units, tail, policy, deadline)
    PROVE  IsFinished(finished, first, policy.lanes, deadline)
<1> DEFINE n == Len(first)
           L == policy.lanes
           absorbed == ToSet(SubSeq(held.order, held.cursor, Len(held.order)))
           ends == {GroupEnd(held, g) : g \in absorbed}
           release == FinalRelease(deadline, held.chainFree, ends)
           cost == final_s(NamedBy(units, tail), Cardinality(tail), MessagesOf(units, tail),
                           Cardinality(absorbed), held.folds # <<>>)
           base == [lanes |-> held.lanes, proofs |-> held.proofs]
           placed == Place(base, policy, "final", absorbed, release, cost)
           last == Last(placed.proofs)
           wrap == [stage |-> "wrap", covers |-> {}, lane |-> last.lane,
                    start |-> last.end, end |-> last.end + Prover.wrap]
           lanes == LaneCommit(placed.lanes, last.lane, last.end, Prover.wrap)
<1>1. /\ IsHeld(held, L) /\ held.order = order /\ held.proofs \in Seq(Placed)
      /\ held.folds \in Seq(SUBSET (1 .. n)) /\ held.cursor \in 1 .. n + 1
      /\ held.chainFree \in Int /\ Len(held.proofs) = n + Len(held.folds)
      /\ Keeps(held.proofs, first) /\ AreFolds(held.proofs, first, held.folds)
      /\ TakesBefore(held.folds, order, held.cursor, n)
      /\ EndedBy(held.proofs, first, held.folds, held.chainFree)
  BY DEF Folding, IsFolding
<1>2. /\ order \in [1 .. n -> 1 .. n] /\ Len(order) = n /\ n \in Nat
      /\ OneEach(order, n) /\ HoldsAll(order, n)
  BY DEF IsEndOrder
<1>3. PICK folds \in Seq(SUBSET (1 .. n)) : folds = held.folds
  BY <1>1
<1>4. absorbed \in SUBSET (1 .. n) /\ Splits(folds, absorbed, n)
  <2>1. PICK cursor \in 1 .. n + 1 : cursor = held.cursor
    BY <1>1
  <2>2. absorbed = RestOf(order, cursor)
    BY <1>1, <2>1 DEF RestOf
  <2>3. TakesBefore(folds, order, cursor, n)
    BY <1>1, <1>3, <2>1
  <2> HIDE DEF absorbed, n
  <2> QED
    BY <1>2, <2>2, <2>3, AbsorbedIs
<1> HIDE DEF absorbed
<1>5. ends = {first[g].end : g \in absorbed}
  <2>1. \A g \in absorbed : GroupEnd(held, g) = first[g].end
    BY <1>1, <1>4 DEF Keeps, GroupEnd
  <2> QED
    BY <2>1
<1> HIDE DEF ends
<1>6. /\ release \in Int /\ release >= deadline /\ release >= held.chainFree
      /\ \A g \in absorbed : release >= first[g].end
  <2>1. PICK free \in Int : free = held.chainFree
    BY <1>1
  <2>2. PICK taken \in SUBSET (1 .. n) : taken = absorbed
    BY <1>4
  <2>3. PICK e : e = ends
    OBVIOUS
  <2>4. e = {first[g].end : g \in taken}
    BY <1>5, <2>2, <2>3
  <2>5. /\ FinalRelease(deadline, free, e) \in Int
        /\ FinalRelease(deadline, free, e) >= deadline
        /\ FinalRelease(deadline, free, e) >= free
        /\ \A g \in taken : FinalRelease(deadline, free, e) >= first[g].end
    BY <1>2, <2>4, FinalReleaseIs
  <2> QED
    BY <2>1, <2>2, <2>3, <2>5
<1>7. cost \in Nat
  <2>1. Cardinality(absorbed) \in Nat
    <3>1. IsFiniteSet(1 .. n)
      BY <1>2, FS_Interval
    <3>2. IsFiniteSet(absorbed)
      BY <1>4, <3>1, FS_Subset
    <3> QED
      BY <3>2, FS_CardinalityType
  <2> QED
    BY <2>1, FinalCostType
<1>8. base \in Held(L) /\ base.proofs = held.proofs /\ IsHeld(base, L)
  <2>1. base \in Held(L) /\ base.proofs = held.proofs
    BY <1>1, BareIs DEF Bare
  <2> HIDE DEF base
  <2> QED
    BY <2>1, HeldIs
<1> HIDE DEF release, cost, base
<1>9. IsPlaced(base, policy, "final", absorbed, release, cost)
  <2>1. absorbed \in SUBSET Int /\ "final" \in Stages
    BY <1>4 DEF Stages
  <2> QED
    BY <1>6, <1>7, <1>8, <2>1, PlaceKeeps
<1>10. PICK p \in Placed : /\ p.stage = "final" /\ p.covers = absorbed /\ p.start >= release
                           /\ placed.proofs = Append(held.proofs, p)
                           /\ placed \in Held(L)
  BY <1>8, <1>9 DEF IsPlaced
<1>11. finished = [lanes |-> lanes, proofs |-> Append(placed.proofs, wrap),
                   folds |-> held.folds, absorbed |-> absorbed]
  <2>1. placed \in [lanes : [Indices(L) -> Seq(Windows)], proofs : Seq(Placed)]
    BY <1>10 DEF Held
  <2>2. Wrapped(placed, last).lanes = lanes
        /\ Wrapped(placed, last).proofs = Append(placed.proofs, wrap)
    <3> HIDE DEF placed
    <3> QED
      BY <2>1 DEF Wrapped
  <2>3. finished = [lanes |-> Wrapped(placed, last).lanes,
                    proofs |-> Wrapped(placed, last).proofs,
                    folds |-> held.folds, absorbed |-> absorbed]
    BY DEF PlaceFinal, absorbed, release, cost, base, ends
  <2> QED
    BY <2>2, <2>3
<1> HIDE DEF placed
<1>12. last = p /\ p.start \in Int /\ p.end \in Int /\ p.start <= p.end
  <2>1. p.start \in Int /\ p.end \in Int /\ p.start <= p.end
    BY <1>10 DEF Placed
  <2>2. placed.proofs = Append(base.proofs, p)
    BY <1>8, <1>10
  <2>3. Last(placed.proofs) = p
    BY <1>8, <2>2, EndOfPlaced
  <2> QED
    BY <2>1, <2>3
<1>13. ASSUME NEW i \in 1 .. Len(held.proofs) PROVE held.proofs[i].end <= p.start
  <2>4. held.proofs[i] \in Placed
    BY <1>1
  <2>1. held.proofs[i] \in Placed /\ held.proofs[i].end \in Int
    BY <2>4 DEF Placed
  <2>2. CASE i \in 1 .. n
    <3>1. held.proofs[i] = first[i]
      BY <1>1, <2>2 DEF Keeps
    <3>2. CASE i \in absorbed
      BY <1>6, <1>10, <1>12, <2>1, <3>1, <3>2
    <3>3. CASE i \notin absorbed
      <4>1. PICK k \in 1 .. Len(folds) : i \in folds[k]
        BY <1>4, <2>2, <3>3 DEF Splits
      <4>2. PICK u : u = held.proofs[n + k]
        OBVIOUS
      <4>3. u.start >= first[i].end /\ u.end <= held.chainFree
        BY <1>1, <1>3, <4>1, <4>2 DEF AreFolds, EndedBy
      <4>4. u \in Placed
        <5>1. n + k \in 1 .. Len(held.proofs)
          BY <1>1, <1>2, <1>3
        <5> QED
          BY <1>1, <4>2, <5>1
      <4>5. u.start \in Int /\ u.end \in Int /\ u.start <= u.end
        BY <4>4 DEF Placed
      <4> QED
        BY <1>1, <1>6, <1>10, <1>12, <2>1, <3>1, <4>3, <4>5
    <3> QED
      BY <3>2, <3>3
  <2>3. CASE i \notin 1 .. n
    <3>1. PICK k : k = i - n
      OBVIOUS
    <3>2. k \in 1 .. Len(held.folds) /\ i = n + k
      BY <1>1, <1>2, <2>3, <3>1
    <3>3. held.proofs[i].end <= held.chainFree
      BY <1>1, <3>2 DEF EndedBy
    <3> QED
      BY <1>1, <1>6, <1>10, <1>12, <2>1, <3>3
  <2> QED
    BY <2>2, <2>3
<1>14. IsClear(placed.lanes[p.lane], p.end, Prover.wrap) /\ p.lane \in Indices(L)
  <2>1. L \in Nat /\ placed.proofs = Append(base.proofs, p)
        /\ \A i \in 1 .. Len(base.proofs) : base.proofs[i].end <= p.start
    BY <1>8, <1>10, <1>13
  <2> HIDE DEF L
  <2> QED
    BY <1>8, <1>10, <2>1, WrapIsClear
<1>15. PICK u : u = wrap
  OBVIOUS
<1>16. PICK ln : ln = lanes
  OBVIOUS
<1>17. /\ IsHeld([lanes |-> ln, proofs |-> Append(placed.proofs, u)], L)
       /\ u \in Placed
  <2>1. PICK at : at = [lane |-> p.lane, start |-> p.end]
    OBVIOUS
  <2>2. u = [stage |-> "wrap", covers |-> {}, lane |-> at.lane,
             start |-> at.start, end |-> at.start + Prover.wrap]
    BY <1>12, <1>15, <2>1
  <2>3. ln = LaneCommit(placed.lanes, at.lane, at.start, Prover.wrap)
    BY <1>12, <1>16, <2>1
  <2>4. at.lane \in Indices(L) /\ at.start \in Int
        /\ IsClear(placed.lanes[at.lane], at.start, Prover.wrap)
    BY <1>12, <1>14, <2>1
  <2>5. L \in Nat /\ IsHeld(placed, L)
    BY <1>10, HeldIs
  <2>6. Prover.wrap \in Nat /\ "wrap" \in Stages
    BY PricesAre DEF Stages
  <2>7. PICK none \in SUBSET Int : none = {}
    OBVIOUS
  <2>8. u = [stage |-> "wrap", covers |-> none, lane |-> at.lane,
             start |-> at.start, end |-> at.start + Prover.wrap]
    BY <2>2, <2>7
  <2> HIDE DEF lanes, wrap, L, last
  <2> QED
    BY <2>3, <2>4, <2>5, <2>6, <2>8, PlaceAtKeeps
<1>18. finished = [lanes |-> ln, proofs |-> Append(placed.proofs, u),
                   folds |-> held.folds, absorbed |-> absorbed]
  BY <1>11, <1>15, <1>16
<1> HIDE DEF last, lanes, wrap
<1>19. /\ finished.lanes = ln /\ finished.proofs = Append(Append(held.proofs, p), u)
       /\ finished.folds = folds /\ finished.absorbed = absorbed
  BY <1>3, <1>10, <1>18
<1>20. IsHeld(finished, L)
  <2>1. PICK x : x = [lanes |-> ln, proofs |-> Append(placed.proofs, u)]
    OBVIOUS
  <2>2. IsHeld(x, L) /\ x.lanes = finished.lanes /\ x.proofs = finished.proofs
    BY <1>17, <1>18, <2>1
  <2> HIDE DEF L
  <2> QED
    BY <2>2 DEF IsHeld
<1>21. PICK q \in Seq(Placed) : q = held.proofs
  BY <1>1
<1>22. PICK t : t = finished.proofs
  OBVIOUS
<1>23. /\ t \in Seq(Placed) /\ Len(t) = Len(q) + 2
       /\ \A i \in 1 .. Len(q) : t[i] = q[i]
       /\ t[Len(q) + 1] = p
       /\ t[Len(q) + 2] = u
  BY <1>17, <1>19, <1>21, <1>22, TwoMore
<1>24. Len(q) = n + Len(folds) /\ Len(folds) \in Nat
  BY <1>1, <1>3, <1>21
<1>25. /\ Keeps(t, first) /\ AreFolds(t, first, folds)
       /\ EndedBy(t, first, folds, held.chainFree)
  <2>1. Len(q) >= Len(first) + Len(folds) /\ Len(t) >= Len(q)
    BY <1>2, <1>23, <1>24
  <2>2. Keeps(q, first) /\ AreFolds(q, first, folds) /\ EndedBy(q, first, folds, held.chainFree)
    BY <1>1, <1>3, <1>21
  <2>3. folds \in Seq(SUBSET (1 .. Len(first)))
    OBVIOUS
  <2> QED
    BY <1>23, <2>1, <2>2, <2>3, KeptOn
<1>26. EndedBy(t, first, folds, p.start)
  <2> SUFFICES ASSUME NEW k \in 1 .. Len(folds) PROVE t[n + k].end <= p.start
    BY DEF EndedBy
  <2>1. n + k \in 1 .. Len(q)
    BY <1>2, <1>24
  <2> QED
    BY <1>13, <1>21, <1>23, <2>1
<1>27. IsFinal(p, t, first, folds, absorbed, deadline)
  <2>1. p.start >= deadline /\ \A g \in absorbed : p.start >= first[g].end
    <3>1. p.start >= deadline
      BY <1>6, <1>10, <1>12
    <3>2. ASSUME NEW g \in absorbed PROVE p.start >= first[g].end
      <4>1. g \in 1 .. Len(held.proofs) /\ held.proofs[g] = first[g]
        BY <1>1, <1>2, <1>4, <1>24, <1>21 DEF Keeps
      <4>2. held.proofs[g].end <= p.start
        BY <1>13, <4>1
      <4> QED
        BY <4>1, <4>2
    <3> QED
      BY <3>1, <3>2
  <2> QED
    BY <1>10, <1>26, <2>1 DEF IsFinal
<1>28. u.stage = "wrap" /\ Len(t) = n + Len(folds) + 2
       /\ t[n + Len(folds) + 1] = p /\ t[n + Len(folds) + 2] = u
  BY <1>2, <1>15, <1>23, <1>24 DEF wrap
<1> QED
  BY <1>4, <1>19, <1>20, <1>22, <1>25, <1>27, <1>28 DEF IsFinished

-----------------------------------------------------------------------------
(* The committee's proofs come after, and disturb none.                    *)

CommitteeStages == {"committee", "committee_fold"}

GoesOnFrom(proofs, base) ==
    /\ Len(proofs) >= Len(base)
    /\ \A i \in 1 .. Len(base) : proofs[i] = base[i]
    /\ \A i \in 1 .. Len(proofs) : i > Len(base) => proofs[i].stage \in CommitteeStages

LEMMA GoesOnMore ==
    ASSUME NEW base \in Seq(Placed), NEW proofs \in Seq(Placed), GoesOnFrom(proofs, base),
           NEW p \in Placed, p.stage \in CommitteeStages
    PROVE  GoesOnFrom(Append(proofs, p), base)
<1> DEFINE after == Append(proofs, p)
<1>1. /\ Len(after) = Len(proofs) + 1 /\ Len(proofs) \in Nat /\ Len(base) \in Nat
      /\ \A i \in 1 .. Len(proofs) : after[i] = proofs[i]
      /\ after[Len(proofs) + 1] = p
  OBVIOUS
<1> HIDE DEF after
<1>2. Len(proofs) >= Len(base)
  BY DEF GoesOnFrom
<1>3. ASSUME NEW i \in 1 .. Len(base) PROVE after[i] = base[i]
  <2>1. i \in 1 .. Len(proofs)
    BY <1>1, <1>2
  <2> QED
    BY <1>1, <2>1 DEF GoesOnFrom
<1>4. ASSUME NEW i \in 1 .. Len(after), i > Len(base) PROVE after[i].stage \in CommitteeStages
  <2>1. i \in 1 .. Len(proofs) \/ i = Len(proofs) + 1
    BY <1>1
  <2> QED
    BY <1>1, <1>4, <2>1 DEF GoesOnFrom
<1> QED
  BY <1>1, <1>2, <1>3, <1>4 DEF GoesOnFrom, after

\* What is placed after a base.
After(L, base) == {h \in Held(L) : GoesOnFrom(h.proofs, base)}

IsPlacedAfter(base, h, policy, stage, covers, release, duration) ==
    /\ Place(h, policy, stage, covers, release, duration) \in After(policy.lanes, base)
    /\ \E p \in Placed : /\ p.stage = stage
                         /\ Place(h, policy, stage, covers, release, duration).proofs
                               = Append(h.proofs, p)

LEMMA CommitteeIsPlaced ==
    ASSUME NEW policy, policy.lanes \in Nat \ {0}, NEW base \in Seq(Placed),
           NEW h \in After(policy.lanes, base), NEW stage \in CommitteeStages,
           NEW covers \in SUBSET Int, NEW release \in Int, NEW duration \in Nat
    PROVE  IsPlacedAfter(base, h, policy, stage, covers, release, duration)
<1>1. h \in Held(policy.lanes) /\ GoesOnFrom(h.proofs, base)
  BY DEF After
<1>2. IsHeld(h, policy.lanes) /\ h.proofs \in Seq(Placed) /\ stage \in Stages
  BY <1>1, HeldIs DEF Stages, CommitteeStages
<1>3. IsPlaced(h, policy, stage, covers, release, duration)
  BY <1>2, PlaceKeeps
<1>4. PICK p \in Placed :
         /\ p.stage = stage
         /\ Place(h, policy, stage, covers, release, duration).proofs = Append(h.proofs, p)
         /\ Place(h, policy, stage, covers, release, duration) \in Held(policy.lanes)
  BY <1>3 DEF IsPlaced
<1>5. GoesOnFrom(Append(h.proofs, p), base)
  <2>1. PICK q \in Seq(Placed) : q = h.proofs
    BY <1>2
  <2>2. GoesOnFrom(q, base) /\ p.stage \in CommitteeStages
    BY <1>1, <1>4, <2>1
  <2>3. GoesOnFrom(Append(q, p), base)
    BY <2>2, GoesOnMore
  <2> QED
    BY <2>1, <2>3
<1> QED
  BY <1>4, <1>5 DEF After, IsPlacedAfter

\* When the last chunk ends.
ChunksEnd(proofs) == Max({p.end : p \in {x \in ToSet(proofs) : x.stage = "committee"}})

LEMMA ChunksEndType ==
    ASSUME NEW proofs \in Seq(Placed), \E i \in 1 .. Len(proofs) : proofs[i].stage = "committee"
    PROVE  ChunksEnd(proofs) \in Int
<1> DEFINE S == {p.end : p \in {x \in ToSet(proofs) : x.stage = "committee"}}
           D == {i \in 1 .. Len(proofs) : proofs[i].stage = "committee"}
           f == [i \in D |-> proofs[i].end]
<1>1. DOMAIN proofs = 1 .. Len(proofs) /\ Len(proofs) \in Nat
      /\ \A i \in 1 .. Len(proofs) : proofs[i] \in Placed
  OBVIOUS
<1>2. IsFiniteSet(D)
  <2>1. IsFiniteSet(1 .. Len(proofs))
    BY <1>1, FS_Interval
  <2> QED
    BY <2>1, FS_Subset
<1>3. \A i \in D : proofs[i].end \in S
  BY <1>1 DEF ToSet
<1>4. \A t \in S : \E i \in D : f[i] = t
  BY <1>1 DEF ToSet
<1>5. S \in SUBSET Int
  <2>1. \A i \in D : f[i] \in Int
    BY <1>1 DEF Placed
  <2> HIDE DEF S, D, f
  <2> QED
    BY <1>4, <2>1
<1>6. f \in [D -> S]
  <2> HIDE DEF S, D
  <2> QED
    BY <1>3
<1>7. S # {}
  <2>1. \E i \in D : TRUE
    BY <1>1
  <2> HIDE DEF S, D
  <2> QED
    BY <1>3, <2>1
<1>8. ChunksEnd(proofs) = Max(S)
  BY DEF ChunksEnd
<1> HIDE DEF S, D, f
<1>9. f \in Surjection(D, S)
  BY <1>4, <1>6, Fun_IsSurj
<1>10. IsFiniteSet(S)
  BY <1>2, <1>9, FS_Surjection
<1>11. Max(S) \in S
  BY <1>5, <1>7, <1>10, FiniteMax
<1> QED
  BY <1>5, <1>8, <1>11

LEMMA PlaceCommitteeKeeps ==
    ASSUME NEW policy \in Policies, policy.lanes \in Nat \ {0},
           NEW held \in Held(policy.lanes),
           NEW placed, placed = PlaceCommittee(held, policy)
    PROVE  placed \in After(policy.lanes, held.proofs)
<1> DEFINE n == policy.committee_chunks
           base == held.proofs
           V == After(policy.lanes, base)
           each == Upto(n)
           cost == committee_chunk_s(policy.validators, policy.committee_chunks)
           next(h, c) == Place(h, policy, "committee", {c}, 0, cost)
           op == [p \in V \X (1 .. n) |-> next(p[1], p[2] - 1)]
           Unfolds(f) == f = [s \in SUBSET (1 .. n) |->
                                IF s = {} THEN held ELSE next(f[s \ {Max(s)}], each[Max(s)])]
           fold == CHOOSE f : Unfolds(f)
<1>1. n \in Nat \ {0} /\ policy.validators \in Nat
      /\ DOMAIN each = 1 .. n /\ \A k \in 1 .. n : each[k] = k - 1
  <2>1. n \in Nat \ {0} /\ policy.validators \in Nat
    BY DEF Policies
  <2> QED
    BY <2>1 DEF Upto
<1>2. base \in Seq(Placed) /\ held \in V
  <2>1. base \in Seq(Placed) /\ Len(base) \in Nat
    BY HeldIs
  <2>2. GoesOnFrom(base, base)
    BY <2>1 DEF GoesOnFrom
  <2> QED
    BY <2>1, <2>2 DEF After
<1>3. cost \in Nat /\ committee_fold_s(policy.committee_chunks) \in Nat
  BY <1>1, CommitteePricesType
<1>4. ASSUME NEW h \in V, NEW c \in Int
      PROVE  /\ next(h, c) \in V
             /\ \E p \in Placed : p.stage = "committee" /\ next(h, c).proofs = Append(h.proofs, p)
  <2>1. PICK covers \in SUBSET Int : covers = {c}
    OBVIOUS
  <2>2. "committee" \in CommitteeStages /\ 0 \in Int
    BY DEF CommitteeStages
  <2>3. PICK duration \in Nat : duration = cost
    BY <1>3
  <2>4. IsPlacedAfter(base, h, policy, "committee", covers, 0, duration)
    <3> HIDE DEF base
    <3>1. h \in After(policy.lanes, base) /\ base \in Seq(Placed)
      BY <1>2
    <3> QED
      BY <2>2, <3>1, CommitteeIsPlaced
  <2> QED
    BY <2>1, <2>3, <2>4 DEF IsPlacedAfter
<1> HIDE DEF cost
<1>5. IsTable(op, V, n)
  <2>1. ASSUME NEW h \in V, NEW c \in 1 .. n PROVE next(h, c - 1) \in V
    <3>1. c - 1 \in Int
      BY <1>1
    <3> QED
      BY <1>4, <3>1
  <2> HIDE DEF next, V, n
  <2> QED
    BY <2>1 DEF IsTable
<1>6. PICK h, r : IsFoldOf(h, op, held, V, n) /\ IsRunOf(r, op, held, V, n)
                  /\ r[n] = h[1 .. n]
  <2>1. n \in Nat
    BY <1>1
  <2> HIDE DEF n, op, V
  <2> QED
    BY <2>1, <1>2, <1>5, FoldRuns
<1>7. h \in [SUBSET (1 .. n) -> V]
      /\ h = [s \in SUBSET (1 .. n) |->
                IF s = {} THEN held ELSE op[<<h[s \ {Max(s)}], Max(s)>>]]
  BY <1>6 DEF IsFoldOf
<1>8. \A s \in SUBSET (1 .. n) : s # {} =>
         op[<<h[s \ {Max(s)}], Max(s)>>] = next(h[s \ {Max(s)}], each[Max(s)])
  <2> SUFFICES ASSUME NEW s \in SUBSET (1 .. n), s # {}
               PROVE  op[<<h[s \ {Max(s)}], Max(s)>>] = next(h[s \ {Max(s)}], each[Max(s)])
    OBVIOUS
  <2>1. Max(s) \in 1 .. n /\ s \ {Max(s)} \in SUBSET (1 .. n)
    BY <1>1, MaxOfFirst
  <2>2. each[Max(s)] = Max(s) - 1
    BY <1>1, <2>1
  <2> HIDE DEF next, V, n, each
  <2>3. h[s \ {Max(s)}] \in V
    BY <1>7, <2>1
  <2>4. <<h[s \ {Max(s)}], Max(s)>> \in V \X (1 .. n)
    BY <2>1, <2>3
  <2>5. op[<<h[s \ {Max(s)}], Max(s)>>] = next(h[s \ {Max(s)}], Max(s) - 1)
    BY <2>4
  <2> QED
    BY <2>2, <2>5
<1>9. Unfolds(h)
  <2> HIDE DEF next, op, n, each
  <2>1. [s \in SUBSET (1 .. n) |->
           IF s = {} THEN held ELSE op[<<h[s \ {Max(s)}], Max(s)>>]]
        = [s \in SUBSET (1 .. n) |->
             IF s = {} THEN held ELSE next(h[s \ {Max(s)}], each[Max(s)])]
    BY <1>8
  <2> QED
    BY <1>7, <2>1
<1>10. Unfolds(fold)
  <2> HIDE DEF Unfolds
  <2> QED
    BY <1>9
<1> DEFINE chunked == FoldLeft(LAMBDA x, c :
                          Place(x, policy, "committee", {c}, 0,
                                committee_chunk_s(policy.validators, policy.committee_chunks)),
                          held, Upto(policy.committee_chunks))
<1>11. chunked = fold[1 .. n]
  BY <1>1, SMT DEF FoldLeft, MapThenFoldSet, cost
<1> HIDE DEF fold
<1>12. fold[1 .. n] = r[n]
  <2> HIDE DEF next, op, n, each
  <2>1. \A s \in SUBSET (1 .. n) :
           fold[s] = IF s = {} THEN held ELSE next(fold[s \ {Max(s)}], each[Max(s)])
    BY <1>10
  <2>2. \A s \in SUBSET (1 .. n) :
           h[s] = IF s = {} THEN held ELSE next(h[s \ {Max(s)}], each[Max(s)])
    BY <1>9
  <2>3. fold[{}] = h[{}]
    BY <2>1, <2>2
  <2>4. StepsAgree(fold, h, n)
    BY <2>1, <2>2, <2>3 DEF StepsAgree
  <2>5. fold[1 .. n] = h[1 .. n]
    BY <1>1, <2>4, FoldAgrees
  <2> QED
    BY <1>6, <2>5
<1>13. PICK x : x = chunked
  OBVIOUS
<1>14. x \in V /\ \E i \in 1 .. Len(x.proofs) : x.proofs[i].stage = "committee"
  <2>1. r \in [0 .. n -> V] /\ r[n] = op[<<r[n - 1], n>>]
    <3>1. n \in 1 .. n
      BY <1>1
    <3> HIDE DEF op, V, n
    <3> QED
      BY <1>6, <3>1 DEF IsRunOf
  <2>2. n - 1 \in 0 .. n /\ n \in 1 .. n /\ n \in 0 .. n
    BY <1>1
  <2>3. PICK y \in V : y = r[n - 1]
    <3> HIDE DEF V, n
    <3> QED
      BY <2>1, <2>2
  <2>4. r[n] = next(y, n - 1)
    <3> HIDE DEF V, next, n
    <3>1. <<y, n>> \in V \X (1 .. n)
      BY <2>2
    <3> QED
      BY <2>1, <2>3, <3>1
  <2>5. x = next(y, n - 1)
    BY <1>11, <1>12, <1>13, <2>4
  <2>6. PICK p \in Placed : p.stage = "committee" /\ x.proofs = Append(y.proofs, p)
    <3>1. n - 1 \in Int
      BY <1>1
    <3> HIDE DEF next, V, n
    <3>2. \E p \in Placed : p.stage = "committee"
                            /\ next(y, n - 1).proofs = Append(y.proofs, p)
      BY <1>4, <3>1
    <3> QED
      BY <2>5, <3>2
  <2>7. y.proofs \in Seq(Placed)
    BY HeldIs DEF After
  <2>8. Len(y.proofs) + 1 \in 1 .. Len(x.proofs) /\ x.proofs[Len(y.proofs) + 1] = p
    BY <2>6, <2>7
  <2>9. x \in V
    <3> HIDE DEF V, n
    <3> QED
      BY <1>11, <1>12, <1>13, <2>1, <2>2
  <2> QED
    BY <2>6, <2>8, <2>9
<1>15. placed = IF policy.validators = 0 THEN held
                ELSE Committed(x, policy, ChunksEnd(x.proofs))
  BY <1>13 DEF PlaceCommittee, ChunksEnd
<1>16. Committed(x, policy, ChunksEnd(x.proofs)) \in V
  <2>1. CASE policy.committee_chunks = 1
    BY <1>14, <2>1 DEF Committed
  <2>2. CASE policy.committee_chunks # 1
    <3>1. x.proofs \in Seq(Placed)
      BY <1>14, HeldIs DEF After
    <3>2. PICK release \in Int : release = ChunksEnd(x.proofs)
      BY <1>14, <3>1, ChunksEndType
    <3>3. PICK duration \in Nat : duration = committee_fold_s(policy.committee_chunks)
      BY <1>3
    <3>4. PICK covers \in SUBSET Int : covers = Indices(policy.committee_chunks)
      BY <1>1 DEF Indices
    <3>5. "committee_fold" \in CommitteeStages
      BY DEF CommitteeStages
    <3>6. IsPlacedAfter(base, x, policy, "committee_fold", covers, release, duration)
      <4> HIDE DEF base
      <4>1. x \in After(policy.lanes, base) /\ base \in Seq(Placed)
        BY <1>2, <1>14
      <4> QED
        BY <3>5, <4>1, CommitteeIsPlaced
    <3> QED
      BY <2>2, <3>2, <3>3, <3>4, <3>6 DEF Committed, IsPlacedAfter
  <2> QED
    BY <2>1, <2>2
<1> QED
  BY <1>2, <1>15, <1>16

-----------------------------------------------------------------------------
(* A whole simulation.                                                     *)

\* Each of a split's members is in one of the parts.
LEMMA OnceEach ==
    ASSUME NEW n \in Nat, NEW parts \in Seq(SUBSET (1 .. n)), NEW rest \in SUBSET (1 .. n),
           Splits(parts, rest, n), NEW i \in 1 .. n
    PROVE  Cardinality({k \in DOMAIN Append(parts, rest) : i \in Append(parts, rest)[k]}) = 1
<1> DEFINE all == Append(parts, rest)
           c == Len(parts)
           K == {k \in DOMAIN all : i \in all[k]}
<1>1. /\ DOMAIN all = 1 .. c + 1 /\ c \in Nat
      /\ \A k \in 1 .. c : all[k] = parts[k]
      /\ all[c + 1] = rest
  BY AppendIs
<1> HIDE DEF all
<1>2. i \in rest <=> ~ \E k \in 1 .. c : i \in parts[k]
  BY DEF Splits
<1>3. \A k \in DOMAIN all : k \in 1 .. c \/ k = c + 1
  BY <1>1
<1>4. CASE i \in rest
  <2>1. K = {c + 1}
    <3>1. c + 1 \in K
      BY <1>1, <1>4
    <3>2. ASSUME NEW k \in K PROVE k = c + 1
      BY <1>1, <1>2, <1>3, <1>4
    <3> QED
      BY <3>1, <3>2
  <2>2. Cardinality(K) = 1
    <3> HIDE DEF K
    <3>1. Cardinality({c + 1}) = 1
      BY FS_Singleton
    <3> QED
      BY <2>1, <3>1
  <2> QED
    BY <2>2 DEF all
<1>5. CASE i \notin rest
  <2>1. PICK m \in 1 .. c : i \in parts[m]
    BY <1>2, <1>5
  <2>2. K = {m}
    <3>1. m \in K
      BY <1>1, <2>1
    <3>2. ASSUME NEW k \in K PROVE k = m
      <4>1. k \in 1 .. c /\ i \in parts[k]
        BY <1>1, <1>3, <1>5
      <4> QED
        BY <2>1, <4>1 DEF Splits
    <3> QED
      BY <3>1, <3>2
  <2>3. Cardinality(K) = 1
    <3> HIDE DEF K
    <3>1. Cardinality({m}) = 1
      BY FS_Singleton
    <3> QED
      BY <2>2, <3>1
  <2> QED
    BY <2>3 DEF all
<1> QED
  BY <1>4, <1>5 DEF all

\* Where each kind of proof is.
IsLaidOut(proofs, n, folds, absorbed) ==
    LET f == Len(folds)
    IN /\ Len(proofs) >= n + f + 2
       /\ \A g \in 1 .. n : proofs[g].stage = "group" /\ proofs[g].covers = {g}
       /\ \A k \in 1 .. f : proofs[n + k].stage = "fold" /\ proofs[n + k].covers = folds[k]
       /\ proofs[n + f + 1].stage = "final" /\ proofs[n + f + 1].covers = absorbed
       /\ proofs[n + f + 2].stage = "wrap"
       /\ \A i \in 1 .. Len(proofs) : i > n + f + 2 => proofs[i].stage \in CommitteeStages

\* A proof is found by its stage and what it takes in.
Lookup(T, stage, covers) == CHOOSE p \in T : p.stage = stage /\ p.covers = covers

LooksUp(T, proofs, n, folds, absorbed) ==
    /\ \A g \in 1 .. n : Lookup(T, "group", {g}) = proofs[g]
    /\ \A k \in 1 .. Len(folds) : Lookup(T, "fold", folds[k]) = proofs[n + k]
    /\ Lookup(T, "final", absorbed) = proofs[n + Len(folds) + 1]

LEMMA LookupIs ==
    ASSUME NEW proofs \in Seq(Placed), NEW n \in Nat, NEW folds \in Seq(SUBSET (1 .. n)),
           NEW absorbed, Splits(folds, absorbed, n), IsLaidOut(proofs, n, folds, absorbed),
           NEW T, T = ToSet(proofs)
    PROVE  LooksUp(T, proofs, n, folds, absorbed)
<1> DEFINE f == Len(folds)
           N == Len(proofs)
<1>1. f \in Nat /\ N \in Nat /\ N >= n + f + 2 /\ DOMAIN proofs = 1 .. N
  BY DEF IsLaidOut
<1>2. \A p : p \in T <=> \E i \in 1 .. N : proofs[i] = p
  BY <1>1 DEF ToSet
<1>3. \A i \in 1 .. N : \/ i \in 1 .. n
                        \/ \E k \in 1 .. f : i = n + k
                        \/ i = n + f + 1 \/ i = n + f + 2 \/ i > n + f + 2
  <2> SUFFICES ASSUME NEW i \in 1 .. N, i \notin 1 .. n, ~(i > n + f)
               PROVE  \E k \in 1 .. f : i = n + k
    BY <1>1
  <2>1. i - n \in 1 .. f /\ i = n + (i - n)
    BY <1>1
  <2> QED
    BY <2>1
<1>4. /\ \A g \in 1 .. n : proofs[g].stage = "group" /\ proofs[g].covers = {g}
      /\ \A k \in 1 .. f : proofs[n + k].stage = "fold" /\ proofs[n + k].covers = folds[k]
      /\ proofs[n + f + 1].stage = "final" /\ proofs[n + f + 1].covers = absorbed
      /\ proofs[n + f + 2].stage = "wrap"
      /\ \A i \in 1 .. N : i > n + f + 2 => proofs[i].stage \in CommitteeStages
  BY DEF IsLaidOut
<1> HIDE DEF f, N
<1>5. ASSUME NEW g \in 1 .. n PROVE Lookup(T, "group", {g}) = proofs[g]
  <2>1. ASSUME NEW i \in 1 .. N, proofs[i].stage = "group", proofs[i].covers = {g} PROVE i = g
    <3>1. i \in 1 .. n
      BY <1>3, <1>4, <2>1 DEF CommitteeStages
    <3>2. {i} = {g}
      BY <1>4, <2>1, <3>1
    <3> QED
      BY <3>2
  <2>2. proofs[g] \in T /\ proofs[g].stage = "group" /\ proofs[g].covers = {g}
    <3>1. g \in 1 .. N
      BY <1>1
    <3> QED
      BY <1>2, <1>4, <3>1
  <2>3. \A p \in T : p.stage = "group" /\ p.covers = {g} => p = proofs[g]
    BY <1>2, <2>1
  <2> QED
    BY <2>2, <2>3 DEF Lookup
<1>6. ASSUME NEW k \in 1 .. f PROVE Lookup(T, "fold", folds[k]) = proofs[n + k]
  <2>1. ASSUME NEW i \in 1 .. N, proofs[i].stage = "fold", proofs[i].covers = folds[k]
        PROVE  i = n + k
    <3>1. PICK j \in 1 .. f : i = n + j
      BY <1>3, <1>4, <2>1 DEF CommitteeStages
    <3>2. folds[j] = folds[k]
      BY <1>4, <2>1, <3>1
    <3>3. PICK g \in folds[k] : TRUE
      BY DEF Splits, f
    <3>4. g \in 1 .. n
      BY DEF f
    <3>5. j = k
      BY <3>2, <3>3, <3>4 DEF Splits, f
    <3> QED
      BY <3>1, <3>5
  <2>2. proofs[n + k] \in T /\ proofs[n + k].stage = "fold" /\ proofs[n + k].covers = folds[k]
    <3>1. n + k \in 1 .. N
      BY <1>1
    <3> QED
      BY <1>2, <1>4, <3>1
  <2>3. \A p \in T : p.stage = "fold" /\ p.covers = folds[k] => p = proofs[n + k]
    BY <1>2, <2>1
  <2> QED
    BY <2>2, <2>3 DEF Lookup
<1>7. Lookup(T, "final", absorbed) = proofs[n + f + 1]
  <2>1. ASSUME NEW i \in 1 .. N, proofs[i].stage = "final" PROVE i = n + f + 1
    BY <1>3, <1>4, <2>1 DEF CommitteeStages
  <2>2. proofs[n + f + 1] \in T /\ proofs[n + f + 1].stage = "final"
        /\ proofs[n + f + 1].covers = absorbed
    <3>1. n + f + 1 \in 1 .. N
      BY <1>1
    <3> QED
      BY <1>2, <1>4, <3>1
  <2>3. \A p \in T : p.stage = "final" /\ p.covers = absorbed => p = proofs[n + f + 1]
    BY <1>2, <2>1
  <2> QED
    BY <2>2, <2>3 DEF Lookup
<1> QED
  BY <1>5, <1>6, <1>7 DEF f, LooksUp

\* No two proofs of a lane overlap.
LanesApart(proofs) ==
    \A i, j \in 1 .. Len(proofs) :
       (i < j /\ proofs[i].lane = proofs[j].lane) =>
          \/ proofs[i].end <= proofs[j].start
          \/ proofs[j].end <= proofs[i].start

\* The order of their starts is another order of the same proofs.
ByStart(proofs) == StableSort(proofs, [i \in DOMAIN proofs |-> proofs[i].start])

LEMMA ByStartIs ==
    ASSUME NEW proofs \in Seq(Placed), LanesApart(proofs)
    PROVE  /\ ByStart(proofs) \in Seq(Placed)
           /\ ToSet(ByStart(proofs)) = ToSet(proofs)
           /\ LanesApart(ByStart(proofs))
<1> DEFINE n == Len(proofs)
           keys == [i \in DOMAIN proofs |-> proofs[i].start]
           order == StableOrder(keys)
           sorted == ByStart(proofs)
<1>1. n \in Nat /\ DOMAIN proofs = 1 .. n /\ \A i \in 1 .. n : proofs[i] \in Placed
  OBVIOUS
<1>2. keys \in [1 .. n -> Int]
  BY <1>1 DEF Placed
<1>3. sorted = StableSort(proofs, keys)
  BY DEF ByStart
<1>4. DOMAIN keys = 1 .. n
  BY <1>1
<1> HIDE DEF keys
<1>5. /\ sorted \in Seq(Placed) /\ Len(sorted) = n
      /\ \A k \in 1 .. n : \E i \in 1 .. n : sorted[k] = proofs[i]
      /\ \A i \in 1 .. n : \E k \in 1 .. n : sorted[k] = proofs[i]
  <2> DEFINE q == StableSort(proofs, keys)
  <2>1. /\ q \in Seq(Placed) /\ Len(q) = n
        /\ \A k \in 1 .. n : \E i \in 1 .. n : q[k] = proofs[i]
        /\ \A i \in 1 .. n : \E k \in 1 .. n : q[k] = proofs[i]
    BY <1>2, StableSortIs
  <2> HIDE DEF q, sorted
  <2>2. sorted = q
    BY <1>3 DEF q
  <2> QED
    BY <2>1, <2>2
<1>6. /\ order \in [1 .. n -> 1 .. n]
      /\ \A j, k \in 1 .. n : order[j] = order[k] => j = k
  BY <1>1, <1>2, StableOrderSorts
<1>7. \A k \in 1 .. n : sorted[k] = proofs[order[k]]
  BY <1>3, <1>4 DEF StableSort
<1> HIDE DEF sorted, order
<1>8. DOMAIN sorted = 1 .. n
  BY <1>5
<1>9. ToSet(sorted) = ToSet(proofs)
  <2>1. \A p : p \in ToSet(sorted) <=> \E k \in 1 .. n : sorted[k] = p
    BY <1>8 DEF ToSet
  <2>2. \A p : p \in ToSet(proofs) <=> \E i \in 1 .. n : proofs[i] = p
    BY <1>1 DEF ToSet
  <2> HIDE DEF n
  <2>3. \A p : p \in ToSet(sorted) <=> p \in ToSet(proofs)
    BY <1>5, <2>1, <2>2
  <2> QED
    BY <2>3
<1>10. \A i, j \in 1 .. n :
          (i # j /\ proofs[i].lane = proofs[j].lane) =>
             \/ proofs[i].end <= proofs[j].start
             \/ proofs[j].end <= proofs[i].start
  BY <1>1 DEF LanesApart
<1>11. ASSUME NEW i \in 1 .. n, NEW j \in 1 .. n, i < j, sorted[i].lane = sorted[j].lane
       PROVE  \/ sorted[i].end <= sorted[j].start
              \/ sorted[j].end <= sorted[i].start
  <2>1. PICK a \in 1 .. n, b \in 1 .. n : a = order[i] /\ b = order[j]
    BY <1>6
  <2>2. a # b
    BY <1>1, <1>6, <1>11, <2>1
  <2>3. sorted[i] = proofs[a] /\ sorted[j] = proofs[b]
    BY <1>7, <2>1
  <2> QED
    BY <1>10, <1>11, <2>2, <2>3
<1>12. LanesApart(sorted)
  BY <1>5, <1>11 DEF LanesApart
<1> QED
  BY <1>5, <1>9, <1>12 DEF sorted

\* Every part of a list is taken in once.
Once(parts, i) == Cardinality({k \in DOMAIN parts : i \in parts[k]}) = 1

\* What run_native relies on, part by part.
StartsInOrder(units, plan, T) ==
    LET members == UNION ToSet(plan.groups)
    IN /\ \A g \in DOMAIN plan.groups :
             Lookup(T, "group", {g}).start >= arrival(units, LastOf(plan.groups[g]))
       /\ \A k \in DOMAIN plan.folds :
             /\ \A g \in plan.folds[k] :
                   Lookup(T, "fold", plan.folds[k]).start >= Lookup(T, "group", {g}).end
             /\ k > 1 => Lookup(T, "fold", plan.folds[k]).start
                            >= Lookup(T, "fold", plan.folds[k - 1]).end
       /\ \A g \in plan.absorbed :
             Lookup(T, "final", plan.absorbed).start >= Lookup(T, "group", {g}).end
       /\ plan.folds # <<>> => Lookup(T, "final", plan.absorbed).start
                                  >= Lookup(T, "fold", plan.folds[Len(plan.folds)]).end
       /\ Lookup(T, "final", plan.absorbed).start
             >= arrival(units, LastOf(members \cup plan.tail))

LEMMA RunnableByParts ==
    ASSUME NEW units, NEW plan,
           \A i \in 1 .. LastOf((UNION ToSet(plan.groups)) \cup plan.tail) :
              Once(Append(plan.groups, plan.tail), i),
           \A g \in DOMAIN plan.groups : Once(Append(plan.folds, plan.absorbed), g),
           DOMAIN plan.proofs = 1 .. Len(plan.proofs), LanesApart(plan.proofs),
           StartsInOrder(units, plan, ToSet(plan.proofs))
    PROVE  Runnable(units, plan)
<1>1. /\ \A g \in DOMAIN plan.groups :
             Lookup(ToSet(plan.proofs), "group", {g}).start
                >= arrival(units, LastOf(plan.groups[g]))
      /\ \A k \in DOMAIN plan.folds :
             /\ \A g \in plan.folds[k] :
                   Lookup(ToSet(plan.proofs), "fold", plan.folds[k]).start
                      >= Lookup(ToSet(plan.proofs), "group", {g}).end
             /\ k > 1 => Lookup(ToSet(plan.proofs), "fold", plan.folds[k]).start
                            >= Lookup(ToSet(plan.proofs), "fold", plan.folds[k - 1]).end
  BY DEF StartsInOrder
<1>2. /\ \A g \in plan.absorbed :
             Lookup(ToSet(plan.proofs), "final", plan.absorbed).start
                >= Lookup(ToSet(plan.proofs), "group", {g}).end
      /\ plan.folds # <<>> => Lookup(ToSet(plan.proofs), "final", plan.absorbed).start
                                 >= Lookup(ToSet(plan.proofs), "fold",
                                           plan.folds[Len(plan.folds)]).end
      /\ Lookup(ToSet(plan.proofs), "final", plan.absorbed).start
             >= arrival(units, LastOf((UNION ToSet(plan.groups)) \cup plan.tail))
  BY DEF StartsInOrder
<1>3. \A i, j \in DOMAIN plan.proofs :
         (i < j /\ plan.proofs[i].lane = plan.proofs[j].lane) =>
            \/ plan.proofs[i].end <= plan.proofs[j].start
            \/ plan.proofs[j].end <= plan.proofs[i].start
  BY DEF LanesApart
<1>4. \A i \in 1 .. LastOf((UNION ToSet(plan.groups)) \cup plan.tail) :
         Cardinality({k \in DOMAIN Append(plan.groups, plan.tail) :
                        i \in Append(plan.groups, plan.tail)[k]}) = 1
  BY DEF Once
<1>5. \A g \in DOMAIN plan.groups :
         Cardinality({k \in DOMAIN Append(plan.folds, plan.absorbed) :
                        g \in Append(plan.folds, plan.absorbed)[k]}) = 1
  BY DEF Once
<1> QED
  BY <1>1, <1>2, <1>3, <1>4, <1>5, Zenon DEF Runnable, Lookup

\* A simulated proof order, laid out.
LEMMA FinishedIsLaidOut ==
    ASSUME NEW units, NEW groups, NEW first \in Seq(Placed), Len(first) = Len(groups),
           AreGroups(first, units, groups, Len(groups)),
           NEW w, NEW L, NEW deadline, IsFinished(w, first, L, deadline),
           NEW proofs, GoesOnFrom(proofs, w.proofs)
    PROVE  /\ IsLaidOut(proofs, Len(first), w.folds, w.absorbed)
           /\ \A i \in 1 .. Len(w.proofs) : proofs[i] = w.proofs[i]
<1> DEFINE n == Len(first)
           f == Len(w.folds)
<1>1. /\ n \in Nat /\ f \in Nat
      /\ Keeps(w.proofs, first) /\ AreFolds(w.proofs, first, w.folds)
      /\ Len(w.proofs) = n + f + 2
      /\ w.proofs[n + f + 1].stage = "final" /\ w.proofs[n + f + 1].covers = w.absorbed
      /\ w.proofs[n + f + 2].stage = "wrap"
  BY DEF IsFinished, IsFinal
<1> HIDE DEF f
<1>2. /\ Len(proofs) >= n + f + 2
      /\ \A i \in 1 .. n + f + 2 : proofs[i] = w.proofs[i]
      /\ \A i \in 1 .. Len(proofs) : i > n + f + 2 => proofs[i].stage \in CommitteeStages
  BY <1>1 DEF GoesOnFrom
<1>3. \A g \in 1 .. n : g \in 1 .. n + f + 2
  BY <1>1
<1>4. \A k \in 1 .. f : n + k \in 1 .. n + f + 2
  BY <1>1
<1>5. n + f + 1 \in 1 .. n + f + 2 /\ n + f + 2 \in 1 .. n + f + 2
  BY <1>1
<1>6. \A g \in 1 .. n : proofs[g].stage = "group" /\ proofs[g].covers = {g}
  <2>1. ASSUME NEW g \in 1 .. n PROVE proofs[g].stage = "group" /\ proofs[g].covers = {g}
    <3>1. first[g].stage = "group" /\ first[g].covers = {g}
      BY DEF AreGroups
    <3>2. proofs[g] = w.proofs[g]
      BY <1>2, <1>3
    <3>3. w.proofs[g] = first[g]
      BY <1>1 DEF Keeps
    <3> QED
      BY <3>1, <3>2, <3>3
  <2> QED
    BY <2>1
<1>7. \A k \in 1 .. f : proofs[n + k].stage = "fold" /\ proofs[n + k].covers = w.folds[k]
  <2>1. ASSUME NEW k \in 1 .. f
        PROVE  proofs[n + k].stage = "fold" /\ proofs[n + k].covers = w.folds[k]
    <3>1. w.proofs[n + k].stage = "fold" /\ w.proofs[n + k].covers = w.folds[k]
      BY <1>1 DEF AreFolds, f
    <3>2. proofs[n + k] = w.proofs[n + k]
      BY <1>2, <1>4
    <3> QED
      BY <3>1, <3>2
  <2> QED
    BY <2>1
<1>8. /\ proofs[n + f + 1].stage = "final" /\ proofs[n + f + 1].covers = w.absorbed
      /\ proofs[n + f + 2].stage = "wrap"
  BY <1>1, <1>2, <1>5
<1>9. \A i \in 1 .. Len(w.proofs) : proofs[i] = w.proofs[i]
  BY <1>1, <1>2
<1> QED
  BY <1>2, <1>6, <1>7, <1>8, <1>9 DEF IsLaidOut, f

\* The units in the groups and the tail are all there are.
LEMMA AllMembers ==
    ASSUME NEW last \in Nat \ {0}, NEW groups \in Seq(SUBSET (1 .. last)),
           NEW tail \in SUBSET (1 .. last), Splits(groups, tail, last)
    PROVE  /\ (UNION ToSet(groups)) \cup tail = 1 .. last
           /\ LastOf((UNION ToSet(groups)) \cup tail) = last
<1> DEFINE all == (UNION ToSet(groups)) \cup tail
<1>1. /\ DOMAIN groups = 1 .. Len(groups)
      /\ \A k \in 1 .. Len(groups) : groups[k] \in SUBSET (1 .. last)
  OBVIOUS
<1>2. \A i : i \in all <=> i \in tail \/ \E k \in 1 .. Len(groups) : i \in groups[k]
  BY <1>1 DEF ToSet
<1> HIDE DEF all
<1>3. all = 1 .. last
  <2>1. ASSUME NEW i \in all PROVE i \in 1 .. last
    BY <1>1, <1>2
  <2>2. ASSUME NEW i \in 1 .. last PROVE i \in all
    BY <1>2 DEF Splits
  <2> QED
    BY <2>1, <2>2
<1>4. last \in all /\ last \in Nat
  BY <1>3
<1>5. LastOf(1 .. last) \in 1 .. last /\ \A j \in 1 .. last : j <= LastOf(1 .. last)
  <2>1. 1 .. last \in SUBSET (1 .. last) /\ 1 .. last # {}
    OBVIOUS
  <2> QED
    BY <2>1, LastOfIs
<1>6. LastOf(1 .. last) = last
  <2>1. LastOf(1 .. last) \in Int /\ LastOf(1 .. last) <= last
    BY <1>5
  <2>2. last <= LastOf(1 .. last)
    BY <1>5
  <2> QED
    BY <2>1, <2>2
<1> QED
  BY <1>3, <1>6 DEF all

\* Every proof starts after what it is made of.
LEMMA FinishedStartsInOrder ==
    ASSUME NEW units, NEW last \in Nat \ {0}, NEW groups \in Seq(SUBSET (1 .. last)),
           NEW tail \in SUBSET (1 .. last), Splits(groups, tail, last),
           NEW first \in Seq(Placed), Len(first) = Len(groups),
           AreGroups(first, units, groups, Len(groups)),
           NEW deadline \in Int, arrival(units, last) <= deadline, arrival(units, last) \in Int,
           NEW w, NEW L, IsFinished(w, first, L, deadline),
           NEW proofs \in Seq(Placed), GoesOnFrom(proofs, w.proofs),
           NEW plan, plan.groups = groups, plan.tail = tail,
           plan.folds = w.folds, plan.absorbed = w.absorbed
    PROVE  StartsInOrder(units, plan, ToSet(proofs))
<1> DEFINE n == Len(first)
           f == Len(w.folds)
           T == ToSet(proofs)
<1>1. /\ n \in Nat /\ f \in Nat /\ DOMAIN groups = 1 .. n /\ DOMAIN w.folds = 1 .. f
      /\ w.folds \in Seq(SUBSET (1 .. n)) /\ w.absorbed \in SUBSET (1 .. n)
      /\ Splits(w.folds, w.absorbed, n)
      /\ Keeps(w.proofs, first) /\ AreFolds(w.proofs, first, w.folds)
      /\ Len(w.proofs) = n + f + 2
      /\ IsFinal(w.proofs[n + f + 1], w.proofs, first, w.folds, w.absorbed, deadline)
  BY DEF IsFinished
<1>2. IsLaidOut(proofs, n, w.folds, w.absorbed)
      /\ \A i \in 1 .. Len(w.proofs) : proofs[i] = w.proofs[i]
  BY FinishedIsLaidOut
<1> HIDE DEF f, n, T
<1>3. /\ \A g \in 1 .. n : Lookup(T, "group", {g}) = proofs[g]
      /\ \A k \in 1 .. f : Lookup(T, "fold", w.folds[k]) = proofs[n + k]
      /\ Lookup(T, "final", w.absorbed) = proofs[n + f + 1]
  <2>1. T = ToSet(proofs)
    BY DEF T
  <2>2. LooksUp(T, proofs, n, w.folds, w.absorbed)
    BY <1>1, <1>2, <2>1, LookupIs
  <2> QED
    BY <2>2 DEF LooksUp, f
<1>4. \A g \in 1 .. n : proofs[g] = first[g]
  <2>1. ASSUME NEW g \in 1 .. n PROVE proofs[g] = first[g]
    <3>1. g \in 1 .. n + f + 2
      BY <1>1
    <3> QED
      BY <1>1, <1>2, <3>1 DEF Keeps, n
  <2> QED
    BY <2>1
<1>5. \A k \in 1 .. f : proofs[n + k] = w.proofs[n + k]
  <2>1. ASSUME NEW k \in 1 .. f PROVE n + k \in 1 .. n + f + 2
    BY <1>1
  <2> QED
    BY <1>1, <1>2, <2>1
<1>6. proofs[n + f + 1] = w.proofs[n + f + 1]
  <2>1. n + f + 1 \in 1 .. n + f + 2
    BY <1>1
  <2> QED
    BY <1>1, <1>2, <2>1
<1>7. ASSUME NEW g \in DOMAIN groups
      PROVE  Lookup(T, "group", {g}).start >= arrival(units, LastOf(groups[g]))
  <2>1. g \in 1 .. n
    BY <1>1
  <2> QED
    BY <1>3, <1>4, <2>1 DEF AreGroups, n
<1>8. ASSUME NEW k \in DOMAIN w.folds
      PROVE  /\ \A g \in w.folds[k] :
                   Lookup(T, "fold", w.folds[k]).start >= Lookup(T, "group", {g}).end
             /\ k > 1 => Lookup(T, "fold", w.folds[k]).start
                            >= Lookup(T, "fold", w.folds[k - 1]).end
  <2>1. k \in 1 .. f /\ k \in Int /\ f \in Int
    BY <1>1
  <2>2. \A g \in w.folds[k] : g \in 1 .. n
    BY <1>1, <2>1 DEF f
  <2>3. /\ \A g \in w.folds[k] : w.proofs[n + k].start >= first[g].end
        /\ k > 1 => w.proofs[n + k].start >= w.proofs[n + (k - 1)].end
    BY <1>1, <2>1 DEF AreFolds, n, f
  <2>4. k > 1 => k - 1 \in 1 .. f
    BY <2>1
  <2>5. proofs[n + k] = w.proofs[n + k] /\ Lookup(T, "fold", w.folds[k]) = proofs[n + k]
    BY <1>3, <1>5, <2>1
  <2>6. k > 1 => /\ proofs[n + (k - 1)] = w.proofs[n + (k - 1)]
                 /\ Lookup(T, "fold", w.folds[k - 1]) = proofs[n + (k - 1)]
    BY <1>3, <1>5, <2>4
  <2>7. \A g \in w.folds[k] : Lookup(T, "group", {g}) = first[g]
    BY <1>3, <1>4, <2>2
  <2> QED
    BY <2>3, <2>5, <2>6, <2>7
<1>9. /\ \A g \in w.absorbed : proofs[n + f + 1].start >= first[g].end
      /\ EndedBy(w.proofs, first, w.folds, proofs[n + f + 1].start)
      /\ proofs[n + f + 1].start >= deadline
  BY <1>1, <1>6 DEF IsFinal
<1>10. \A g \in w.absorbed : Lookup(T, "final", w.absorbed).start >= Lookup(T, "group", {g}).end
  <2>1. \A g \in w.absorbed : g \in 1 .. n
    BY <1>1
  <2> QED
    BY <1>3, <1>4, <1>9, <2>1
<1>11. ASSUME w.folds # <<>>
       PROVE  Lookup(T, "final", w.absorbed).start >= Lookup(T, "fold", w.folds[Len(w.folds)]).end
  <2>1. f \in 1 .. f
    BY <1>1, <1>11 DEF f
  <2>2. w.proofs[n + f].end <= proofs[n + f + 1].start
    BY <1>9, <2>1 DEF EndedBy, n, f
  <2>3. Lookup(T, "fold", w.folds[f]) = proofs[n + f] /\ proofs[n + f] = w.proofs[n + f]
    BY <1>3, <1>5, <2>1
  <2>4. \A a, b : a <= b => b >= a
    OBVIOUS
  <2> QED
    BY <1>3, <2>2, <2>3 DEF f
<1>12. Lookup(T, "final", w.absorbed).start
          >= arrival(units, LastOf((UNION ToSet(groups)) \cup tail))
  <2>1. LastOf((UNION ToSet(groups)) \cup tail) = last
    BY AllMembers
  <2>2. PICK a \in Int : a = arrival(units, last)
    OBVIOUS
  <2>3. n + f + 1 \in 1 .. Len(proofs)
    BY <1>1, <1>2 DEF IsLaidOut, f, n
  <2>4. proofs[n + f + 1] \in Placed
    <3> HIDE DEF Placed
    <3> QED
      BY <2>3
  <2>5. PICK s \in Int : s = proofs[n + f + 1].start
    BY <2>4 DEF Placed
  <2>6. s >= a
    BY <1>9, <2>2, <2>5
  <2> QED
    BY <1>3, <2>1, <2>2, <2>5, <2>6
<1> QED
  BY <1>7, <1>8, <1>10, <1>11, <1>12 DEF StartsInOrder, T

\* A split of the first units, and a plan made for it.
IsSplit(groups, tail, last) ==
    /\ groups \in Seq(SUBSET (1 .. last)) /\ tail \in SUBSET (1 .. last)
    /\ Splits(groups, tail, last)

\* A plan's parts are parts of its units, and it can be run.
IsPlan(units, plan) ==
    /\ {"groups", "tail", "folds", "absorbed", "proofs"} \subseteq DOMAIN plan
    /\ plan.groups \in Seq(SUBSET (1 .. Len(units)))
    /\ plan.tail \in SUBSET (1 .. Len(units))
    /\ plan.folds \in Seq(SUBSET (1 .. Len(plan.groups)))
    /\ plan.absorbed \in SUBSET (1 .. Len(plan.groups))
    /\ Runnable(units, plan)

LEMMA FinishedIsRunnable ==
    ASSUME NEW units, Len(units) \in Nat, NEW last \in 1 .. Len(units),
           NEW groups, NEW tail, IsSplit(groups, tail, last),
           NEW first \in Seq(Placed), Len(first) = Len(groups),
           AreGroups(first, units, groups, Len(groups)),
           NEW deadline \in Int, arrival(units, last) <= deadline, arrival(units, last) \in Int,
           NEW w, NEW L, IsFinished(w, first, L, deadline),
           NEW h \in After(L, w.proofs), NEW threshold
    PROVE  IsPlan(units, Schedule(w, h.proofs, groups, tail, threshold))
<1> DEFINE plan == Schedule(w, h.proofs, groups, tail, threshold)
           proofs == h.proofs
<1>1. /\ plan.groups = groups /\ plan.tail = tail
      /\ plan.folds = w.folds /\ plan.absorbed = w.absorbed
      /\ plan.proofs = ByStart(proofs)
  BY DEF Schedule, ByStart
<1>2. /\ groups \in Seq(SUBSET (1 .. last)) /\ tail \in SUBSET (1 .. last)
      /\ Splits(groups, tail, last) /\ last \in Nat \ {0}
  BY DEF IsSplit
<1>3. proofs \in Seq(Placed) /\ GoesOnFrom(proofs, w.proofs) /\ IsHeld(h, L)
  BY HeldIs DEF After
<1>4. LanesApart(proofs)
  BY <1>3 DEF IsHeld, LanesApart, Apart, Window
<1>0. {"groups", "tail", "folds", "absorbed", "proofs"} \subseteq DOMAIN plan
  BY DEF Schedule
<1> HIDE DEF proofs, plan
<1>5. /\ ByStart(proofs) \in Seq(Placed)
      /\ ToSet(ByStart(proofs)) = ToSet(proofs)
      /\ LanesApart(ByStart(proofs))
  BY <1>3, <1>4, ByStartIs
<1>6. StartsInOrder(units, plan, ToSet(proofs))
  BY <1>1, <1>2, <1>3, FinishedStartsInOrder
<1>7. ASSUME NEW i \in 1 .. LastOf((UNION ToSet(plan.groups)) \cup plan.tail)
      PROVE  Once(Append(plan.groups, plan.tail), i)
  <2>1. i \in 1 .. last
    BY <1>1, <1>2, AllMembers
  <2> QED
    BY <1>1, <1>2, <2>1, OnceEach DEF Once
<1>8. w.folds \in Seq(SUBSET (1 .. Len(groups))) /\ w.absorbed \in SUBSET (1 .. Len(groups))
      /\ Splits(w.folds, w.absorbed, Len(groups)) /\ Len(groups) \in Nat
      /\ DOMAIN groups = 1 .. Len(groups)
  BY <1>2 DEF IsFinished
<1>9. ASSUME NEW g \in DOMAIN plan.groups PROVE Once(Append(plan.folds, plan.absorbed), g)
  <2>1. PICK n \in Nat : n = Len(groups)
    BY <1>8
  <2>2. Once(Append(w.folds, w.absorbed), g)
    <3>1. g \in 1 .. n /\ w.folds \in Seq(SUBSET (1 .. n)) /\ w.absorbed \in SUBSET (1 .. n)
          /\ Splits(w.folds, w.absorbed, n)
      BY <1>1, <1>8, <2>1
    <3> QED
      BY <3>1, OnceEach DEF Once
  <2> QED
    BY <1>1, <2>2
<1>10. DOMAIN plan.proofs = 1 .. Len(plan.proofs) /\ LanesApart(plan.proofs)
       /\ StartsInOrder(units, plan, ToSet(plan.proofs))
  <2>1. DOMAIN ByStart(proofs) = 1 .. Len(ByStart(proofs))
    BY <1>5
  <2> QED
    BY <1>1, <1>5, <1>6, <2>1
<1>11. Runnable(units, plan)
  BY <1>7, <1>9, <1>10, RunnableByParts
<1>12. groups \in Seq(SUBSET (1 .. Len(units))) /\ tail \in SUBSET (1 .. Len(units))
  <2>1. 1 .. last \in SUBSET (1 .. Len(units))
    OBVIOUS
  <2>2. \A k \in 1 .. Len(groups) : groups[k] \in SUBSET (1 .. Len(units))
    BY <1>2, <2>1
  <2> QED
    BY <1>2, <2>1, <2>2
<1> QED
  BY <1>0, <1>1, <1>8, <1>11, <1>12 DEF IsPlan, plan, proofs

\* The deadline is not before any unit's arrival.
DeadlineOf(units, members) == Max({0} \cup {arrival(units, i) : i \in members})

LEMMA DeadlineIs ==
    ASSUME NEW units, IsUnits(units), NEW members \in SUBSET (1 .. Len(units)),
           NEW last \in members
    PROVE  /\ DeadlineOf(units, members) \in Int
           /\ arrival(units, last) \in Int
           /\ arrival(units, last) <= DeadlineOf(units, members)
<1> DEFINE A == {arrival(units, i) : i \in members}
           S == {0} \cup A
           f == [i \in members |-> arrival(units, i)]
<1>1. IsFiniteSet(members)
  <2>1. Len(units) \in Int /\ IsFiniteSet(1 .. Len(units))
    BY FS_Interval DEF IsUnits
  <2> QED
    BY <2>1, FS_Subset
<1>2. \A i \in members : arrival(units, i) \in Int
  BY ArrivalType
<1>3. f \in Surjection(members, A)
  <2>1. f \in [members -> A] /\ \A t \in A : \E i \in members : f[i] = t
    OBVIOUS
  <2> HIDE DEF f, A
  <2> QED
    BY <2>1, Fun_IsSurj
<1>4. IsFiniteSet(A)
  <2> HIDE DEF f, A
  <2> QED
    BY <1>1, <1>3, FS_Surjection
<1>5. IsFiniteSet(S) /\ S # {} /\ S \in SUBSET Int
  <2>1. IsFiniteSet({0})
    BY FS_Singleton
  <2>2. IsFiniteSet(S)
    BY <1>4, <2>1, FS_Union
  <2> QED
    BY <1>2, <2>2
<1>6. Max(S) \in S /\ \A x \in S : x <= Max(S)
  <2> HIDE DEF S
  <2> QED
    BY <1>5, FiniteMax
<1>7. DeadlineOf(units, members) = Max(S)
  BY DEF DeadlineOf
<1>8. arrival(units, last) \in S
  OBVIOUS
<1> HIDE DEF S
<1> QED
  BY <1>2, <1>5, <1>6, <1>7, <1>8

\* What simulate (streaming.rs) makes of a split can be run: every slot is
\* proven once, no lane has two proofs at a time, and no proof starts before
\* the slots and the proofs it is made of are there.
THEOREM SimulateIsRunnable ==
    ASSUME NEW units, IsUnits(units), NEW last \in 1 .. Len(units),
           NEW groups, NEW tail, IsSplit(groups, tail, last),
           NEW policy \in Policies, policy.lanes # 0, NEW threshold
    PROVE  IsPlan(units, simulate(units, groups, tail, threshold, policy))
<1> DEFINE members == tail \cup UNION ToSet(groups)
           deadline == DeadlineOf(units, members)
           placed == PlaceGroups(units, groups, policy)
           order == EndOrder(placed)
           folded == PlaceFolds(placed, policy, deadline)
           w == PlaceFinal(folded, units, tail, policy, deadline)
           bare == Bare(w)
           h == PlaceCommittee(bare, policy)
<1>1. /\ policy.lanes \in Nat \ {0} /\ Len(units) \in Nat
      /\ groups \in Seq(SUBSET (1 .. last)) /\ tail \in SUBSET (1 .. last)
      /\ Splits(groups, tail, last) /\ last \in Nat \ {0}
  BY DEF Policies, IsSplit, IsUnits
<1>2. members = 1 .. last
  <2>1. members = (UNION ToSet(groups)) \cup tail
    OBVIOUS
  <2> HIDE DEF members
  <2> QED
    BY <1>1, <2>1, AllMembers
<1> HIDE DEF members
<1>3. /\ deadline \in Int
      /\ arrival(units, last) \in Int
      /\ arrival(units, last) <= deadline
  <2>1. members \in SUBSET (1 .. Len(units)) /\ last \in members
    BY <1>1, <1>2
  <2> QED
    BY <2>1, DeadlineIs
<1> HIDE DEF deadline
<1>4. IsGroups(groups, Len(units))
  <2>1. 1 .. last \in SUBSET (1 .. Len(units))
    BY <1>1
  <2>2. \A k \in 1 .. Len(groups) : groups[k] \in SUBSET (1 .. Len(units))
    BY <1>1, <2>1
  <2> QED
    BY <1>1, <2>2 DEF IsGroups, Splits
<1>5. /\ placed \in Held(policy.lanes)
      /\ Len(placed.proofs) = Len(groups)
      /\ AreGroups(placed.proofs, units, groups, Len(groups))
  BY <1>1, <1>4, PlaceGroupsKeeps
<1> HIDE DEF placed
<1>6. placed.proofs \in Seq(Placed)
  BY <1>5, HeldIs
<1>7. IsEndOrder(order, placed.proofs) /\ folded \in Folding(policy.lanes, placed.proofs, order)
  BY <1>1, <1>5, PlaceFoldsKeeps
<1> HIDE DEF order, folded
<1>8. IsFinished(w, placed.proofs, policy.lanes, deadline)
  <2>1. tail \in SUBSET (1 .. Len(units))
    BY <1>1
  <2> QED
    BY <1>1, <1>3, <1>6, <1>7, <2>1, FinalIsPlaced
<1> HIDE DEF w
<1>9. IsHeld(w, policy.lanes)
  BY <1>8 DEF IsFinished
<1>10. bare \in Held(policy.lanes) /\ bare.proofs = w.proofs
  BY <1>9 DEF Held, IsHeld, Bare
<1> HIDE DEF bare
<1>11. h \in After(policy.lanes, w.proofs)
  BY <1>1, <1>10, PlaceCommitteeKeeps
<1> HIDE DEF h
<1>12. IsPlan(units, Schedule(w, h.proofs, groups, tail, threshold))
  BY <1>1, <1>3, <1>5, <1>6, <1>8, <1>11, FinishedIsRunnable
<1>13. simulate(units, groups, tail, threshold, policy)
          = Schedule(w, h.proofs, groups, tail, threshold)
  BY DEF simulate, h, bare, Bare, w, folded, placed, deadline, DeadlineOf, members
<1> QED
  BY <1>12, <1>13

-----------------------------------------------------------------------------
(* Choosing among the partitions.                                          *)

\* States whose price can be compared.
ArePriced(S) == \A s \in S : s.prover \in Int

\* What pruning a list leaves is not empty, and was in it.
LEMMA PruneKeeps ==
    ASSUME NEW S, ArePriced(S), NEW states \in Seq(S), Len(states) # 0,
           NEW pruned, pruned = prune(states)
    PROVE  pruned \in Seq(S) /\ Len(pruned) # 0
<1> DEFINE n == Len(states)
           keys == [i \in DOMAIN states |-> states[i].prover]
           each == StableSort(states, keys)
           V == Seq(S)
           none == <<>>
           beats(a, b) == \A k \in DOMAIN a.ends : a.ends[k] <= b.ends[k]
           next(kept, state) == IF \E other \in ToSet(kept) : beats(other, state)
                                THEN kept ELSE Append(kept, state)
           op == [p \in V \X (1 .. n) |-> next(p[1], each[p[2]])]
           Unfolds(f) == f = [s \in SUBSET (1 .. n) |->
                                IF s = {} THEN none ELSE next(f[s \ {Max(s)}], each[Max(s)])]
           fold == CHOOSE f : Unfolds(f)
<1>1. n \in Nat /\ DOMAIN states = 1 .. n /\ \A i \in 1 .. n : states[i] \in S
  OBVIOUS
<1>2. keys \in [1 .. n -> Int]
  BY <1>1 DEF ArePriced
<1> HIDE DEF keys
<1>3. each \in Seq(S) /\ Len(each) = n /\ DOMAIN each = 1 .. n
      /\ \A i \in 1 .. n : each[i] \in S
  <2>1. each \in Seq(S) /\ Len(each) = n
    BY <1>2, StableSortIs
  <2> HIDE DEF each
  <2> QED
    BY <2>1
<1> HIDE DEF each
<1>4. none \in V
  OBVIOUS
<1>5. IsTable(op, V, n)
  <2>1. ASSUME NEW kept \in V, NEW g \in 1 .. n PROVE next(kept, each[g]) \in V
    <3>1. each[g] \in S
      BY <1>3
    <3>2. Append(kept, each[g]) \in V
      BY <3>1
    <3> QED
      BY <3>2
  <2> HIDE DEF next, V, n
  <2> QED
    BY <2>1 DEF IsTable
<1>6. PICK h, r : IsFoldOf(h, op, none, V, n) /\ IsRunOf(r, op, none, V, n)
                  /\ r[n] = h[1 .. n]
  <2> HIDE DEF n, op, V, none
  <2> QED
    BY <1>1, <1>4, <1>5, FoldRuns
<1>7. h \in [SUBSET (1 .. n) -> V]
      /\ h = [s \in SUBSET (1 .. n) |->
                IF s = {} THEN none ELSE op[<<h[s \ {Max(s)}], Max(s)>>]]
  BY <1>6 DEF IsFoldOf
<1>8. \A s \in SUBSET (1 .. n) : s # {} =>
         op[<<h[s \ {Max(s)}], Max(s)>>] = next(h[s \ {Max(s)}], each[Max(s)])
  <2> SUFFICES ASSUME NEW s \in SUBSET (1 .. n), s # {}
               PROVE  op[<<h[s \ {Max(s)}], Max(s)>>] = next(h[s \ {Max(s)}], each[Max(s)])
    OBVIOUS
  <2>1. Max(s) \in 1 .. n /\ s \ {Max(s)} \in SUBSET (1 .. n)
    BY <1>1, MaxOfFirst
  <2> HIDE DEF next, V, n
  <2>3. h[s \ {Max(s)}] \in V
    BY <1>7, <2>1
  <2>4. <<h[s \ {Max(s)}], Max(s)>> \in V \X (1 .. n)
    BY <2>1, <2>3
  <2> QED
    BY <2>4
<1>9. Unfolds(h)
  <2> HIDE DEF next, op, n, none, each
  <2>1. [s \in SUBSET (1 .. n) |->
           IF s = {} THEN none ELSE op[<<h[s \ {Max(s)}], Max(s)>>]]
        = [s \in SUBSET (1 .. n) |->
             IF s = {} THEN none ELSE next(h[s \ {Max(s)}], each[Max(s)])]
    BY <1>8
  <2> QED
    BY <1>7, <2>1
<1>10. Unfolds(fold)
  <2> HIDE DEF Unfolds
  <2> QED
    BY <1>9
<1>11. pruned = fold[1 .. n]
  <2>1. pruned = FoldLeft(next, none, each)
    BY DEF prune, each, keys
  <2> HIDE DEF next
  <2> QED
    BY <1>3, <2>1, SMT DEF FoldLeft, MapThenFoldSet
<1> HIDE DEF fold
<1>12. fold[1 .. n] = r[n]
  <2> HIDE DEF next, op, n, none, each
  <2>1. \A s \in SUBSET (1 .. n) :
           fold[s] = IF s = {} THEN none ELSE next(fold[s \ {Max(s)}], each[Max(s)])
    BY <1>10
  <2>2. \A s \in SUBSET (1 .. n) :
           h[s] = IF s = {} THEN none ELSE next(h[s \ {Max(s)}], each[Max(s)])
    BY <1>9
  <2>3. fold[{}] = h[{}]
    BY <2>1, <2>2
  <2>4. StepsAgree(fold, h, n)
    BY <2>1, <2>2, <2>3 DEF StepsAgree
  <2>5. fold[1 .. n] = h[1 .. n]
    BY <1>1, <2>4, FoldAgrees
  <2> QED
    BY <1>6, <2>5
<1>13. r \in [0 .. n -> V] /\ r[0] = none /\ \A k \in 1 .. n : r[k] = next(r[k - 1], each[k])
  <2>1. r \in [0 .. n -> V] /\ r[0] = none
        /\ \A k \in 1 .. n : r[k] = op[<<r[k - 1], k>>]
    BY <1>6 DEF IsRunOf
  <2>2. ASSUME NEW k \in 1 .. n PROVE op[<<r[k - 1], k>>] = next(r[k - 1], each[k])
    <3>1. k - 1 \in 0 .. n
      BY <1>1
    <3> HIDE DEF next, V, n
    <3>2. r[k - 1] \in V
      BY <2>1, <3>1
    <3>3. <<r[k - 1], k>> \in V \X (1 .. n)
      BY <3>2
    <3> QED
      BY <3>3
  <2> HIDE DEF op, next
  <2> QED
    BY <2>1, <2>2
<1> DEFINE good == [k \in 0 .. n |-> {x \in V : k = 0 \/ Len(x) # 0}]
<1>14. r[0] \in good[0]
  <2>1. 0 \in 0 .. n
    BY <1>1
  <2> HIDE DEF n, V, none
  <2> QED
    BY <1>4, <1>13, <2>1
<1>15. ASSUME NEW k \in 1 .. n, r[k - 1] \in good[k - 1] PROVE r[k] \in good[k]
  <2>1. k \in 0 .. n /\ k - 1 \in 0 .. n /\ k \in Int
    BY <1>1
  <2>2. r[k - 1] \in V /\ r[k] \in V /\ each[k] \in S
    BY <1>3, <1>13, <2>1
  <2>3. Len(r[k]) # 0
    <3>1. PICK x \in V : x = r[k - 1]
      BY <2>2
    <3>2. CASE \E other \in ToSet(x) : beats(other, each[k])
      <4>1. x # <<>>
        BY <3>2 DEF ToSet
      <4>2. r[k] = x
        BY <1>13, <3>1, <3>2
      <4> QED
        BY <4>1, <4>2
    <3>3. CASE ~ \E other \in ToSet(x) : beats(other, each[k])
      <4>1. r[k] = Append(x, each[k])
        BY <1>13, <3>1, <3>3
      <4> QED
        BY <2>2, <4>1
    <3> QED
      BY <3>2, <3>3
  <2> HIDE DEF n, V
  <2> QED
    BY <2>1, <2>2, <2>3
<1>16. r[n] \in good[n] /\ n \in 0 .. n /\ n # 0
  <2> HIDE DEF good
  <2>1. \A k \in 0 .. n : r[k] \in good[k]
    <3> HIDE DEF n
    <3> QED
      BY <1>1, <1>14, <1>15, Along
  <2> QED
    BY <1>1, <2>1
<1> HIDE DEF n
<1>17. r[n] \in V /\ Len(r[n]) # 0
  BY <1>16
<1> QED
  BY <1>11, <1>12, <1>17

\* The partitions of the first units, and the search's states for them.
Cuts(end) == {groups \in Seq(SUBSET (1 .. end)) : IsSplit(groups, {}, end)}

CutStates(end) == {s \in [ends : Seq(Int), prover : Int, groups : Cuts(end)] : s.ends # <<>>}

CutStart(width) == [ends |-> [l \in 1 .. width |-> 0], prover |-> 0, groups |-> <<>>]

LEMMA CutStatesArePriced == \A end : ArePriced(CutStates(end))
  BY DEF ArePriced, CutStates

LEMMA CutStartIs ==
    ASSUME NEW width \in Nat \ {0}
    PROVE  CutStart(width) \in CutStates(0)
<1> DEFINE ends == [l \in 1 .. width |-> 0]
<1>1. ends \in Seq(Int) /\ ends # <<>>
  <2>1. ends \in Seq(Int) /\ Len(ends) = width
    OBVIOUS
  <2> QED
    BY <2>1
<1>2. <<>> \in Cuts(0)
  <2>1. <<>> \in Seq(SUBSET (1 .. 0)) /\ Len(<<>>) = 0
    OBVIOUS
  <2>2. IsSplit(<<>>, {}, 0)
    BY <2>1 DEF IsSplit, Splits
  <2> QED
    BY <2>1, <2>2 DEF Cuts
<1>3. CutStart(width) = [ends |-> ends, prover |-> 0, groups |-> <<>>]
  BY DEF CutStart
<1> HIDE DEF ends
<1> QED
  BY <1>1, <1>2, <1>3 DEF CutStates

\* One group more.
LEMMA OneCutMore ==
    ASSUME NEW at \in Nat, NEW end \in Nat, at < end, NEW groups \in Cuts(at)
    PROVE  Append(groups, at + 1 .. end) \in Cuts(end)
<1> DEFINE m == at + 1 .. end
           after == Append(groups, m)
           c == Len(groups)
<1>1. groups \in Seq(SUBSET (1 .. at)) /\ Splits(groups, {}, at) /\ c \in Nat
  BY DEF Cuts, IsSplit
<1>2. groups \in Seq(SUBSET (1 .. end))
  <2>1. \A k \in 1 .. c : groups[k] \in SUBSET (1 .. end)
    <3>1. \A k \in 1 .. c : groups[k] \in SUBSET (1 .. at)
      BY <1>1
    <3>2. 1 .. at \in SUBSET (1 .. end)
      OBVIOUS
    <3> QED
      BY <3>1, <3>2
  <2> QED
    BY <1>1, <2>1
<1>3. m \in SUBSET (1 .. end) /\ m # {}
  <2>1. end \in m /\ \A i \in m : i \in 1 .. end
    OBVIOUS
  <2> QED
    BY <2>1
<1>4. /\ after \in Seq(SUBSET (1 .. end)) /\ Len(after) = c + 1
      /\ \A k \in 1 .. c : after[k] = groups[k]
      /\ after[c + 1] = m
  <2> HIDE DEF m
  <2> QED
    BY <1>2, <1>3, AppendIs
<1>5. \A k \in 1 .. c + 1 : k \in 1 .. c \/ k = c + 1
  BY <1>1
<1>6. \A k \in 1 .. c : k \in 1 .. c + 1
  BY <1>1
<1>7. c + 1 \in 1 .. c + 1
  BY <1>1
<1> HIDE DEF after
<1>8. \A i \in 1 .. end : i \in m <=> i > at
  OBVIOUS
<1>9. \A k \in 1 .. c : \A i \in groups[k] : i \in 1 .. at /\ i <= at
  BY <1>1
<1> HIDE DEF m
<1>10. ASSUME NEW i \in 1 .. end PROVE \E k \in 1 .. Len(after) : i \in after[k]
  <2>1. CASE i > at
    BY <1>4, <1>7, <1>8, <2>1
  <2>2. CASE ~(i > at)
    <3>1. i \in 1 .. at
      BY <2>2
    <3>2. PICK k \in 1 .. c : i \in groups[k]
      BY <1>1, <3>1 DEF Splits
    <3> QED
      BY <1>4, <1>6, <3>2
  <2> QED
    BY <2>1, <2>2
<1>11. ASSUME NEW i \in 1 .. end, NEW j \in 1 .. Len(after), NEW k \in 1 .. Len(after),
              i \in after[j], i \in after[k]
       PROVE  j = k
  <2>1. CASE i > at
    <3>1. j = c + 1 /\ k = c + 1
      <4>1. ~(i <= at)
        BY <2>1
      <4> QED
        BY <1>4, <1>5, <1>9, <1>11, <4>1
    <3> QED
      BY <3>1
  <2>2. CASE ~(i > at)
    <3>1. i \in 1 .. at
      BY <2>2
    <3>2. j \in 1 .. c /\ k \in 1 .. c
      BY <1>4, <1>5, <1>8, <1>11, <2>2
    <3>3. i \in groups[j] /\ i \in groups[k]
      BY <1>4, <1>11, <3>2
    <3> QED
      BY <1>1, <3>1, <3>2, <3>3 DEF Splits
  <2> QED
    BY <2>1, <2>2
<1>12. \A k \in 1 .. Len(after) : after[k] # {}
  BY <1>1, <1>3, <1>4, <1>5 DEF Splits
<1>13. Splits(after, {}, end)
  BY <1>10, <1>11, <1>12 DEF Splits
<1> QED
  BY <1>4, <1>13 DEF Cuts, IsSplit, after, m

LEMMA CutToIs ==
    ASSUME NEW units, IsUnits(units), NEW end \in 1 .. Len(units),
           NEW at \in Nat, at < end, NEW state \in CutStates(at)
    PROVE  CutTo(units, state, at, end) \in CutStates(end)
<1> DEFINE members == at + 1 .. end
           duration == GroupCost(units, members)
           first == Largest(arrival(units, end), Head(state.ends)) + duration
           ends == <<first>> \o Tail(state.ends)
           sorted == StableSort(ends, ends)
<1>1. Len(units) \in Nat /\ end \in Nat
  BY DEF IsUnits
<1>2. /\ state.ends \in Seq(Int) /\ state.ends # <<>>
      /\ state.prover \in Int /\ state.groups \in Cuts(at)
  BY DEF CutStates
<1>3. duration \in Nat
  <2>1. members \in SUBSET (1 .. Len(units))
    BY <1>1
  <2> HIDE DEF members
  <2> QED
    BY <2>1, GroupCostType
<1> HIDE DEF members, duration
<1>4. first \in Int
  <2>1. arrival(units, end) \in Int
    BY ArrivalType
  <2>2. Head(state.ends) \in Int
    BY <1>2
  <2> QED
    BY <1>3, <2>1, <2>2 DEF Largest
<1> HIDE DEF first
<1>5. ends \in Seq(Int) /\ Len(ends) # 0
  <2>1. Tail(state.ends) \in Seq(Int)
    BY <1>2
  <2>2. <<first>> \in Seq(Int) /\ Len(<<first>>) = 1
    BY <1>4
  <2> QED
    BY <2>1, <2>2
<1> HIDE DEF ends
<1>6. sorted \in Seq(Int) /\ sorted # <<>>
  <2>1. ends \in [1 .. Len(ends) -> Int]
    BY <1>5
  <2>2. sorted \in Seq(Int) /\ Len(sorted) = Len(ends)
    BY <1>5, <2>1, StableSortIs
  <2> HIDE DEF sorted
  <2> QED
    BY <1>5, <2>2
<1>7. Append(state.groups, members) \in Cuts(end)
  BY <1>1, <1>2, OneCutMore DEF members
<1>8. state.prover + duration \in Int
  BY <1>2, <1>3
<1>9. CutTo(units, state, at, end)
        = [ends |-> sorted, prover |-> state.prover + duration,
           groups |-> Append(state.groups, members)]
  BY DEF CutTo, sorted, ends, first, duration, members
<1> HIDE DEF sorted
<1> QED
  BY <1>6, <1>7, <1>8, <1>9 DEF CutStates

\* What a level of the search is made of: the earlier levels' states, cut on.
CutOn(units, states, at, end) ==
    [k \in DOMAIN states |-> CutTo(units, states[k], at, end)]

Level(units, start, f, end) ==
    IF end = 0 THEN <<start>>
    ELSE FlattenSeq([at \in 1 .. end |-> CutOn(units, prune(f[at - 1]), at - 1, end)])

IsLevels(units, start, f, m) == f = [end \in 0 .. m |-> Level(units, start, f, end)]

\* Only the earlier levels count.
LEMMA LevelIsLocal ==
    ASSUME NEW units, NEW start, NEW f, NEW g, NEW end \in Nat,
           \A j \in 0 .. end - 1 : f[j] = g[j]
    PROVE  Level(units, start, f, end) = Level(units, start, g, end)
<1>1. CASE end = 0
  BY <1>1 DEF Level
<1>2. CASE end # 0
  <2>1. \A at \in 1 .. end : f[at - 1] = g[at - 1]
    <3>1. \A at \in 1 .. end : at - 1 \in 0 .. end - 1
      OBVIOUS
    <3> QED
      BY <3>1
  <2>2. [at \in 1 .. end |-> CutOn(units, prune(f[at - 1]), at - 1, end)]
        = [at \in 1 .. end |-> CutOn(units, prune(g[at - 1]), at - 1, end)]
    BY <2>1
  <2> QED
    BY <1>2, <2>2 DEF Level
<1> QED
  BY <1>1, <1>2

\* The levels exist.
LEMMA LevelsExist ==
    ASSUME NEW units, NEW start, NEW head \in Nat
    PROVE  \E f : IsLevels(units, start, f, head)
<1> DEFINE Bad == {m \in Nat : ~ \E f : IsLevels(units, start, f, m)}
<1> SUFFICES ASSUME Bad # {} PROVE FALSE
  OBVIOUS
<1>1. Bad \in SUBSET Nat
  OBVIOUS
<1>2. PICK m \in Bad : \A j \in Bad : m <= j
  BY <1>1, LeastNatural
<1>3. m \in Nat /\ ~ \E f : IsLevels(units, start, f, m)
  BY <1>2
<1>4. CASE m = 0
  <2> DEFINE f == [end \in 0 .. 0 |-> <<start>>]
  <2>1. f = [end \in 0 .. 0 |-> Level(units, start, f, end)]
    <3>1. \A end \in 0 .. 0 : Level(units, start, f, end) = <<start>>
      BY DEF Level
    <3> HIDE DEF f
    <3>2. [end \in 0 .. 0 |-> <<start>>] = [end \in 0 .. 0 |-> Level(units, start, f, end)]
      BY <3>1
    <3> QED
      BY <3>2 DEF f
  <2> HIDE DEF f
  <2>2. IsLevels(units, start, f, 0)
    BY <2>1 DEF IsLevels
  <2> QED
    BY <1>3, <1>4, <2>2
<1>5. CASE m # 0
  <2>1. m - 1 \in Nat /\ ~(m <= m - 1)
    BY <1>3, <1>5
  <2>2. PICK f : IsLevels(units, start, f, m - 1)
    BY <1>2, <2>1
  <2> DEFINE g == [end \in 0 .. m |-> IF end = m THEN Level(units, start, f, m) ELSE f[end]]
  <2>3. \A j \in 0 .. m - 1 : g[j] = f[j]
    BY <1>3
  <2>4. \A end \in 0 .. m : g[end] = Level(units, start, f, end)
    <3>1. \A end \in 0 .. m - 1 : f[end] = Level(units, start, f, end)
      BY <2>2 DEF IsLevels
    <3>2. \A end \in 0 .. m : end = m \/ end \in 0 .. m - 1
      BY <1>3
    <3>3. m \in 0 .. m
      BY <1>3
    <3>4. g[m] = Level(units, start, f, m)
      BY <3>3
    <3> HIDE DEF g
    <3> QED
      BY <2>3, <3>1, <3>2, <3>4
  <2>5. DOMAIN g = 0 .. m /\ g = [end \in 0 .. m |-> g[end]]
    OBVIOUS
  <2> HIDE DEF g
  <2>6. \A end \in 0 .. m : Level(units, start, f, end) = Level(units, start, g, end)
    <3>1. ASSUME NEW end \in 0 .. m
          PROVE  Level(units, start, f, end) = Level(units, start, g, end)
      <4>1. end \in Nat
        BY <1>3
      <4>2. \A j \in 0 .. end - 1 : f[j] = g[j]
        <5>1. \A j \in 0 .. end - 1 : j \in 0 .. m - 1
          BY <1>3
        <5> QED
          BY <2>3, <5>1
      <4> QED
        BY <4>1, <4>2, LevelIsLocal
    <3> QED
      BY <3>1
  <2>7. [end \in 0 .. m |-> g[end]] = [end \in 0 .. m |-> Level(units, start, g, end)]
    BY <2>4, <2>6
  <2>8. IsLevels(units, start, g, m)
    BY <2>5, <2>7 DEF IsLevels
  <2> QED
    BY <1>3, <2>8
<1> QED
  BY <1>4, <1>5

\* A level's states, if the earlier ones are of their kind.
LevelStates(end) == {states \in Seq(CutStates(end)) : Len(states) # 0}

LEMMA LevelIs ==
    ASSUME NEW units, IsUnits(units), NEW start \in CutStates(0), NEW f,
           NEW end \in 0 .. Len(units), \A j \in 0 .. end - 1 : f[j] \in LevelStates(j)
    PROVE  Level(units, start, f, end) \in LevelStates(end)
<1>1. end \in Nat /\ Len(units) \in Nat
  BY DEF IsUnits
<1>2. CASE end = 0
  <2>1. <<start>> \in Seq(CutStates(0)) /\ Len(<<start>>) = 1
    OBVIOUS
  <2> QED
    BY <1>2, <2>1 DEF Level, LevelStates
<1>3. CASE end # 0
  <2> DEFINE S == CutStates(end)
             seqs == [at \in 1 .. end |-> CutOn(units, prune(f[at - 1]), at - 1, end)]
  <2>1. ASSUME NEW at \in 1 .. end
        PROVE  CutOn(units, prune(f[at - 1]), at - 1, end) \in Seq(S)
               /\ Len(CutOn(units, prune(f[at - 1]), at - 1, end)) # 0
    <3>1. PICK j \in Nat : j = at - 1
      BY <1>1
    <3>2. j \in 0 .. end - 1 /\ j < end
      BY <1>1, <3>1
    <3>3. f[j] \in Seq(CutStates(j)) /\ Len(f[j]) # 0
      BY <3>2 DEF LevelStates
    <3>4. PICK states : states = prune(f[j])
      OBVIOUS
    <3>5. states \in Seq(CutStates(j)) /\ Len(states) # 0
      BY <3>3, <3>4, CutStatesArePriced, PruneKeeps
    <3>6. end \in 1 .. Len(units)
      BY <1>1, <1>3
    <3>7. \A k \in 1 .. Len(states) : CutTo(units, states[k], j, end) \in S
      <4>1. ASSUME NEW k \in 1 .. Len(states) PROVE CutTo(units, states[k], j, end) \in S
        <5>1. states[k] \in CutStates(j)
          BY <3>5
        <5> QED
          BY <3>2, <3>6, <5>1, CutToIs
      <4> QED
        BY <4>1
    <3>8. DOMAIN states = 1 .. Len(states) /\ Len(states) \in Nat
      BY <3>5
    <3> HIDE DEF S
    <3>9. CutOn(units, states, j, end) \in Seq(S)
          /\ Len(CutOn(units, states, j, end)) = Len(states)
      BY <3>7, <3>8 DEF CutOn
    <3> QED
      BY <3>1, <3>4, <3>5, <3>9
  <2>2. seqs \in Seq(Seq(S)) /\ Len(seqs) = end
    <3> HIDE DEF S
    <3> QED
      BY <1>1, <2>1
  <2>3. seqs # <<>> /\ seqs[1] # <<>>
    <3>1. 1 \in 1 .. end
      BY <1>1, <1>3
    <3>2. seqs[1] \in Seq(S) /\ Len(seqs[1]) # 0
      BY <2>1, <3>1
    <3> HIDE DEF S, seqs
    <3> QED
      BY <1>3, <2>2, <3>2
  <2> HIDE DEF seqs, S
  <2>4. FlattenSeq(seqs) \in Seq(S) /\ FlattenSeq(seqs) # <<>>
    BY <2>2, <2>3, FlattenSeqIs
  <2>5. Level(units, start, f, end) = FlattenSeq(seqs)
    BY <1>3 DEF Level, seqs
  <2> QED
    BY <2>4, <2>5 DEF LevelStates, S
<1> QED
  BY <1>2, <1>3

LEMMA LevelsAre ==
    ASSUME NEW units, IsUnits(units), NEW start \in CutStates(0),
           NEW head \in 0 .. Len(units), NEW f, IsLevels(units, start, f, head)
    PROVE  f[head] \in LevelStates(head)
<1> DEFINE Bad == {m \in 0 .. head : f[m] \notin LevelStates(m)}
<1>1. head \in Nat /\ Len(units) \in Nat
  BY DEF IsUnits
<1>2. Bad = {}
  <2> SUFFICES ASSUME Bad # {} PROVE FALSE
    OBVIOUS
  <2>1. Bad \in SUBSET Nat
    BY <1>1
  <2>2. PICK m \in Bad : \A j \in Bad : m <= j
    BY <2>1, LeastNatural
  <2>3. m \in 0 .. head /\ m \in 0 .. Len(units) /\ m \in Nat
    BY <1>1, <2>2
  <2>4. \A j \in 0 .. m - 1 : f[j] \in LevelStates(j)
    <3>1. \A j \in 0 .. m - 1 : j \in 0 .. head /\ ~(m <= j)
      BY <1>1, <2>3
    <3> QED
      BY <2>2, <3>1
  <2>5. f[m] = Level(units, start, f, m)
    BY <2>3 DEF IsLevels
  <2>6. f[m] \in LevelStates(m)
    BY <2>3, <2>4, <2>5, LevelIs
  <2> QED
    BY <2>2, <2>6
<1> QED
  BY <1>1, <1>2

\* What cuts finds: partitions, and at least one.
LEMMA CutsAre ==
    ASSUME NEW units, IsUnits(units), NEW head \in 0 .. Len(units), NEW width \in Nat \ {0}
    PROVE  cuts(units, head, width) \in Seq(Cuts(head)) /\ cuts(units, head, width) # <<>>
<1> DEFINE start == CutStart(width)
           level == CHOOSE f : IsLevels(units, start, f, head)
           found == prune(level[head])
<1>1. head \in Nat
  BY DEF IsUnits
<1>2. start \in CutStates(0)
  BY CutStartIs
<1>3. IsLevels(units, start, level, head)
  <2>1. \E f : IsLevels(units, start, f, head)
    BY <1>1, LevelsExist
  <2> HIDE DEF start
  <2> QED
    BY <2>1
<1>4. level[head] \in LevelStates(head)
  <2> HIDE DEF start, level
  <2> QED
    BY <1>2, <1>3, LevelsAre
<1>5. found \in Seq(CutStates(head)) /\ Len(found) # 0
  <2> HIDE DEF level
  <2> QED
    BY <1>4, CutStatesArePriced, PruneKeeps DEF LevelStates
<1>6. cuts(units, head, width) = [k \in DOMAIN found |-> found[k].groups]
  BY DEF cuts, IsLevels, Level, CutOn, start, CutStart
<1> HIDE DEF found
<1>7. DOMAIN found = 1 .. Len(found) /\ Len(found) \in Nat
      /\ \A k \in 1 .. Len(found) : found[k].groups \in Cuts(head)
  BY <1>5 DEF CutStates
<1>8. [k \in DOMAIN found |-> found[k].groups] \in Seq(Cuts(head))
      /\ Len([k \in DOMAIN found |-> found[k].groups]) = Len(found)
  BY <1>7
<1> QED
  BY <1>5, <1>6, <1>8

LEMMA SearchIs ==
    ASSUME NEW units, IsUnits(units), NEW head \in 0 .. Len(units),
           NEW policy \in Policies, policy.lanes # 0
    PROVE  search(units, head, policy) \in Seq(Cuts(head)) /\ search(units, head, policy) # <<>>
<1>1. CASE head = 0
  <2>1. CutStart(1) \in CutStates(0)
    BY CutStartIs
  <2>2. <<>> \in Cuts(0)
    BY <2>1 DEF CutStart, CutStates
  <2>3. PICK none \in Cuts(0) : none = <<>>
    BY <2>2
  <2>4. <<none>> \in Seq(Cuts(0)) /\ <<none>> # <<>>
    OBVIOUS
  <2> QED
    BY <1>1, <2>3, <2>4 DEF search
<1>2. CASE head # 0
  <2> DEFINE n == Len(eligible(policy, "group"))
             S == Cuts(head)
             seqs == [width \in 1 .. n |-> cuts(units, head, width)]
  <2>1. n \in Nat \ {0}
    <3>1. policy.lanes \in Nat \ {0} /\ "group" \in Stages
      BY DEF Policies, Stages
    <3>2. eligible(policy, "group") \in Seq(Indices(policy.lanes))
          /\ eligible(policy, "group") # <<>>
      BY <3>1, EligibleIs
    <3> QED
      BY <3>2
  <2> HIDE DEF n
  <2>2. \A width \in 1 .. n : cuts(units, head, width) \in Seq(S)
                              /\ cuts(units, head, width) # <<>>
    <3>1. \A width \in 1 .. n : width \in Nat \ {0}
      BY <2>1
    <3> QED
      BY <3>1, CutsAre
  <2> HIDE DEF S
  <2>3. seqs \in Seq(Seq(S)) /\ Len(seqs) = n /\ 1 \in 1 .. n
    BY <2>1, <2>2
  <2>4. seqs[1] = cuts(units, head, 1)
    BY <2>3
  <2>5. seqs # <<>> /\ seqs[1] # <<>>
    <3> HIDE DEF seqs
    <3> QED
      BY <2>1, <2>2, <2>3, <2>4
  <2> HIDE DEF seqs
  <2>6. FlattenSeq(seqs) \in Seq(S) /\ FlattenSeq(seqs) # <<>>
    BY <2>3, <2>5, FlattenSeqIs
  <2> QED
    BY <1>2, <2>6 DEF search, seqs, n, S
<1> QED
  BY <1>1, <1>2

\* The units after the head, inline, complete a partition of it.
LEMMA TailCompletes ==
    ASSUME NEW head \in Nat, NEW last \in Nat, head <= last, NEW groups \in Cuts(head)
    PROVE  IsSplit(groups, head + 1 .. last, last)
<1> DEFINE tail == head + 1 .. last
           c == Len(groups)
<1>1. groups \in Seq(SUBSET (1 .. head)) /\ Splits(groups, {}, head) /\ c \in Nat
  BY DEF Cuts, IsSplit
<1>2. \A k \in 1 .. c : groups[k] \in SUBSET (1 .. head) /\ groups[k] # {}
  BY <1>1 DEF Splits
<1>3. groups \in Seq(SUBSET (1 .. last))
  <2>1. 1 .. head \in SUBSET (1 .. last)
    OBVIOUS
  <2>2. \A k \in 1 .. c : groups[k] \in SUBSET (1 .. last)
    BY <1>2, <2>1
  <2> QED
    BY <1>1, <2>2
<1>4. tail \in SUBSET (1 .. last)
  OBVIOUS
<1>5. \A i \in 1 .. last : i \in tail <=> i > head
  OBVIOUS
<1>6. \A k \in 1 .. c : \A i \in groups[k] : i \in 1 .. head /\ ~(i > head)
  <2>1. \A i \in 1 .. head : ~(i > head)
    OBVIOUS
  <2> QED
    BY <1>2, <2>1
<1> HIDE DEF tail, c
<1>7. ASSUME NEW i \in 1 .. last
      PROVE  i \in tail <=> ~ \E k \in 1 .. c : i \in groups[k]
  <2>1. CASE i > head
    BY <1>5, <1>6, <2>1
  <2>2. CASE ~(i > head)
    <3>1. i \in 1 .. head
      BY <2>2
    <3>2. \E k \in 1 .. c : i \in groups[k]
      BY <1>1, <3>1 DEF Splits, c
    <3> QED
      BY <1>5, <2>2, <3>2
  <2> QED
    BY <2>1, <2>2
<1>8. \A i \in 1 .. last : \A j, k \in 1 .. c : i \in groups[j] /\ i \in groups[k] => j = k
  <2>1. \A i \in 1 .. head : \A j, k \in 1 .. c : i \in groups[j] /\ i \in groups[k] => j = k
    BY <1>1 DEF Splits, c
  <2> QED
    BY <1>6, <2>1
<1>9. Splits(groups, tail, last)
  BY <1>2, <1>7, <1>8 DEF Splits, c
<1> QED
  BY <1>3, <1>4, <1>9 DEF IsSplit, tail

\* The best of some schedules is one of them.
LEMMA BestIsOne ==
    ASSUME NEW S, NEW schedules \in Seq(S), schedules # <<>>
    PROVE  BestOf(schedules) \in S
<1> DEFINE n == Len(schedules)
           V == S
           each == schedules
           none == schedules[1]
           next(best, s) == IF better(s, best) THEN s ELSE best
           op == [p \in V \X (1 .. n) |-> next(p[1], each[p[2]])]
           Unfolds(f) == f = [s \in SUBSET (1 .. n) |->
                                IF s = {} THEN none ELSE next(f[s \ {Max(s)}], each[Max(s)])]
           fold == CHOOSE f : Unfolds(f)
<1>1. n \in Nat \ {0} /\ DOMAIN each = 1 .. n /\ \A i \in 1 .. n : each[i] \in S
  OBVIOUS
<1>2. none \in V
  <2>1. 1 \in 1 .. n
    BY <1>1
  <2> QED
    BY <1>1, <2>1
<1>3. IsTable(op, V, n)
  <2>1. ASSUME NEW best \in V, NEW g \in 1 .. n PROVE next(best, each[g]) \in V
    BY <1>1
  <2> HIDE DEF next, V, n
  <2> QED
    BY <2>1 DEF IsTable
<1>4. PICK h, r : IsFoldOf(h, op, none, V, n) /\ IsRunOf(r, op, none, V, n)
                  /\ r[n] = h[1 .. n]
  <2>1. n \in Nat
    BY <1>1
  <2> HIDE DEF n, op, V, none
  <2> QED
    BY <1>2, <1>3, <2>1, FoldRuns
<1>5. h \in [SUBSET (1 .. n) -> V]
      /\ h = [s \in SUBSET (1 .. n) |->
                IF s = {} THEN none ELSE op[<<h[s \ {Max(s)}], Max(s)>>]]
  BY <1>4 DEF IsFoldOf
<1>6. \A s \in SUBSET (1 .. n) : s # {} =>
         op[<<h[s \ {Max(s)}], Max(s)>>] = next(h[s \ {Max(s)}], each[Max(s)])
  <2> SUFFICES ASSUME NEW s \in SUBSET (1 .. n), s # {}
               PROVE  op[<<h[s \ {Max(s)}], Max(s)>>] = next(h[s \ {Max(s)}], each[Max(s)])
    OBVIOUS
  <2>1. Max(s) \in 1 .. n /\ s \ {Max(s)} \in SUBSET (1 .. n)
    BY <1>1, MaxOfFirst
  <2> HIDE DEF next, V, n, each
  <2>3. h[s \ {Max(s)}] \in V
    BY <1>5, <2>1
  <2>4. <<h[s \ {Max(s)}], Max(s)>> \in V \X (1 .. n)
    BY <2>1, <2>3
  <2> QED
    BY <2>4
<1>7. Unfolds(h)
  <2> HIDE DEF next, op, n, none, each
  <2>1. [s \in SUBSET (1 .. n) |->
           IF s = {} THEN none ELSE op[<<h[s \ {Max(s)}], Max(s)>>]]
        = [s \in SUBSET (1 .. n) |->
             IF s = {} THEN none ELSE next(h[s \ {Max(s)}], each[Max(s)])]
    BY <1>6
  <2> QED
    BY <1>5, <2>1
<1>8. Unfolds(fold)
  <2> HIDE DEF Unfolds
  <2> QED
    BY <1>7
<1>9. BestOf(schedules) = fold[1 .. n]
  <2>1. BestOf(schedules) = FoldLeft(next, none, each)
    BY DEF BestOf
  <2> HIDE DEF next
  <2> QED
    BY <1>1, <2>1, SMT DEF FoldLeft, MapThenFoldSet
<1> HIDE DEF fold
<1>10. fold[1 .. n] = h[1 .. n]
  <2> HIDE DEF next, op, none, each
  <2>1. \A s \in SUBSET (1 .. n) :
           fold[s] = IF s = {} THEN none ELSE next(fold[s \ {Max(s)}], each[Max(s)])
    <3> HIDE DEF n
    <3> QED
      BY <1>8
  <2>2. \A s \in SUBSET (1 .. n) :
           h[s] = IF s = {} THEN none ELSE next(h[s \ {Max(s)}], each[Max(s)])
    <3> HIDE DEF n
    <3> QED
      BY <1>7
  <2>0. n \in Nat
    BY <1>1
  <2> HIDE DEF n
  <2>3. fold[{}] = h[{}]
    BY <2>1, <2>2
  <2>4. StepsAgree(fold, h, n)
    BY <2>1, <2>2, <2>3 DEF StepsAgree
  <2> QED
    BY <2>0, <2>4, FoldAgrees
<1>11. h[1 .. n] \in V
  <2> HIDE DEF n, V, none
  <2> QED
    BY <1>5
<1> QED
  BY <1>9, <1>10, <1>11

LEMMA SmallerOfTwo ==
    ASSUME NEW a \in Nat, NEW b \in Nat
    PROVE  Min({a, b}) \in Nat /\ Min({a, b}) <= b
<1>1. \E x \in {a, b} : \A y \in {a, b} : x <= y
  OBVIOUS
<1>2. Min({a, b}) \in {a, b} /\ \A y \in {a, b} : Min({a, b}) <= y
  BY <1>1 DEF Min
<1> QED
  BY <1>2

\* A plan that simulate makes.
Simulated(units, last, threshold, policy) ==
    {plan \in {simulate(units, split[1], split[2], threshold, policy) :
                  split \in Seq(SUBSET (1 .. last)) \X SUBSET (1 .. last)} :
        IsPlan(units, plan)}

LEMMA BestUptoIs ==
    ASSUME NEW units, IsUnits(units), NEW last \in 1 .. Len(units), NEW threshold,
           NEW policy \in Policies, policy.lanes # 0, NEW max_tail \in Nat
    PROVE  IsPlan(units, BestUpto(units, last, threshold, policy, max_tail))
<1> DEFINE S == Simulated(units, last, threshold, policy)
           tails == Min({max_tail, last}) + 1
           each(k) == LET found == search(units, last - (k - 1), policy)
                      IN [i \in DOMAIN found |->
                            simulate(units, found[i], (last - k) + 2 .. last, threshold, policy)]
           seqs == [k \in 1 .. tails |-> each(k)]
<1>1. last \in Nat /\ Len(units) \in Nat /\ tails \in Nat \ {0} /\ tails <= last + 1
  BY SmallerOfTwo DEF IsUnits
<1> HIDE DEF tails
<1>2. ASSUME NEW k \in 1 .. tails PROVE each(k) \in Seq(S) /\ each(k) # <<>>
  <2> DEFINE found == search(units, last - (k - 1), policy)
             tail == (last - k) + 2 .. last
  <2>1. PICK head \in Nat : head = last - (k - 1)
    BY <1>1
  <2>2. head \in 0 .. Len(units) /\ head <= last /\ (last - k) + 2 = head + 1
    BY <1>1, <2>1
  <2>3. found \in Seq(Cuts(head)) /\ found # <<>>
    BY <2>1, <2>2, SearchIs
  <2>4. tail = head + 1 .. last
    BY <2>2
  <2> HIDE DEF found, tail
  <2>5. DOMAIN found = 1 .. Len(found) /\ Len(found) \in Nat /\ Len(found) # 0
    BY <2>3
  <2>6. ASSUME NEW i \in 1 .. Len(found)
        PROVE  simulate(units, found[i], tail, threshold, policy) \in S
    <3>1. PICK groups \in Cuts(head) : groups = found[i]
      BY <2>3
    <3>2. IsSplit(groups, tail, last)
      BY <1>1, <2>2, <2>4, <3>1, TailCompletes
    <3>3. IsPlan(units, simulate(units, groups, tail, threshold, policy))
      BY <3>2, SimulateIsRunnable
    <3>4. PICK split \in Seq(SUBSET (1 .. last)) \X SUBSET (1 .. last) :
             split = <<groups, tail>>
      BY <3>2 DEF IsSplit
    <3>5. split[1] = groups /\ split[2] = tail
      BY <3>4
    <3>6. PICK plan : plan = simulate(units, groups, tail, threshold, policy)
      OBVIOUS
    <3>7. plan \in {simulate(units, x[1], x[2], threshold, policy) :
                       x \in Seq(SUBSET (1 .. last)) \X SUBSET (1 .. last)}
      BY <3>4, <3>5, <3>6
    <3>8. plan \in S
      BY <3>3, <3>6, <3>7 DEF Simulated
    <3> HIDE DEF S
    <3> QED
      BY <3>1, <3>6, <3>8
  <2>7. each(k) = [i \in DOMAIN found |-> simulate(units, found[i], tail, threshold, policy)]
    BY DEF found, tail
  <2> HIDE DEF S
  <2>8. /\ [i \in DOMAIN found |-> simulate(units, found[i], tail, threshold, policy)] \in Seq(S)
        /\ Len([i \in DOMAIN found |-> simulate(units, found[i], tail, threshold, policy)])
              = Len(found)
    BY <2>5, <2>6
  <2> HIDE DEF each
  <2> QED
    BY <2>5, <2>7, <2>8
<1> HIDE DEF each, S
<1>3. seqs \in Seq(Seq(S)) /\ Len(seqs) = tails /\ 1 \in 1 .. tails
  BY <1>1, <1>2
<1>4. seqs # <<>> /\ seqs[1] # <<>>
  <2>1. seqs[1] = each(1)
    BY <1>3
  <2> HIDE DEF seqs
  <2> QED
    BY <1>1, <1>2, <1>3, <2>1
<1> HIDE DEF seqs
<1>5. FlattenSeq(seqs) \in Seq(S) /\ FlattenSeq(seqs) # <<>>
  BY <1>3, <1>4, FlattenSeqIs
<1>6. BestOf(FlattenSeq(seqs)) \in S
  BY <1>5, BestIsOne
<1>7. BestUpto(units, last, threshold, policy, max_tail) = BestOf(FlattenSeq(seqs))
  BY DEF BestUpto, seqs, each, tails
<1> QED
  BY <1>6, <1>7 DEF S, Simulated

LEMMA FirstReachingIs ==
    ASSUME NEW units, IsUnits(units), NEW balance
    PROVE  FirstReaching(units, balance) \in 1 .. Len(units)
<1> DEFINE reached == {i \in DOMAIN units : Accrued(units, i) >= balance}
<1>1. Len(units) \in Nat \ {0} /\ DOMAIN units = 1 .. Len(units)
  BY DEF IsUnits
<1>2. reached \in SUBSET (1 .. Len(units)) /\ reached \in SUBSET Nat
  BY <1>1
<1>3. FirstReaching(units, balance)
         = IF reached = {} THEN Len(units)
           ELSE CHOOSE i \in reached : \A j \in reached : i <= j
  BY DEF FirstReaching
<1> HIDE DEF reached
<1>4. CASE reached = {}
  BY <1>1, <1>3, <1>4
<1>5. CASE reached # {}
  <2>1. \E i \in reached : \A j \in reached : i <= j
    BY <1>2, <1>5, LeastNatural
  <2> QED
    BY <1>2, <1>3, <1>5, <2>1
<1> QED
  BY <1>4, <1>5

\* Whether a plan can be run is said of these five of its parts.
RunnableParts(units, groups, tail, folds, absorbed, proofs) ==
    LET proof(stage, covers) == CHOOSE p \in ToSet(proofs) :
                                    p.stage = stage /\ p.covers = covers
        group(g) == proof("group", {g})
        fold(k) == proof("fold", folds[k])
        final == proof("final", absorbed)
        members == UNION ToSet(groups)
        once(parts, i) == Cardinality({k \in DOMAIN parts : i \in parts[k]}) = 1
    IN /\ \A i \in 1 .. LastOf(members \cup tail) : once(Append(groups, tail), i)
       /\ \A g \in DOMAIN groups : once(Append(folds, absorbed), g)
       /\ \A i, j \in DOMAIN proofs :
             (i < j /\ proofs[i].lane = proofs[j].lane) =>
                \/ proofs[i].end <= proofs[j].start
                \/ proofs[j].end <= proofs[i].start
       /\ \A g \in DOMAIN groups :
             group(g).start >= arrival(units, LastOf(groups[g]))
       /\ \A k \in DOMAIN folds :
             /\ \A g \in folds[k] : fold(k).start >= group(g).end
             /\ k > 1 => fold(k).start >= fold(k - 1).end
       /\ \A g \in absorbed : final.start >= group(g).end
       /\ folds # <<>> => final.start >= fold(Len(folds)).end
       /\ final.start >= arrival(units, LastOf(members \cup tail))

LEMMA RunnableIsOfParts ==
    ASSUME NEW units, NEW plan
    PROVE  Runnable(units, plan)
              = RunnableParts(units, plan.groups, plan.tail, plan.folds, plan.absorbed,
                              plan.proofs)
  BY Zenon DEF Runnable, RunnableParts

\* What is noted on a plan afterwards leaves it what it was.
LEMMA NotedIsPlan ==
    ASSUME NEW units, NEW plan, IsPlan(units, plan), NEW balance, NEW reached
    PROVE  IsPlan(units, [plan EXCEPT !.attesting_balance = balance,
                                      !.threshold_reached = reached])
<1> DEFINE noted == [plan EXCEPT !.attesting_balance = balance, !.threshold_reached = reached]
<1>1. {"groups", "tail", "folds", "absorbed", "proofs"} \subseteq DOMAIN plan
  BY DEF IsPlan
<1>2. DOMAIN noted = DOMAIN plan
  OBVIOUS
<1>3. /\ noted.groups = plan.groups /\ noted.tail = plan.tail
      /\ noted.folds = plan.folds /\ noted.absorbed = plan.absorbed
      /\ noted.proofs = plan.proofs
  BY <1>1
<1> HIDE DEF noted
<1>4. Runnable(units, noted)
  <2>1. Runnable(units, plan)
    BY DEF IsPlan
  <2>2. RunnableParts(units, noted.groups, noted.tail, noted.folds, noted.absorbed, noted.proofs)
        = RunnableParts(units, plan.groups, plan.tail, plan.folds, plan.absorbed, plan.proofs)
    BY <1>3
  <2> QED
    BY <2>1, <2>2, RunnableIsOfParts
<1> QED
  BY <1>1, <1>2, <1>3, <1>4 DEF IsPlan, noted

\* The schedule of an epoch can be run: whatever the units and the policy,
\* each unit is in one group or inline, each group in one fold or the final
\* proof's own, no lane runs two proofs at once, and no proof starts before
\* what it is made of (streaming.rs, schedule).
THEOREM ScheduleCanBeRun ==
    ASSUME NEW units, IsUnits(units), NEW total, NEW policy \in Policies
    PROVE  IsPlan(units, schedule(units, total, policy))
<1> DEFINE n == Largest(policy.lanes, 1)
           with(lanes) == with_lanes(units, total, [policy EXCEPT !.lanes = lanes], MaxTail)
           S == {plan \in {with(lanes) : lanes \in 1 .. n} : IsPlan(units, plan)}
           each == [lanes \in 1 .. n |-> with(lanes)]
<1>1. n \in Nat \ {0}
  BY DEF Policies, Largest
<1> HIDE DEF n
<1>2. ASSUME NEW lanes \in 1 .. n PROVE IsPlan(units, with(lanes))
  <2> DEFINE narrowed == [policy EXCEPT !.lanes = lanes]
             last == FirstReaching(units, target_balance(narrowed, total))
             best == BestUpto(units, last, ThresholdAt(units, last, total), narrowed, MaxTail)
  <2>1. narrowed \in Policies /\ narrowed.lanes # 0
    <3>1. lanes \in Nat \ {0}
      BY <1>1
    <3> QED
      BY <3>1 DEF Policies
  <2> HIDE DEF narrowed
  <2>2. last \in 1 .. Len(units)
    BY FirstReachingIs
  <2> HIDE DEF last
  <2>3. IsPlan(units, best)
    <3>1. MaxTail \in Nat
      BY DEF MaxTail
    <3> QED
      BY <2>1, <2>2, <3>1, BestUptoIs
  <2>4. with(lanes)
          = [best EXCEPT !.attesting_balance = Accrued(units, last),
                         !.threshold_reached
                             = Accrued(units, last) >= target_balance(narrowed, total)]
    BY DEF with_lanes, last, narrowed
  <2>5. PICK balance, reached :
           /\ balance = Accrued(units, last)
           /\ reached = (Accrued(units, last) >= target_balance(narrowed, total))
    OBVIOUS
  <2> HIDE DEF best, with
  <2>6. IsPlan(units, [best EXCEPT !.attesting_balance = balance,
                                   !.threshold_reached = reached])
    BY <2>3, NotedIsPlan
  <2> QED
    BY <2>4, <2>5, <2>6
<1> HIDE DEF with
<1>3. \A lanes \in 1 .. n : with(lanes) \in S
  BY <1>2
<1> HIDE DEF S
<1>4. each \in Seq(S) /\ each # <<>>
  <2>1. each \in Seq(S) /\ Len(each) = n
    BY <1>1, <1>3
  <2> QED
    BY <1>1, <2>1
<1> HIDE DEF each
<1>5. BestOf(each) \in S
  BY <1>4, BestIsOne
<1>6. schedule(units, total, policy) = BestOf(each)
  BY DEF schedule, schedule_capped, each, with, n
<1> QED
  BY <1>5, <1>6 DEF S
=============================================================================
