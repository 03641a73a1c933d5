---------------------------- MODULE WeightProofs ----------------------------
(***************************************************************************)
(* Proofs about one epoch of ProofPath: what its committees vote, what is  *)
(* heard of it, what the complements, the proofs and their folds attest of *)
(* it, the plan a streamed epoch runs along, and the window drawn of it in *)
(* two batches and in one; for any committees, votes and blocks, any       *)
(* grouping, any plan and any cut.                                         *)
(***************************************************************************)
EXTENDS ProofPathProofs

-----------------------------------------------------------------------------
(* The committees are of the active list.                                  *)

LEMMA FlipStays ==
    ASSUME NEW n \in Nat \ {0}, NEW pivot \in 0 .. n - 1, NEW x \in 0 .. n - 1
    PROVE  flip(pivot, x, n) \in 0 .. n - 1
  BY DEF flip

LEMMA PivotIs ==
    ASSUME NEW n \in Nat \ {0}, NEW seed, NEW r, seed.pivot[r] \in Nat
    PROVE  Pivot(seed, r, n) \in 0 .. n - 1
<1> PICK p \in Nat : p = seed.pivot[r]
  OBVIOUS
<1>1. p % n \in 0 .. n - 1
  OBVIOUS
<1> QED
  BY <1>1 DEF Pivot

\* A round leaves an index within the list, so the shuffle does.
LEMMA ShuffledIndexIs ==
    ASSUME NEW n \in Nat \ {0}, NEW index \in 0 .. n - 1, NEW seed,
           \A r \in Indices(Rounds) : seed.pivot[r] \in Nat
    PROVE  shuffled_index(index, n, seed) \in 0 .. n - 1
<1> DEFINE m == Rounds
           V == 0 .. n - 1
           next(x, r) == LET other == flip(Pivot(seed, r, n), x, n)
                         IN IF seed.bit[r][IF x > other THEN x ELSE other] THEN other ELSE x
           each == Forwards
           op == [p \in V \X (1 .. m) |-> next(p[1], each[p[2]])]
           Unfolds(f) == f = [s \in SUBSET (1 .. m) |->
                                IF s = {} THEN index ELSE next(f[s \ {Max(s)}], each[Max(s)])]
           fold == CHOOSE f : Unfolds(f)
<1>1. m \in Nat
  BY ShuffleAssumption
<1>3. each = [i \in 1 .. m |-> i - 1]
  BY DEF Forwards, Upto
<1>3a. \A i \in 1 .. m : each[i] \in Indices(m)
  BY <1>1, <1>3 DEF Indices
<1> HIDE DEF each
<1>5. IsTable(op, V, m)
  <2>1. ASSUME NEW x \in V, NEW g \in 1 .. m PROVE next(x, each[g]) \in V
    <3>1. Pivot(seed, each[g], n) \in 0 .. n - 1
      BY <1>3a, PivotIs
    <3>2. flip(Pivot(seed, each[g], n), x, n) \in V
      BY <3>1, FlipStays
    <3> QED
      BY <3>2
  <2> HIDE DEF next, V, m
  <2> QED
    BY <2>1 DEF IsTable
<1>6. PICK h, r : IsFoldOf(h, op, index, V, m) /\ IsRunOf(r, op, index, V, m)
                  /\ r[m] = h[1 .. m]
  <2>1. index \in V
    OBVIOUS
  <2> HIDE DEF m, op, V
  <2> QED
    BY <1>1, <2>1, <1>5, FoldRuns
<1>7. h \in [SUBSET (1 .. m) -> V]
      /\ h = [s \in SUBSET (1 .. m) |->
                IF s = {} THEN index ELSE op[<<h[s \ {Max(s)}], Max(s)>>]]
  BY <1>6 DEF IsFoldOf
<1>8. \A s \in SUBSET (1 .. m) : s # {} =>
         op[<<h[s \ {Max(s)}], Max(s)>>] = next(h[s \ {Max(s)}], each[Max(s)])
  <2> SUFFICES ASSUME NEW s \in SUBSET (1 .. m), s # {}
               PROVE  op[<<h[s \ {Max(s)}], Max(s)>>] = next(h[s \ {Max(s)}], each[Max(s)])
    OBVIOUS
  <2>1. Max(s) \in 1 .. m /\ s \ {Max(s)} \in SUBSET (1 .. m)
    BY <1>1, MaxOfFirst
  <2> HIDE DEF next, V, m
  <2>3. h[s \ {Max(s)}] \in V
    BY <1>7, <2>1
  <2>4. <<h[s \ {Max(s)}], Max(s)>> \in V \X (1 .. m)
    BY <2>1, <2>3
  <2> QED
    BY <2>4
<1>9. Unfolds(h)
  <2> HIDE DEF next, op, m, each
  <2>1. [s \in SUBSET (1 .. m) |->
           IF s = {} THEN index ELSE op[<<h[s \ {Max(s)}], Max(s)>>]]
        = [s \in SUBSET (1 .. m) |->
             IF s = {} THEN index ELSE next(h[s \ {Max(s)}], each[Max(s)])]
    BY <1>8
  <2> QED
    BY <1>7, <2>1
<1>10. Unfolds(fold)
  <2> HIDE DEF Unfolds
  <2> QED
    BY <1>9
<1>11. shuffled_index(index, n, seed) = fold[1 .. m]
  <2>1. shuffled_index(index, n, seed) = FoldLeft(next, index, each)
    BY DEF shuffled_index, Trajectory, each
  <2>2. DOMAIN each = 1 .. m
    BY <1>3
  <2> HIDE DEF next
  <2> QED
    BY <2>1, <2>2, SMT DEF FoldLeft, MapThenFoldSet
<1> HIDE DEF fold
<1>12. fold[1 .. m] = r[m]
  <2> HIDE DEF next, op, m, each
  <2>1. \A s \in SUBSET (1 .. m) :
           fold[s] = IF s = {} THEN index ELSE next(fold[s \ {Max(s)}], each[Max(s)])
    BY <1>10
  <2>2. \A s \in SUBSET (1 .. m) :
           h[s] = IF s = {} THEN index ELSE next(h[s \ {Max(s)}], each[Max(s)])
    BY <1>9
  <2>3. fold[{}] = h[{}]
    BY <2>1, <2>2
  <2>4. StepsAgree(fold, h, m)
    BY <2>1, <2>2, <2>3 DEF StepsAgree
  <2>5. fold[1 .. m] = h[1 .. m]
    BY <1>1, <2>4, FoldAgrees
  <2> QED
    BY <1>6, <2>5
<1>13. r[m] \in V
  <2>1. r \in [0 .. m -> V]
    BY <1>6 DEF IsRunOf
  <2>2. m \in 0 .. m
    BY <1>1
  <2> QED
    BY <2>1, <2>2
<1> QED
  BY <1>11, <1>12, <1>13

LEMMA ProductGrows ==
    ASSUME NEW m \in Nat, NEW a \in Int, NEW b \in Int, a <= b
    PROVE  m * a <= m * b /\ m * a \in Int /\ m * b \in Int
<1>1. PICK d \in Nat : b = a + d
  <2>1. b - a \in Nat /\ b = a + (b - a)
    OBVIOUS
  <2> QED
    BY <2>1
<1>2. m * b = m * a + m * d /\ m * d \in Nat /\ m * a \in Int
  BY <1>1
<1> QED
  BY <1>2

LEMMA QuotientBelow ==
    ASSUME NEW n \in Nat, NEW m \in Nat \ {0}, NEW x \in Nat, x <= m * n
    PROVE  x \div m \in 0 .. n
<1>1. PICK q \in Int, r \in 0 .. m - 1 : q = x \div m /\ x = m * q + r
  OBVIOUS
<1>2. q >= 0
  <2> SUFFICES ASSUME q < 0 PROVE FALSE
    OBVIOUS
  <2>1. m * q <= m * (0 - 1) /\ m * q \in Int
    BY ProductGrows
  <2> QED
    BY <1>1, <2>1
<1>3. q <= n
  <2> SUFFICES ASSUME q >= n + 1 PROVE FALSE
    OBVIOUS
  <2>1. m * (n + 1) <= m * q /\ m * q \in Int
    BY ProductGrows
  <2>2. m * (n + 1) = m * n + m /\ m * n \in Int
    OBVIOUS
  <2> QED
    BY <1>1, <2>1, <2>2
<1> QED
  BY <1>1, <1>2, <1>3

\* A slot's committees hold none but those of the list.
LEMMA CommitteesAre ==
    ASSUME NEW S, NEW active \in Seq(S), NEW seed,
           \A r \in Indices(Rounds) : seed.pivot[r] \in Nat,
           NEW table, table = get_committees(active, seed)
    PROVE  /\ DOMAIN table = Indices(SlotCount)
           /\ \A s \in Indices(SlotCount) :
                 /\ DOMAIN table[s] \in SUBSET Int
                 /\ \A c \in DOMAIN table[s] : table[s][c] \in SUBSET S
<1> DEFINE n == Len(active)
           k == Min({Max({(n \div SlotCount) \div CommitteeSize, 1}), CommitteeLimit})
           count == k * SlotCount
           slice(c) == (n * c) \div count .. ((n * (c + 1)) \div count) - 1
<1>1. n \in Nat /\ SlotCount \in Nat \ {0} /\ CommitteeLimit \in Nat \ {0}
      /\ CommitteeSize \in Nat \ {0}
  BY ShuffleAssumption
<1>2. k \in Nat \ {0}
  <2>1. PICK d \in Int : d = (n \div SlotCount) \div CommitteeSize
    <3>1. PICK q \in Int : q = n \div SlotCount
      BY <1>1
    <3> QED
      BY <1>1, <3>1
  <2> DEFINE P == {d, 1}
             w == Max(P)
  <2>2. w \in Nat \ {0}
    <3>1. P \in SUBSET Int /\ P # {} /\ 1 \in P
      OBVIOUS
    <3>2. IsFiniteSet(P)
      <4>1. IsFiniteSet({1})
        BY FS_Singleton
      <4>2. IsFiniteSet({1} \cup {d})
        BY <4>1, FS_AddElement
      <4>3. P = {1} \cup {d}
        OBVIOUS
      <4> QED
        BY <4>2, <4>3
    <3> HIDE DEF P
    <3>3. w \in P /\ 1 <= w
      BY <3>1, <3>2, FiniteMax
    <3> HIDE DEF w
    <3> QED
      BY <3>1, <3>3
  <2> HIDE DEF w
  <2>3. Min({w, CommitteeLimit}) \in {w, CommitteeLimit}
    BY <1>1, <2>2, MinOfTwo
  <2>4. k = Min({w, CommitteeLimit})
    BY <2>1 DEF w
  <2> QED
    BY <1>1, <2>2, <2>3, <2>4
<1> HIDE DEF k
<1>3. table = [s \in Indices(SlotCount) |->
                 [c \in Indices(k) |->
                    {active[shuffled_index(p, n, seed) + 1] : p \in slice((s * k) + c)}]]
  BY DEF get_committees, k
<1>4. count \in Nat \ {0}
  BY <1>1, <1>2
<1> HIDE DEF count, n
<1>5. ASSUME NEW s \in Indices(SlotCount), NEW c \in Indices(k)
      PROVE  slice((s * k) + c) \in SUBSET (0 .. n - 1)
  <2>1. s \in 0 .. SlotCount - 1 /\ c \in 0 .. k - 1
    BY DEF Indices
  <2>2. PICK i \in Nat : i = (s * k) + c
    <3>1. s * k \in Nat /\ c \in Nat
      BY <1>1, <1>2, <2>1
    <3> QED
      BY <3>1
  <2>3. i + 1 <= count
    <3>1. k * s <= k * (SlotCount - 1) /\ k * s \in Int /\ k * (SlotCount - 1) \in Int
      BY <1>1, <1>2, <2>1, ProductGrows
    <3>2. k * (SlotCount - 1) = k * SlotCount - k /\ k * s = s * k
      BY <1>1, <1>2, <2>1
    <3>3. k * SlotCount = count /\ count \in Int
      BY <1>4 DEF count
    <3> QED
      BY <1>2, <2>1, <2>2, <3>1, <3>2, <3>3
  <2>4. n * (i + 1) <= n * count /\ n * count = count * n
    BY <1>1, <1>4, <2>2, <2>3, ProductGrows
  <2>5. n * i \in Nat /\ n * (i + 1) \in Nat
    BY <1>1
  <2>6. n * i <= n * (i + 1)
    BY <1>1, ProductGrows
  <2>7. (n * i) \div count \in 0 .. n
    BY <1>1, <1>4, <2>4, <2>5, <2>6, QuotientBelow
  <2>8. (n * (i + 1)) \div count \in 0 .. n
    BY <1>1, <1>4, <2>4, <2>5, QuotientBelow
  <2> QED
    BY <1>1, <2>2, <2>7, <2>8
<1>6. ASSUME NEW p \in 0 .. n - 1
      PROVE  active[shuffled_index(p, n, seed) + 1] \in S
  <2>1. n \in Nat \ {0}
    BY <1>1
  <2>2. shuffled_index(p, n, seed) \in 0 .. n - 1
    BY <2>1, ShuffledIndexIs
  <2>3. shuffled_index(p, n, seed) + 1 \in 1 .. n
    BY <1>1, <2>2
  <2> QED
    BY <2>3 DEF n
<1> HIDE DEF slice
<1>7. DOMAIN table = Indices(SlotCount)
  BY <1>3
<1>8. ASSUME NEW s \in Indices(SlotCount)
      PROVE  /\ DOMAIN table[s] \in SUBSET Int
             /\ \A c \in DOMAIN table[s] : table[s][c] \in SUBSET S
  <2>1. table[s] = [c \in Indices(k) |->
                      {active[shuffled_index(p, n, seed) + 1] : p \in slice((s * k) + c)}]
    BY <1>3
  <2>2. Indices(k) \in SUBSET Int
    BY <1>2 DEF Indices
  <2>3. ASSUME NEW c \in Indices(k) PROVE table[s][c] \in SUBSET S
    <3>1. table[s][c] = {active[shuffled_index(p, n, seed) + 1] : p \in slice((s * k) + c)}
      BY <2>1
    <3> QED
      BY <1>5, <1>6, <3>1
  <2> QED
    BY <2>1, <2>2, <2>3
<1> QED
  BY <1>7, <1>8

-----------------------------------------------------------------------------
(* Weights.                                                                *)

\* What a set of validators weighs.
Mass(registry, e, T) == SumOf([v \in T |-> active_effective_balance(registry[v], e)])

LEMMA WeightIsNatural ==
    ASSUME NEW registry, IsRegistry(registry), NEW e, NEW v \in DOMAIN registry
    PROVE  active_effective_balance(registry[v], e) \in Nat
  BY DEF IsRegistry, active_effective_balance

\* One function sums every set of registered validators.
LEMMA MassIs ==
    ASSUME NEW registry, IsRegistry(registry), NEW e
    PROVE  \E g : /\ IsAdditive(g, [v \in DOMAIN registry |->
                                      active_effective_balance(registry[v], e)],
                                DOMAIN registry)
                  /\ g[{}] = 0
                  /\ \A T \in SUBSET DOMAIN registry : Mass(registry, e, T) = g[T]
<1> DEFINE D == DOMAIN registry
           d == [v \in D |-> active_effective_balance(registry[v], e)]
           choice == [s \in SUBSET D |-> CHOOSE v \in s : TRUE]
<1>1. IsFiniteSet(D)
  BY ValidatorsAre, FS_Subset DEF IsRegistry
<1>2. \A v \in D : d[v] \in Int
  BY WeightIsNatural
<1>3. PICK g : IsAdditive(g, d, D) /\ g[{}] = 0
  <2>1. Chooses(choice, D)
    BY DEF Chooses
  <2> HIDE DEF choice, D, d
  <2>2. PICK g : IsSum(g, choice, d, 0, D)
    BY <1>1, <2>1, SumExists
  <2>3. IsAdditive(g, d, D) /\ g[{}] = 0
    BY <1>1, <1>2, <2>1, <2>2, SumIsAdditive DEF IsIntegral
  <2> QED
    BY <2>3
<1>4. ASSUME NEW T \in SUBSET D PROVE Mass(registry, e, T) = g[T]
  <2> DEFINE values == [v \in T |-> active_effective_balance(registry[v], e)]
             r == [s \in SUBSET T |-> g[s]]
             zero == [v \in T |-> 0]
             z == [s \in SUBSET T |-> 0]
  <2>1. IsFiniteSet(T) /\ DOMAIN values = T
    BY <1>1, FS_Subset
  <2>2. \A v \in T : values[v] \in Int /\ values[v] = d[v]
    BY <1>2
  <2>3. PICK f : IsAdditive(f, values, T) /\ f[{}] = 0 /\ SumOf(values) = f[T]
    <3> HIDE DEF values
    <3> QED
      BY <2>1, <2>2, SumOfIs
  <2>4. IsAdditive(r, values, T)
    <3>1. r \in [SUBSET T -> Int]
      BY <1>3 DEF IsAdditive
    <3>2. ASSUME NEW s \in SUBSET T, NEW x \in s PROVE r[s] = values[x] + r[s \ {x}]
      <4>1. s \ {x} \in SUBSET T /\ s \in SUBSET D
        OBVIOUS
      <4> HIDE DEF values, d, D
      <4>2. g[s] = d[x] + g[s \ {x}]
        BY <1>3, <4>1 DEF IsAdditive
      <4>3. values[x] = d[x]
        BY <2>2
      <4> QED
        BY <4>1, <4>2, <4>3
    <3> HIDE DEF r, values
    <3> QED
      BY <3>1, <3>2 DEF IsAdditive
  <2>5. IsAdditive(z, zero, T)
    BY DEF IsAdditive
  <2>6. r[T] = f[T]
    <3>1. \A x \in T : values[x] \in Int /\ zero[x] \in Int /\ values[x] = values[x] + zero[x]
      <4>1. \A x \in T : zero[x] = 0
        OBVIOUS
      <4> HIDE DEF values, zero, d
      <4> QED
        BY <2>2, <4>1
    <3>2. z[T] = 0 /\ z[{}] = 0 /\ r[{}] = 0 /\ f[{}] = 0
      BY <1>3, <2>3
    <3>3. r[T] \in Int /\ f[T] \in Int
      BY <2>3, <2>4 DEF IsAdditive
    <3> HIDE DEF z, r, zero, values
    <3>4. \A s \in SUBSET T : r[s] - r[{}] = (f[s] - f[{}]) + (z[s] - z[{}])
      BY <2>1, <2>3, <2>4, <2>5, <3>1, AdditiveSplits
    <3>5. r[T] - r[{}] = (f[T] - f[{}]) + (z[T] - z[{}])
      BY <3>4
    <3> QED
      BY <3>2, <3>3, <3>5
  <2>7. Mass(registry, e, T) = SumOf(values) /\ r[T] = g[T]
    BY DEF Mass
  <2> QED
    BY <2>3, <2>6, <2>7
<1> QED
  BY <1>3, <1>4

LEMMA MassAdds ==
    ASSUME NEW registry, IsRegistry(registry), NEW e
    PROVE  /\ Mass(registry, e, {}) = 0
           /\ \A T \in SUBSET DOMAIN registry : Mass(registry, e, T) \in Nat
           /\ \A S, T \in SUBSET DOMAIN registry :
                 S \cap T = {} =>
                    Mass(registry, e, S \cup T) = Mass(registry, e, S) + Mass(registry, e, T)
           /\ \A S, T \in SUBSET DOMAIN registry :
                 S \subseteq T => Mass(registry, e, S) <= Mass(registry, e, T)
<1> DEFINE D == DOMAIN registry
           d == [v \in D |-> active_effective_balance(registry[v], e)]
<1>0. IsFiniteSet(D)
  BY ValidatorsAre, FS_Subset DEF IsRegistry
<1>1. PICK g : /\ IsAdditive(g, d, D) /\ g[{}] = 0
               /\ \A T \in SUBSET D : Mass(registry, e, T) = g[T]
  BY MassIs
<1>2. \A v \in D : d[v] \in Nat
  BY WeightIsNatural
<1> HIDE DEF d
<1>3. \A s \in SUBSET D : g[s] \in Int
  BY <1>1 DEF IsAdditive
<1>4. \A s \in SUBSET D : \A x \in s : g[s] = d[x] + g[s \ {x}]
  BY <1>1 DEF IsAdditive
<1> HIDE DEF D
<1>5. ASSUME NEW S \in SUBSET D, NEW T \in SUBSET D, S \cap T = {}
      PROVE  g[S \cup T] = g[S] + g[T] /\ g[T] \in Nat
  <2> DEFINE G == {s \in SUBSET T : g[S \cup s] = g[S] + g[s] /\ g[s] \in Nat}
  <2>1. IsFiniteSet(T)
    BY <1>0, FS_Subset
  <2>2. ASSUME NEW s \in SUBSET T, \A t \in SUBSET s : t # s => t \in G
        PROVE  s \in G
    <3>1. CASE s = {}
      <4>1. S \cup s = S
        BY <3>1
      <4> QED
        BY <1>1, <1>3, <3>1, <4>1
    <3>2. CASE s # {}
      <4>1. PICK x : x \in s
        BY <3>2
      <4>2. s \ {x} \in G
        BY <2>2, <4>1
      <4>3. (S \cup s) \ {x} = S \cup (s \ {x})
        BY <4>1, <1>5
      <4>4. g[S \cup s] = d[x] + g[S \cup (s \ {x})]
        BY <1>4, <4>1, <4>3
      <4>5. g[s] = d[x] + g[s \ {x}]
        BY <1>4, <4>1
      <4>6. d[x] \in Nat
        BY <1>2, <4>1
      <4>7. g[S \cup (s \ {x})] = g[S] + g[s \ {x}] /\ g[s \ {x}] \in Nat /\ g[S] \in Int
        BY <1>3, <4>2
      <4>8. g[S \cup s] = g[S] + g[s] /\ g[s] \in Nat
        BY <4>4, <4>5, <4>6, <4>7
      <4> QED
        BY <4>8
    <3> QED
      BY <3>1, <3>2
  <2>3. G \in SUBSET (SUBSET T)
    OBVIOUS
  <2>4. \A s \in SUBSET T : (\A t \in SUBSET s : t # s => t \in G) => s \in G
    BY <2>2
  <2>5. T \in G
    <3> HIDE DEF G
    <3>1. G = SUBSET T
      BY <2>1, <2>3, <2>4, BySize
    <3> QED
      BY <3>1
  <2> QED
    BY <2>5
<1>6. ASSUME NEW S \in SUBSET D, NEW T \in SUBSET D, S \subseteq T PROVE g[S] <= g[T]
  <2>1. T = S \cup (T \ S) /\ S \cap (T \ S) = {} /\ T \ S \in SUBSET D
    BY <1>6
  <2>2. g[S \cup (T \ S)] = g[S] + g[T \ S] /\ g[T \ S] \in Nat
    BY <1>5, <2>1
  <2>3. g[S \cup (T \ S)] = g[T] /\ g[S] \in Int
    BY <1>3, <2>1
  <2> QED
    BY <2>2, <2>3
<1>7. \A T \in SUBSET D : g[T] \in Nat
  <2> SUFFICES ASSUME NEW T \in SUBSET D PROVE g[T] \in Nat
    OBVIOUS
  <2>1. {} \in SUBSET D /\ {} \cap T = {}
    OBVIOUS
  <2> QED
    BY <1>5, <2>1
<1>8. Mass(registry, e, {}) = 0
  BY <1>1
<1>9. \A T \in SUBSET D : Mass(registry, e, T) \in Nat
  BY <1>1, <1>7
<1>10. \A S, T \in SUBSET D :
         S \cap T = {} =>
            Mass(registry, e, S \cup T) = Mass(registry, e, S) + Mass(registry, e, T)
  <2> SUFFICES ASSUME NEW S \in SUBSET D, NEW T \in SUBSET D, S \cap T = {}
               PROVE  Mass(registry, e, S \cup T)
                         = Mass(registry, e, S) + Mass(registry, e, T)
    OBVIOUS
  <2>1. S \cup T \in SUBSET D
    OBVIOUS
  <2> QED
    BY <1>1, <1>5, <2>1
<1>11. \A S, T \in SUBSET D :
         S \subseteq T => Mass(registry, e, S) <= Mass(registry, e, T)
  BY <1>1, <1>6
<1> QED
  BY <1>8, <1>9, <1>10, <1>11 DEF D

\* Whoever voted this source and target in these of an epoch's slots, and what
\* they weigh.
Voters(votes, S, T, slots) ==
    {v \in DOMAIN votes : /\ votes[v].slot % SlotCount \in slots
                          /\ votes[v].source = S /\ votes[v].target = T}

Voted(registry, e, votes, S, T, slots) == Mass(registry, e, Voters(votes, S, T, slots))

LEMMA VotedAdds ==
    ASSUME NEW registry, IsRegistry(registry), NEW e, NEW votes,
           DOMAIN votes \in SUBSET DOMAIN registry, NEW S, NEW T
    PROVE  /\ \A a : Voted(registry, e, votes, S, T, a) \in Nat
           /\ \A a, b : a \cap b = {} =>
                 Voted(registry, e, votes, S, T, a \cup b)
                    = Voted(registry, e, votes, S, T, a) + Voted(registry, e, votes, S, T, b)
           /\ \A a, b : a \subseteq b =>
                 Voted(registry, e, votes, S, T, a) <= Voted(registry, e, votes, S, T, b)
<1> DEFINE V(a) == Voters(votes, S, T, a)
<1>1. \A a : V(a) \in SUBSET DOMAIN registry
  BY DEF Voters
<1>2. ASSUME NEW a PROVE Voted(registry, e, votes, S, T, a) \in Nat
  BY <1>1, MassAdds DEF Voted
<1>3. ASSUME NEW a, NEW b, a \cap b = {}
      PROVE  Voted(registry, e, votes, S, T, a \cup b)
                = Voted(registry, e, votes, S, T, a) + Voted(registry, e, votes, S, T, b)
  <2>1. V(a \cup b) = V(a) \cup V(b) /\ V(a) \cap V(b) = {}
    BY <1>3 DEF Voters
  <2>2. V(a) \in SUBSET DOMAIN registry /\ V(b) \in SUBSET DOMAIN registry
    BY <1>1
  <2>3. Mass(registry, e, V(a) \cup V(b)) = Mass(registry, e, V(a)) + Mass(registry, e, V(b))
    <3> HIDE DEF V
    <3> QED
      BY <2>1, <2>2, MassAdds
  <2> QED
    BY <2>1, <2>3 DEF Voted
<1>4. ASSUME NEW a, NEW b, a \subseteq b
      PROVE  Voted(registry, e, votes, S, T, a) <= Voted(registry, e, votes, S, T, b)
  <2>1. V(a) \subseteq V(b)
    BY <1>4 DEF Voters
  <2>2. V(a) \in SUBSET DOMAIN registry /\ V(b) \in SUBSET DOMAIN registry
    BY <1>1
  <2>3. Mass(registry, e, V(a)) <= Mass(registry, e, V(b))
    <3> HIDE DEF V
    <3> QED
      BY <2>1, <2>2, MassAdds
  <2> QED
    BY <2>3 DEF Voted
<1> QED
  BY <1>2, <1>3, <1>4

\* Two sets without a common validator weigh together what they weigh apart.
LEMMA MassOfTwo ==
    ASSUME NEW registry, IsRegistry(registry), NEW e,
           NEW A, A \in SUBSET DOMAIN registry, NEW B, B \in SUBSET DOMAIN registry,
           A \cap B = {}
    PROVE  Mass(registry, e, A \cup B) = Mass(registry, e, A) + Mass(registry, e, B)
<1>1. \A S, T \in SUBSET DOMAIN registry :
         S \cap T = {} =>
            Mass(registry, e, S \cup T) = Mass(registry, e, S) + Mass(registry, e, T)
  BY MassAdds
<1> QED
  BY <1>1, Zenon

\* The votes of two sets of slots without a common one add up.
LEMMA ApartAdds ==
    ASSUME NEW registry, IsRegistry(registry), NEW e, NEW votes,
           DOMAIN votes \in SUBSET DOMAIN registry, NEW S, NEW T,
           NEW a, NEW b, a \cap b = {}
    PROVE  Voted(registry, e, votes, S, T, a \cup b)
              = Voted(registry, e, votes, S, T, a) + Voted(registry, e, votes, S, T, b)
<1>1. PICK A, B : A = Voters(votes, S, T, a) /\ B = Voters(votes, S, T, b)
  OBVIOUS
<1>2. Voters(votes, S, T, a \cup b) = A \cup B
  BY <1>1 DEF Voters
<1>3. A \in SUBSET DOMAIN registry /\ B \in SUBSET DOMAIN registry
  BY <1>1 DEF Voters
<1>4. A \cap B = {}
  BY <1>1 DEF Voters
<1>5. Mass(registry, e, A \cup B) = Mass(registry, e, A) + Mass(registry, e, B)
  BY <1>3, <1>4, MassOfTwo
<1> QED
  BY <1>1, <1>2, <1>5 DEF Voted

\* Sets weigh together no more than they weigh apart.
LEMMA TwoWeighNoMore ==
    ASSUME NEW registry, IsRegistry(registry), NEW e,
           NEW A, A \in SUBSET DOMAIN registry, NEW B, B \in SUBSET DOMAIN registry
    PROVE  Mass(registry, e, A \cup B) <= Mass(registry, e, A) + Mass(registry, e, B)
<1>1. PICK R : R = B \ A
  OBVIOUS
<1>2. R \in SUBSET DOMAIN registry /\ A \cap R = {} /\ R \in SUBSET B
  BY <1>1
<1>3. A \cup B = A \cup R
  BY <1>1
<1>4. Mass(registry, e, A \cup R) = Mass(registry, e, A) + Mass(registry, e, R)
  BY <1>2, MassOfTwo
<1>5. Mass(registry, e, R) <= Mass(registry, e, B)
  BY <1>2, MassAdds
<1>6. /\ Mass(registry, e, A) \in Nat /\ Mass(registry, e, R) \in Nat
      /\ Mass(registry, e, B) \in Nat
  BY <1>2, MassAdds
<1>7. PICK a \in Nat, r \in Nat, b \in Nat :
         /\ a = Mass(registry, e, A) /\ r = Mass(registry, e, R) /\ b = Mass(registry, e, B)
  BY <1>6
<1>8. a + r <= a + b
  BY <1>5, <1>7
<1> QED
  BY <1>3, <1>4, <1>7, <1>8

LEMMA UnionWeighsNoMore ==
    ASSUME NEW registry, IsRegistry(registry), NEW e, NEW I, IsFiniteSet(I), NEW parts,
           \A i \in I : parts[i] \in SUBSET DOMAIN registry,
           NEW weights, DOMAIN weights = I,
           \A i \in I : weights[i] = Mass(registry, e, parts[i])
    PROVE  /\ SumOf(weights) \in Int
           /\ Mass(registry, e, UNION {parts[i] : i \in I}) <= SumOf(weights)
<1> DEFINE Over(s) == UNION {parts[i] : i \in s}
           V(a) == Mass(registry, e, a)
<1>1. \A i \in I : weights[i] \in Int
  <2> SUFFICES ASSUME NEW i \in I PROVE weights[i] \in Int
    OBVIOUS
  <2>1. PICK A \in SUBSET DOMAIN registry : A = parts[i]
    OBVIOUS
  <2>2. Mass(registry, e, A) \in Nat
    BY MassAdds
  <2> QED
    BY <2>1, <2>2
<1>2. PICK f : IsAdditive(f, weights, I) /\ f[{}] = 0 /\ SumOf(weights) = f[I]
  BY <1>1, SumOfIs
<1>3. \A s \in SUBSET I : f[s] \in Int /\ \A x \in s : f[s] = weights[x] + f[s \ {x}]
  BY <1>2 DEF IsAdditive
<1>4. \A s \in SUBSET I : Over(s) \in SUBSET DOMAIN registry
  OBVIOUS
<1> DEFINE G == {s \in SUBSET I : V(Over(s)) <= f[s]}
<1>5. ASSUME NEW s \in SUBSET I, \A t \in SUBSET s : t # s => t \in G
      PROVE  s \in G
  <2>1. CASE s = {}
    <3>1. Over(s) = {}
      BY <2>1
    <3>2. V({}) = 0
      BY MassAdds
    <3>3. f[s] = 0
      BY <1>2, <2>1
    <3>4. V(Over(s)) <= f[s]
      <4> HIDE DEF Over, V
      <4> QED
        BY <3>1, <3>2, <3>3
    <3> QED
      BY <3>4
  <2>2. CASE s # {}
    <3>1. PICK x \in s : TRUE
      BY <2>2
    <3>2. PICK t : t = s \ {x}
      OBVIOUS
    <3>3. t \in SUBSET s /\ t # s /\ t \in SUBSET I /\ x \in I
      BY <3>1, <3>2
    <3>4. V(Over(t)) <= f[t]
      BY <1>5, <3>3
    <3>5. Over(s) = Over(t) \cup parts[x]
      BY <3>1, <3>2
    <3>6. PICK A, B : /\ A = Over(t) /\ B = parts[x]
                      /\ A \in SUBSET DOMAIN registry /\ B \in SUBSET DOMAIN registry
      BY <1>4, <3>3
    <3>7. V(A \cup B) <= V(A) + V(B)
      BY <3>6, TwoWeighNoMore
    <3>8. V(A) \in Nat /\ V(B) \in Nat /\ V(A \cup B) \in Nat
      <4>1. A \cup B \in SUBSET DOMAIN registry
        BY <3>6
      <4> QED
        BY <3>6, <4>1, MassAdds
    <3>9. f[s] = weights[x] + f[t] /\ f[s] \in Int /\ f[t] \in Int /\ weights[x] \in Int
      BY <1>1, <1>3, <3>1, <3>2, <3>3
    <3>10. weights[x] = V(B) /\ V(A) <= f[t]
      BY <3>3, <3>4, <3>6
    <3>11. V(A \cup B) <= f[s]
      <4> HIDE DEF V
      <4> QED
        BY <3>7, <3>8, <3>9, <3>10
    <3>12. V(Over(s)) <= f[s]
      <4> HIDE DEF V, Over
      <4> QED
        BY <3>5, <3>6, <3>11
    <3> QED
      BY <3>12
  <2> QED
    BY <2>1, <2>2
<1>6. G = SUBSET I
  <2>1. G \in SUBSET (SUBSET I)
    OBVIOUS
  <2>2. \A s \in SUBSET I : (\A t \in SUBSET s : t # s => t \in G) => s \in G
    BY <1>5
  <2> HIDE DEF G
  <2> QED
    BY <2>1, <2>2, BySize
<1>7. V(Over(I)) <= f[I]
  <2>1. I \in G
    <3> HIDE DEF G
    <3> QED
      BY <1>6
  <2> QED
    BY <2>1
<1> QED
  BY <1>2, <1>3, <1>7

\* Claims on disjoint sets, each no more than its set weighs, are no more
\* together.
LEMMA ApartWeighNoLess ==
    ASSUME NEW registry, IsRegistry(registry), NEW e, NEW I, IsFiniteSet(I), NEW parts,
           \A i \in I : parts[i] \in SUBSET DOMAIN registry,
           \A i, j \in I : i # j => parts[i] \cap parts[j] = {},
           NEW claims, DOMAIN claims = I,
           \A i \in I : claims[i] \in Int /\ claims[i] <= Mass(registry, e, parts[i])
    PROVE  /\ SumOf(claims) \in Int
           /\ SumOf(claims) <= Mass(registry, e, UNION {parts[i] : i \in I})
<1> DEFINE Over(s) == UNION {parts[i] : i \in s}
           V(a) == Mass(registry, e, a)
<1>2. PICK f : IsAdditive(f, claims, I) /\ f[{}] = 0 /\ SumOf(claims) = f[I]
  BY SumOfIs
<1>3. \A s \in SUBSET I : f[s] \in Int /\ \A x \in s : f[s] = claims[x] + f[s \ {x}]
  BY <1>2 DEF IsAdditive
<1>4. \A s \in SUBSET I : Over(s) \in SUBSET DOMAIN registry
  OBVIOUS
<1> DEFINE G == {s \in SUBSET I : f[s] <= V(Over(s))}
<1>5. ASSUME NEW s \in SUBSET I, \A t \in SUBSET s : t # s => t \in G
      PROVE  s \in G
  <2>1. CASE s = {}
    <3>1. Over(s) = {}
      BY <2>1
    <3>2. V({}) = 0
      BY MassAdds
    <3>3. f[s] = 0
      BY <1>2, <2>1
    <3>4. f[s] <= V(Over(s))
      <4> HIDE DEF Over, V
      <4> QED
        BY <3>1, <3>2, <3>3
    <3> QED
      BY <3>4
  <2>2. CASE s # {}
    <3>1. PICK x \in s : TRUE
      BY <2>2
    <3>2. PICK t : t = s \ {x}
      OBVIOUS
    <3>3. t \in SUBSET s /\ t # s /\ t \in SUBSET I /\ x \in I
      BY <3>1, <3>2
    <3>4. f[t] <= V(Over(t))
      BY <1>5, <3>3
    <3>5. Over(s) = Over(t) \cup parts[x] /\ Over(t) \cap parts[x] = {}
      BY <3>1, <3>2
    <3>6. PICK A, B : /\ A = Over(t) /\ B = parts[x]
                      /\ A \in SUBSET DOMAIN registry /\ B \in SUBSET DOMAIN registry
      BY <1>4, <3>3
    <3>6a. A \cap B = {}
      BY <3>5, <3>6
    <3>7. V(A \cup B) = V(A) + V(B)
      BY <3>6, <3>6a, MassOfTwo
    <3>8. V(A) \in Nat /\ V(B) \in Nat
      BY <3>6, MassAdds
    <3>9. f[s] = claims[x] + f[t] /\ f[t] \in Int /\ claims[x] \in Int
      BY <1>3, <3>1, <3>2, <3>3
    <3>10. claims[x] <= V(B) /\ f[t] <= V(A)
      BY <3>3, <3>4, <3>6
    <3>11. f[s] <= V(A \cup B)
      <4> HIDE DEF V
      <4> QED
        BY <3>7, <3>8, <3>9, <3>10
    <3>12. f[s] <= V(Over(s))
      <4> HIDE DEF V, Over
      <4> QED
        BY <3>5, <3>6, <3>11
    <3> QED
      BY <3>12
  <2> QED
    BY <2>1, <2>2
<1>6. G = SUBSET I
  <2>1. G \in SUBSET (SUBSET I)
    OBVIOUS
  <2>2. \A s \in SUBSET I : (\A t \in SUBSET s : t # s => t \in G) => s \in G
    BY <1>5
  <2> HIDE DEF G
  <2> QED
    BY <2>1, <2>2, BySize
<1>7. f[I] <= V(Over(I))
  <2>1. I \in G
    <3> HIDE DEF G
    <3> QED
      BY <1>6
  <2> QED
    BY <2>1
<1> QED
  BY <1>2, <1>3, <1>7

\* More votes weigh no less.
LEMMA VotedGrows ==
    ASSUME NEW registry, IsRegistry(registry), NEW e, NEW votes, NEW more,
           DOMAIN more \in SUBSET DOMAIN registry, DOMAIN votes \in SUBSET DOMAIN more,
           \A v \in DOMAIN votes : more[v] = votes[v], NEW S, NEW T, NEW slots
    PROVE  Voted(registry, e, votes, S, T, slots) <= Voted(registry, e, more, S, T, slots)
<1>1. Voters(votes, S, T, slots) \subseteq Voters(more, S, T, slots)
  BY DEF Voters
<1>2. /\ Voters(votes, S, T, slots) \in SUBSET DOMAIN registry
      /\ Voters(more, S, T, slots) \in SUBSET DOMAIN registry
  BY DEF Voters
<1> QED
  BY <1>1, <1>2, MassAdds DEF Voted

\* Each of some disjoint sets of slots is claimed no more than was voted in
\* it.
ClaimsNoMore(registry, e, votes, S, T, balance, mask) ==
    balance \in Int /\ balance <= Voted(registry, e, votes, S, T, mask)

LEMMA ClaimsAdd ==
    ASSUME NEW registry, IsRegistry(registry), NEW e, NEW votes,
           DOMAIN votes \in SUBSET DOMAIN registry, NEW S, NEW T,
           NEW base, NEW counted, ClaimsNoMore(registry, e, votes, S, T, base, counted),
           NEW I, IsFiniteSet(I), NEW balances, NEW masks, DOMAIN balances = I,
           \A i \in I : /\ ClaimsNoMore(registry, e, votes, S, T, balances[i], masks[i])
                        /\ masks[i] \cap counted = {},
           \A i, j \in I : i # j => masks[i] \cap masks[j] = {}
    PROVE  ClaimsNoMore(registry, e, votes, S, T, base + SumOf(balances),
                        counted \cup UNION {masks[i] : i \in I})
<1> DEFINE V(a) == Voted(registry, e, votes, S, T, a)
           Over(s) == counted \cup UNION {masks[i] : i \in s}
<1>1. \A a : V(a) \in Nat
  BY VotedAdds
<1>2. ASSUME NEW a, NEW b, a \cap b = {}
      PROVE  V(a \cup b) = V(a) + V(b)
  BY <1>2, ApartAdds
<1>3. \A i \in I : balances[i] \in Int /\ balances[i] <= V(masks[i])
  BY DEF ClaimsNoMore
<1>4. base \in Int /\ base <= V(counted)
  BY DEF ClaimsNoMore
<1>5. PICK f : IsAdditive(f, balances, I) /\ f[{}] = 0 /\ SumOf(balances) = f[I]
  BY <1>3, SumOfIs
<1> DEFINE G == {s \in SUBSET I : base + f[s] <= V(Over(s))}
<1> HIDE DEF V
<1>6. ASSUME NEW s \in SUBSET I, \A t \in SUBSET s : t # s => t \in G
      PROVE  s \in G
  <2>1. CASE s = {}
    <3>1. Over(s) = counted
      BY <2>1
    <3>2. f[s] = 0 /\ base + 0 = base
      BY <1>4, <1>5, <2>1
    <3>3. base + f[s] <= V(Over(s))
      <4> HIDE DEF Over
      <4> QED
        BY <1>4, <3>1, <3>2
    <3> QED
      BY <3>3
  <2>2. CASE s # {}
    <3>1. PICK x : x \in s
      BY <2>2
    <3>2. s \ {x} \in G /\ x \in I
      BY <1>6, <3>1
    <3>3. f[s] = balances[x] + f[s \ {x}] /\ f[s \ {x}] \in Int
      BY <1>5, <3>1 DEF IsAdditive
    <3>4. Over(s) = Over(s \ {x}) \cup masks[x]
      BY <3>1
    <3>5. Over(s \ {x}) \cap masks[x] = {}
      BY <3>1
    <3>6. V(Over(s)) = V(Over(s \ {x})) + V(masks[x])
      <4> HIDE DEF Over
      <4> QED
        BY <1>2, <3>4, <3>5
    <3>7. base + f[s \ {x}] <= V(Over(s \ {x}))
      BY <3>2
    <3> HIDE DEF Over
    <3>8. base + f[s] <= V(Over(s))
      BY <1>1, <1>3, <1>4, <3>2, <3>3, <3>6, <3>7
    <3> QED
      BY <3>8
  <2> QED
    BY <2>1, <2>2
<1>7. I \in G
  <2>1. G \in SUBSET (SUBSET I)
    OBVIOUS
  <2>2. \A s \in SUBSET I : (\A t \in SUBSET s : t # s => t \in G) => s \in G
    BY <1>6
  <2> HIDE DEF G
  <2>3. G = SUBSET I
    BY <2>1, <2>2, BySize
  <2> QED
    BY <2>3
<1>8. f[I] \in Int
  BY <1>5 DEF IsAdditive
<1> QED
  BY <1>4, <1>5, <1>7, <1>8 DEF ClaimsNoMore, V

-----------------------------------------------------------------------------
(* The committees an epoch opens with.                                     *)

IsCommittees(committees, registry, e) ==
    /\ DOMAIN committees.slots \in SUBSET DOMAIN registry
    /\ committees.balances
          = [v \in DOMAIN committees.slots |-> active_effective_balance(registry[v], e)]
    /\ committees.root = CommitteeRoot(committees.slots, committees.balances)
    /\ \A s \in Indices(SlotCount) : DOMAIN committees.table[s] \in SUBSET Int

LEMMA CommitteesBuilt ==
    ASSUME NEW registry, IsRegistry(registry), NEW e, NEW seed,
           \A r \in Indices(Rounds) : seed.pivot[r] \in Nat, NEW total,
           NEW committees,
           committees = build(get_committees(ActiveList(registry, e), seed),
                              AccTree(registry, e), e, total)
    PROVE  IsCommittees(committees, registry, e)
<1> DEFINE active == {v \in DOMAIN registry : active_effective_balance(registry[v], e) > 0}
           table == get_committees(ActiveList(registry, e), seed)
           D == UNION {UNION {table[s][c] : c \in DOMAIN table[s]} : s \in DOMAIN table}
           tree == AccTree(registry, e)
<1>1. IsFiniteSet(active) /\ active \in SUBSET Int /\ active \in SUBSET DOMAIN registry
  <2>1. active \in SUBSET Validators /\ active \in SUBSET DOMAIN registry
    BY DEF IsRegistry
  <2> HIDE DEF active
  <2> QED
    BY <2>1, ValidatorsAre, FS_Subset
<1>2. ActiveList(registry, e) \in Seq(active)
  <2>1. ActiveList(registry, e) = InOrder(active)
    BY DEF ActiveList
  <2> HIDE DEF active
  <2> QED
    BY <1>1, <2>1, InOrderSorts
<1> HIDE DEF active
<1>3. /\ DOMAIN table = Indices(SlotCount)
      /\ \A s \in Indices(SlotCount) :
            /\ DOMAIN table[s] \in SUBSET Int
            /\ \A c \in DOMAIN table[s] : table[s][c] \in SUBSET active
  BY <1>2, CommitteesAre
<1> HIDE DEF table
<1>4. D \in SUBSET DOMAIN registry
  <2> SUFFICES ASSUME NEW v \in D PROVE v \in DOMAIN registry
    OBVIOUS
  <2>1. PICK s \in DOMAIN table : v \in UNION {table[s][c] : c \in DOMAIN table[s]}
    OBVIOUS
  <2>2. PICK c \in DOMAIN table[s] : v \in table[s][c]
    BY <2>1
  <2>3. table[s][c] \in SUBSET active
    BY <1>3, <2>1, <2>2
  <2> QED
    BY <1>1, <2>2, <2>3
<1>5. /\ committees.table = table /\ DOMAIN committees.slots = D
      /\ committees.balances = [v \in D |-> tree[v]]
      /\ committees.root = CommitteeRoot(committees.slots, committees.balances)
  BY DEF build, table
<1> HIDE DEF D
<1>6. \A v \in D : tree[v] = active_effective_balance(registry[v], e)
  BY <1>4 DEF AccTree, IsRegistry
<1> HIDE DEF tree
<1>7. committees.balances = [v \in D |-> active_effective_balance(registry[v], e)]
  BY <1>5, <1>6
<1> QED
  BY <1>3, <1>4, <1>5, <1>7 DEF IsCommittees

-----------------------------------------------------------------------------
(* What is heard.                                                          *)

Checkpoints == [epoch : Int, root : Int]
VoteData == [slot : Int, head : Int, source : Checkpoints, target : Checkpoints]

\* Attestations over votes that were cast, and aggregates summed of them.
Heard(votes) ==
    {a \in [data : VoteData, bits : SUBSET DOMAIN votes, single : BOOLEAN,
            committees : SUBSET Int] :
        \A v \in a.bits : votes[v] = a.data}

Aggregates(votes, S, T) ==
    {a \in [data : VoteData, signers : SUBSET DOMAIN votes, signature : [Validators -> Int]] :
        /\ a.data.source = S /\ a.data.target = T
        /\ a.signers # {} /\ \A v \in a.signers : votes[v] = a.data}

AggregatesAt(votes, S, T, slot) == {a \in Aggregates(votes, S, T) : a.data.slot = slot}

\* A stream of an epoch's aggregates.
Buckets(votes, S, T) ==
    {sums \in UNION {[keys -> Aggregates(votes, S, T)] : keys \in SUBSET (VoteData \X Int)} :
        IsFiniteSet(DOMAIN sums) /\ \A k \in DOMAIN sums : sums[k].data = k[1]}

Streams(committees, S, T, votes) ==
    [committees : {committees}, source : {S}, target : {T},
     pending : Seq(Aggregates(votes, S, T)), summed : Buckets(votes, S, T),
     closed : SUBSET Int]

LEMMA PointsAre ==
    /\ Identity \in [Validators -> Int]
    /\ \A vs : PointSum(vs) \in [Validators -> Int]
    /\ \A a, b \in [Validators -> Int] : Plus(a, b) \in [Validators -> Int]
  BY DEF Identity, PointSum, Plus

\* The images of finitely many are finitely many.
LEMMA ImageIsFinite ==
    ASSUME NEW S, IsFiniteSet(S), NEW f
    PROVE  IsFiniteSet({f[x] : x \in S})
<1> DEFINE T == {f[x] : x \in S}
           g == [x \in S |-> f[x]]
<1>1. g \in Surjection(S, T)
  BY DEF Surjection
<1> HIDE DEF g, T
<1>2. IsFiniteSet(T)
  BY <1>1, FS_Surjection
<1> QED
  BY <1>2 DEF T

\* The aggregates chosen are among the slot's.
LEMMA PackIs ==
    ASSUME NEW committees, NEW S, NEW T, NEW votes, IsFiniteSet(DOMAIN votes),
           NEW stream \in Streams(committees, S, T, votes), NEW slot,
           NEW chosen, chosen = Pack(stream, slot)
    PROVE  /\ chosen \in SUBSET AggregatesAt(votes, S, T, slot) /\ IsFiniteSet(chosen)
           /\ (\E a \in ToSet(stream.pending) : a.data.slot = slot) => chosen # {}
<1> DEFINE A == AggregatesAt(votes, S, T, slot)
           all == Aggregates(votes, S, T)
           pending == stream.pending
           positions == {i \in DOMAIN pending : pending[i].data.slot = slot}
           theirs == SeqAt(pending, positions)
           keys == [i \in DOMAIN theirs |-> -Cardinality(theirs[i].signers)]
           each == StableSort(theirs, keys)
           n == Len(theirs)
           V == {x \in SUBSET A : IsFiniteSet(x)}
           none == {}
           next(c, a) == IF \E b \in c : b.data = a.data /\ b.signers \cap a.signers # {}
                         THEN c ELSE c \cup {a}
           op == [p \in V \X (1 .. n) |-> next(p[1], each[p[2]])]
           Unfolds(f) == f = [s \in SUBSET (1 .. n) |->
                                IF s = {} THEN none ELSE next(f[s \ {Max(s)}], each[Max(s)])]
           fold == CHOOSE f : Unfolds(f)
<1>0. pending \in Seq(all)
  BY DEF Streams
<1>1. /\ theirs \in Seq(A) /\ n \in Nat /\ DOMAIN theirs = 1 .. n
      /\ n = Cardinality(positions)
  <2>1. positions \in SUBSET DOMAIN pending
    OBVIOUS
  <2>1a. \A i \in positions : pending[i].data.slot = slot
    OBVIOUS
  <2> HIDE DEF positions, pending, all, A
  <2>2. /\ theirs \in Seq(all) /\ n = Cardinality(positions)
        /\ DOMAIN theirs = 1 .. Cardinality(positions) /\ Cardinality(positions) \in Nat
        /\ \A k \in 1 .. Cardinality(positions) :
              /\ InOrder(positions)[k] \in positions
              /\ theirs[k] = pending[InOrder(positions)[k]]
    BY <1>0, <2>1, SeqAtIs
  <2> HIDE DEF theirs
  <2>3. ASSUME NEW k \in 1 .. n PROVE theirs[k] \in A
    <3>1. theirs[k].data.slot = slot
      BY <2>1a, <2>2
    <3>2. theirs[k] \in all
      BY <2>2
    <3> QED
      BY <3>1, <3>2 DEF A, all, AggregatesAt
  <2>4. theirs \in [1 .. n -> A]
    <3>1. theirs \in [1 .. n -> all]
      BY <2>2
    <3> QED
      BY <2>3, <3>1
  <2> HIDE DEF n
  <2>5. n \in Nat
    BY <2>2
  <2> QED
    BY <2>2, <2>4, <2>5
<1>1a. ASSUME \E a \in ToSet(pending) : a.data.slot = slot PROVE n # 0
  <2>1. DOMAIN pending = 1 .. Len(pending) /\ Len(pending) \in Nat
    BY <1>0
  <2>2. PICK i \in DOMAIN pending : pending[i].data.slot = slot
    BY <1>1a, SMT DEF ToSet
  <2>3. positions # {} /\ IsFiniteSet(positions)
    <3>1. IsFiniteSet(DOMAIN pending)
      BY <2>1, FS_Interval
    <3>2. positions \in SUBSET DOMAIN pending /\ i \in positions
      BY <2>2
    <3> HIDE DEF positions
    <3> QED
      BY <3>1, <3>2, FS_Subset
  <2> HIDE DEF positions, n
  <2> QED
    BY <1>1, <2>3, FS_EmptySet
<1> HIDE DEF positions
<1>2. \A i \in 1 .. n : IsFiniteSet(theirs[i].signers)
  <2> HIDE DEF theirs
  <2> SUFFICES ASSUME NEW i \in 1 .. n PROVE IsFiniteSet(theirs[i].signers)
    OBVIOUS
  <2>1. theirs[i] \in A
    <3> HIDE DEF A
    <3> QED
      BY <1>1
  <2>2. theirs[i].signers \in SUBSET DOMAIN votes
    BY <2>1 DEF AggregatesAt, Aggregates
  <2> QED
    BY <2>2, FS_Subset
<1> HIDE DEF theirs, A
<1>3. keys \in [1 .. n -> Int]
  <2>1. \A i \in 1 .. n : -Cardinality(theirs[i].signers) \in Int
    <3> SUFFICES ASSUME NEW i \in 1 .. n PROVE -Cardinality(theirs[i].signers) \in Int
      OBVIOUS
    <3>1. Cardinality(theirs[i].signers) \in Nat
      BY <1>2, FS_CardinalityType
    <3> QED
      BY <3>1
  <2> QED
    BY <1>1, <2>1
<1> HIDE DEF keys
<1>4. each \in Seq(A) /\ Len(each) = n
  BY <1>1, <1>3, StableSortIs
<1> HIDE DEF each, n
<1>4a. DOMAIN each = 1 .. n /\ \A i \in 1 .. n : each[i] \in A
  BY <1>4
<1>5. IsTable(op, V, n)
  <2>1. ASSUME NEW x \in V, NEW g \in 1 .. n PROVE next(x, each[g]) \in V
    <3>1. each[g] \in A
      BY <1>4a
    <3>2. IsFiniteSet(x \cup {each[g]})
      BY FS_AddElement
    <3> QED
      BY <3>1, <3>2
  <2> HIDE DEF next, V
  <2> QED
    BY <2>1 DEF IsTable
<1>5a. none \in V
  BY FS_EmptySet
<1>6. PICK h, r : IsFoldOf(h, op, none, V, n) /\ IsRunOf(r, op, none, V, n)
                  /\ r[n] = h[1 .. n]
  <2> HIDE DEF op, V, none
  <2> QED
    BY <1>1, <1>5, <1>5a, FoldRuns
<1>7. h \in [SUBSET (1 .. n) -> V]
      /\ h = [s \in SUBSET (1 .. n) |->
                IF s = {} THEN none ELSE op[<<h[s \ {Max(s)}], Max(s)>>]]
  BY <1>6 DEF IsFoldOf
<1>8. \A s \in SUBSET (1 .. n) : s # {} =>
         op[<<h[s \ {Max(s)}], Max(s)>>] = next(h[s \ {Max(s)}], each[Max(s)])
  <2> SUFFICES ASSUME NEW s \in SUBSET (1 .. n), s # {}
               PROVE  op[<<h[s \ {Max(s)}], Max(s)>>] = next(h[s \ {Max(s)}], each[Max(s)])
    OBVIOUS
  <2>1. Max(s) \in 1 .. n /\ s \ {Max(s)} \in SUBSET (1 .. n)
    BY <1>1, MaxOfFirst
  <2> HIDE DEF next, V
  <2>3. h[s \ {Max(s)}] \in V
    BY <1>7, <2>1
  <2>4. <<h[s \ {Max(s)}], Max(s)>> \in V \X (1 .. n)
    BY <2>1, <2>3
  <2> QED
    BY <2>4
<1>9. Unfolds(h)
  <2> HIDE DEF next, op, none
  <2>1. [s \in SUBSET (1 .. n) |->
           IF s = {} THEN none ELSE op[<<h[s \ {Max(s)}], Max(s)>>]]
        = [s \in SUBSET (1 .. n) |->
             IF s = {} THEN none ELSE next(h[s \ {Max(s)}], each[Max(s)])]
    BY <1>8
  <2> QED
    BY <1>7, <2>1
<1>10. Unfolds(fold)
  <2> HIDE DEF Unfolds
  <2> QED
    BY <1>9
<1>11. chosen = fold[1 .. n]
  <2>1. chosen = FoldLeft(next, none, each)
    BY DEF Pack, each, keys, theirs, positions
  <2> HIDE DEF next
  <2> QED
    BY <1>4a, <2>1, SMT DEF FoldLeft, MapThenFoldSet
<1> HIDE DEF fold
<1>12. fold[1 .. n] = r[n]
  <2> HIDE DEF next, op, none
  <2>1. \A s \in SUBSET (1 .. n) :
           fold[s] = IF s = {} THEN none ELSE next(fold[s \ {Max(s)}], each[Max(s)])
    BY <1>10
  <2>2. \A s \in SUBSET (1 .. n) :
           h[s] = IF s = {} THEN none ELSE next(h[s \ {Max(s)}], each[Max(s)])
    BY <1>9
  <2>3. fold[{}] = h[{}]
    BY <2>1, <2>2
  <2>4. StepsAgree(fold, h, n)
    BY <2>1, <2>2, <2>3 DEF StepsAgree
  <2>5. fold[1 .. n] = h[1 .. n]
    BY <1>1, <2>4, FoldAgrees
  <2> QED
    BY <1>6, <2>5
<1>13. r[n] \in V
  <2>1. r \in [0 .. n -> V]
    BY <1>6 DEF IsRunOf
  <2>2. n \in 0 .. n
    BY <1>1
  <2> QED
    BY <2>1, <2>2
<1>14. ASSUME n # 0 PROVE chosen # {}
  <2> HIDE DEF op, none
  <2>1. 1 .. n \in SUBSET (1 .. n) /\ 1 .. n # {}
    BY <1>1, <1>14
  <2>2. next(fold[(1 .. n) \ {Max(1 .. n)}], each[Max(1 .. n)]) = fold[1 .. n]
    <3> HIDE DEF next
    <3>1. \A s \in SUBSET (1 .. n) :
             fold[s] = IF s = {} THEN none ELSE next(fold[s \ {Max(s)}], each[Max(s)])
      BY <1>10
    <3> QED
      BY <2>1, <3>1
  <2>3. PICK x, a : next(x, a) = fold[1 .. n]
    <3> HIDE DEF next
    <3> QED
      BY <2>2
  <2>4. CASE \E b \in x : b.data = a.data /\ b.signers \cap a.signers # {}
    <3>1. x # {}
      BY <2>4
    <3>2. fold[1 .. n] = x
      BY <2>3, <2>4
    <3> QED
      BY <1>11, <3>1, <3>2
  <2>5. CASE ~ \E b \in x : b.data = a.data /\ b.signers \cap a.signers # {}
    <3>1. fold[1 .. n] = x \cup {a}
      BY <2>3, <2>5
    <3> QED
      BY <1>11, <3>1
  <2> QED
    BY <2>4, <2>5
<1>15. chosen \in V
  BY <1>11, <1>12, <1>13
<1> QED
  BY <1>1a, <1>14, <1>15 DEF A

LEMMA BucketsAre ==
    ASSUME NEW committees, NEW S, NEW T, NEW votes,
           NEW stream \in Streams(committees, S, T, votes)
    PROVE  /\ IsFiniteSet(DOMAIN stream.summed)
           /\ DOMAIN stream.summed \in SUBSET (VoteData \X Int)
           /\ \A k \in DOMAIN stream.summed : /\ stream.summed[k] \in Aggregates(votes, S, T)
                                              /\ stream.summed[k].data = k[1]
<1>1. stream.summed \in Buckets(votes, S, T)
  BY DEF Streams
<1>2. PICK sums : sums = stream.summed
  OBVIOUS
<1>3. PICK keys \in SUBSET (VoteData \X Int) : sums \in [keys -> Aggregates(votes, S, T)]
  BY <1>1, <1>2 DEF Buckets
<1>4. IsFiniteSet(DOMAIN sums) /\ \A k \in DOMAIN sums : sums[k].data = k[1]
  BY <1>1, <1>2 DEF Buckets
<1> QED
  BY <1>2, <1>3, <1>4

\* What is left of a bucket is of the votes it was of.
LEMMA ResidualIs ==
    ASSUME NEW S, NEW T, NEW votes, NEW b \in Aggregates(votes, S, T), NEW covered,
           NEW left, left = residual(b, covered), left.signers # {}
    PROVE  left \in Aggregates(votes, S, T) /\ left.data = b.data
<1>1. CASE left = b
  BY <1>1
<1>2. CASE left = Aggregate(b.data, b.signers \ covered, PointSum(b.signers \ covered))
  <2> DEFINE signers == b.signers \ covered
  <2>1. /\ left.data = b.data /\ left.signers = signers
        /\ left.signature = PointSum(signers)
        /\ left = [data |-> b.data, signers |-> signers, signature |-> PointSum(signers)]
    BY <1>2 DEF Aggregate
  <2>2. /\ b.data \in VoteData /\ b.signers \in SUBSET DOMAIN votes
        /\ b.data.source = S /\ b.data.target = T /\ \A v \in b.signers : votes[v] = b.data
    BY DEF Aggregates
  <2>3. signers \in SUBSET DOMAIN votes /\ \A v \in signers : votes[v] = b.data
    BY <2>2
  <2>4. PointSum(signers) \in [Validators -> Int]
    BY PointsAre
  <2> HIDE DEF signers
  <2>5. left \in [data : VoteData, signers : SUBSET DOMAIN votes,
                  signature : [Validators -> Int]]
    BY <2>1, <2>2, <2>3, <2>4
  <2> QED
    BY <2>1, <2>2, <2>3, <2>5 DEF Aggregates
<1> QED
  BY <1>1, <1>2 DEF residual

\* So is everything that covers a slot.
LEMMA CoverIs ==
    ASSUME NEW committees, NEW S, NEW T, NEW votes, IsFiniteSet(DOMAIN votes),
           NEW stream \in Streams(committees, S, T, votes), NEW slot,
           NEW cover, cover = CoverOf(stream, slot)
    PROVE  /\ cover \in SUBSET AggregatesAt(votes, S, T, slot) /\ IsFiniteSet(cover)
           /\ slot \in open_slots(stream) => cover # {}
<1> DEFINE chosen == Pack(stream, slot)
           covered(d) == Signers({a \in chosen : a.data = d})
           keys == {x \in DOMAIN stream.summed : x[1].slot = slot}
           buckets == {stream.summed[k] : k \in keys}
           rest == {residual(b, covered(b.data)) : b \in buckets}
           left == {a \in rest : a.signers # {}}
<1>1. cover = chosen \cup left
  BY DEF CoverOf
<1>2. /\ chosen \in SUBSET AggregatesAt(votes, S, T, slot) /\ IsFiniteSet(chosen)
      /\ (\E a \in ToSet(stream.pending) : a.data.slot = slot) => chosen # {}
  BY PackIs
<1> HIDE DEF chosen
<1>3. /\ IsFiniteSet(keys)
      /\ \A b \in buckets : b \in Aggregates(votes, S, T) /\ b.data.slot = slot
  <2>1. IsFiniteSet(keys)
    BY BucketsAre, FS_Subset
  <2>2. ASSUME NEW k \in keys
        PROVE  stream.summed[k] \in Aggregates(votes, S, T) /\ stream.summed[k].data.slot = slot
    BY BucketsAre
  <2> QED
    BY <2>1, <2>2
<1>4. IsFiniteSet(left)
  <2>1. IsFiniteSet(buckets)
    <3> HIDE DEF keys
    <3> QED
      BY <1>3, ImageIsFinite
  <2>2. IsFiniteSet(rest)
    <3> HIDE DEF buckets
    <3> DEFINE f == [b \in buckets |-> residual(b, covered(b.data))]
    <3>1. rest = {f[b] : b \in buckets}
      OBVIOUS
    <3> HIDE DEF f, rest
    <3> QED
      BY <2>1, <3>1, ImageIsFinite
  <2> HIDE DEF rest
  <2> QED
    BY <2>2, FS_Subset
<1>5. left \in SUBSET AggregatesAt(votes, S, T, slot)
  <2> HIDE DEF covered, buckets
  <2> SUFFICES ASSUME NEW b \in buckets, residual(b, covered(b.data)).signers # {}
               PROVE  residual(b, covered(b.data)) \in AggregatesAt(votes, S, T, slot)
    OBVIOUS
  <2>1. PICK c, a : c = covered(b.data) /\ a = residual(b, c)
    OBVIOUS
  <2>2. b \in Aggregates(votes, S, T) /\ b.data.slot = slot
    BY <1>3
  <2>3. a \in Aggregates(votes, S, T) /\ a.data = b.data
    BY <2>1, <2>2, ResidualIs
  <2> QED
    BY <2>1, <2>2, <2>3 DEF AggregatesAt
<1>6. ASSUME slot \in open_slots(stream) PROVE cover # {}
  <2> SUFFICES ASSUME cover = {} PROVE FALSE
    OBVIOUS
  <2>1. chosen = {} /\ left = {}
    BY <1>1
  <2>2. ~ \E a \in ToSet(stream.pending) : a.data.slot = slot
    BY <1>2, <2>1
  <2>3. PICK k \in DOMAIN stream.summed : k[1].slot = slot
    BY <1>6, <2>2 DEF open_slots
  <2>4. PICK b : b = stream.summed[k]
    OBVIOUS
  <2>5. b \in buckets /\ b.signers # {}
    BY <1>3, <2>3, <2>4 DEF Aggregates
  <2>6. covered(b.data) = {}
    BY <2>1 DEF Signers
  <2>7. residual(b, {}) = b
    BY DEF residual
  <2>8. b \in rest
    <3>1. residual(b, covered(b.data)) \in rest
      BY <2>5
    <3> HIDE DEF rest, covered
    <3> QED
      BY <2>6, <2>7, <3>1
  <2> QED
    BY <2>1, <2>5, <2>8
<1> QED
  <2> HIDE DEF left
  <2> QED
    BY <1>1, <1>2, <1>4, <1>5, <1>6, FS_Union

-----------------------------------------------------------------------------
(* What a slot's complement supports.                                      *)

LEMMA SlotIndex ==
    ASSUME NEW slot \in Int
    PROVE  slot % SlotCount \in Indices(SlotCount) /\ slot % SlotCount \in Int
<1>1. PICK n \in Nat \ {0} : n = SlotCount
  BY ShuffleAssumption
<1>2. slot % n \in 0 .. n - 1
  OBVIOUS
<1> QED
  BY <1>1, <1>2 DEF Indices

\* Of some messages one has the most votes, and among those the last head.
Leads(d, x, n, h) == n[x] < n[d] \/ (n[x] = n[d] /\ h[x] <= h[d])

LEMMA OneLeads ==
    ASSUME NEW M, IsFiniteSet(M), M # {}, NEW n, NEW h,
           \A x \in M : n[x] \in Nat /\ h[x] \in Int
    PROVE  \E d \in M : \A x \in M : Leads(d, x, n, h)
<1> DEFINE Led(s) == s = {} \/ \E d \in s : \A x \in s : Leads(d, x, n, h)
           G == {s \in SUBSET M : Led(s)}
<1>1. ASSUME NEW s \in SUBSET M, \A t \in SUBSET s : t # s => t \in G
      PROVE  s \in G
  <2>1. CASE s = {}
    BY <2>1
  <2>2. CASE s # {}
    <3>1. PICK y \in s : TRUE
      BY <2>2
    <3>2. PICK t : t = s \ {y}
      OBVIOUS
    <3>3. t \in SUBSET s /\ t # s /\ s = t \cup {y} /\ y \in M
      BY <3>1, <3>2
    <3>4. Led(t)
      BY <1>1, <3>3
    <3>5. CASE t = {}
      <4>1. s = {y} /\ Leads(y, y, n, h)
        BY <3>3, <3>5 DEF Leads
      <4> QED
        BY <4>1
    <3>6. CASE t # {}
      <4>1. PICK d \in t : \A x \in t : Leads(d, x, n, h)
        BY <3>4, <3>6
      <4>2. d \in M /\ d \in s /\ t \in SUBSET M
        BY <3>3
      <4>3. CASE Leads(d, y, n, h)
        <5>1. \A x \in s : Leads(d, x, n, h)
          BY <3>3, <4>1, <4>3
        <5> QED
          BY <4>2, <5>1
      <4>4. CASE ~Leads(d, y, n, h)
        <5>1. ASSUME NEW x \in t PROVE Leads(y, x, n, h)
          <6>1. Leads(d, x, n, h)
            BY <4>1
          <6>2. /\ n[x] \in Nat /\ n[d] \in Nat /\ n[y] \in Nat
                /\ h[x] \in Int /\ h[d] \in Int /\ h[y] \in Int
            BY <3>3, <4>2
          <6> QED
            BY <4>4, <6>1, <6>2 DEF Leads
        <5>2. Leads(y, y, n, h)
          BY <3>3 DEF Leads
        <5>3. \A x \in s : Leads(y, x, n, h)
          BY <3>3, <5>1, <5>2
        <5> QED
          BY <3>1, <5>3
      <4> QED
        BY <4>3, <4>4
    <3> QED
      BY <3>5, <3>6
  <2> QED
    BY <2>1, <2>2
<1>2. G = SUBSET M
  <2>1. G \in SUBSET (SUBSET M)
    OBVIOUS
  <2>2. \A s \in SUBSET M : (\A t \in SUBSET s : t # s => t \in G) => s \in G
    BY <1>1
  <2> HIDE DEF G
  <2> QED
    BY <2>1, <2>2, BySize
<1>3. M \in G
  <2> HIDE DEF G
  <2> QED
    BY <1>2
<1> QED
  BY <1>3

\* What a slot counts for its primary message is no more than what was voted
\* for it: who voted for another, and who did not vote, is subtracted.
IsCounted(c, registry, e, votes) ==
    /\ c.primary.data.slot = c.slot
    /\ Counted(c) \in Int
    /\ Counted(c) <= Mass(registry, e, {v \in DOMAIN votes : votes[v] = c.primary.data})

LEMMA MergeIs ==
    ASSUME NEW aggregates
    PROVE  merge(aggregates).data = (CHOOSE a \in aggregates : TRUE).data
BY DEF merge

LEMMA CountedIs ==
    ASSUME NEW registry, IsRegistry(registry), NEW e, NEW votes, NEW S, NEW T,
           NEW committees, IsCommittees(committees, registry, e),
           DOMAIN votes \in SUBSET DOMAIN committees.slots,
           NEW stream \in Streams(committees, S, T, votes), NEW slot \in Int,
           slot \in open_slots(stream), NEW c, c = peek(stream, slot)
    PROVE  IsCounted(c, registry, e, votes)
<1> DEFINE cover == CoverOf(stream, slot)
           s == slot % SlotCount
           votesFor(d) == Cardinality(Signers({a \in cover : a.data = d}))
           messages == {a.data : a \in cover}
           primary == CHOOSE d \in messages : \A x \in messages :
                         votesFor(x) < votesFor(d)
                            \/ (votesFor(x) = votesFor(d) /\ x.head <= d.head)
           chosen == {a \in cover : a.data = primary}
           secondary == {a \in cover : a.data # primary}
           absentees == MembersAt(committees, s) \ Signers(cover)
           opened(vs) == [v \in vs |-> committees.balances[v]]
           members == MembersAt(committees, s)
           V(a) == Mass(registry, e, a)
<1>0. /\ IsFiniteSet(DOMAIN registry) /\ IsFiniteSet(DOMAIN votes)
      /\ DOMAIN committees.slots \in SUBSET DOMAIN registry
      /\ DOMAIN votes \in SUBSET DOMAIN registry
      /\ stream.committees = committees
  <2>1. IsFiniteSet(DOMAIN registry)
    BY ValidatorsAre, FS_Subset DEF IsRegistry
  <2>2. DOMAIN committees.slots \in SUBSET DOMAIN registry
    BY DEF IsCommittees
  <2> QED
    BY <2>1, <2>2, FS_Subset DEF Streams
<1>1. /\ cover \in SUBSET AggregatesAt(votes, S, T, slot) /\ IsFiniteSet(cover)
      /\ cover # {}
  BY <1>0, CoverIs
<1>2. /\ c.slot = slot /\ c.committee = committees.root[s]
      /\ c.secondary = {[data |-> a.data, signature |-> a.signature,
                         attesting_validators |-> opened(a.signers)] : a \in secondary}
      /\ c.absentees = opened(absentees)
  BY <1>0 DEF peek
<1>2a. c.primary = merge(chosen)
  BY DEF peek
<1> HIDE DEF cover
<1>3. \A a \in cover : /\ a.data \in VoteData /\ a.data.slot = slot
                       /\ a.signers \in SUBSET DOMAIN votes
                       /\ \A v \in a.signers : votes[v] = a.data
  BY <1>1 DEF AggregatesAt, Aggregates
<1>4. primary \in messages
  <2> DEFINE n == [d \in messages |-> votesFor(d)]
             h == [d \in messages |-> d.head]
  <2>1. IsFiniteSet(messages)
    <3> DEFINE f == [a \in cover |-> a.data]
    <3>1. messages = {f[a] : a \in cover}
      OBVIOUS
    <3> HIDE DEF f, messages
    <3> QED
      BY <1>1, <3>1, ImageIsFinite
  <2>2. messages # {}
    BY <1>1
  <2>3. \A d \in messages : votesFor(d) \in Nat /\ d.head \in Int
    <3> SUFFICES ASSUME NEW d \in messages PROVE votesFor(d) \in Nat /\ d.head \in Int
      OBVIOUS
    <3>1. Signers({a \in cover : a.data = d}) \in SUBSET DOMAIN votes
      BY <1>3 DEF Signers
    <3>2. IsFiniteSet(Signers({a \in cover : a.data = d}))
      BY <1>0, <3>1, FS_Subset
    <3>3. d \in VoteData
      BY <1>3
    <3> QED
      BY <3>2, <3>3, FS_CardinalityType DEF VoteData
  <2> HIDE DEF messages, votesFor
  <2>4. \A x \in messages : n[x] \in Nat /\ h[x] \in Int /\ n[x] = votesFor(x) /\ h[x] = x.head
    BY <2>3
  <2> HIDE DEF n, h
  <2>5. PICK d \in messages : \A x \in messages : Leads(d, x, n, h)
    BY <2>1, <2>2, <2>4, OneLeads
  <2>6. \A x \in messages : votesFor(x) < votesFor(d)
                               \/ (votesFor(x) = votesFor(d) /\ x.head <= d.head)
    BY <2>4, <2>5 DEF Leads
  <2> QED
    BY <2>6
<1> HIDE DEF primary
<1>5. chosen # {}
  BY <1>4
<1>6. c.primary.data = primary /\ primary.slot = slot
  <2>1. c.primary.data = (CHOOSE a \in chosen : TRUE).data
    <3> HIDE DEF chosen
    <3> QED
      BY <1>2a, MergeIs
  <2>2. (CHOOSE a \in chosen : TRUE) \in chosen
    BY <1>5
  <2>3. \A a \in chosen : a.data = primary /\ a.data.slot = slot
    BY <1>3
  <2> HIDE DEF chosen
  <2> QED
    BY <2>1, <2>2, <2>3
<1>7. /\ Signers(chosen) \in SUBSET DOMAIN votes
      /\ Signers(chosen) \in SUBSET {v \in DOMAIN votes : votes[v] = primary}
      /\ Signers(secondary) \in SUBSET DOMAIN votes
      /\ Signers(cover) = Signers(chosen) \cup Signers(secondary)
  <2>1. \A a \in chosen : /\ a.signers \in SUBSET DOMAIN votes
                          /\ \A v \in a.signers : votes[v] = primary
    BY <1>3
  <2>2. \A a \in secondary : a.signers \in SUBSET DOMAIN votes
    BY <1>3
  <2>3. cover = chosen \cup secondary
    OBVIOUS
  <2> HIDE DEF chosen, secondary
  <2> QED
    BY <2>1, <2>2, <2>3 DEF Signers
<1>8. IsFiniteSet(secondary) /\ \A a \in secondary : a.signers \in SUBSET DOMAIN committees.slots
  <2>1. secondary \in SUBSET cover
    OBVIOUS
  <2> HIDE DEF secondary
  <2> QED
    BY <1>1, <1>3, <2>1, FS_Subset
<1> HIDE DEF chosen, secondary
<1>9. \A vs \in SUBSET DOMAIN committees.slots : SumOf(opened(vs)) = V(vs)
  <2> SUFFICES ASSUME NEW vs \in SUBSET DOMAIN committees.slots
               PROVE  SumOf(opened(vs)) = V(vs)
    OBVIOUS
  <2>1. \A v \in vs : committees.balances[v] = active_effective_balance(registry[v], e)
    BY DEF IsCommittees
  <2>2. opened(vs) = [v \in vs |-> active_effective_balance(registry[v], e)]
    BY <2>1
  <2> QED
    BY <2>2 DEF Mass
<1>10. /\ members \in SUBSET DOMAIN committees.slots
       /\ absentees \in SUBSET DOMAIN committees.slots
       /\ members \in SUBSET (absentees \cup (Signers(chosen) \cup Signers(secondary)))
       /\ members = {} => absentees = {}
  BY <1>7 DEF MembersAt
<1>11. committees.root[s] = IF members = {} THEN NoCommittee
                            ELSE [pubkey |-> PointSum(members), balance |-> SumOf(opened(members))]
  <2>1. s \in Indices(SlotCount)
    BY SlotIndex
  <2> QED
    BY <2>1 DEF IsCommittees, CommitteeRoot, MembersAt
<1> DEFINE each == [m \in c.secondary |-> SumOf(m.attesting_validators)]
<1>12. SumOf(each) \in Int /\ V(Signers(secondary)) <= SumOf(each)
  <2> DEFINE parts == [m \in c.secondary |-> DOMAIN m.attesting_validators]
             entry == [a \in secondary |->
                         [data |-> a.data, signature |-> a.signature,
                          attesting_validators |-> opened(a.signers)]]
  <2>1. c.secondary = {entry[a] : a \in secondary}
    BY <1>2
  <2>2. IsFiniteSet(c.secondary)
    <3> HIDE DEF entry
    <3> QED
      BY <1>8, <2>1, ImageIsFinite
  <2>3. \A a \in secondary : /\ entry[a].attesting_validators = opened(a.signers)
                             /\ DOMAIN entry[a].attesting_validators = a.signers
    OBVIOUS
  <2> HIDE DEF entry, opened
  <2>4. \A m \in c.secondary : /\ parts[m] \in SUBSET DOMAIN registry
                               /\ each[m] = V(parts[m])
    <3> SUFFICES ASSUME NEW a \in secondary
                 PROVE  /\ DOMAIN entry[a].attesting_validators \in SUBSET DOMAIN registry
                        /\ SumOf(entry[a].attesting_validators)
                              = V(DOMAIN entry[a].attesting_validators)
      BY <2>1
    <3> HIDE DEF V
    <3> QED
      BY <1>0, <1>8, <1>9, <2>3
  <2>5. UNION {parts[m] : m \in c.secondary} = Signers(secondary)
    <3>1. \A a \in secondary : entry[a] \in c.secondary /\ parts[entry[a]] = a.signers
      BY <2>1, <2>3
    <3>2. \A m \in c.secondary : \E a \in secondary : m = entry[a]
      BY <2>1
    <3> HIDE DEF parts
    <3>3. ASSUME NEW m \in c.secondary, NEW v \in parts[m] PROVE v \in Signers(secondary)
      BY <3>1, <3>2 DEF Signers
    <3>4. ASSUME NEW a \in secondary, NEW v \in a.signers
          PROVE  v \in UNION {parts[m] : m \in c.secondary}
      BY <3>1
    <3> QED
      BY <3>3, <3>4 DEF Signers
  <2>6. DOMAIN each = c.secondary
    OBVIOUS
  <2> HIDE DEF each, parts
  <2>7. /\ SumOf(each) \in Int
        /\ V(UNION {parts[m] : m \in c.secondary}) <= SumOf(each)
    BY <2>2, <2>4, <2>6, UnionWeighsNoMore
  <2> QED
    BY <2>5, <2>7
<1>13. Counted(c) = (committees.root[s].balance - V(absentees)) - SumOf(each)
  BY <1>2, <1>9, <1>10 DEF Counted, Support
<1> HIDE DEF each, opened, absentees, members, s
<1>14. PICK M, A, P, Q :
          /\ M = members /\ A = absentees /\ P = Signers(chosen) /\ Q = Signers(secondary)
          /\ M \in SUBSET DOMAIN registry /\ A \in SUBSET DOMAIN registry
          /\ P \in SUBSET DOMAIN registry /\ Q \in SUBSET DOMAIN registry
          /\ M \in SUBSET (A \cup (P \cup Q))
  BY <1>0, <1>7, <1>10
<1>15. V(M) \in Nat /\ V(A) \in Nat /\ V(P) \in Nat /\ V(Q) \in Nat
  BY <1>14, MassAdds
<1>16. V(M) <= V(A) + (V(P) + V(Q))
  <2>1. PICK R : R = P \cup Q
    OBVIOUS
  <2>2. R \in SUBSET DOMAIN registry /\ V(R) <= V(P) + V(Q)
    <3>1. R \in SUBSET DOMAIN registry
      BY <1>14, <2>1
    <3> QED
      BY <1>14, <2>1, <3>1, TwoWeighNoMore
  <2>3. PICK U : U = A \cup R
    OBVIOUS
  <2>4. U \in SUBSET DOMAIN registry /\ M \in SUBSET U
    BY <1>14, <2>1, <2>2, <2>3
  <2>5. V(U) <= V(A) + V(R)
    BY <1>14, <2>2, <2>3, TwoWeighNoMore
  <2>6. V(M) <= V(U)
    BY <1>14, <2>4, MassAdds
  <2>7. V(U) \in Nat /\ V(R) \in Nat
    BY <2>2, <2>4, MassAdds
  <2>8. PICK m \in Nat, x \in Nat, p \in Nat, q \in Nat, u \in Nat, r \in Nat :
           m = V(M) /\ x = V(A) /\ p = V(P) /\ q = V(Q) /\ u = V(U) /\ r = V(R)
    BY <1>15, <2>7
  <2>9. m <= u /\ u <= x + r /\ r <= p + q
    BY <2>2, <2>5, <2>6, <2>8
  <2>10. m <= x + (p + q)
    BY <2>9
  <2> QED
    BY <2>8, <2>10
<1>17. committees.root[s].balance \in Int /\ committees.root[s].balance <= V(M)
  <2>1. CASE members = {}
    <3>1. committees.root[s].balance = -1
      BY <1>11, <2>1 DEF NoCommittee, Zero
    <3> HIDE DEF V
    <3> QED
      BY <1>15, <3>1
  <2>2. CASE members # {}
    <3>1. committees.root[s].balance = V(members)
      BY <1>9, <1>10, <1>11, <2>2
    <3> QED
      BY <1>14, <1>15, <3>1
  <2> QED
    BY <2>1, <2>2
<1>18. Counted(c) \in Int /\ Counted(c) <= V(P)
  <2>1. PICK b \in Int, y \in Int, m \in Nat, x \in Nat, p \in Nat, q \in Nat :
           /\ b = committees.root[s].balance /\ y = SumOf(each)
           /\ m = V(M) /\ x = V(A) /\ p = V(P) /\ q = V(Q)
    BY <1>12, <1>15, <1>17
  <2>2. b <= m /\ m <= x + (p + q) /\ q <= y
    BY <1>12, <1>14, <1>16, <1>17, <2>1
  <2>3. Counted(c) = (b - x) - y
    BY <1>13, <1>14, <2>1
  <2>4. (b - x) - y \in Int /\ (b - x) - y <= p
    BY <2>2
  <2> QED
    BY <2>1, <2>3, <2>4
<1>19. PICK W : /\ W = {v \in DOMAIN votes : votes[v] = primary}
                /\ W \in SUBSET DOMAIN registry /\ P \in SUBSET W
  BY <1>0, <1>7, <1>14
<1>20. V(P) <= V(W) /\ V(W) \in Nat
  BY <1>14, <1>19, MassAdds
<1>21. Counted(c) <= V(W)
  <2> HIDE DEF V
  <2> QED
    BY <1>15, <1>18, <1>20
<1> QED
  BY <1>2, <1>6, <1>18, <1>19, <1>21 DEF IsCounted

\* A complement the guest may be given: what it names is finite, and what it
\* is left with no more than was voted.
IsComplement(c, registry, e, votes, S, T) ==
    /\ c.slot \in Int /\ c.slot_in_epoch = c.slot % SlotCount
    /\ IsFiniteSet(c.named) /\ IsFiniteSet(c.secondary)
    /\ ClaimsNoMore(registry, e, votes, S, T, Support(c), {c.slot_in_epoch})
    /\ IsCounted(c, registry, e, votes)

LEMMA PeekIs ==
    ASSUME NEW registry, IsRegistry(registry), NEW e, NEW votes,
           DOMAIN votes \in SUBSET DOMAIN registry, NEW S, NEW T,
           NEW committees, IsCommittees(committees, registry, e),
           DOMAIN votes \in SUBSET DOMAIN committees.slots,
           NEW stream \in Streams(committees, S, T, votes), NEW slot \in Int,
           slot \in open_slots(stream), NEW c, c = peek(stream, slot)
    PROVE  IsComplement(c, registry, e, votes, S, T) /\ c.slot = slot
<1> DEFINE cover == CoverOf(stream, slot)
           s == slot % SlotCount
           votesFor(d) == Cardinality(Signers({a \in cover : a.data = d}))
           messages == {a.data : a \in cover}
           primary == CHOOSE d \in messages : \A x \in messages :
                         votesFor(x) < votesFor(d)
                            \/ (votesFor(x) = votesFor(d) /\ x.head <= d.head)
           secondary == {a \in cover : a.data # primary}
           absentees == MembersAt(committees, s) \ Signers(cover)
           opened(vs) == [v \in vs |-> committees.balances[v]]
<1>0. /\ IsFiniteSet(DOMAIN registry) /\ IsFiniteSet(DOMAIN votes)
      /\ DOMAIN committees.slots \in SUBSET DOMAIN registry
      /\ stream.committees = committees
  <2>1. IsFiniteSet(DOMAIN registry)
    BY ValidatorsAre, FS_Subset DEF IsRegistry
  <2> QED
    BY <2>1, FS_Subset DEF IsCommittees, Streams
<1>1. cover \in SUBSET AggregatesAt(votes, S, T, slot) /\ IsFiniteSet(cover)
  BY <1>0, CoverIs
<1>2. /\ c.slot = slot /\ c.slot_in_epoch = s /\ c.committee = committees.root[s]
      /\ c.named = Signers(secondary) \cup absentees
      /\ c.secondary = {[data |-> a.data, signature |-> a.signature,
                         attesting_validators |-> opened(a.signers)] : a \in secondary}
      /\ c.absentees = opened(absentees)
  BY <1>0 DEF peek
<1> HIDE DEF cover, primary
<1>3. IsFiniteSet(secondary) /\ secondary \in SUBSET cover
  BY <1>1, FS_Subset
<1> HIDE DEF secondary
<1>4. IsFiniteSet(c.secondary)
  <2> DEFINE f == [a \in secondary |->
                      [data |-> a.data, signature |-> a.signature,
                       attesting_validators |-> opened(a.signers)]]
  <2>1. c.secondary = {f[a] : a \in secondary}
    BY <1>2
  <2> HIDE DEF f
  <2> QED
    BY <1>3, <2>1, ImageIsFinite
<1>5. Signers(secondary) \in SUBSET DOMAIN votes
  <2>1. \A a \in secondary : a.signers \in SUBSET DOMAIN votes
    BY <1>1, <1>3 DEF AggregatesAt, Aggregates
  <2> QED
    BY <2>1 DEF Signers
<1>6. /\ MembersAt(committees, s) \in SUBSET DOMAIN registry
      /\ MembersAt(committees, s) \in SUBSET DOMAIN committees.slots
      /\ absentees \in SUBSET MembersAt(committees, s)
  BY <1>0 DEF MembersAt
<1>7. IsFiniteSet(c.named)
  <2>1. c.named \in SUBSET DOMAIN registry
    BY <1>2, <1>5, <1>6
  <2> QED
    BY <1>0, <2>1, FS_Subset
<1> DEFINE members == MembersAt(committees, s)
           present == members \ absentees
<1>8. present \in SUBSET Voters(votes, S, T, {s})
  <2> SUFFICES ASSUME NEW v \in present PROVE v \in Voters(votes, S, T, {s})
    OBVIOUS
  <2>1. PICK a \in cover : v \in a.signers
    BY DEF Signers
  <2>2. a \in AggregatesAt(votes, S, T, slot)
    BY <1>1
  <2>3. a.data.slot = slot /\ a \in Aggregates(votes, S, T)
    BY <2>2 DEF AggregatesAt
  <2>4. /\ a.data.source = S /\ a.data.target = T /\ v \in DOMAIN votes /\ votes[v] = a.data
    BY <2>1, <2>3 DEF Aggregates
  <2> QED
    BY <2>3, <2>4 DEF Voters
<1>9. \A vs \in SUBSET members : SumOf(opened(vs)) = Mass(registry, e, vs)
  <2> SUFFICES ASSUME NEW vs \in SUBSET members
               PROVE  SumOf(opened(vs)) = Mass(registry, e, vs)
    OBVIOUS
  <2>1. \A v \in vs : committees.balances[v] = active_effective_balance(registry[v], e)
    BY <1>6 DEF IsCommittees
  <2>2. opened(vs) = [v \in vs |-> active_effective_balance(registry[v], e)]
    BY <2>1
  <2> QED
    BY <2>2 DEF Mass
<1>10. s \in Indices(SlotCount)
  BY SlotIndex
<1>11. committees.root[s] = IF members = {} THEN NoCommittee
                            ELSE [pubkey |-> PointSum(members), balance |-> SumOf(opened(members))]
  BY <1>10 DEF IsCommittees, CommitteeRoot, MembersAt
<1>12. Support(c) = committees.root[s].balance - Mass(registry, e, absentees)
  BY <1>2, <1>6, <1>9 DEF Support
<1> HIDE DEF opened, absentees, s
<1>13. Support(c) \in Int /\ Support(c) <= Mass(registry, e, present)
  <2>1. /\ members \in SUBSET DOMAIN registry /\ present \in SUBSET DOMAIN registry
        /\ absentees \in SUBSET DOMAIN registry
        /\ present \cap absentees = {} /\ present \cup absentees = members
    BY <1>6
  <2>2. Mass(registry, e, members) = Mass(registry, e, present) + Mass(registry, e, absentees)
        /\ Mass(registry, e, present) \in Nat /\ Mass(registry, e, absentees) \in Nat
    <3> HIDE DEF members, present
    <3>1. Mass(registry, e, present \cup absentees)
             = Mass(registry, e, present) + Mass(registry, e, absentees)
      <4>1. PICK P \in SUBSET DOMAIN registry, Q \in SUBSET DOMAIN registry :
               P = present /\ Q = absentees /\ P \cap Q = {}
        BY <2>1
      <4>2. Mass(registry, e, P \cup Q) = Mass(registry, e, P) + Mass(registry, e, Q)
        BY <4>1, MassOfTwo
      <4> QED
        BY <4>1, <4>2
    <3>2. Mass(registry, e, present) \in Nat /\ Mass(registry, e, absentees) \in Nat
      BY <2>1, MassAdds
    <3> QED
      BY <2>1, <3>1, <3>2
  <2>3. CASE members = {}
    <3>1. committees.root[s].balance = -1
      BY <1>11, <2>3 DEF NoCommittee, Zero
    <3> HIDE DEF members, present
    <3> QED
      BY <1>12, <2>2, <3>1
  <2>4. CASE members # {}
    <3>1. committees.root[s].balance = Mass(registry, e, members)
      BY <1>9, <1>11, <2>4
    <3> HIDE DEF members, present
    <3> QED
      BY <1>12, <2>2, <3>1
  <2> QED
    BY <2>3, <2>4
<1>14. Mass(registry, e, present) <= Voted(registry, e, votes, S, T, {s})
  <2>1. /\ present \in SUBSET DOMAIN registry
        /\ Voters(votes, S, T, {s}) \in SUBSET DOMAIN registry
    BY <1>6 DEF Voters
  <2> HIDE DEF present
  <2> QED
    BY <1>8, <2>1, MassAdds DEF Voted
<1>15. Voted(registry, e, votes, S, T, {s}) \in Nat /\ Mass(registry, e, present) \in Nat
  <2>1. present \in SUBSET DOMAIN registry
    BY <1>6
  <2> HIDE DEF present
  <2> QED
    BY <2>1, VotedAdds, MassAdds
<1>16. ClaimsNoMore(registry, e, votes, S, T, Support(c), {c.slot_in_epoch})
  BY <1>2, <1>13, <1>14, <1>15 DEF ClaimsNoMore
<1>17. IsCounted(c, registry, e, votes)
  BY CountedIs
<1> QED
  BY <1>2, <1>4, <1>7, <1>16, <1>17 DEF IsComplement, s

-----------------------------------------------------------------------------
(* The stream as it is read.                                               *)

LEMMA StreamIs ==
    ASSUME NEW committees, NEW S, NEW T, NEW votes,
           NEW stream \in Streams(committees, S, T, votes)
    PROVE  /\ DOMAIN stream = {"committees", "source", "target", "pending", "summed", "closed"}
           /\ stream.committees = committees /\ stream.source = S /\ stream.target = T
           /\ stream.pending \in Seq(Aggregates(votes, S, T))
           /\ stream.summed \in Buckets(votes, S, T)
           /\ stream.closed \in SUBSET Int
           /\ \A pending \in Seq(Aggregates(votes, S, T)) :
                 [stream EXCEPT !.pending = pending] \in Streams(committees, S, T, votes)
           /\ \A summed \in Buckets(votes, S, T) :
                 [stream EXCEPT !.summed = summed] \in Streams(committees, S, T, votes)
  BY DEF Streams

\* One more signature is summed into a bucket.
LEMMA SingleKeeps ==
    ASSUME NEW committees, NEW S, NEW T, NEW votes,
           NEW stream \in Streams(committees, S, T, votes),
           NEW att \in Heard(votes), att.data.source = S, att.data.target = T,
           NEW v \in att.bits, att.committees # {}
    PROVE  sum_single(stream, att, v) \in Streams(committees, S, T, votes)
<1> DEFINE A == Aggregates(votes, S, T)
           sums == stream.summed
           key == <<att.data, CHOOSE c \in att.committees : TRUE>>
           held == IF key \in DOMAIN sums THEN sums[key] ELSE Aggregate(att.data, {}, Identity)
           added == IF v \in held.signers THEN held
                    ELSE Aggregate(att.data, held.signers \cup {v},
                                   Plus(held.signature, PointSum({v})))
           after == [k \in DOMAIN sums \cup {key} |-> IF k = key THEN added ELSE sums[k]]
<1>1. /\ att.data \in VoteData /\ att.bits \in SUBSET DOMAIN votes
      /\ votes[v] = att.data /\ v \in DOMAIN votes
      /\ att.committees \in SUBSET Int
  BY DEF Heard
<1>2. key \in VoteData \X Int /\ key[1] = att.data
  <2>1. (CHOOSE c \in att.committees : TRUE) \in Int
    BY <1>1
  <2> QED
    BY <1>1, <2>1
<1> HIDE DEF key
<1>3. /\ IsFiniteSet(DOMAIN sums) /\ DOMAIN sums \in SUBSET (VoteData \X Int)
      /\ \A k \in DOMAIN sums : sums[k] \in A /\ sums[k].data = k[1]
  BY BucketsAre
<1>4. /\ held.data = att.data /\ held.signers \in SUBSET DOMAIN votes
      /\ held.signature \in [Validators -> Int]
      /\ \A u \in held.signers : votes[u] = att.data
      /\ held.signers # {} => held \in A
  <2>1. CASE key \in DOMAIN sums
    <3>1. held \in A /\ held.data = att.data
      BY <1>2, <1>3, <2>1
    <3> HIDE DEF held
    <3> QED
      BY <3>1 DEF A, Aggregates
  <2>2. CASE key \notin DOMAIN sums
    <3>1. held = Aggregate(att.data, {}, Identity)
      BY <2>2
    <3> HIDE DEF held
    <3> QED
      BY <3>1, PointsAre DEF Aggregate
  <2> QED
    BY <2>1, <2>2
<1> HIDE DEF held
<1>5. added \in A /\ added.data = att.data
  <2>1. CASE v \in held.signers
    BY <1>4, <2>1
  <2>2. CASE v \notin held.signers
    <3> DEFINE signers == held.signers \cup {v}
               signature == Plus(held.signature, PointSum({v}))
    <3>1. signature \in [Validators -> Int]
      BY <1>4, PointsAre
    <3>2. /\ signers \in SUBSET DOMAIN votes /\ signers # {}
          /\ \A u \in signers : votes[u] = att.data
      BY <1>1, <1>4
    <3>3. added = [data |-> att.data, signers |-> signers, signature |-> signature]
      BY <2>2 DEF Aggregate
    <3> HIDE DEF signers, signature, added
    <3> QED
      BY <1>1, <3>1, <3>2, <3>3 DEF A, Aggregates
  <2> QED
    BY <2>1, <2>2
<1> HIDE DEF added, A
<1>6. after \in Buckets(votes, S, T)
  <2> DEFINE keys == DOMAIN sums \cup {key}
  <2>1. keys \in SUBSET (VoteData \X Int) /\ IsFiniteSet(keys) /\ DOMAIN after = keys
    <3>1. IsFiniteSet(DOMAIN sums \cup {key})
      BY <1>3, FS_AddElement
    <3> QED
      BY <1>2, <1>3, <3>1
  <2>2. \A k \in keys : after[k] \in A /\ after[k].data = k[1]
    <3> SUFFICES ASSUME NEW k \in keys PROVE after[k] \in A /\ after[k].data = k[1]
      OBVIOUS
    <3>1. CASE k = key
      BY <1>2, <1>5, <3>1
    <3>2. CASE k # key
      BY <1>3, <3>2
    <3> QED
      BY <3>1, <3>2
  <2>3. after = [k \in keys |-> after[k]]
    OBVIOUS
  <2> HIDE DEF after, keys
  <2>4. after \in [keys -> A]
    BY <2>2, <2>3
  <2>5. /\ \E s \in SUBSET (VoteData \X Int) : after \in [s -> A]
        /\ IsFiniteSet(DOMAIN after) /\ \A k \in DOMAIN after : after[k].data = k[1]
    BY <2>1, <2>2, <2>4
  <2> QED
    BY <2>5 DEF Buckets, A
<1>7. sum_single(stream, att, v) = [stream EXCEPT !.summed = after]
  BY DEF sum_single, after, added, held, key
<1> HIDE DEF after
<1> QED
  BY <1>6, <1>7, StreamIs

LEMMA IngestOneKeeps ==
    ASSUME NEW committees, NEW S, NEW T, NEW votes,
           NEW stream \in Streams(committees, S, T, votes), NEW att \in Heard(votes)
    PROVE  IngestOne(stream, att) \in Streams(committees, S, T, votes)
<1> DEFINE signers == resolve_attesting_validators(att, stream.committees)
           dropped == \/ att.data.target # stream.target \/ att.data.source # stream.source
                      \/ att.data.slot \in stream.closed
                      \/ signers = {}
<1>1. IngestOne(stream, att)
         = IF dropped THEN stream
           ELSE IF att.single THEN sum_single(stream, att, CHOOSE v \in signers : TRUE)
           ELSE [stream EXCEPT !.pending =
                    Append(@, Aggregate(att.data, signers, PointSum(signers)))]
  BY DEF IngestOne
<1>2. signers \in SUBSET att.bits /\ (signers # {} => att.committees # {})
  BY DEF resolve_attesting_validators
<1> HIDE DEF signers
<1>3. CASE dropped
  BY <1>1, <1>3
<1>4. CASE ~dropped
  <2>1. signers # {} /\ att.data.source = S /\ att.data.target = T
    BY <1>4, StreamIs
  <2>2. CASE att.single
    <3>1. PICK v \in signers : v = CHOOSE x \in signers : TRUE
      BY <2>1
    <3>2. sum_single(stream, att, v) \in Streams(committees, S, T, votes)
      BY <1>2, <2>1, <3>1, SingleKeeps
    <3> QED
      BY <1>1, <1>4, <2>2, <3>1, <3>2
  <2>3. CASE ~att.single
    <3> DEFINE a == Aggregate(att.data, signers, PointSum(signers))
    <3>1. a \in Aggregates(votes, S, T)
      <4>1. /\ att.data \in VoteData /\ signers \in SUBSET DOMAIN votes
            /\ \A v \in signers : votes[v] = att.data
        BY <1>2 DEF Heard
      <4>2. PointSum(signers) \in [Validators -> Int]
        BY PointsAre
      <4> QED
        BY <2>1, <4>1, <4>2 DEF Aggregate, Aggregates
    <3>2. IngestOne(stream, att) = [stream EXCEPT !.pending = Append(@, a)]
      BY <1>1, <1>4, <2>3
    <3> HIDE DEF a
    <3>3. PICK pending \in Seq(Aggregates(votes, S, T)) : pending = Append(stream.pending, a)
      <4>1. PICK A : A = Aggregates(votes, S, T)
        OBVIOUS
      <4>2. PICK before \in Seq(A) : before = stream.pending
        BY <4>1, StreamIs
      <4>3. a \in A
        BY <3>1, <4>1
      <4>4. Append(before, a) \in Seq(A)
        BY <4>3
      <4> QED
        BY <4>1, <4>2, <4>4
    <3>4. [stream EXCEPT !.pending = pending] \in Streams(committees, S, T, votes)
      BY StreamIs
    <3> QED
      BY <3>2, <3>3, <3>4
  <2> QED
    BY <2>2, <2>3
<1> QED
  BY <1>3, <1>4

\* A block's attestations leave the stream one of the epoch.
LEMMA IngestKeeps ==
    ASSUME NEW committees, NEW S, NEW T, NEW votes,
           NEW stream \in Streams(committees, S, T, votes), NEW block \in Seq(Heard(votes)),
           NEW after, after = ingest(stream, block)
    PROVE  after \in Streams(committees, S, T, votes)
<1> DEFINE n == Len(block)
           V == Streams(committees, S, T, votes)
           op == [p \in V \X (1 .. n) |-> IngestOne(p[1], block[p[2]])]
           Unfolds(f) == f = [s \in SUBSET (1 .. n) |->
                                IF s = {} THEN stream
                                ELSE IngestOne(f[s \ {Max(s)}], block[Max(s)])]
           fold == CHOOSE f : Unfolds(f)
<1>1. n \in Nat /\ DOMAIN block = 1 .. n /\ \A i \in 1 .. n : block[i] \in Heard(votes)
  OBVIOUS
<1> HIDE DEF n
<1>5. IsTable(op, V, n)
  <2>1. ASSUME NEW x \in V, NEW g \in 1 .. n PROVE IngestOne(x, block[g]) \in V
    BY <1>1, IngestOneKeeps
  <2> HIDE DEF V
  <2> QED
    BY <2>1 DEF IsTable
<1>6. PICK h, r : IsFoldOf(h, op, stream, V, n) /\ IsRunOf(r, op, stream, V, n)
                  /\ r[n] = h[1 .. n]
  <2>1. stream \in V
    OBVIOUS
  <2> HIDE DEF op, V
  <2> QED
    BY <1>1, <1>5, <2>1, FoldRuns
<1> HIDE DEF V
<1>7. h \in [SUBSET (1 .. n) -> V]
      /\ h = [s \in SUBSET (1 .. n) |->
                IF s = {} THEN stream ELSE op[<<h[s \ {Max(s)}], Max(s)>>]]
  BY <1>6 DEF IsFoldOf
<1>8. \A s \in SUBSET (1 .. n) : s # {} =>
         op[<<h[s \ {Max(s)}], Max(s)>>] = IngestOne(h[s \ {Max(s)}], block[Max(s)])
  <2> SUFFICES ASSUME NEW s \in SUBSET (1 .. n), s # {}
               PROVE  op[<<h[s \ {Max(s)}], Max(s)>>]
                         = IngestOne(h[s \ {Max(s)}], block[Max(s)])
    OBVIOUS
  <2>1. Max(s) \in 1 .. n /\ s \ {Max(s)} \in SUBSET (1 .. n)
    BY <1>1, MaxOfFirst
  <2>3. h[s \ {Max(s)}] \in V
    BY <1>7, <2>1
  <2>4. <<h[s \ {Max(s)}], Max(s)>> \in V \X (1 .. n)
    BY <2>1, <2>3
  <2> QED
    BY <2>4
<1>9. Unfolds(h)
  <2> HIDE DEF op
  <2>1. [s \in SUBSET (1 .. n) |->
           IF s = {} THEN stream ELSE op[<<h[s \ {Max(s)}], Max(s)>>]]
        = [s \in SUBSET (1 .. n) |->
             IF s = {} THEN stream ELSE IngestOne(h[s \ {Max(s)}], block[Max(s)])]
    BY <1>8
  <2> QED
    BY <1>7, <2>1
<1>10. Unfolds(fold)
  <2> HIDE DEF Unfolds
  <2> QED
    BY <1>9
<1>11. after = fold[1 .. n]
  <2>1. after = FoldLeft(IngestOne, stream, block)
    BY DEF ingest
  <2> QED
    BY <1>1, <2>1, SMT DEF FoldLeft, MapThenFoldSet
<1> HIDE DEF fold
<1>12. fold[1 .. n] = r[n]
  <2> HIDE DEF op
  <2>1. \A s \in SUBSET (1 .. n) :
           fold[s] = IF s = {} THEN stream ELSE IngestOne(fold[s \ {Max(s)}], block[Max(s)])
    BY <1>10
  <2>2. \A s \in SUBSET (1 .. n) :
           h[s] = IF s = {} THEN stream ELSE IngestOne(h[s \ {Max(s)}], block[Max(s)])
    BY <1>9
  <2>3. fold[{}] = h[{}]
    BY <2>1, <2>2
  <2>4. StepsAgree(fold, h, n)
    BY <2>1, <2>2, <2>3 DEF StepsAgree
  <2>5. fold[1 .. n] = h[1 .. n]
    BY <1>1, <2>4, FoldAgrees
  <2> QED
    BY <1>6, <2>5
<1>13. r[n] \in V
  <2>1. r \in [0 .. n -> V]
    BY <1>6 DEF IsRunOf
  <2>2. n \in 0 .. n
    BY <1>1
  <2> QED
    BY <2>1, <2>2
<1> QED
  BY <1>11, <1>12, <1>13 DEF V

\* A slot closed is forgotten.
LEMMA ForgetKeeps ==
    ASSUME NEW committees, NEW S, NEW T, NEW votes,
           NEW stream \in Streams(committees, S, T, votes), NEW slot \in Int
    PROVE  forget(stream, slot) \in Streams(committees, S, T, votes)
<1> DEFINE A == Aggregates(votes, S, T)
           pending == stream.pending
           kept == SeqAt(pending, {i \in DOMAIN pending : pending[i].data.slot # slot})
           sums == stream.summed
           keys == {k \in DOMAIN sums : k[1].slot # slot}
           left == Restrict(sums, keys)
           closed == stream.closed \cup {slot}
<1>1. kept \in Seq(A)
  <2> DEFINE positions == {i \in DOMAIN pending : pending[i].data.slot # slot}
  <2>1. positions \in SUBSET DOMAIN pending /\ pending \in Seq(A)
    BY StreamIs
  <2> HIDE DEF positions, pending, A
  <2>2. SeqAt(pending, positions) \in Seq(A)
    BY <2>1, SeqAtIs
  <2> QED
    BY <2>2 DEF positions
<1>2. left \in Buckets(votes, S, T)
  <2>1. /\ IsFiniteSet(DOMAIN sums) /\ DOMAIN sums \in SUBSET (VoteData \X Int)
        /\ \A k \in DOMAIN sums : sums[k] \in A /\ sums[k].data = k[1]
    BY BucketsAre
  <2>2. IsFiniteSet(keys) /\ keys \in SUBSET DOMAIN sums
    BY <2>1, FS_Subset
  <2>3. left = [k \in keys |-> sums[k]]
    BY <2>2 DEF Restrict
  <2> HIDE DEF keys, sums, A, left
  <2>4. left \in [keys -> A] /\ DOMAIN left = keys /\ keys \in SUBSET (VoteData \X Int)
    BY <2>1, <2>2, <2>3
  <2>5. \A k \in keys : left[k].data = k[1]
    BY <2>1, <2>2, <2>3
  <2> QED
    BY <2>2, <2>4, <2>5 DEF Buckets, A
<1>3. closed \in SUBSET Int
  BY StreamIs
<1>4. forget(stream, slot) = [stream EXCEPT !.pending = kept, !.summed = left, !.closed = closed]
  BY DEF forget
<1> HIDE DEF kept, left, closed, A, pending, sums
<1> QED
  BY <1>1, <1>2, <1>3, <1>4 DEF Streams, A

\* Votes cast later take none back.
Extends(more, votes) ==
    /\ DOMAIN votes \in SUBSET DOMAIN more
    /\ \A v \in DOMAIN votes : more[v] = votes[v]

LEMMA HeardGrows ==
    ASSUME NEW votes, NEW more, Extends(more, votes)
    PROVE  Heard(votes) \in SUBSET Heard(more)
<1> SUFFICES ASSUME NEW a \in Heard(votes) PROVE a \in Heard(more)
  OBVIOUS
<1>1. /\ a \in [data : VoteData, bits : SUBSET DOMAIN votes, single : BOOLEAN,
                committees : SUBSET Int]
      /\ \A v \in a.bits : votes[v] = a.data
  BY DEF Heard
<1>2. SUBSET DOMAIN votes \subseteq SUBSET DOMAIN more
  BY DEF Extends
<1>3. a \in [data : VoteData, bits : SUBSET DOMAIN more, single : BOOLEAN,
             committees : SUBSET Int]
  BY <1>1, <1>2
<1>4. \A v \in a.bits : more[v] = a.data
  BY <1>1 DEF Extends
<1> QED
  BY <1>3, <1>4 DEF Heard

LEMMA AggregatesGrow ==
    ASSUME NEW votes, NEW more, Extends(more, votes), NEW S, NEW T
    PROVE  Aggregates(votes, S, T) \in SUBSET Aggregates(more, S, T)
<1> SUFFICES ASSUME NEW a \in Aggregates(votes, S, T) PROVE a \in Aggregates(more, S, T)
  OBVIOUS
<1>1. /\ a \in [data : VoteData, signers : SUBSET DOMAIN votes,
                signature : [Validators -> Int]]
      /\ a.data.source = S /\ a.data.target = T /\ a.signers # {}
      /\ \A v \in a.signers : votes[v] = a.data
  BY DEF Aggregates
<1>2. SUBSET DOMAIN votes \subseteq SUBSET DOMAIN more
  BY DEF Extends
<1>3. a \in [data : VoteData, signers : SUBSET DOMAIN more, signature : [Validators -> Int]]
  BY <1>1, <1>2
<1>4. \A v \in a.signers : more[v] = a.data
  BY <1>1 DEF Extends
<1> QED
  BY <1>1, <1>3, <1>4 DEF Aggregates

LEMMA StreamGrows ==
    ASSUME NEW committees, NEW S, NEW T, NEW votes, NEW more, Extends(more, votes)
    PROVE  Streams(committees, S, T, votes) \in SUBSET Streams(committees, S, T, more)
<1> SUFFICES ASSUME NEW stream \in Streams(committees, S, T, votes)
             PROVE  stream \in Streams(committees, S, T, more)
  OBVIOUS
<1>1. Aggregates(votes, S, T) \in SUBSET Aggregates(more, S, T)
  BY AggregatesGrow
<1>2. stream.pending \in Seq(Aggregates(more, S, T))
  <2>1. stream.pending \in Seq(Aggregates(votes, S, T))
    BY StreamIs
  <2> QED
    BY <1>1, <2>1
<1>3. stream.summed \in Buckets(more, S, T)
  <2> DEFINE sums == stream.summed
  <2>1. sums \in Buckets(votes, S, T)
    BY StreamIs
  <2> HIDE DEF sums
  <2>2. PICK keys \in SUBSET (VoteData \X Int) : sums \in [keys -> Aggregates(votes, S, T)]
    BY <2>1 DEF Buckets
  <2>3. sums \in [keys -> Aggregates(more, S, T)]
    BY <1>1, <2>2
  <2>4. IsFiniteSet(DOMAIN sums) /\ \A k \in DOMAIN sums : sums[k].data = k[1]
    BY <2>1 DEF Buckets
  <2>5. sums \in Buckets(more, S, T)
    BY <2>3, <2>4 DEF Buckets
  <2> QED
    BY <2>5 DEF sums
<1> QED
  BY <1>2, <1>3 DEF Streams

\* A slot is open where somebody was heard of it.
LEMMA OpenSlotsAre ==
    ASSUME NEW committees, NEW S, NEW T, NEW votes,
           NEW stream \in Streams(committees, S, T, votes)
    PROVE  /\ IsFiniteSet(open_slots(stream)) /\ open_slots(stream) \in SUBSET Int
           /\ \A s \in open_slots(stream) : \E v \in DOMAIN votes : votes[v].slot = s
<1> DEFINE A == Aggregates(votes, S, T)
           pending == stream.pending
           n == Len(pending)
           keys == DOMAIN stream.summed
           f == [i \in 1 .. n |-> pending[i].data.slot]
           g == [k \in keys |-> k[1].slot]
<1>1. pending \in Seq(A)
  BY StreamIs
<1>2. n \in Nat /\ DOMAIN pending = 1 .. n /\ \A i \in 1 .. n : pending[i] \in A
  <2> HIDE DEF pending, A
  <2> QED
    BY <1>1
<1>3. /\ IsFiniteSet(keys)
      /\ \A k \in keys : stream.summed[k] \in A /\ stream.summed[k].data = k[1]
  BY BucketsAre
<1>4. open_slots(stream) = {f[i] : i \in 1 .. n} \cup {g[k] : k \in keys}
  <2>1. {a.data.slot : a \in ToSet(pending)} = {f[i] : i \in 1 .. n}
    BY <1>2 DEF ToSet
  <2>2. {k[1].slot : k \in keys} = {g[k] : k \in keys}
    OBVIOUS
  <2> QED
    BY <2>1, <2>2 DEF open_slots
<1>5. \A a \in A : a.data.slot \in Int /\ \E v \in DOMAIN votes : votes[v].slot = a.data.slot
  BY DEF Aggregates, VoteData
<1>6. \A i \in 1 .. n : f[i] \in Int /\ \E v \in DOMAIN votes : votes[v].slot = f[i]
  <2> HIDE DEF A, n
  <2> QED
    BY <1>2, <1>5
<1>7. \A k \in keys : g[k] \in Int /\ \E v \in DOMAIN votes : votes[v].slot = g[k]
  <2> HIDE DEF A
  <2> SUFFICES ASSUME NEW k \in keys
               PROVE  g[k] \in Int /\ \E v \in DOMAIN votes : votes[v].slot = g[k]
    OBVIOUS
  <2>1. stream.summed[k] \in A /\ stream.summed[k].data = k[1]
    BY <1>3
  <2> QED
    BY <1>5, <2>1
<1>8. IsFiniteSet(1 .. n)
  BY <1>2, FS_Interval
<1> HIDE DEF f, g, n, keys
<1>9. IsFiniteSet({f[i] : i \in 1 .. n}) /\ IsFiniteSet({g[k] : k \in keys})
  <2>1. PICK D : D = 1 .. n /\ IsFiniteSet(D)
    BY <1>8
  <2>2. IsFiniteSet({f[i] : i \in D})
    BY <2>1, ImageIsFinite
  <2>3. IsFiniteSet({g[k] : k \in keys})
    BY <1>3, ImageIsFinite
  <2> QED
    BY <2>1, <2>2, <2>3
<1>10. IsFiniteSet({f[i] : i \in 1 .. n} \cup {g[k] : k \in keys})
  BY <1>9, FS_Union
<1> QED
  BY <1>4, <1>6, <1>7, <1>10

\* Complements of an epoch, in whatever order they were closed.
AreComplements(q, registry, e, votes, S, T) ==
    \E C : q \in Seq(C) /\ \A c \in C : IsComplement(c, registry, e, votes, S, T)

LEMMA EachComplement ==
    ASSUME NEW registry, NEW e, NEW votes, NEW S, NEW T, NEW q,
           AreComplements(q, registry, e, votes, S, T)
    PROVE  /\ Len(q) \in Nat /\ DOMAIN q = 1 .. Len(q)
           /\ \A i \in 1 .. Len(q) : IsComplement(q[i], registry, e, votes, S, T)
<1> PICK C : q \in Seq(C) /\ \A c \in C : IsComplement(c, registry, e, votes, S, T)
  BY DEF AreComplements
<1> QED
  OBVIOUS

LEMMA NoComplements ==
    ASSUME NEW registry, NEW e, NEW votes, NEW S, NEW T
    PROVE  AreComplements(<<>>, registry, e, votes, S, T)
<1> DEFINE none == {}
<1>1. <<>> \in Seq(none) /\ \A c \in none : IsComplement(c, registry, e, votes, S, T)
  OBVIOUS
<1> HIDE DEF none
<1> QED
  BY <1>1 DEF AreComplements

LEMMA OneComplementMore ==
    ASSUME NEW registry, NEW e, NEW votes, NEW S, NEW T, NEW q,
           AreComplements(q, registry, e, votes, S, T),
           NEW c, IsComplement(c, registry, e, votes, S, T)
    PROVE  AreComplements(Append(q, c), registry, e, votes, S, T)
<1> PICK C : q \in Seq(C) /\ \A x \in C : IsComplement(x, registry, e, votes, S, T)
  BY DEF AreComplements
<1>1. q \in Seq(C \cup {c}) /\ c \in C \cup {c}
  OBVIOUS
<1>2. Append(q, c) \in Seq(C \cup {c})
  BY <1>1
<1>3. \A x \in C \cup {c} : IsComplement(x, registry, e, votes, S, T)
  OBVIOUS
<1> QED
  BY <1>2, <1>3 DEF AreComplements

LEMMA CountGrows ==
    ASSUME NEW registry, IsRegistry(registry), NEW e, NEW votes, NEW more,
           Extends(more, votes), DOMAIN more \in SUBSET DOMAIN registry,
           NEW c, IsCounted(c, registry, e, votes)
    PROVE  IsCounted(c, registry, e, more)
<1> DEFINE d == c.primary.data
           before == {v \in DOMAIN votes : votes[v] = d}
           after == {v \in DOMAIN more : more[v] = d}
<1>1. before \in SUBSET after /\ after \in SUBSET DOMAIN registry
  BY DEF Extends
<1>2. /\ d.slot = c.slot /\ Counted(c) \in Int
      /\ Counted(c) <= Mass(registry, e, before)
  BY DEF IsCounted
<1> HIDE DEF before, after
<1>3. /\ Mass(registry, e, before) \in Nat /\ Mass(registry, e, after) \in Nat
      /\ Mass(registry, e, before) <= Mass(registry, e, after)
  <2>1. before \in SUBSET DOMAIN registry
    BY <1>1
  <2> QED
    BY <1>1, <2>1, MassAdds
<1>4. Counted(c) <= Mass(registry, e, after)
  <2>1. PICK x \in Int, y \in Nat, z \in Nat :
           /\ x = Counted(c) /\ y = Mass(registry, e, before) /\ z = Mass(registry, e, after)
           /\ x <= y /\ y <= z
    BY <1>2, <1>3
  <2> QED
    BY <2>1
<1> QED
  BY <1>2, <1>4 DEF IsCounted, after

LEMMA ComplementsGrow ==
    ASSUME NEW registry, IsRegistry(registry), NEW e, NEW votes, NEW more,
           Extends(more, votes), DOMAIN more \in SUBSET DOMAIN registry, NEW S, NEW T,
           NEW q, AreComplements(q, registry, e, votes, S, T)
    PROVE  AreComplements(q, registry, e, more, S, T)
<1> PICK C : q \in Seq(C) /\ \A x \in C : IsComplement(x, registry, e, votes, S, T)
  BY DEF AreComplements
<1>1. ASSUME NEW c \in C PROVE IsComplement(c, registry, e, more, S, T)
  <2>1. IsComplement(c, registry, e, votes, S, T)
    OBVIOUS
  <2>2. Voted(registry, e, votes, S, T, {c.slot_in_epoch})
           <= Voted(registry, e, more, S, T, {c.slot_in_epoch})
    BY VotedGrows DEF Extends
  <2>3. Voted(registry, e, votes, S, T, {c.slot_in_epoch}) \in Nat
    <3>1. DOMAIN votes \in SUBSET DOMAIN registry
      BY DEF Extends
    <3> QED
      BY <3>1, VotedAdds
  <2>4. Voted(registry, e, more, S, T, {c.slot_in_epoch}) \in Nat
    BY VotedAdds
  <2>5. IsCounted(c, registry, e, more)
    BY <2>1, CountGrows DEF IsComplement
  <2> QED
    BY <2>1, <2>2, <2>3, <2>4, <2>5 DEF IsComplement, ClaimsNoMore
<1> QED
  BY <1>1 DEF AreComplements

\* The streamed epoch's units, one for each slot that is open.
LEMMA CollectedAre ==
    ASSUME NEW registry, IsRegistry(registry), NEW e \in Nat, NEW votes,
           DOMAIN votes \in SUBSET DOMAIN registry, NEW S, NEW T,
           NEW committees, IsCommittees(committees, registry, e),
           DOMAIN votes \in SUBSET DOMAIN committees.slots,
           NEW stream \in Streams(committees, S, T, votes),
           \A v \in DOMAIN votes : votes[v].slot \in Boundary(e) .. Boundary(e) + SlotCount - 1,
           NEW units, units = collect_per_slot_for_checkpoint(stream, <<>>, e)
    PROVE  /\ AreComplements(units, registry, e, votes, S, T)
           /\ open_slots(stream) # {} => IsUnits(units)
<1> DEFINE range == e * SlotCount .. (e * SlotCount) + SlotCount - 1
           open == open_slots(stream)
           these == open \cap range
           slots == InOrder(these)
           n == Cardinality(these)
           C == {peek(stream, s) : s \in these}
<1>1. FoldLeft(ingest, stream, <<>>) = stream
  <2> DEFINE no == 1 .. 0
             Unfolds(f) == f = [s \in SUBSET no |->
                                  IF s = {} THEN stream
                                  ELSE ingest(f[s \ {Max(s)}], <<>>[Max(s)])]
             h == [s \in SUBSET no |-> stream]
             fold == CHOOSE f : Unfolds(f)
  <2>1. no = {} /\ \A s \in SUBSET no : s = {}
    OBVIOUS
  <2>2. Unfolds(h)
    BY <2>1
  <2>3. Unfolds(fold)
    <3> HIDE DEF Unfolds
    <3> QED
      BY <2>2
  <2>4. FoldLeft(ingest, stream, <<>>) = fold[no]
    <3>1. DOMAIN <<>> = 1 .. 0
      OBVIOUS
    <3> QED
      BY <3>1, SMT DEF FoldLeft, MapThenFoldSet
  <2> HIDE DEF fold
  <2>5. fold[no] = stream
    BY <2>1, <2>3
  <2> QED
    BY <2>4, <2>5
<1>2. units = [i \in DOMAIN slots |-> peek(stream, slots[i])]
  BY <1>1 DEF collect_per_slot_for_checkpoint
<1>3. /\ IsFiniteSet(open) /\ open \in SUBSET Int
      /\ \A s \in open : \E v \in DOMAIN votes : votes[v].slot = s
  BY OpenSlotsAre
<1> HIDE DEF open
<1>4. these = open
  BY <1>3 DEF Boundary
<1>5. IsFiniteSet(these) /\ these \in SUBSET Int
  BY <1>3, <1>4
<1> HIDE DEF these
<1>6. /\ slots \in [1 .. n -> these] /\ n \in Nat
  BY <1>5, InOrderSorts
<1> HIDE DEF slots
<1>7. \A c \in C : IsComplement(c, registry, e, votes, S, T)
  <2> SUFFICES ASSUME NEW s \in these
               PROVE  IsComplement(peek(stream, s), registry, e, votes, S, T)
    OBVIOUS
  <2>1. s \in Int /\ s \in open_slots(stream)
    BY <1>4, <1>5 DEF open
  <2> QED
    BY <2>1, PeekIs
<1>8. units \in Seq(C) /\ Len(units) = n
  <2>1. units \in [1 .. n -> C]
    BY <1>2, <1>6
  <2> HIDE DEF n, C
  <2> QED
    BY <1>6, <2>1
<1>9. AreComplements(units, registry, e, votes, S, T)
  <2> HIDE DEF C
  <2> QED
    BY <1>7, <1>8 DEF AreComplements
<1>10. ASSUME open # {} PROVE IsUnits(units)
  <2>1. n # 0
    BY <1>4, <1>5, <1>10, FS_EmptySet
  <2>2. /\ Len(units) \in Nat /\ DOMAIN units = 1 .. Len(units)
        /\ \A i \in 1 .. Len(units) : IsComplement(units[i], registry, e, votes, S, T)
    BY <1>9, EachComplement
  <2> HIDE DEF n
  <2> QED
    BY <1>8, <2>1, <2>2 DEF IsUnits, IsComplement
<1> QED
  BY <1>9, <1>10 DEF open

-----------------------------------------------------------------------------
(* What a proof attests.                                                   *)

LEMMA IncreasingIs ==
    ASSUME NEW n \in Nat, NEW f, \A i \in 1 .. n : f[i] \in Int,
           \A i \in 2 .. n : f[i - 1] < f[i]
    PROVE  \A i, j \in 1 .. n : i # j => f[i] # f[j]
<1> DEFINE P == {j \in 1 .. n : \E i \in 1 .. j - 1 : ~(f[i] < f[j])}
<1>1. P = {}
  <2> SUFFICES ASSUME P # {} PROVE FALSE
    OBVIOUS
  <2>1. P \in SUBSET Nat
    OBVIOUS
  <2> HIDE DEF P
  <2>2. PICK j \in P : \A y \in P : j <= y
    BY <2>1, LeastNatural
  <2>3. j \in 1 .. n /\ \E i \in 1 .. j - 1 : ~(f[i] < f[j])
    BY <2>2 DEF P
  <2>4. PICK i \in 1 .. j - 1 : ~(f[i] < f[j])
    BY <2>3
  <2>5. j \in 2 .. n /\ j - 1 \in 1 .. n /\ i \in 1 .. n
    BY <2>3, <2>4
  <2>6. f[j - 1] < f[j] /\ f[i] \in Int /\ f[j] \in Int /\ f[j - 1] \in Int
    BY <2>3, <2>5
  <2>7. CASE i = j - 1
    BY <2>4, <2>6, <2>7
  <2>8. CASE i # j - 1
    <3>1. i \in 1 .. (j - 1) - 1
      BY <2>3, <2>4, <2>8
    <3>2. j - 1 \notin P
      BY <2>2, <2>3
    <3>3. f[i] < f[j - 1]
      BY <2>5, <3>1, <3>2 DEF P
    <3> QED
      BY <2>4, <2>6, <3>3
  <2> QED
    BY <2>7, <2>8
<1>2. \A j \in 1 .. n : \A i \in 1 .. j - 1 : f[i] < f[j]
  BY <1>1
<1> HIDE DEF P
<1> SUFFICES ASSUME NEW i \in 1 .. n, NEW j \in 1 .. n, i # j PROVE f[i] # f[j]
  OBVIOUS
<1>3. f[i] \in Int /\ f[j] \in Int
  OBVIOUS
<1>4. CASE i < j
  <2>1. i \in 1 .. j - 1
    BY <1>4
  <2> QED
    BY <1>2, <1>3, <2>1
<1>5. CASE j < i
  <2>1. j \in 1 .. i - 1
    BY <1>5
  <2> QED
    BY <1>2, <1>3, <2>1
<1> QED
  BY <1>4, <1>5

\* The slots of an accepted witness are each counted once.
LEMMA AttestedIs ==
    ASSUME NEW registry, IsRegistry(registry), NEW e, NEW votes,
           DOMAIN votes \in SUBSET DOMAIN registry, NEW S, NEW T,
           NEW w, AreComplements(w.slots, registry, e, votes, S, T), AttestAccepts(w)
    PROVE  ClaimsNoMore(registry, e, votes, S, T, Attested(w).balance, Attested(w).mask)
<1> DEFINE q == w.slots
           n == Len(q)
           I == 1 .. n
           f == [i \in I |-> q[i].slot_in_epoch]
           balances == [i \in DOMAIN q |-> Support(q[i])]
           masks == [i \in I |-> {q[i].slot_in_epoch}]
           none == {}
<1>1. /\ n \in Nat /\ DOMAIN q = I
      /\ \A i \in I : IsComplement(q[i], registry, e, votes, S, T)
  BY EachComplement
<1>2. \A i \in 2 .. Len(q) : q[i - 1].slot_in_epoch < q[i].slot_in_epoch
  BY DEF AttestAccepts
<1>3. /\ Attested(w).balance = SumOf(balances)
      /\ Attested(w).mask = {c.slot_in_epoch : c \in ToSet(q)}
  BY DEF Attested
<1> HIDE DEF q
<1>4. /\ \A i \in I : f[i] \in Int
      /\ \A i \in 2 .. n : f[i - 1] < f[i]
  <2>1. ASSUME NEW i \in I PROVE f[i] \in Int
    <3>1. q[i].slot \in Int /\ q[i].slot_in_epoch = q[i].slot % SlotCount
      BY <1>1 DEF IsComplement
    <3> QED
      BY <3>1, SlotIndex
  <2>2. ASSUME NEW i \in 2 .. n PROVE f[i - 1] < f[i]
    <3>1. i \in I /\ i - 1 \in I
      BY <1>1
    <3> QED
      BY <1>2, <3>1
  <2> QED
    BY <2>1, <2>2
<1>5. \A i, j \in I : i # j => f[i] # f[j]
  <2> HIDE DEF f, n
  <2> QED
    BY <1>1, <1>4, IncreasingIs
<1>6. \A i \in I : /\ ClaimsNoMore(registry, e, votes, S, T, balances[i], masks[i])
                   /\ masks[i] \cap none = {}
  BY <1>1 DEF IsComplement
<1>7. \A i, j \in I : i # j => masks[i] \cap masks[j] = {}
  BY <1>5
<1>8. IsFiniteSet(I) /\ DOMAIN balances = I
  <2>1. n \in Int /\ 1 \in Int
    BY <1>1
  <2> HIDE DEF n
  <2>2. IsFiniteSet(1 .. n)
    BY <2>1, FS_Interval
  <2> QED
    BY <1>1, <2>2
<1>9. ClaimsNoMore(registry, e, votes, S, T, 0, none)
  <2> HIDE DEF none
  <2>1. Voted(registry, e, votes, S, T, none) \in Nat
    BY VotedAdds
  <2> QED
    BY <2>1 DEF ClaimsNoMore
<1>10. Attested(w).mask = none \cup UNION {masks[i] : i \in I}
  BY <1>1, <1>3 DEF ToSet
<1>11. SumOf(balances) \in Int
  <2>1. \A x \in DOMAIN balances : balances[x] \in Int
    BY <1>6, <1>8 DEF ClaimsNoMore
  <2> HIDE DEF balances, I
  <2>2. PICK g : IsAdditive(g, balances, DOMAIN balances) /\ SumOf(balances) = g[DOMAIN balances]
    BY <1>8, <2>1, SumOfIs
  <2> QED
    BY <2>2 DEF IsAdditive
<1> HIDE DEF I, balances, masks, none
<1>12. ClaimsNoMore(registry, e, votes, S, T, 0 + SumOf(balances),
                    none \cup UNION {masks[i] : i \in I})
  BY <1>6, <1>7, <1>8, <1>9, ClaimsAdd
<1>13. 0 + SumOf(balances) = SumOf(balances)
  BY <1>11
<1> QED
  BY <1>3, <1>10, <1>12, <1>13

\* Proofs, each attesting no more than was voted in its slots.
IsBounded(p, registry, e, votes, S, T) ==
    ClaimsNoMore(registry, e, votes, S, T, p.output.attesting_balance, p.output.slots_mask)

AreBounded(q, registry, e, votes, S, T) ==
    \E P : q \in Seq(P) /\ \A p \in P : IsBounded(p, registry, e, votes, S, T)

LEMMA EachBounded ==
    ASSUME NEW registry, NEW e, NEW votes, NEW S, NEW T, NEW q,
           AreBounded(q, registry, e, votes, S, T)
    PROVE  /\ Len(q) \in Nat /\ DOMAIN q = 1 .. Len(q)
           /\ \A i \in 1 .. Len(q) : IsBounded(q[i], registry, e, votes, S, T)
<1> PICK P : q \in Seq(P) /\ \A p \in P : IsBounded(p, registry, e, votes, S, T)
  BY DEF AreBounded
<1> QED
  OBVIOUS

LEMMA NoneBounded ==
    ASSUME NEW registry, NEW e, NEW votes, NEW S, NEW T
    PROVE  AreBounded(<<>>, registry, e, votes, S, T)
<1> DEFINE none == {}
<1>1. <<>> \in Seq(none) /\ \A p \in none : IsBounded(p, registry, e, votes, S, T)
  OBVIOUS
<1> HIDE DEF none
<1> QED
  BY <1>1 DEF AreBounded

LEMMA OneBoundedMore ==
    ASSUME NEW registry, NEW e, NEW votes, NEW S, NEW T, NEW q,
           AreBounded(q, registry, e, votes, S, T),
           NEW p, IsBounded(p, registry, e, votes, S, T)
    PROVE  AreBounded(Append(q, p), registry, e, votes, S, T)
<1> PICK P : q \in Seq(P) /\ \A x \in P : IsBounded(x, registry, e, votes, S, T)
  BY DEF AreBounded
<1>1. q \in Seq(P \cup {p}) /\ p \in P \cup {p}
  OBVIOUS
<1>2. Append(q, p) \in Seq(P \cup {p})
  BY <1>1
<1>3. \A x \in P \cup {p} : IsBounded(x, registry, e, votes, S, T)
  OBVIOUS
<1> QED
  BY <1>2, <1>3 DEF AreBounded

\* Some of the proofs, in any order.
LEMMA SomeBounded ==
    ASSUME NEW registry, NEW e, NEW votes, NEW S, NEW T, NEW q,
           AreBounded(q, registry, e, votes, S, T),
           NEW n \in Nat, NEW some, DOMAIN some = 1 .. n, some \in [1 .. n -> DOMAIN q]
    PROVE  AreBounded([i \in 1 .. n |-> q[some[i]]], registry, e, votes, S, T)
<1> PICK P : q \in Seq(P) /\ \A x \in P : IsBounded(x, registry, e, votes, S, T)
  BY DEF AreBounded
<1>1. \A i \in 1 .. n : q[some[i]] \in P
  OBVIOUS
<1>2. [i \in 1 .. n |-> q[some[i]]] \in Seq(P)
  BY <1>1
<1> QED
  BY <1>2 DEF AreBounded

LEMMA SomeComplements ==
    ASSUME NEW registry, NEW e, NEW votes, NEW S, NEW T, NEW q,
           AreComplements(q, registry, e, votes, S, T),
           NEW n \in Nat, NEW some, DOMAIN some = 1 .. n, some \in [1 .. n -> DOMAIN q]
    PROVE  AreComplements([i \in 1 .. n |-> q[some[i]]], registry, e, votes, S, T)
<1> PICK C : q \in Seq(C) /\ \A x \in C : IsComplement(x, registry, e, votes, S, T)
  BY DEF AreComplements
<1>1. \A i \in 1 .. n : q[some[i]] \in C
  OBVIOUS
<1>2. [i \in 1 .. n |-> q[some[i]]] \in Seq(C)
  BY <1>1
<1> QED
  BY <1>2 DEF AreComplements

LEMMA ClaimGrows ==
    ASSUME NEW registry, IsRegistry(registry), NEW e, NEW votes, NEW more,
           Extends(more, votes), DOMAIN more \in SUBSET DOMAIN registry, NEW S, NEW T,
           NEW balance, NEW mask, ClaimsNoMore(registry, e, votes, S, T, balance, mask)
    PROVE  ClaimsNoMore(registry, e, more, S, T, balance, mask)
<1>1. Voted(registry, e, votes, S, T, mask) <= Voted(registry, e, more, S, T, mask)
  BY VotedGrows DEF Extends
<1>2. DOMAIN votes \in SUBSET DOMAIN registry
  BY DEF Extends
<1>3. Voted(registry, e, votes, S, T, mask) \in Nat /\ Voted(registry, e, more, S, T, mask) \in Nat
  BY <1>2, VotedAdds
<1> QED
  BY <1>1, <1>3 DEF ClaimsNoMore

LEMMA BoundedGrow ==
    ASSUME NEW registry, IsRegistry(registry), NEW e, NEW votes, NEW more,
           Extends(more, votes), DOMAIN more \in SUBSET DOMAIN registry, NEW S, NEW T
    PROVE  /\ \A p : IsBounded(p, registry, e, votes, S, T) =>
                        IsBounded(p, registry, e, more, S, T)
           /\ \A q : AreBounded(q, registry, e, votes, S, T) =>
                        AreBounded(q, registry, e, more, S, T)
<1>1. ASSUME NEW p, IsBounded(p, registry, e, votes, S, T)
      PROVE  IsBounded(p, registry, e, more, S, T)
  BY <1>1, ClaimGrows DEF IsBounded
<1>2. ASSUME NEW q, AreBounded(q, registry, e, votes, S, T)
      PROVE  AreBounded(q, registry, e, more, S, T)
  <2>1. PICK P : q \in Seq(P) /\ \A x \in P : IsBounded(x, registry, e, votes, S, T)
    BY <1>2 DEF AreBounded
  <2>2. \A x \in P : IsBounded(x, registry, e, more, S, T)
    BY <1>1, <2>1
  <2> QED
    BY <2>1, <2>2 DEF AreBounded
<1> QED
  BY <1>1, <1>2

\* A fold of proofs whose slots are apart attests what they do.
LEMMA FoldedIs ==
    ASSUME NEW registry, IsRegistry(registry), NEW e, NEW votes,
           DOMAIN votes \in SUBSET DOMAIN registry, NEW S, NEW T,
           NEW base, NEW counted, ClaimsNoMore(registry, e, votes, S, T, base, counted),
           NEW q, AreBounded(q, registry, e, votes, S, T), MasksDisjoint(counted, q)
    PROVE  ClaimsNoMore(registry, e, votes, S, T, BalanceOf(base, q), MaskOf(counted, q))
<1> DEFINE n == Len(q)
           I == 1 .. n
           balances == [i \in DOMAIN q |-> q[i].output.attesting_balance]
           masks == [i \in I |-> q[i].output.slots_mask]
<1>1. /\ n \in Nat /\ DOMAIN q = I
      /\ \A i \in I : IsBounded(q[i], registry, e, votes, S, T)
  BY EachBounded
<1>2. \A i \in I : masks[i] \cap (counted \cup UNION {masks[j] : j \in 1 .. i - 1}) = {}
  <2> SUFFICES ASSUME NEW i \in I
               PROVE  masks[i] \cap (counted \cup UNION {masks[j] : j \in 1 .. i - 1}) = {}
    OBVIOUS
  <2>1. q[i].output.slots_mask
           \cap (counted \cup UNION {q[j].output.slots_mask : j \in 1 .. i - 1}) = {}
    BY <1>1 DEF MasksDisjoint
  <2>2. \A j \in 1 .. i - 1 : j \in I
    BY <1>1
  <2>3. {q[j].output.slots_mask : j \in 1 .. i - 1} = {masks[j] : j \in 1 .. i - 1}
    BY <2>2
  <2> QED
    BY <2>1, <2>3
<1>3. \A i \in I : /\ ClaimsNoMore(registry, e, votes, S, T, balances[i], masks[i])
                   /\ masks[i] \cap counted = {}
  BY <1>1, <1>2 DEF IsBounded
<1> HIDE DEF masks
<1>4. \A i, j \in I : i # j => masks[i] \cap masks[j] = {}
  <2> SUFFICES ASSUME NEW i \in I, NEW j \in I, i # j PROVE masks[i] \cap masks[j] = {}
    OBVIOUS
  <2>1. CASE j < i
    <3>1. j \in 1 .. i - 1
      BY <2>1
    <3> HIDE DEF I
    <3> QED
      BY <1>2, <3>1
  <2>2. CASE i < j
    <3>1. i \in 1 .. j - 1
      BY <2>2
    <3> HIDE DEF I
    <3> QED
      BY <1>2, <3>1
  <2> QED
    BY <1>1, <2>1, <2>2
<1>5. IsFiniteSet(I) /\ DOMAIN balances = I
  BY <1>1, FS_Interval
<1>6. BalanceOf(base, q) = base + SumOf(balances)
  BY DEF BalanceOf
<1>7. MaskOf(counted, q) = counted \cup UNION {masks[i] : i \in I}
  BY <1>1 DEF MaskOf, ToSet, masks
<1> HIDE DEF I, balances, n
<1>8. ClaimsNoMore(registry, e, votes, S, T, base + SumOf(balances),
                   counted \cup UNION {masks[i] : i \in I})
  <2>1. \A i \in I : /\ ClaimsNoMore(registry, e, votes, S, T, balances[i], masks[i])
                     /\ masks[i] \cap counted = {}
    BY <1>3
  <2>2. ClaimsNoMore(registry, e, votes, S, T, base, counted)
    OBVIOUS
  <2> QED
    BY <1>4, <1>5, <2>1, <2>2, ClaimsAdd
<1> QED
  BY <1>6, <1>7, <1>8

-----------------------------------------------------------------------------
(* An epoch's aggregation.                                                 *)

AggFields ==
    {"refused", "context", "stream", "next_slot", "leftover", "blocks", "balance", "slots",
     "units", "unfolded", "justification", "plan", "groups", "folded", "aggregate", "final"}

IsContext(context, registry, e, S, T) ==
    /\ context.total = TotalActive(registry, e)
    /\ context.source = S /\ context.target = T /\ T.epoch = e
    /\ IsCommittees(context.committees, registry, e)

\* What was heard, closed and planned is of the epoch.
IsOpened(a, votes, registry, e, S, T) ==
    /\ DOMAIN a = AggFields
    /\ IsContext(a.context, registry, e, S, T)
    /\ a.stream \in Streams(a.context.committees, S, T, votes)
    /\ a.leftover \in Seq(Heard(votes))
    /\ AreComplements(a.slots, registry, e, votes, S, T)
    /\ AreComplements(a.units, registry, e, votes, S, T)
    /\ a.plan # <<>> => IsPlan(a.units, a.plan)
    /\ a.folded \in Nat

\* No proof attests more than was voted.
ProofsHold(a, votes, registry, e, S, T) ==
    /\ AreBounded(a.unfolded, registry, e, votes, S, T)
    /\ AreBounded(a.groups, registry, e, votes, S, T)
    /\ a.justification # NoProof =>
          /\ IsBounded(a.justification, registry, e, votes, S, T)
          /\ a.justification.output.justified =>
                Justifies(a.justification.output.attesting_balance, a.context.total)
    /\ a.aggregate # NoProof => IsBounded(a.aggregate, registry, e, votes, S, T)
    /\ a.final # NoProof =>
          Justifies(Voted(registry, e, votes, S, T, Indices(SlotCount)), a.context.total)

IsAgg(a, votes, registry, e, S, T) ==
    /\ IsOpened(a, votes, registry, e, S, T)
    /\ a.refused = {} => ProofsHold(a, votes, registry, e, S, T)

\* The epoch, the slot scanned next and the plan stay.
GoesOn(b, a) == b.context = a.context /\ b.next_slot = a.next_slot /\ b.plan = a.plan

LEMMA RefusedKeeps ==
    ASSUME NEW registry, NEW e, NEW votes, NEW S, NEW T, NEW a,
           IsOpened(a, votes, registry, e, S, T), NEW stage, NEW accepted \in BOOLEAN,
           accepted /\ a.refused = {} => ProofsHold(a, votes, registry, e, S, T),
           NEW b, b = Refused(a, stage, accepted)
    PROVE  IsAgg(b, votes, registry, e, S, T) /\ GoesOn(b, a) /\ b.units = a.units
<1>1. CASE accepted
  <2>1. b = a
    BY <1>1 DEF Refused
  <2> QED
    BY <1>1, <2>1 DEF IsAgg, GoesOn
<1>2. CASE ~accepted
  <2>1. b = [a EXCEPT !.refused = @ \cup {stage}]
    BY <1>2 DEF Refused
  <2>2. DOMAIN a = AggFields
    BY DEF IsOpened
  <2>3. /\ DOMAIN b = AggFields /\ b.refused = a.refused \cup {stage}
        /\ b.context = a.context /\ b.stream = a.stream /\ b.next_slot = a.next_slot
        /\ b.leftover = a.leftover /\ b.slots = a.slots /\ b.units = a.units
        /\ b.plan = a.plan /\ b.folded = a.folded
    BY <2>1, <2>2 DEF AggFields
  <2>4. b.refused # {}
    BY <2>3
  <2> QED
    BY <2>3, <2>4 DEF IsAgg, IsOpened, GoesOn
<1> QED
  BY <1>1, <1>2

\* A group of slots is proven.
LEMMA SlotGroupKeeps ==
    ASSUME NEW registry, IsRegistry(registry), NEW e, NEW votes,
           DOMAIN votes \in SUBSET DOMAIN registry, NEW S, NEW T,
           NEW a, IsAgg(a, votes, registry, e, S, T),
           NEW b, b = prove_slot_group(a)
    PROVE  IsAgg(b, votes, registry, e, S, T) /\ GoesOn(b, a)
<1> DEFINE w == AttestationWitness(a.context, a.slots)
           p == Proof("slot", SlotOutput(w))
           c == [a EXCEPT !.slots = <<>>, !.unfolded = Append(@, p)]
<1>1. b = Refused(c, "slot_proof", SlotProofAccepts(w))
  BY DEF prove_slot_group
<1>2. w.slots = a.slots
  BY DEF AttestationWitness
<1>3. /\ p.output.attesting_balance = Attested(w).balance
      /\ p.output.slots_mask = Attested(w).mask
  BY DEF Proof, SlotOutput
<1>4. SlotProofAccepts(w) => AttestAccepts(w)
  BY DEF SlotProofAccepts
<1>5. SlotProofAccepts(w) \in BOOLEAN
  BY DEF SlotProofAccepts, AttestAccepts
<1> HIDE DEF w, p
<1>6. DOMAIN a = AggFields
  BY DEF IsAgg, IsOpened
<1>7. /\ DOMAIN c = AggFields /\ c.refused = a.refused
      /\ c.context = a.context /\ c.stream = a.stream /\ c.next_slot = a.next_slot
      /\ c.leftover = a.leftover /\ c.slots = <<>> /\ c.units = a.units
      /\ c.unfolded = Append(a.unfolded, p) /\ c.justification = a.justification
      /\ c.plan = a.plan /\ c.groups = a.groups /\ c.folded = a.folded
      /\ c.aggregate = a.aggregate /\ c.final = a.final
  BY <1>6 DEF AggFields
<1> HIDE DEF c
<1>8. IsOpened(c, votes, registry, e, S, T)
  BY <1>7, NoComplements DEF IsAgg, IsOpened
<1>9. ASSUME SlotProofAccepts(w), c.refused = {}
      PROVE  ProofsHold(c, votes, registry, e, S, T)
  <2>1. ProofsHold(a, votes, registry, e, S, T)
    BY <1>7, <1>9 DEF IsAgg
  <2>2. AreComplements(w.slots, registry, e, votes, S, T)
    BY <1>2 DEF IsAgg, IsOpened
  <2>3. IsBounded(p, registry, e, votes, S, T)
    BY <1>3, <1>4, <1>9, <2>2, AttestedIs DEF IsBounded
  <2>4. AreBounded(c.unfolded, registry, e, votes, S, T)
    <3>1. AreBounded(a.unfolded, registry, e, votes, S, T)
      BY <2>1 DEF ProofsHold
    <3> QED
      BY <1>7, <2>3, <3>1, OneBoundedMore
  <2> QED
    BY <1>7, <2>1, <2>4 DEF ProofsHold
<1>10. IsAgg(b, votes, registry, e, S, T) /\ GoesOn(b, c)
  BY <1>1, <1>5, <1>8, <1>9, RefusedKeeps
<1> QED
  BY <1>7, <1>10 DEF GoesOn

\* The groups are folded into the justification so far.
LEMMA FoldGroupsKeeps ==
    ASSUME NEW registry, IsRegistry(registry), NEW e, NEW votes,
           DOMAIN votes \in SUBSET DOMAIN registry, NEW S, NEW T,
           NEW a, IsAgg(a, votes, registry, e, S, T),
           NEW b, b = fold_justification(a)
    PROVE  IsAgg(b, votes, registry, e, S, T) /\ GoesOn(b, a)
<1> DEFINE w == JustificationWitness(a.context, a.unfolded, a.justification,
                    IF a.justification = NoProof THEN a.context.committee ELSE NoProof)
           p == Proof("justification", JustificationOutput(w))
           c == [a EXCEPT !.unfolded = <<>>, !.justification = p]
           base == PreviousBalance(w)
           counted == PreviousMask(w)
<1>1. b = Refused(c, "justification", JustificationAccepts(w))
  BY DEF fold_justification
<1>2. w.slot_proofs = a.unfolded /\ w.previous = a.justification /\ w.total = a.context.total
  BY DEF JustificationWitness
<1>3. /\ p.output.attesting_balance = BalanceOf(base, w.slot_proofs)
      /\ p.output.slots_mask = MaskOf(counted, w.slot_proofs)
      /\ p.output.justified = Justifies(p.output.attesting_balance, w.total)
  BY DEF Proof, JustificationOutput
<1>4. JustificationAccepts(w) => MasksDisjoint(counted, w.slot_proofs)
  BY DEF JustificationAccepts
<1>5. JustificationAccepts(w) \in BOOLEAN
  BY DEF JustificationAccepts
<1>5a. /\ a.justification = NoProof => base = 0 /\ counted = {}
       /\ a.justification # NoProof => /\ base = a.justification.output.attesting_balance
                                       /\ counted = a.justification.output.slots_mask
  BY <1>2 DEF PreviousBalance, PreviousMask
<1> HIDE DEF w, p, base, counted
<1>6. DOMAIN a = AggFields
  BY DEF IsAgg, IsOpened
<1>7. /\ DOMAIN c = AggFields /\ c.refused = a.refused
      /\ c.context = a.context /\ c.stream = a.stream /\ c.next_slot = a.next_slot
      /\ c.leftover = a.leftover /\ c.slots = a.slots /\ c.units = a.units
      /\ c.unfolded = <<>> /\ c.justification = p
      /\ c.plan = a.plan /\ c.groups = a.groups /\ c.folded = a.folded
      /\ c.aggregate = a.aggregate /\ c.final = a.final
  BY <1>6 DEF AggFields
<1> HIDE DEF c
<1>8. IsOpened(c, votes, registry, e, S, T)
  BY <1>7 DEF IsAgg, IsOpened
<1>9. ASSUME JustificationAccepts(w), c.refused = {}
      PROVE  ProofsHold(c, votes, registry, e, S, T)
  <2>1. ProofsHold(a, votes, registry, e, S, T)
    BY <1>7, <1>9 DEF IsAgg
  <2>2. ClaimsNoMore(registry, e, votes, S, T, base, counted)
    <3>1. CASE a.justification = NoProof
      <4>1. PICK none : none = {} /\ counted = none
        BY <1>5a, <3>1
      <4>2. Voted(registry, e, votes, S, T, none) \in Nat
        BY VotedAdds
      <4> QED
        BY <1>5a, <3>1, <4>1, <4>2 DEF ClaimsNoMore
    <3>2. CASE a.justification # NoProof
      BY <1>5a, <2>1, <3>2 DEF ProofsHold, IsBounded
    <3> QED
      BY <3>1, <3>2
  <2>3. IsBounded(p, registry, e, votes, S, T)
    <3>1. AreBounded(w.slot_proofs, registry, e, votes, S, T)
      BY <1>2, <2>1 DEF ProofsHold
    <3> QED
      BY <1>3, <1>4, <1>9, <2>2, <3>1, FoldedIs DEF IsBounded
  <2>4. p.output.justified => Justifies(p.output.attesting_balance, c.context.total)
    BY <1>2, <1>3, <1>7
  <2> QED
    BY <1>7, <2>1, <2>3, <2>4, NoneBounded DEF ProofsHold
<1>10. IsAgg(b, votes, registry, e, S, T) /\ GoesOn(b, c)
  BY <1>1, <1>5, <1>8, <1>9, RefusedKeeps
<1> QED
  BY <1>7, <1>10 DEF GoesOn

\* An open slot is closed.
LEMMA CloseSlotKeeps ==
    ASSUME NEW registry, IsRegistry(registry), NEW e, NEW votes,
           DOMAIN votes \in SUBSET DOMAIN registry, NEW S, NEW T,
           NEW a, IsAgg(a, votes, registry, e, S, T), a.plan = <<>>,
           DOMAIN votes \in SUBSET DOMAIN a.context.committees.slots,
           NEW slot \in Int, slot \in open_slots(a.stream),
           NEW b, b = close_slot(a, slot, peek(a.stream, slot))
    PROVE  IsAgg(b, votes, registry, e, S, T) /\ GoesOn(b, a)
<1> DEFINE complement == peek(a.stream, slot)
           committees == a.context.committees
<1>1. /\ IsOpened(a, votes, registry, e, S, T) /\ DOMAIN a = AggFields
      /\ a.stream \in Streams(committees, S, T, votes)
      /\ IsCommittees(committees, registry, e)
  BY DEF IsAgg, IsOpened, IsContext
<1>2. IsComplement(complement, registry, e, votes, S, T)
  <2>1. DOMAIN votes \in SUBSET DOMAIN committees.slots
    OBVIOUS
  <2> HIDE DEF committees
  <2> QED
    BY <1>1, <2>1, PeekIs
<1> HIDE DEF complement
<1>3. b = [a EXCEPT !.stream = forget(@, slot), !.balance = @ + complement.marginal_balance,
                    !.slots = Append(@, complement), !.units = Append(@, complement)]
  BY DEF close_slot, complement
<1>4. /\ DOMAIN b = AggFields /\ b.refused = a.refused
      /\ b.context = a.context /\ b.stream = forget(a.stream, slot)
      /\ b.next_slot = a.next_slot
      /\ b.leftover = a.leftover /\ b.slots = Append(a.slots, complement)
      /\ b.units = Append(a.units, complement)
      /\ b.unfolded = a.unfolded /\ b.justification = a.justification
      /\ b.plan = a.plan /\ b.groups = a.groups /\ b.folded = a.folded
      /\ b.aggregate = a.aggregate /\ b.final = a.final
  BY <1>1, <1>3 DEF AggFields
<1>5. b.stream \in Streams(committees, S, T, votes)
  <2> HIDE DEF committees
  <2> QED
    BY <1>1, <1>4, ForgetKeeps
<1>6. /\ AreComplements(b.slots, registry, e, votes, S, T)
      /\ AreComplements(b.units, registry, e, votes, S, T)
  BY <1>1, <1>2, <1>4, OneComplementMore DEF IsOpened
<1>7. IsOpened(b, votes, registry, e, S, T)
  BY <1>1, <1>4, <1>5, <1>6 DEF IsOpened
<1>8. b.refused = {} => ProofsHold(b, votes, registry, e, S, T)
  BY <1>4 DEF IsAgg, ProofsHold
<1> QED
  BY <1>4, <1>7, <1>8 DEF IsAgg, GoesOn

LEMMA ProveIfDueKeeps ==
    ASSUME NEW registry, IsRegistry(registry), NEW e, NEW votes,
           DOMAIN votes \in SUBSET DOMAIN registry, NEW S, NEW T,
           NEW a, IsAgg(a, votes, registry, e, S, T),
           NEW b, b = fold_if_due(prove_if_due(a))
    PROVE  IsAgg(b, votes, registry, e, S, T) /\ GoesOn(b, a)
<1> DEFINE c == prove_if_due(a)
<1>1. IsAgg(c, votes, registry, e, S, T) /\ GoesOn(c, a)
  <2>1. c = a \/ c = prove_slot_group(a)
    BY DEF prove_if_due
  <2>2. CASE c = a
    BY <2>2 DEF GoesOn
  <2>3. CASE c = prove_slot_group(a)
    BY <2>3, SlotGroupKeeps
  <2> QED
    BY <2>1, <2>2, <2>3
<1>2. b = c \/ b = fold_justification(c)
  BY DEF fold_if_due
<1> HIDE DEF c
<1>3. CASE b = c
  BY <1>1, <1>3
<1>4. CASE b = fold_justification(c)
  <2>1. IsAgg(b, votes, registry, e, S, T) /\ GoesOn(b, c)
    BY <1>1, <1>4, FoldGroupsKeeps
  <2> QED
    BY <1>1, <2>1 DEF GoesOn
<1> QED
  BY <1>2, <1>3, <1>4

\* A block is read.
LEMMA ReadKeeps ==
    ASSUME NEW registry, NEW e, NEW votes, NEW S, NEW T,
           NEW a, IsAgg(a, votes, registry, e, S, T), NEW slot,
           NEW block \in Seq(Heard(votes)), NEW b, b = read(a, slot, block)
    PROVE  /\ IsAgg(b, votes, registry, e, S, T) /\ b.context = a.context
           /\ b.plan = a.plan /\ b.next_slot = slot + 1
<1> DEFINE committees == a.context.committees
<1>1. /\ IsOpened(a, votes, registry, e, S, T) /\ DOMAIN a = AggFields
      /\ a.stream \in Streams(committees, S, T, votes)
  BY DEF IsAgg, IsOpened
<1>3. b = [a EXCEPT !.next_slot = slot + 1, !.stream = ingest(@, block),
                    !.blocks = Append(@, block)]
  BY DEF read
<1>4. /\ DOMAIN b = AggFields /\ b.refused = a.refused
      /\ b.context = a.context /\ b.stream = ingest(a.stream, block)
      /\ b.next_slot = slot + 1
      /\ b.leftover = a.leftover /\ b.slots = a.slots /\ b.units = a.units
      /\ b.unfolded = a.unfolded /\ b.justification = a.justification
      /\ b.plan = a.plan /\ b.groups = a.groups /\ b.folded = a.folded
      /\ b.aggregate = a.aggregate /\ b.final = a.final
  BY <1>1, <1>3 DEF AggFields
<1>5. b.stream \in Streams(committees, S, T, votes)
  <2> HIDE DEF committees
  <2> QED
    BY <1>1, <1>4, IngestKeeps
<1>7. IsOpened(b, votes, registry, e, S, T)
  BY <1>1, <1>4, <1>5 DEF IsOpened
<1>8. b.refused = {} => ProofsHold(b, votes, registry, e, S, T)
  BY <1>4 DEF IsAgg, ProofsHold
<1> QED
  BY <1>4, <1>7, <1>8 DEF IsAgg

\* A slot was scanned of an epoch not yet planned.
HasScanned(b, a, slot, votes, registry, e, S, T) ==
    /\ IsAgg(b, votes, registry, e, S, T) /\ b.context = a.context
    /\ b.plan = <<>> /\ b.next_slot = slot + 1

LEMMA ScanKeeps ==
    ASSUME NEW registry, IsRegistry(registry), NEW e, NEW votes,
           DOMAIN votes \in SUBSET DOMAIN registry, NEW S, NEW T,
           NEW a, IsAgg(a, votes, registry, e, S, T), a.plan = <<>>,
           DOMAIN votes \in SUBSET DOMAIN a.context.committees.slots, NEW slot \in Int,
           NEW block \in Seq(Heard(votes)), NEW b, b = scan(a, slot, block)
    PROVE  HasScanned(b, a, slot, votes, registry, e, S, T)
<1> DEFINE scanned == read(a, slot, block)
           closed == close_slot(scanned, slot - 1, peek(scanned.stream, slot - 1))
<1>1. /\ IsAgg(scanned, votes, registry, e, S, T) /\ scanned.context = a.context
      /\ scanned.plan = a.plan /\ scanned.next_slot = slot + 1
  BY ReadKeeps
<1>2. \/ b = scanned
      \/ slot - 1 \in open_slots(scanned.stream) /\ b = fold_if_due(prove_if_due(closed))
  BY DEF scan
<1> HIDE DEF scanned
<1>3. CASE b = scanned
  BY <1>1, <1>3 DEF HasScanned
<1>4. CASE slot - 1 \in open_slots(scanned.stream) /\ b = fold_if_due(prove_if_due(closed))
  <2>1. /\ slot - 1 \in Int /\ slot - 1 \in open_slots(scanned.stream)
        /\ DOMAIN votes \in SUBSET DOMAIN scanned.context.committees.slots
    BY <1>1, <1>4
  <2>2. IsAgg(closed, votes, registry, e, S, T) /\ GoesOn(closed, scanned)
    BY <1>1, <2>1, CloseSlotKeeps
  <2> HIDE DEF closed
  <2>3. IsAgg(b, votes, registry, e, S, T) /\ GoesOn(b, closed)
    BY <1>4, <2>2, ProveIfDueKeeps
  <2> QED
    BY <1>1, <2>2, <2>3 DEF GoesOn, HasScanned
<1> QED
  BY <1>2, <1>3, <1>4

LEMMA TotalIs ==
    ASSUME NEW registry, IsRegistry(registry), NEW e
    PROVE  TotalActive(registry, e) \in Nat
<1>1. TotalActive(registry, e) = Mass(registry, e, DOMAIN registry)
  BY DEF TotalActive, Mass
<1> QED
  BY <1>1, MassAdds

LEMMA AggGrows ==
    ASSUME NEW registry, IsRegistry(registry), NEW e, NEW votes, NEW more,
           Extends(more, votes), DOMAIN more \in SUBSET DOMAIN registry, NEW S, NEW T,
           NEW a, IsAgg(a, votes, registry, e, S, T)
    PROVE  IsAgg(a, more, registry, e, S, T)
<1> DEFINE committees == a.context.committees
           all == Indices(SlotCount)
<1>1. IsOpened(a, votes, registry, e, S, T)
  BY DEF IsAgg
<1>2. a.stream \in Streams(committees, S, T, more)
  <2>1. a.stream \in Streams(committees, S, T, votes)
    BY <1>1 DEF IsOpened
  <2> HIDE DEF committees
  <2> QED
    BY <2>1, StreamGrows
<1>3. a.leftover \in Seq(Heard(more))
  <2>1. a.leftover \in Seq(Heard(votes)) /\ Heard(votes) \in SUBSET Heard(more)
    BY <1>1, HeardGrows DEF IsOpened
  <2> QED
    BY <2>1
<1>4. /\ AreComplements(a.slots, registry, e, more, S, T)
      /\ AreComplements(a.units, registry, e, more, S, T)
  BY <1>1, ComplementsGrow DEF IsOpened
<1>5. IsOpened(a, more, registry, e, S, T)
  BY <1>1, <1>2, <1>3, <1>4 DEF IsOpened
<1>6. ASSUME ProofsHold(a, votes, registry, e, S, T)
      PROVE  ProofsHold(a, more, registry, e, S, T)
  <2>1. /\ \A p : IsBounded(p, registry, e, votes, S, T) => IsBounded(p, registry, e, more, S, T)
        /\ \A q : AreBounded(q, registry, e, votes, S, T) => AreBounded(q, registry, e, more, S, T)
    BY BoundedGrow
  <2>2. ASSUME Justifies(Voted(registry, e, votes, S, T, all), a.context.total)
        PROVE  Justifies(Voted(registry, e, more, S, T, all), a.context.total)
    <3> HIDE DEF all
    <3>1. Voted(registry, e, votes, S, T, all) <= Voted(registry, e, more, S, T, all)
      BY VotedGrows DEF Extends
    <3>2. DOMAIN votes \in SUBSET DOMAIN registry
      BY DEF Extends
    <3>3. Voted(registry, e, votes, S, T, all) \in Nat /\ Voted(registry, e, more, S, T, all) \in Nat
      BY <3>2, VotedAdds
    <3>4. a.context.total \in Nat
      BY <1>1, TotalIs DEF IsOpened, IsContext
    <3>5. PICK t \in Nat, x \in Nat, y \in Nat :
             /\ t = a.context.total /\ x = Voted(registry, e, votes, S, T, all)
             /\ y = Voted(registry, e, more, S, T, all) /\ x <= y
      BY <3>1, <3>3, <3>4
    <3>6. x * 3 >= t * 2
      BY <2>2, <3>5 DEF Justifies
    <3>7. y * 3 >= t * 2
      BY <3>5, <3>6
    <3> QED
      BY <3>5, <3>7 DEF Justifies
  <2> QED
    BY <1>6, <2>1, <2>2 DEF ProofsHold
<1> QED
  BY <1>5, <1>6 DEF IsAgg

-----------------------------------------------------------------------------
(* The chain's epochs.                                                     *)

LEMMA EpochIs ==
    ASSUME NEW e \in Nat, NEW slot \in Int, EpochOf(slot) = e
    PROVE  slot \in Boundary(e) .. Boundary(e) + SlotCount - 1
<1>1. PICK n \in Nat \ {0} : n = SlotCount
  BY ShuffleAssumption
<1>2. PICK q \in Int, r \in 0 .. n - 1 : q = slot \div n /\ slot = n * q + r
  BY <1>1
<1>3. q = e
  BY <1>1, <1>2 DEF EpochOf
<1>4. n * q = e * SlotCount /\ e * SlotCount \in Nat
  BY <1>1, <1>3
<1> QED
  BY <1>1, <1>2, <1>4 DEF Boundary

\* Two slots of an epoch with the same place in it are one.
LEMMA SlotsOfEpoch ==
    ASSUME NEW e \in Nat, NEW s \in Boundary(e) .. Boundary(e) + SlotCount - 1,
           NEW t \in Boundary(e) .. Boundary(e) + SlotCount - 1,
           s % SlotCount = t % SlotCount
    PROVE  s = t
<1>1. PICK n \in Nat \ {0} : n = SlotCount
  BY ShuffleAssumption
<1>2. PICK b \in Nat : b = e * n /\ b = Boundary(e)
  BY <1>1 DEF Boundary
<1>3. s \in b .. b + n - 1 /\ t \in b .. b + n - 1
  BY <1>1, <1>2
<1>4. ASSUME NEW x \in b .. b + n - 1 PROVE x % n = x - b
  <2>1. PICK q \in Int, r \in 0 .. n - 1 : q = x \div n /\ r = x % n /\ x = n * q + r
    OBVIOUS
  <2>2. n * q - n < n * e /\ n * e < n * q + n /\ n * e = b
    BY <1>2, <2>1
  <2>3. q = e
    <3>1. CASE q <= e - 1
      <4>1. n * q <= n * (e - 1) /\ n * (e - 1) = n * e - n
        BY <3>1, ProductGrows
      <4> QED
        BY <2>1, <2>2, <4>1
    <3>2. CASE q >= e + 1
      <4>1. n * (e + 1) <= n * q /\ n * (e + 1) = n * e + n
        BY <3>2, ProductGrows
      <4> QED
        BY <2>1, <2>2, <4>1
    <3> QED
      BY <2>1, <3>1, <3>2
  <2> QED
    BY <2>1, <2>2, <2>3
<1>5. s % n = s - b /\ t % n = t - b
  BY <1>3, <1>4
<1> QED
  BY <1>1, <1>2, <1>3, <1>5

LEMMA ChainRootIs ==
    ASSUME Fixed, NEW e \in 0 .. LastEpoch
    PROVE  /\ chain[e].root = IF e \in world.missed THEN Boundary(e) - 1 ELSE Boundary(e)
           /\ chain[e].root \in Int /\ Boundary(e) \in Nat /\ 0 \notin world.missed
<1>1. chain[e].root = IF e \in world.missed THEN Boundary(e) - 1 ELSE Boundary(e)
  BY DEF Fixed, ChainOf
<1>2. e \in Nat /\ LastEpoch \in Nat
  BY ProofPathAssumption
<1>3. Boundary(e) \in Nat
  BY <1>2, ShuffleAssumption DEF Boundary
<1>4. 0 \notin world.missed
  BY ProofPathAssumption DEF Fixed
<1> QED
  BY <1>1, <1>3, <1>4

LEMMA CheckpointRootIs ==
    ASSUME Fixed, NEW e \in 0 .. LastEpoch
    PROVE  checkpoint_root(e) = chain[e].root
<1> DEFINE b == Boundary(e)
           from == Saturating(b, SlotCount)
           blocks == {s \in from .. b : HasBlock(s)}
<1>1. /\ chain[e].root = IF e \in world.missed THEN b - 1 ELSE b
      /\ b \in Nat /\ 0 \notin world.missed
  BY ChainRootIs
<1>2. PICK n \in Nat : n = SlotCount /\ n > 1
  BY ShuffleAssumption, ProofPathAssumption
<1>3. e \in Nat /\ b = e * n
  BY <1>2 DEF Boundary
<1>4. from \in Nat /\ from <= b /\ (b >= n => from = b - n)
  BY <1>1, <1>2 DEF Saturating
<1>5. HasBlock(b) <=> e \notin world.missed
  <2>1. b % SlotCount = 0
    BY <1>2, <1>3
  <2>2. EpochOf(b) = e
    BY <1>3, EpochOfBoundary
  <2> QED
    BY <2>1, <2>2 DEF HasBlock
<1> HIDE DEF from, b
<1>6. blocks \in SUBSET Int /\ IsFiniteSet(blocks)
  <2>1. IsFiniteSet(from .. b)
    BY <1>1, <1>4, FS_Interval
  <2>2. blocks \in SUBSET (from .. b)
    OBVIOUS
  <2>3. IsFiniteSet(blocks)
    <3> HIDE DEF blocks
    <3> QED
      BY <2>1, <2>2, FS_Subset
  <2> QED
    BY <2>3
<1>7. checkpoint_root(e) = Max(blocks)
  BY DEF checkpoint_root, b, from
<1>8. CASE e \notin world.missed
  <2>1. b \in blocks
    BY <1>1, <1>4, <1>5, <1>8
  <2>2. \A x \in blocks : x <= b /\ x \in Int
    BY <1>1, <1>4
  <2> HIDE DEF blocks
  <2>3. Max(blocks) \in blocks /\ \A x \in blocks : x <= Max(blocks)
    BY <1>6, <2>1, FiniteMax
  <2>4. Max(blocks) = b
    <3>1. PICK m : m = Max(blocks) /\ m \in blocks /\ b <= m
      BY <2>1, <2>3
    <3>2. m <= b /\ m \in Int /\ b \in Int
      BY <1>1, <2>2, <3>1
    <3> QED
      BY <3>1, <3>2
  <2> QED
    BY <1>1, <1>7, <1>8, <2>4
<1>9. CASE e \in world.missed
  <2>1. e # 0
    BY <1>1, <1>9
  <2>2. b >= n
    <3>1. n * 1 <= n * e /\ n * e = b /\ n * 1 = n
      BY <1>2, <1>3, <2>1, ProductGrows
    <3> QED
      BY <1>1, <1>2, <3>1
  <2>3. HasBlock(b - 1)
    <3>1. (b - 1) % n # 0
      <4>1. PICK q \in Int, r \in 0 .. n - 1 :
               q = (b - 1) \div n /\ r = (b - 1) % n /\ b - 1 = n * q + r
        BY <1>1, <1>2
      <4> SUFFICES ASSUME r = 0 PROVE FALSE
        BY <4>1
      <4>2. n * e = n * q + 1
        BY <1>1, <1>2, <1>3, <4>1
      <4>3. CASE q <= e - 1
        <5>1. n * q <= n * (e - 1) /\ n * (e - 1) = n * e - n /\ n * q \in Int /\ n * e \in Int
          BY <1>2, <1>3, <4>1, <4>3, ProductGrows
        <5> QED
          BY <1>2, <4>2, <5>1
      <4>4. CASE q >= e
        <5>1. n * e <= n * q /\ n * q \in Int /\ n * e \in Int
          BY <1>2, <1>3, <4>1, <4>4, ProductGrows
        <5> QED
          BY <1>2, <4>2, <5>1
      <4> QED
        BY <1>3, <4>1, <4>3, <4>4
    <3> QED
      BY <1>2, <3>1 DEF HasBlock
  <2>4. b - 1 \in blocks
    BY <1>1, <1>2, <1>4, <2>2, <2>3
  <2>5. \A x \in blocks : x <= b - 1 /\ x \in Int
    BY <1>1, <1>4, <1>5, <1>9
  <2> HIDE DEF blocks
  <2>6. Max(blocks) \in blocks /\ \A x \in blocks : x <= Max(blocks)
    BY <1>6, <2>4, FiniteMax
  <2>7. Max(blocks) = b - 1
    BY <1>1, <2>4, <2>5, <2>6
  <2> QED
    BY <1>1, <1>7, <1>9, <2>7
<1> QED
  BY <1>8, <1>9

LEMMA ChainCommittees ==
    ASSUME Fixed, NEW e \in Epochs
    PROVE  /\ chain[e].committees = get_committees(ActiveList(world.registry[e], e), world.seed[e])
           /\ \A r \in Indices(Rounds) : world.seed[e].pivot[r] \in Nat
           /\ IsRegistry(world.registry[e]) /\ e \in 0 .. LastEpoch /\ e - 1 \in 0 .. LastEpoch
           /\ e \in Nat
<1>1. LastEpoch \in Nat \ {0} /\ IsRegistry(world.registry[e])
  BY ChainIs
<1>2. e \in 0 .. LastEpoch /\ e - 1 \in 0 .. LastEpoch /\ e \in Nat /\ ~(e < 1)
  BY <1>1 DEF Epochs
<1>3. chain[e].committees = get_committees(ActiveList(world.registry[e], e), world.seed[e])
  BY <1>2 DEF Fixed, ChainOf
<1>4. \A r \in Indices(Rounds) : world.seed[e].pivot[r] \in Nat
  BY ProofPathAssumption DEF Fixed, Epochs
<1> QED
  BY <1>1, <1>2, <1>3, <1>4

LEMMA CheckpointIs ==
    ASSUME Fixed, NEW e \in 0 .. LastEpoch
    PROVE  Checkpoint(e) \in Checkpoints /\ Checkpoint(e).epoch = e
  BY ChainRootIs DEF Checkpoint, Checkpoints

-----------------------------------------------------------------------------
(* Votes, and the attestations they are heard in.                          *)

LEMMA CanonicalHeadIs ==
    ASSUME NEW slot \in Int PROVE CanonicalHead(slot) \in Int
  BY DEF CanonicalHead

LEMMA RightIs ==
    ASSUME Fixed, NEW slot \in Int
    PROVE  Right(slot) \in VoteData /\ Right(slot).slot = slot
<1>1. epoch \in 0 .. LastEpoch /\ epoch - 1 \in 0 .. LastEpoch
  BY ChainCommittees DEF Fixed
<1>2. Checkpoint(epoch) \in Checkpoints /\ Checkpoint(epoch - 1) \in Checkpoints
  BY <1>1, CheckpointIs
<1>3. CanonicalHead(slot) \in Int
  BY CanonicalHeadIs
<1> QED
  BY <1>2, <1>3 DEF Right, VoteData

LEMMA VotesOfAre ==
    ASSUME Fixed, NEW slot \in Int, NEW body, NEW votes, votes = VotesOf(body, slot)
    PROVE  /\ DOMAIN votes \in SUBSET MembersAt(agg.context.committees, slot % SlotCount)
           /\ \A v \in DOMAIN votes : votes[v] \in VoteData /\ votes[v].slot = slot
           /\ body \in {"overlap", "singles"} =>
                 \A v \in DOMAIN votes : votes[v] = Right(slot)
<1> DEFINE members == MembersAt(agg.context.committees, slot % SlotCount)
           first == CHOOSE v \in members : \A u \in members : v <= u
           right == Right(slot)
           ofFirst == CASE body = "split" -> [right EXCEPT !.head = OtherHead]
                        [] body = "stale" -> [right EXCEPT !.head = CanonicalHead(slot - 1)]
                        [] body = "wrong" -> [right EXCEPT !.target.root = chain[epoch - 1].root]
                        [] OTHER -> right
           D == IF body = "absent" THEN members \ {first} ELSE members
<1>1. votes = [v \in D |-> IF v = first THEN ofFirst ELSE right]
  BY DEF VotesOf
<1>2. D \in SUBSET members
  OBVIOUS
<1> HIDE DEF D, members, first
<1>3. right \in VoteData /\ right.slot = slot
  BY RightIs
<1>3a. CanonicalHead(slot - 1) \in Int /\ chain[epoch - 1].root \in Int
  <2>1. epoch - 1 \in 0 .. LastEpoch
    BY ChainCommittees DEF Fixed
  <2>2. slot - 1 \in Int
    OBVIOUS
  <2> QED
    BY <2>1, <2>2, CanonicalHeadIs, ChainRootIs
<1> HIDE DEF right
<1>4. ofFirst \in VoteData /\ ofFirst.slot = slot
  <2>1. [right EXCEPT !.head = OtherHead] \in VoteData
        /\ [right EXCEPT !.head = OtherHead].slot = slot
    BY <1>3 DEF VoteData, OtherHead
  <2>2. [right EXCEPT !.head = CanonicalHead(slot - 1)] \in VoteData
        /\ [right EXCEPT !.head = CanonicalHead(slot - 1)].slot = slot
    BY <1>3, <1>3a DEF VoteData
  <2>3. [right EXCEPT !.target.root = chain[epoch - 1].root] \in VoteData
        /\ [right EXCEPT !.target.root = chain[epoch - 1].root].slot = slot
    BY <1>3, <1>3a DEF VoteData, Checkpoints
  <2> QED
    BY <1>3, <2>1, <2>2, <2>3
<1>5. body \in {"overlap", "singles"} => ofFirst = right
  OBVIOUS
<1> HIDE DEF ofFirst
<1> QED
  BY <1>1, <1>2, <1>3, <1>4, <1>5 DEF members, right

LEMMA AttestationIs ==
    ASSUME \A s \in Indices(SlotCount) : DOMAIN agg.context.committees.table[s] \in SUBSET Int,
           NEW votes, NEW data \in VoteData, NEW voters \in SUBSET DOMAIN votes,
           \A v \in voters : votes[v] = data, NEW single \in BOOLEAN
    PROVE  Attestation(data, voters, single) \in Heard(votes)
<1> DEFINE table == agg.context.committees.table[data.slot % SlotCount]
           named == {c \in DOMAIN table : table[c] \cap voters # {}}
<1>1. data.slot \in Int
  BY DEF VoteData
<1>2. data.slot % SlotCount \in Indices(SlotCount)
  BY <1>1, SlotIndex
<1>3. named \in SUBSET Int
  BY <1>2
<1>4. Attestation(data, voters, single)
         = [data |-> data, bits |-> voters, single |-> single, committees |-> named]
  BY DEF Attestation
<1> HIDE DEF named
<1> QED
  BY <1>3, <1>4 DEF Heard

LEMMA HeardInIs ==
    ASSUME \A s \in Indices(SlotCount) : DOMAIN agg.context.committees.table[s] \in SUBSET Int,
           NEW votes, IsFiniteSet(DOMAIN votes), DOMAIN votes \in SUBSET Int,
           \A v \in DOMAIN votes : votes[v] \in VoteData,
           NEW right, NEW body,
           body \in {"overlap", "singles"} => \A v \in DOMAIN votes : votes[v] = right
    PROVE  HeardIn(body, votes) \in Seq(Heard(votes))
<1> DEFINE voters == DOMAIN votes
           first == CHOOSE v \in voters : \A u \in voters : v <= u
           last == CHOOSE v \in voters : \A u \in voters : u <= v
           single(v) == Attestation(votes[v], {v}, TRUE)
           over(data) == Attestation(data, {v \in voters : votes[v] = data}, FALSE)
           order == InOrder(voters)
           singles == [i \in DOMAIN order |-> single(order[i])]
           but(v) == Attestation(votes[last], voters \ {v}, FALSE)
           H == Heard(votes)
<1>1. CASE voters = {}
  <2>1. HeardIn(body, votes) = <<>>
    BY <1>1 DEF HeardIn
  <2> QED
    BY <2>1
<1>2. CASE voters # {}
  <2>1. first \in voters /\ last \in voters
    <3>1. IsFiniteSet(voters) /\ voters \in SUBSET Int
      OBVIOUS
    <3>2. last \in voters
      <4> HIDE DEF voters
      <4>1. Max(voters) \in voters /\ \A u \in voters : u <= Max(voters)
        BY <1>2, <3>1, FiniteMax
      <4>2. \E v \in voters : \A u \in voters : u <= v
        <5>1. PICK m : m = Max(voters)
          OBVIOUS
        <5>2. m \in voters /\ \A u \in voters : u <= m
          BY <4>1, <5>1
        <5> HIDE DEF last
        <5> QED
          BY <5>2, Zenon
      <4> HIDE DEF last
      <4>3. (CHOOSE v \in voters : \A u \in voters : u <= v) \in voters
        BY <4>2
      <4> QED
        BY <4>3 DEF last
    <3>3. first \in voters
      <4>1. PICK n, o : o = InOrder(voters) /\ n = Cardinality(voters)
        OBVIOUS
      <4>2. /\ o \in [1 .. n -> voters] /\ n \in Nat
            /\ \A i, j \in 1 .. n : i < j => o[i] < o[j]
            /\ \A x \in voters : \E k \in 1 .. n : o[k] = x
        BY <3>1, <4>1, InOrderSorts, FS_CardinalityType
      <4> HIDE DEF voters
      <4>3. n # 0
        BY <1>2, <3>1, <4>1, FS_EmptySet
      <4>4. 1 \in 1 .. n /\ o[1] \in voters
        BY <4>2, <4>3
      <4>5. ASSUME NEW u \in voters PROVE o[1] <= u
        <5>1. PICK k \in 1 .. n : o[k] = u
          BY <4>2
        <5>2. CASE k = 1
          BY <3>1, <4>4, <5>1, <5>2
        <5>3. CASE k # 1
          <6>1. 1 < k
            BY <4>2, <5>3
          <6>2. o[1] < o[k] /\ o[1] \in Int /\ o[k] \in Int
            BY <3>1, <4>2, <4>4, <5>1, <6>1
          <6> QED
            BY <5>1, <6>2
        <5> QED
          BY <5>2, <5>3
      <4>6. \E v \in voters : \A u \in voters : v <= u
        <5>1. PICK m : m = o[1]
          OBVIOUS
        <5>2. m \in voters /\ \A u \in voters : m <= u
          BY <4>4, <4>5, <5>1
        <5> HIDE DEF first
        <5> QED
          BY <5>2, Zenon
      <4> HIDE DEF first
      <4>7. (CHOOSE v \in voters : \A u \in voters : v <= u) \in voters
        BY <4>6
      <4> QED
        BY <4>7 DEF first
    <3> QED
      BY <3>2, <3>3
  <2> HIDE DEF first, last
  <2>2. \A v \in voters : single(v) \in H
    <3> SUFFICES ASSUME NEW v \in voters PROVE single(v) \in H
      OBVIOUS
    <3>1. {v} \in SUBSET DOMAIN votes /\ \A u \in {v} : votes[u] = votes[v]
      OBVIOUS
    <3> QED
      BY <3>1, AttestationIs
  <2>3. \A data \in VoteData : over(data) \in H
    <3> SUFFICES ASSUME NEW data \in VoteData PROVE over(data) \in H
      OBVIOUS
    <3>1. PICK those : those = {v \in voters : votes[v] = data}
      OBVIOUS
    <3>2. those \in SUBSET DOMAIN votes /\ \A u \in those : votes[u] = data
      BY <3>1
    <3> QED
      BY <3>1, <3>2, AttestationIs
  <2>4. ASSUME body \in {"overlap", "singles"}, NEW v PROVE but(v) \in H
    <3>1. PICK those : those = voters \ {v}
      OBVIOUS
    <3>2. those \in SUBSET DOMAIN votes /\ \A u \in those : votes[u] = votes[last]
      BY <2>1, <2>4, <3>1
    <3>3. votes[last] \in VoteData
      BY <2>1
    <3> QED
      BY <3>1, <3>2, <3>3, AttestationIs
  <2>5. singles \in Seq(H)
    <3>1. order \in [1 .. Cardinality(voters) -> voters] /\ Cardinality(voters) \in Nat
      BY InOrderSorts, FS_CardinalityType
    <3> HIDE DEF order, H, single, voters
    <3>2. singles \in [1 .. Cardinality(voters) -> H]
      BY <2>2, <3>1
    <3> HIDE DEF singles
    <3> QED
      BY <3>1, <3>2
  <2>6. HeardIn(body, votes)
           = CASE body = "overlap" -> <<but(first), but(last)>>
               [] body = "singles" -> singles \o <<single(first), but(first)>>
               [] OTHER -> <<over(votes[last])>> \o
                             (IF votes[first] = votes[last] THEN <<>> ELSE <<over(votes[first])>>)
    BY <1>2 DEF HeardIn, first, last
  <2> HIDE DEF singles, single, over, but, H
  <2>7. CASE body = "overlap"
    <3>1. HeardIn(body, votes) = <<but(first), but(last)>>
      BY <2>6, <2>7
    <3>2. but(first) \in H /\ but(last) \in H
      BY <2>4, <2>7
    <3> QED
      BY <3>1, <3>2 DEF H
  <2>8. CASE body = "singles"
    <3>1. HeardIn(body, votes) = singles \o <<single(first), but(first)>>
      BY <2>6, <2>8
    <3>2. single(first) \in H /\ but(first) \in H
      BY <2>1, <2>2, <2>4, <2>8
    <3>3. <<single(first), but(first)>> \in Seq(H)
      BY <3>2
    <3> QED
      BY <2>5, <3>1, <3>3, ConcatIs DEF H
  <2>9. CASE body \notin {"overlap", "singles"}
    <3> DEFINE rest == IF votes[first] = votes[last] THEN <<>> ELSE <<over(votes[first])>>
    <3>1. HeardIn(body, votes) = <<over(votes[last])>> \o rest
      BY <2>6, <2>9
    <3>2. over(votes[last]) \in H /\ over(votes[first]) \in H
      BY <2>1, <2>3
    <3>3. <<over(votes[last])>> \in Seq(H) /\ rest \in Seq(H)
      BY <3>2
    <3> HIDE DEF rest
    <3> QED
      BY <3>1, <3>3, ConcatIs DEF H
  <2> QED
    BY <2>7, <2>8, <2>9
<1> QED
  BY <1>1, <1>2

-----------------------------------------------------------------------------
(* The invariant.                                                          *)

\* Everyone votes in the slot of its committee, in the epoch aggregated.
CastIs(votes, committees, e) ==
    /\ DOMAIN votes \in SUBSET DOMAIN committees.slots
    /\ \A v \in DOMAIN votes :
          /\ votes[v] \in VoteData
          /\ votes[v].slot \in Boundary(e) .. Boundary(e) + SlotCount - 1
          /\ votes[v].slot % SlotCount = committees.slots[v]

\* An aggregation of one of the chain's epochs.
IsOf(a, votes, e) ==
    /\ IsAgg(a, votes, world.registry[e], e, Checkpoint(e - 1), Checkpoint(e))
    /\ CastIs(votes, a.context.committees, e)

Fits(a, votes) ==
    IF "context" \in DOMAIN a THEN \E e \in Epochs : IsOf(a, votes, e)
    ELSE DOMAIN a = {"refused"}

\* The phases an epoch's aggregation is open in.
Aggregating == {"hear", "close", "collect", "plan", "stream"}

\* What the next step of an epoch is taken over.
Staged ==
    /\ phase = "open" => LedgerIs(epoch)
    /\ phase \in Aggregating => "context" \in DOMAIN agg /\ agg.context.target.epoch = epoch
    /\ phase = "hear" => /\ agg.next_slot \in Int
                         /\ \A v \in DOMAIN cast : cast[v].slot < agg.next_slot - 1
    /\ phase \in Aggregating \ {"stream"} => agg.plan = <<>>
    /\ phase = "plan" => IsUnits(agg.units)
    /\ phase = "stream" => agg.plan # <<>>
    /\ phase = "decided" => "context" \in DOMAIN agg

WeighInv == AnchorInv /\ Fits(agg, cast) /\ Staged

-----------------------------------------------------------------------------
(* Steps that leave the aggregation as it is, or refuse something of it.   *)

LEMMA RefusedIs ==
    ASSUME NEW registry, NEW e, NEW votes, NEW S, NEW T, NEW a,
           IsAgg(a, votes, registry, e, S, T), NEW stage, NEW accepted,
           NEW b, b = Refused(a, stage, accepted)
    PROVE  IsAgg(b, votes, registry, e, S, T) /\ GoesOn(b, a) /\ b.units = a.units
<1>1. CASE accepted
  <2>1. b = a
    BY <1>1 DEF Refused
  <2> QED
    BY <2>1 DEF GoesOn
<1>2. CASE ~accepted
  <2>1. b = Refused(a, stage, FALSE)
    BY <1>2 DEF Refused
  <2>2. PICK no \in BOOLEAN : ~no /\ b = Refused(a, stage, no)
    BY <2>1
  <2>3. IsOpened(a, votes, registry, e, S, T)
    BY DEF IsAgg
  <2>4. no /\ a.refused = {} => ProofsHold(a, votes, registry, e, S, T)
    BY <2>2
  <2> QED
    BY <2>2, <2>3, <2>4, RefusedKeeps
<1> QED
  BY <1>1, <1>2

LEMMA FitsRefused ==
    ASSUME NEW a, NEW votes, Fits(a, votes), NEW stage, NEW accepted,
           NEW b, b = Refused(a, stage, accepted)
    PROVE  Fits(b, votes)
<1>1. CASE "context" \in DOMAIN a
  <2>1. PICK e \in Epochs : IsOf(a, votes, e)
    BY <1>1 DEF Fits
  <2>2. /\ IsAgg(b, votes, world.registry[e], e, Checkpoint(e - 1), Checkpoint(e))
        /\ b.context = a.context
    BY <2>1, RefusedIs DEF IsOf, GoesOn
  <2>3. "context" \in DOMAIN b
    BY <2>2 DEF IsAgg, IsOpened, AggFields
  <2>4. IsOf(b, votes, e)
    BY <2>1, <2>2 DEF IsOf
  <2> QED
    BY <2>3, <2>4 DEF Fits
<1>2. CASE "context" \notin DOMAIN a
  <2>1. DOMAIN a = {"refused"}
    BY <1>2 DEF Fits
  <2>2. DOMAIN b = {"refused"}
    BY <2>1 DEF Refused
  <2> QED
    BY <2>2 DEF Fits
<1> QED
  BY <1>1, <1>2

\* The chain is what it was, and the step leaves an aggregation that fits.
LEMMA StepKeeps ==
    ASSUME AnchorInv', UNCHANGED <<world, chain>>, Fits(agg', cast'), Staged'
    PROVE  WeighInv'
<1>1. Fits(agg, cast)'
  BY DEF Fits, IsOf, Checkpoint, Epochs
<1> QED
  BY <1>1 DEF WeighInv

LEMMA ClosedStage ==
    ASSUME phase' \notin Aggregating \cup {"open"},
           phase' = "decided" => "context" \in DOMAIN agg'
    PROVE  Staged'
BY DEF Staged, Aggregating

\* Nothing is left but what was refused.
LEMMA ClearedFits ==
    ASSUME NEW r, NEW votes PROVE Fits([refused |-> r], votes)
BY DEF Fits

LEMMA StartWeighs == WeighInv /\ Start => WeighInv'
<1> SUFFICES ASSUME WeighInv, Start PROVE WeighInv'
  OBVIOUS
<1>1. UNCHANGED <<world, chain, agg, cast>> /\ phase' \in {"open", "refused"}
  BY DEF Start, StartedOn
<1>2. AnchorInv' /\ (phase' = "open" => LedgerIs(epoch)')
  BY StartKeeps DEF WeighInv
<1>3. Staged'
  BY <1>1, <1>2 DEF Staged, Aggregating
<1> QED
  BY <1>1, <1>2, <1>3, StepKeeps DEF WeighInv

LEMMA AdvanceWeighs == WeighInv /\ (Advance \/ AdvanceOrphaned) => WeighInv'
<1> SUFFICES ASSUME WeighInv, Advance \/ AdvanceOrphaned PROVE WeighInv'
  OBVIOUS
<1>1. UNCHANGED <<world, chain, cast>> /\ phase' \in {"open", "reorged"}
  BY DEF Advance, AdvanceOrphaned
<1>2. \E accepted : agg' = Refused(agg, "epoch_diff", accepted)
  BY DEF Advance, AdvanceOrphaned, DiffTo
<1>3. AnchorInv' /\ (phase' = "open" => LedgerIs(epoch)')
  BY AdvanceKeeps DEF WeighInv
<1>4. Staged'
  BY <1>1, <1>3 DEF Staged, Aggregating
<1>5. Fits(agg', cast')
  BY <1>1, <1>2, FitsRefused DEF WeighInv
<1> QED
  BY <1>1, <1>3, <1>4, <1>5, StepKeeps

\* The steps past an epoch: on to the next one, over what was published, and
\* beside it.
LEMMA SettledWeighs ==
    WeighInv /\ (\/ NextEpoch \/ Settle \/ FetchNode \/ Confirm \/ ReplaySlot \/ Bench)
        => WeighInv'
<1> SUFFICES ASSUME WeighInv, \/ NextEpoch \/ Settle \/ FetchNode \/ Confirm \/ ReplaySlot
                              \/ Bench
             PROVE  WeighInv'
  OBVIOUS
<1>1. UNCHANGED <<world, chain>>
  BY DEF NextEpoch, Settle, FetchNode, Confirm, ReplaySlot, Bench
<1>2. AnchorInv'
  BY NextEpochKeeps, SettleKeeps, PipelineKeeps DEF WeighInv
<1>3. Staged'
  <2>1. phase' \notin Aggregating \cup {"open", "decided"}
    BY DEF NextEpoch, Settle, FetchNode, Confirm, ReplaySlot, Bench, Aggregating
  <2> QED
    BY <2>1, ClosedStage
<1>4. Fits(agg', cast')
  <2>0. Fits(agg, cast)
    BY DEF WeighInv
  <2>1. CASE NextEpoch
    BY <2>0, <2>1 DEF NextEpoch
  <2>2. CASE Settle \/ FetchNode
    <3>1. agg' = [refused |-> agg.refused]
      BY <2>2 DEF Settle, FetchNode
    <3> QED
      BY <3>1, ClearedFits
  <2>3. CASE Confirm
    <3>1. cast' = cast
      BY <2>3 DEF Confirm
    <3>2. PICK ws, assigned : agg' = judged(agg, ws, assigned)
      BY <2>3 DEF Confirm
    <3>3. PICK x, y : agg' = Refused(Refused(agg, "fcr_batch", x), "fcr_committee", y)
      BY <3>2 DEF judged
    <3>4. PICK b : b = Refused(agg, "fcr_batch", x)
      OBVIOUS
    <3>5. Fits(b, cast)
      BY <2>0, <3>4, FitsRefused
    <3> QED
      BY <3>1, <3>3, <3>4, <3>5, FitsRefused
  <2>4. CASE ReplaySlot
    <3>1. cast' = cast
      BY <2>4 DEF ReplaySlot
    <3>2. \/ agg' = agg
          \/ \E x : agg' = Refused(agg, "fcr_rule", x)
      BY <2>4 DEF ReplaySlot
    <3> QED
      BY <2>0, <3>1, <3>2, FitsRefused
  <2>5. CASE Bench
    <3>1. cast' = cast /\ \E x : agg' = Refused(agg, "selftest", x)
      BY <2>5 DEF Bench
    <3> QED
      BY <2>0, <3>1, FitsRefused
  <2> QED
    BY <2>1, <2>2, <2>3, <2>4, <2>5
<1> QED
  BY <1>1, <1>2, <1>3, <1>4, StepKeeps

LEMMA SubmitWeighs ==
    WeighInv /\ (Bootstrap \/ SubmitEpochDiff \/ SubmitFinality \/ UNCHANGED vars)
        => WeighInv'
<1> SUFFICES ASSUME WeighInv,
                    Bootstrap \/ SubmitEpochDiff \/ SubmitFinality \/ UNCHANGED vars
             PROVE  WeighInv'
  OBVIOUS
<1>1. UNCHANGED <<world, chain, epoch, phase, ledger, agg, cast>>
  BY DEF Bootstrap, SubmitEpochDiff, SubmitFinality, vars
<1>2. AnchorInv'
  BY SubmitKeeps, PipelineKeeps DEF WeighInv
<1>3. Staged'
  BY <1>1 DEF WeighInv, Staged, LedgerIs
<1> QED
  BY <1>1, <1>2, <1>3, StepKeeps DEF WeighInv

-----------------------------------------------------------------------------
(* An epoch opens.                                                         *)

LEMMA StreamOpens ==
    ASSUME NEW committees, NEW S, NEW T, NEW votes, NEW stream,
           stream = SlotStream(committees, S, T)
    PROVE  stream \in Streams(committees, S, T, votes)
<1>1. stream = [committees |-> committees, source |-> S, target |-> T,
                pending |-> <<>>, summed |-> <<>>, closed |-> {}]
  BY DEF SlotStream
<1>2. <<>> \in Seq(Aggregates(votes, S, T)) /\ {} \in SUBSET Int
  OBVIOUS
<1>3. <<>> \in Buckets(votes, S, T)
  <2>1. {} \in SUBSET (VoteData \X Int) /\ IsFiniteSet({})
    BY FS_EmptySet
  <2>2. DOMAIN <<>> = {} /\ <<>> \in [{} -> Aggregates(votes, S, T)]
    OBVIOUS
  <2> QED
    BY <2>1, <2>2 DEF Buckets
<1> QED
  BY <1>1, <1>2, <1>3 DEF Streams

LEMMA OpenWeighs == WeighInv /\ Open => WeighInv'
<1> SUFFICES ASSUME WeighInv, Open PROVE WeighInv'
  OBVIOUS
<1> DEFINE e == epoch
           registry == world.registry[epoch]
           S == Checkpoint(epoch - 1)
           T == Checkpoint(epoch)
           seed == world.seed[epoch]
<1>1. /\ phase = "open" /\ cast' = <<>> /\ phase' = "hear"
      /\ UNCHANGED <<world, chain, epoch, ledger, fcr, rule, contract>>
  BY DEF Open
<1>2. Fixed /\ LedgerIs(epoch) /\ AnchorInv'
  BY <1>1, PipelineKeeps DEF WeighInv, Staged, AnchorInv
<1>3. /\ epoch \in Epochs /\ epoch \in Nat /\ IsRegistry(registry)
      /\ epoch \in 0 .. LastEpoch /\ epoch - 1 \in 0 .. LastEpoch
      /\ chain[epoch].committees = get_committees(ActiveList(registry, epoch), seed)
      /\ \A r \in Indices(Rounds) : seed.pivot[r] \in Nat
  BY <1>2, ChainCommittees DEF Fixed
<1>4. PICK committees : committees = build_committees(epoch)
  OBVIOUS
<1> HIDE DEF registry, seed
<1>5. committees = build(get_committees(ActiveList(registry, epoch), seed),
                         AccTree(registry, epoch), epoch, ledger.total)
  BY <1>2, <1>3, <1>4 DEF build_committees, LedgerIs, registry
<1>6. IsCommittees(committees, registry, epoch)
  BY <1>3, <1>5, CommitteesBuilt
<1>7. /\ [epoch |-> epoch - 1, root |-> checkpoint_root(epoch - 1)] = S
      /\ [epoch |-> epoch, root |-> checkpoint_root(epoch)] = T
  BY <1>2, <1>3, CheckpointRootIs DEF Checkpoint
<1>8. S \in Checkpoints /\ T \in Checkpoints /\ T.epoch = epoch
  BY <1>2, <1>3, CheckpointIs
<1> HIDE DEF S, T
<1>9. PICK context, opened, accepted :
        /\ context.tree = ledger.tree /\ context.total = ledger.total
        /\ context.source = S /\ context.target = T /\ context.committees = committees
        /\ opened = [refused |-> agg.refused, context |-> context,
                     stream |-> SlotStream(committees, S, T),
                     next_slot |-> Boundary(epoch), leftover |-> <<>>, blocks |-> <<>>,
                     balance |-> 0, slots |-> <<>>, units |-> <<>>, unfolded |-> <<>>,
                     justification |-> NoProof, plan |-> <<>>, groups |-> <<>>,
                     folded |-> 0, aggregate |-> NoProof, final |-> NoProof]
        /\ agg' = Refused(opened, "committee", accepted)
  <2> DEFINE context == [tree |-> ledger.tree, total |-> ledger.total,
                         source |-> S, target |-> T,
                         committees |-> committees, diff |-> ledger.diff,
                         committee |-> Proof("committee", CommitteeOutput(committees.witness))]
             opened == [refused |-> agg.refused, context |-> context,
                        stream |-> SlotStream(committees, S, T),
                        next_slot |-> Boundary(epoch), leftover |-> <<>>, blocks |-> <<>>,
                        balance |-> 0, slots |-> <<>>, units |-> <<>>, unfolded |-> <<>>,
                        justification |-> NoProof, plan |-> <<>>, groups |-> <<>>,
                        folded |-> 0, aggregate |-> NoProof, final |-> NoProof]
  <2>1. agg' = Refused(opened, "committee", prove_committee(committees))
    BY <1>4, <1>7, Zenon DEF Open
  <2>2. /\ context.tree = ledger.tree /\ context.total = ledger.total
        /\ context.source = S /\ context.target = T /\ context.committees = committees
    OBVIOUS
  <2> HIDE DEF context
  <2>3. PICK c : c = context
    OBVIOUS
  <2>4. PICK x : x = prove_committee(committees)
    OBVIOUS
  <2> QED
    BY <2>1, <2>2, <2>3, <2>4
<1>10. IsContext(context, registry, epoch, S, T)
  BY <1>2, <1>6, <1>8, <1>9 DEF IsContext, LedgerIs, registry
<1>11. IsOpened(opened, cast', registry, epoch, S, T)
  <2>1. /\ DOMAIN opened = AggFields /\ opened.context = context
        /\ opened.stream = SlotStream(committees, S, T) /\ opened.leftover = <<>>
        /\ opened.slots = <<>> /\ opened.units = <<>> /\ opened.plan = <<>>
        /\ opened.folded = 0
    BY <1>9 DEF AggFields
  <2>2. opened.stream \in Streams(context.committees, S, T, cast')
    BY <1>9, <2>1, StreamOpens
  <2>3. <<>> \in Seq(Heard(cast'))
    OBVIOUS
  <2> QED
    BY <1>10, <2>1, <2>2, <2>3, NoComplements DEF IsOpened
<1>12. ProofsHold(opened, cast', registry, epoch, S, T)
  <2>1. /\ opened.unfolded = <<>> /\ opened.groups = <<>> /\ opened.justification = NoProof
        /\ opened.aggregate = NoProof /\ opened.final = NoProof
    BY <1>9
  <2> QED
    BY <2>1, NoneBounded DEF ProofsHold
<1>13. IsAgg(opened, cast', registry, epoch, S, T)
  BY <1>11, <1>12 DEF IsAgg
<1>14. IsAgg(agg', cast', registry, epoch, S, T) /\ GoesOn(agg', opened)
  BY <1>9, <1>13, RefusedIs
<1>15. /\ agg'.context = context /\ agg'.next_slot = Boundary(epoch) /\ agg'.plan = <<>>
       /\ DOMAIN agg' = AggFields
  BY <1>9, <1>14 DEF GoesOn, IsAgg, IsOpened
<1>16. CastIs(cast', agg'.context.committees, epoch)
  <2>1. DOMAIN cast' = {}
    BY <1>1
  <2> QED
    BY <2>1 DEF CastIs
<1>17. Fits(agg', cast')
  BY <1>3, <1>14, <1>15, <1>16 DEF Fits, IsOf, S, T, registry, AggFields
<1>18. Staged'
  <2>1. /\ agg'.context.target.epoch = epoch /\ Boundary(epoch) \in Int /\ DOMAIN cast' = {}
        /\ "context" \in DOMAIN agg'
    BY <1>1, <1>2, <1>3, <1>8, <1>9, <1>15, ChainRootIs DEF AggFields
  <2> QED
    BY <1>1, <1>15, <2>1 DEF Staged
<1> QED
  BY <1>1, <1>2, <1>17, <1>18, StepKeeps

-----------------------------------------------------------------------------
(* An epoch is heard.                                                      *)

\* The epoch proven is the one aggregated.
LEMMA EpochAggregated ==
    ASSUME WeighInv, phase \in Aggregating
    PROVE  /\ Fixed /\ epoch \in Epochs /\ epoch \in Nat
           /\ IsRegistry(world.registry[epoch])
           /\ IsOf(agg, cast, epoch)
           /\ DOMAIN cast \in SUBSET DOMAIN world.registry[epoch]
           /\ agg.context.target = Checkpoint(epoch)
<1>1. Fixed /\ epoch \in Epochs
  BY DEF WeighInv, AnchorInv, Fixed
<1>2. epoch \in Nat /\ IsRegistry(world.registry[epoch])
  BY <1>1, ChainCommittees
<1>3. "context" \in DOMAIN agg /\ agg.context.target.epoch = epoch
  BY DEF WeighInv, Staged
<1>4. PICK e \in Epochs : IsOf(agg, cast, e)
  BY <1>3 DEF WeighInv, Fits
<1>5. IsContext(agg.context, world.registry[e], e, Checkpoint(e - 1), Checkpoint(e))
  BY <1>4 DEF IsOf, IsAgg, IsOpened
<1>6. e = epoch
  BY <1>3, <1>5 DEF IsContext
<1>7. DOMAIN cast \in SUBSET DOMAIN world.registry[epoch]
  BY <1>4, <1>5, <1>6 DEF IsOf, CastIs, IsContext, IsCommittees
<1> QED
  BY <1>1, <1>2, <1>4, <1>5, <1>6, <1>7 DEF IsContext

\* What is left over may be anything heard.
LEMMA LeftoverKeeps ==
    ASSUME NEW registry, NEW e, NEW votes, NEW S, NEW T, NEW a,
           IsAgg(a, votes, registry, e, S, T), NEW left \in Seq(Heard(votes)),
           NEW b, b = [a EXCEPT !.leftover = left]
    PROVE  IsAgg(b, votes, registry, e, S, T) /\ GoesOn(b, a)
<1>1. DOMAIN a = AggFields
  BY DEF IsAgg, IsOpened
<1>2. /\ DOMAIN b = AggFields /\ b.leftover = left
      /\ b.context = a.context /\ b.stream = a.stream /\ b.slots = a.slots
      /\ b.units = a.units /\ b.plan = a.plan /\ b.folded = a.folded
      /\ b.refused = a.refused /\ b.unfolded = a.unfolded /\ b.groups = a.groups
      /\ b.justification = a.justification /\ b.aggregate = a.aggregate
      /\ b.final = a.final /\ b.next_slot = a.next_slot
  BY <1>1 DEF AggFields
<1> QED
  BY <1>2 DEF IsAgg, IsOpened, ProofsHold, GoesOn

\* A slot is scanned, whatever block it has of what was heard.
LEMMA ScannedWeighs ==
    ASSUME WeighInv, phase = "hear", NEW votes,
           UNCHANGED <<world, chain, epoch, ledger, contract>>,
           cast' = votes, Extends(votes, cast),
           CastIs(votes, agg.context.committees, epoch),
           \A v \in DOMAIN votes : votes[v].slot < agg.next_slot,
           NEW block \in Seq(Heard(votes)), NEW left \in Seq(Heard(votes)),
           Scanned(agg.next_slot, block, left), AnchorInv'
    PROVE  WeighInv'
<1> DEFINE registry == world.registry[epoch]
           S == Checkpoint(epoch - 1)
           T == Checkpoint(epoch)
           slot == agg.next_slot
<1>1. /\ IsRegistry(registry) /\ epoch \in Epochs
      /\ IsAgg(agg, cast, registry, epoch, S, T)
      /\ slot \in Int /\ agg.plan = <<>> /\ agg.context.target.epoch = epoch
  BY EpochAggregated DEF Aggregating, WeighInv, Staged, IsOf
<1>2. DOMAIN votes \in SUBSET DOMAIN registry
  BY <1>1 DEF IsAgg, IsOpened, IsContext, IsCommittees, CastIs
<1> HIDE DEF registry, S, T
<1>3. IsAgg(agg, votes, registry, epoch, S, T)
  BY <1>1, <1>2, AggGrows
<1>4. PICK after : /\ agg' = [after EXCEPT !.leftover = left]
                   /\ \/ after = read(agg, slot, block)
                      \/ after = scan(agg, slot, block)
  BY DEF Scanned
<1>5. /\ IsAgg(after, votes, registry, epoch, S, T) /\ after.context = agg.context
      /\ after.plan = <<>> /\ after.next_slot = slot + 1
  <2>1. CASE after = read(agg, slot, block)
    BY <1>1, <1>3, <2>1, ReadKeeps
  <2>2. CASE after = scan(agg, slot, block)
    <3>1. /\ IsRegistry(registry) /\ slot \in Int /\ agg.plan = <<>>
          /\ DOMAIN votes \in SUBSET DOMAIN agg.context.committees.slots
      BY <1>1 DEF CastIs
    <3> HIDE DEF slot
    <3>2. HasScanned(after, agg, slot, votes, registry, epoch, S, T)
      BY <1>2, <1>3, <2>2, <3>1, ScanKeeps
    <3> QED
      BY <3>2 DEF HasScanned
  <2> QED
    BY <1>4, <2>1, <2>2
<1>6. IsAgg(agg', votes, registry, epoch, S, T) /\ GoesOn(agg', after)
  BY <1>4, <1>5, LeftoverKeeps
<1>7. /\ agg'.context = agg.context /\ agg'.plan = <<>> /\ agg'.next_slot = slot + 1
      /\ "context" \in DOMAIN agg'
  BY <1>5, <1>6 DEF GoesOn, IsAgg, IsOpened, AggFields
<1>8. Fits(agg', cast')
  BY <1>1, <1>6, <1>7 DEF Fits, IsOf, registry, S, T
<1>9. phase' \in {"close", "hear", "collect", "decided"}
  BY DEF Scanned
<1>10. \A v \in DOMAIN votes : votes[v].slot < (slot + 1) - 1
  BY <1>1
<1>11. Staged'
  BY <1>1, <1>7, <1>9, <1>10 DEF Staged, Aggregating
<1> QED
  BY <1>8, <1>11, StepKeeps

LEMMA HearWeighs == WeighInv /\ Hear => WeighInv'
<1> SUFFICES ASSUME WeighInv, Hear PROVE WeighInv'
  OBVIOUS
<1> DEFINE slot == agg.next_slot
           committees == agg.context.committees
<1>1. phase = "hear" /\ UNCHANGED <<world, chain, epoch, ledger, fcr, rule, contract>>
  BY DEF Hear
<1>2. AnchorInv'
  BY PipelineKeeps DEF WeighInv
<1>3. /\ Fixed /\ epoch \in Nat /\ IsRegistry(world.registry[epoch])
      /\ IsAgg(agg, cast, world.registry[epoch], epoch, Checkpoint(epoch - 1), Checkpoint(epoch))
      /\ CastIs(cast, committees, epoch)
      /\ DOMAIN cast \in SUBSET DOMAIN world.registry[epoch]
  BY <1>1, EpochAggregated DEF Aggregating, IsOf
<1>4. /\ slot \in Int /\ \A v \in DOMAIN cast : cast[v].slot < slot - 1
      /\ \A v \in DOMAIN cast : cast[v].slot \in Int
  <2>1. slot \in Int /\ \A v \in DOMAIN cast : cast[v].slot < slot - 1
    BY <1>1 DEF WeighInv, Staged
  <2>2. \A v \in DOMAIN cast : cast[v].slot \in Int
    BY <1>3 DEF CastIs, VoteData
  <2> QED
    BY <2>1, <2>2
<1>5. /\ agg.leftover \in Seq(Heard(cast))
      /\ IsCommittees(committees, world.registry[epoch], epoch)
  BY <1>3 DEF IsAgg, IsOpened, IsContext
<1>6. ASSUME EpochOf(slot - 1) # epoch, UNCHANGED cast,
             Scanned(slot, Included(slot, "whole", <<>>), LeftOver(slot, "whole", <<>>))
      PROVE  WeighInv'
  <2>1. Extends(cast, cast)
    BY DEF Extends
  <2>2. /\ Included(slot, "whole", <<>>) \in Seq(Heard(cast))
        /\ LeftOver(slot, "whole", <<>>) \in Seq(Heard(cast))
    BY <1>5, ConcatIs DEF Included, LeftOver
  <2>3. \A v \in DOMAIN cast : cast[v].slot < slot
    BY <1>4
  <2> QED
    BY <1>1, <1>2, <1>3, <1>6, <2>1, <2>2, <2>3, ScannedWeighs
<1>7. ASSUME EpochOf(slot - 1) = epoch, NEW body, NEW votes, votes = VotesOf(body, slot - 1),
             cast' = [v \in DOMAIN votes \cup DOMAIN cast |->
                         IF v \in DOMAIN votes THEN votes[v] ELSE cast[v]],
             Scanned(slot, Included(slot, body, HeardIn(body, votes)),
                     LeftOver(slot, body, HeardIn(body, votes)))
      PROVE  WeighInv'
  <2> DEFINE more == [v \in DOMAIN votes \cup DOMAIN cast |->
                         IF v \in DOMAIN votes THEN votes[v] ELSE cast[v]]
  <2>1. slot - 1 \in Int /\ slot - 1 \in Boundary(epoch) .. Boundary(epoch) + SlotCount - 1
    BY <1>3, <1>4, <1>7, EpochIs
  <2>2. /\ DOMAIN votes \in SUBSET MembersAt(committees, (slot - 1) % SlotCount)
        /\ \A v \in DOMAIN votes : votes[v] \in VoteData /\ votes[v].slot = slot - 1
        /\ body \in {"overlap", "singles"} =>
              \A v \in DOMAIN votes : votes[v] = Right(slot - 1)
    BY <1>3, <1>7, <2>1, VotesOfAre
  <2>3. /\ DOMAIN votes \in SUBSET DOMAIN committees.slots
        /\ \A v \in DOMAIN votes : committees.slots[v] = (slot - 1) % SlotCount
    BY <2>2 DEF MembersAt
  <2>4. DOMAIN votes \cap DOMAIN cast = {}
    <3> SUFFICES ASSUME NEW v \in DOMAIN votes, v \in DOMAIN cast PROVE FALSE
      OBVIOUS
    <3>1. /\ cast[v].slot \in Boundary(epoch) .. Boundary(epoch) + SlotCount - 1
          /\ cast[v].slot % SlotCount = (slot - 1) % SlotCount
      BY <1>3, <2>3 DEF CastIs
    <3>2. cast[v].slot = slot - 1
      BY <1>3, <2>1, <3>1, SlotsOfEpoch
    <3> QED
      BY <1>4, <3>2
  <2> HIDE DEF committees, slot
  <2>5. DOMAIN more = DOMAIN votes \cup DOMAIN cast
    OBVIOUS
  <2>6. /\ \A v \in DOMAIN votes : more[v] = votes[v]
        /\ \A v \in DOMAIN cast : more[v] = cast[v]
    BY <2>4
  <2>6a. cast' = more
    BY <1>7
  <2> HIDE DEF more
  <2>7. Extends(more, cast) /\ Extends(more, votes)
    BY <2>5, <2>6 DEF Extends
  <2>8. CastIs(more, committees, epoch)
    BY <1>3, <2>1, <2>2, <2>3, <2>5, <2>6 DEF CastIs
  <2>9. \A v \in DOMAIN more : more[v].slot < slot
    BY <1>4, <2>2, <2>5, <2>6
  <2>10. HeardIn(body, votes) \in Seq(Heard(votes))
    <3>1. \A s \in Indices(SlotCount) : DOMAIN agg.context.committees.table[s] \in SUBSET Int
      BY <1>5 DEF IsCommittees, committees
    <3>2. DOMAIN votes \in SUBSET Int /\ IsFiniteSet(DOMAIN votes)
      <4>1. DOMAIN votes \in SUBSET Validators
        BY <1>3, <1>5, <2>3 DEF IsCommittees, IsRegistry
      <4> QED
        BY <4>1, ValidatorsAre, FS_Subset
    <3>3. \A v \in DOMAIN votes : votes[v] \in VoteData
      BY <2>2
    <3> QED
      BY <2>2, <3>1, <3>2, <3>3, HeardInIs
  <2>11. Heard(cast) \in SUBSET Heard(more) /\ Heard(votes) \in SUBSET Heard(more)
    BY <2>7, HeardGrows
  <2>12. /\ agg.leftover \in Seq(Heard(more)) /\ HeardIn(body, votes) \in Seq(Heard(more))
         /\ <<>> \in Seq(Heard(more))
    BY <1>5, <2>10, <2>11
  <2>13. PICK heard : heard = HeardIn(body, votes)
    OBVIOUS
  <2>14. /\ Included(slot, body, heard) \in Seq(Heard(more))
         /\ LeftOver(slot, body, heard) \in Seq(Heard(more))
    BY <2>12, <2>13, ConcatIs DEF Included, LeftOver
  <2> QED
    BY <1>1, <1>2, <1>7, <2>6a, <2>7, <2>8, <2>9, <2>13, <2>14, ScannedWeighs
       DEF slot, committees
<1>8. \/ /\ EpochOf(slot - 1) # epoch
         /\ Scanned(slot, Included(slot, "whole", <<>>), LeftOver(slot, "whole", <<>>))
         /\ UNCHANGED cast
      \/ /\ EpochOf(slot - 1) = epoch
         /\ \E body : LET votes == VotesOf(body, slot - 1)
                          heard == HeardIn(body, votes)
                      IN /\ cast' = [v \in DOMAIN votes \cup DOMAIN cast |->
                                       IF v \in DOMAIN votes THEN votes[v] ELSE cast[v]]
                         /\ Scanned(slot, Included(slot, body, heard),
                                    LeftOver(slot, body, heard))
  BY DEF Hear
<1> HIDE DEF slot
<1> QED
  BY <1>6, <1>7, <1>8

-----------------------------------------------------------------------------
(* An epoch is closed, collected and planned.                              *)

LEMMA AggregationFits ==
    ASSUME NEW a, NEW votes, NEW e \in Epochs,
           IsAgg(a, votes, world.registry[e], e, Checkpoint(e - 1), Checkpoint(e)),
           CastIs(votes, a.context.committees, e)
    PROVE  Fits(a, votes) /\ "context" \in DOMAIN a
<1>1. "context" \in DOMAIN a
  BY DEF IsAgg, IsOpened, AggFields
<1> QED
  BY <1>1 DEF Fits, IsOf

LEMMA CloseWeighs == WeighInv /\ Close => WeighInv'
<1> SUFFICES ASSUME WeighInv, Close PROVE WeighInv'
  OBVIOUS
<1> DEFINE registry == world.registry[epoch]
           S == Checkpoint(epoch - 1)
           T == Checkpoint(epoch)
           proved == IF agg.slots = <<>> THEN agg ELSE prove_slot_group(agg)
           folded == fold_justification(proved)
<1>1. phase = "close" /\ UNCHANGED <<world, chain, cast>>
  BY DEF Close
<1>2. AnchorInv'
  BY CloseKeeps DEF WeighInv
<1>3. /\ epoch \in Epochs /\ IsRegistry(registry)
      /\ IsAgg(agg, cast, registry, epoch, S, T)
      /\ DOMAIN cast \in SUBSET DOMAIN registry
      /\ CastIs(cast, agg.context.committees, epoch)
  BY <1>1, EpochAggregated DEF Aggregating, IsOf
<1>4. PICK x, record : try_finalize(Refused(folded, "close", x), record)
  BY DEF Close
<1> HIDE DEF registry, S, T
<1>5. IsAgg(proved, cast, registry, epoch, S, T) /\ GoesOn(proved, agg)
  <2>1. CASE agg.slots = <<>>
    BY <1>3, <2>1 DEF GoesOn
  <2>2. CASE agg.slots # <<>>
    BY <1>3, <2>2, SlotGroupKeeps
  <2> QED
    BY <2>1, <2>2
<1> HIDE DEF proved
<1>6. IsAgg(folded, cast, registry, epoch, S, T) /\ GoesOn(folded, proved)
  BY <1>3, <1>5, FoldGroupsKeeps
<1> HIDE DEF folded
<1>7. PICK checked : checked = Refused(folded, "close", x) /\ try_finalize(checked, record)
  BY <1>4
<1>8. IsAgg(checked, cast, registry, epoch, S, T) /\ GoesOn(checked, folded)
  BY <1>6, <1>7, RefusedIs
<1>9. CastIs(cast, checked.context.committees, epoch)
  BY <1>3, <1>5, <1>6, <1>8 DEF GoesOn
<1>10. Fits(checked, cast)
  BY <1>3, <1>8, <1>9, AggregationFits DEF registry, S, T
<1>11. /\ phase' \in {"decided", "ended"}
       /\ agg' = checked \/ \E y : agg' = Refused(checked, "finalization", y)
  BY <1>7 DEF try_finalize
<1>12. Fits(agg', cast')
  BY <1>1, <1>10, <1>11, FitsRefused
<1>13. Staged'
  <2>1. IsAgg(agg', cast, registry, epoch, S, T)
    BY <1>8, <1>11, RefusedIs
  <2>2. "context" \in DOMAIN agg'
    BY <2>1 DEF IsAgg, IsOpened, AggFields
  <2> QED
    BY <1>11, <2>2, ClosedStage DEF Aggregating
<1> QED
  BY <1>1, <1>2, <1>12, <1>13, StepKeeps

LEMMA CollectWeighs == WeighInv /\ Collect => WeighInv'
<1> SUFFICES ASSUME WeighInv, Collect PROVE WeighInv'
  OBVIOUS
<1> DEFINE registry == world.registry[epoch]
           S == Checkpoint(epoch - 1)
           T == Checkpoint(epoch)
<1>1. /\ phase = "collect" /\ UNCHANGED <<world, chain, epoch, cast>>
      /\ phase' = IF open_slots(agg.stream) = {} THEN "decided" ELSE "plan"
  BY DEF Collect
<1>2. AnchorInv' /\ agg.plan = <<>>
  BY <1>1, PipelineKeeps DEF WeighInv, Staged, Aggregating
<1>3. /\ epoch \in Epochs /\ epoch \in Nat /\ IsRegistry(registry)
      /\ IsAgg(agg, cast, registry, epoch, S, T)
      /\ DOMAIN cast \in SUBSET DOMAIN registry
      /\ CastIs(cast, agg.context.committees, epoch)
      /\ agg.context.target.epoch = epoch
  BY <1>1, EpochAggregated DEF Aggregating, IsOf, WeighInv, Staged
<1>4. PICK units : units = collect_per_slot_for_checkpoint(agg.stream, <<>>, epoch)
  OBVIOUS
<1> HIDE DEF registry, S, T
<1>5. /\ DOMAIN agg = AggFields /\ agg.stream \in Streams(agg.context.committees, S, T, cast)
      /\ IsCommittees(agg.context.committees, registry, epoch)
  BY <1>3 DEF IsAgg, IsOpened, IsContext
<1>6. /\ AreComplements(units, registry, epoch, cast, S, T)
      /\ open_slots(agg.stream) # {} => IsUnits(units)
  <2>1. \A v \in DOMAIN cast :
           cast[v].slot \in Boundary(epoch) .. Boundary(epoch) + SlotCount - 1
    BY <1>3 DEF CastIs
  <2>2. DOMAIN cast \in SUBSET DOMAIN agg.context.committees.slots
    BY <1>3 DEF CastIs
  <2> QED
    BY <1>3, <1>4, <1>5, <2>1, <2>2, CollectedAre
<1>7. agg' = [agg EXCEPT !.units = units]
  BY <1>4 DEF Collect
<1>8. /\ DOMAIN agg' = AggFields /\ agg'.units = units
      /\ agg'.context = agg.context /\ agg'.stream = agg.stream
      /\ agg'.leftover = agg.leftover /\ agg'.slots = agg.slots /\ agg'.plan = agg.plan
      /\ agg'.folded = agg.folded /\ agg'.refused = agg.refused
      /\ agg'.unfolded = agg.unfolded /\ agg'.groups = agg.groups
      /\ agg'.justification = agg.justification /\ agg'.aggregate = agg.aggregate
      /\ agg'.final = agg.final
  BY <1>5, <1>7 DEF AggFields
<1>9. IsAgg(agg', cast, registry, epoch, S, T)
  BY <1>2, <1>3, <1>6, <1>8 DEF IsAgg, IsOpened, ProofsHold
<1>10. Fits(agg', cast') /\ "context" \in DOMAIN agg'
  BY <1>1, <1>3, <1>8, <1>9, AggregationFits DEF registry, S, T
<1>11. Staged'
  BY <1>1, <1>2, <1>3, <1>6, <1>8, <1>10 DEF Staged, Aggregating
<1> QED
  BY <1>1, <1>2, <1>10, <1>11, StepKeeps

LEMMA PlanWeighs == WeighInv /\ PlanEpoch => WeighInv'
<1> SUFFICES ASSUME WeighInv, PlanEpoch PROVE WeighInv'
  OBVIOUS
<1> DEFINE registry == world.registry[epoch]
           S == Checkpoint(epoch - 1)
           T == Checkpoint(epoch)
<1>1. phase = "plan" /\ UNCHANGED <<world, chain, epoch, cast>>
  BY DEF PlanEpoch
<1>2. AnchorInv' /\ IsUnits(agg.units)
  BY <1>1, PipelineKeeps DEF WeighInv, Staged
<1>3. /\ epoch \in Epochs /\ Fixed
      /\ IsAgg(agg, cast, registry, epoch, S, T)
      /\ CastIs(cast, agg.context.committees, epoch)
      /\ agg.context.target.epoch = epoch
  BY <1>1, EpochAggregated DEF Aggregating, IsOf, WeighInv, Staged
<1>4. PICK plan : plan = schedule(agg.units, agg.context.total, world.policy)
  OBVIOUS
<1> HIDE DEF registry, S, T
<1>5. IsPlan(agg.units, plan)
  <2>1. world.policy \in Policies
    BY <1>3, ProofPathAssumption DEF Fixed
  <2> QED
    BY <1>2, <1>4, <2>1, ScheduleCanBeRun
<1>6. plan # <<>>
  <2>1. "groups" \in DOMAIN plan
    BY <1>5 DEF IsPlan
  <2> QED
    BY <2>1
<1>7. agg' = [agg EXCEPT !.plan = plan]
  BY <1>4 DEF PlanEpoch
<1>8. DOMAIN agg = AggFields
  BY <1>3 DEF IsAgg, IsOpened
<1>9. /\ DOMAIN agg' = AggFields /\ agg'.units = agg.units /\ agg'.plan = plan
      /\ agg'.context = agg.context /\ agg'.stream = agg.stream
      /\ agg'.leftover = agg.leftover /\ agg'.slots = agg.slots
      /\ agg'.folded = agg.folded /\ agg'.refused = agg.refused
      /\ agg'.unfolded = agg.unfolded /\ agg'.groups = agg.groups
      /\ agg'.justification = agg.justification /\ agg'.aggregate = agg.aggregate
      /\ agg'.final = agg.final
  BY <1>7, <1>8 DEF AggFields
<1>10. IsAgg(agg', cast, registry, epoch, S, T)
  BY <1>3, <1>5, <1>9 DEF IsAgg, IsOpened, ProofsHold
<1>11. Fits(agg', cast') /\ "context" \in DOMAIN agg'
  BY <1>1, <1>3, <1>9, <1>10, AggregationFits DEF registry, S, T
<1>12. phase' \in {"stream", "decided"}
  BY DEF PlanEpoch
<1>13. Staged'
  BY <1>1, <1>3, <1>6, <1>9, <1>11, <1>12 DEF Staged, Aggregating
<1> QED
  BY <1>1, <1>2, <1>11, <1>13, StepKeeps

-----------------------------------------------------------------------------
(* The plan is run.                                                        *)

\* What is listed of some of a sequence's places, in their order.
LEMMA OrderIs ==
    ASSUME NEW n \in Nat, NEW members \in SUBSET (1 .. n)
    PROVE  /\ Cardinality(members) \in Nat
           /\ DOMAIN InOrder(members) = 1 .. Cardinality(members)
           /\ InOrder(members) \in [1 .. Cardinality(members) -> 1 .. n]
<1>1. IsFiniteSet(members) /\ members \in SUBSET Int
  <2>1. PICK places : places = 1 .. n
    OBVIOUS
  <2>2. IsFiniteSet(places) /\ places \in SUBSET Int /\ members \in SUBSET places
    BY <2>1, FS_Interval
  <2> QED
    BY <2>2, FS_Subset
<1>2. Cardinality(members) \in Nat /\ InOrder(members) \in [1 .. Cardinality(members) -> members]
  BY <1>1, InOrderSorts, FS_CardinalityType
<1> QED
  BY <1>2

LEMMA UnitsListed ==
    ASSUME NEW registry, NEW e, NEW votes, NEW S, NEW T, NEW units,
           AreComplements(units, registry, e, votes, S, T),
           NEW members \in SUBSET (1 .. Len(units)),
           NEW listed, listed = [i \in DOMAIN InOrder(members) |-> units[InOrder(members)[i]]]
    PROVE  AreComplements(listed, registry, e, votes, S, T)
<1>1. Len(units) \in Nat /\ DOMAIN units = 1 .. Len(units)
  BY EachComplement
<1>2. PICK n, some : n = Cardinality(members) /\ some = InOrder(members)
  OBVIOUS
<1>3. n \in Nat /\ DOMAIN some = 1 .. n /\ some \in [1 .. n -> DOMAIN units]
  BY <1>1, <1>2, OrderIs
<1>4. listed = [i \in 1 .. n |-> units[some[i]]]
  BY <1>2, <1>3
<1> QED
  BY <1>3, <1>4, SomeComplements

LEMMA ProofsListed ==
    ASSUME NEW registry, NEW e, NEW votes, NEW S, NEW T, NEW groups,
           AreBounded(groups, registry, e, votes, S, T),
           NEW members \in SUBSET (1 .. Len(groups)),
           NEW listed,
           \/ listed = [i \in DOMAIN InOrder(members) |-> groups[InOrder(members)[i]]]
           \/ listed = [i \in 1 .. Cardinality(members) |-> groups[InOrder(members)[i]]]
    PROVE  AreBounded(listed, registry, e, votes, S, T)
<1>1. Len(groups) \in Nat /\ DOMAIN groups = 1 .. Len(groups)
  BY EachBounded
<1>2. PICK n, some : n = Cardinality(members) /\ some = InOrder(members)
  OBVIOUS
<1>3. n \in Nat /\ DOMAIN some = 1 .. n /\ some \in [1 .. n -> DOMAIN groups]
  BY <1>1, <1>2, OrderIs
<1>4. listed = [i \in 1 .. n |-> groups[some[i]]]
  BY <1>2, <1>3
<1> QED
  BY <1>3, <1>4, SomeBounded

LEMMA GroupKeeps ==
    ASSUME NEW registry, IsRegistry(registry), NEW e, NEW votes,
           DOMAIN votes \in SUBSET DOMAIN registry, NEW S, NEW T,
           NEW a, IsAgg(a, votes, registry, e, S, T), a.plan # <<>>,
           Len(a.groups) < Len(a.plan.groups),
           NEW w, w = StreamGroups(a.context, a.units, a.plan)[Len(a.groups) + 1],
           NEW b, b = Refused([a EXCEPT !.groups = Append(@, Proof("group", GroupOutput(w)))],
                              "group", AttestAccepts(w))
    PROVE  IsAgg(b, votes, registry, e, S, T) /\ GoesOn(b, a)
<1> DEFINE p == Proof("group", GroupOutput(w))
           c == [a EXCEPT !.groups = Append(@, p)]
<1>1. b = Refused(c, "group", AttestAccepts(w))
  OBVIOUS
<1>2. /\ p.output.attesting_balance = Attested(w).balance
      /\ p.output.slots_mask = Attested(w).mask
  BY DEF Proof, GroupOutput
<1>3. AttestAccepts(w) \in BOOLEAN
  BY DEF AttestAccepts
<1> HIDE DEF p
<1>4. DOMAIN a = AggFields
  BY DEF IsAgg, IsOpened
<1>5. /\ DOMAIN c = AggFields /\ c.refused = a.refused
      /\ c.context = a.context /\ c.stream = a.stream /\ c.next_slot = a.next_slot
      /\ c.leftover = a.leftover /\ c.slots = a.slots /\ c.units = a.units
      /\ c.unfolded = a.unfolded /\ c.justification = a.justification
      /\ c.plan = a.plan /\ c.groups = Append(a.groups, p) /\ c.folded = a.folded
      /\ c.aggregate = a.aggregate /\ c.final = a.final
  BY <1>4 DEF AggFields
<1> HIDE DEF c
<1>6. IsOpened(c, votes, registry, e, S, T)
  BY <1>5 DEF IsAgg, IsOpened
<1>7. ASSUME AttestAccepts(w), c.refused = {}
      PROVE  ProofsHold(c, votes, registry, e, S, T)
  <2>1. ProofsHold(a, votes, registry, e, S, T)
    BY <1>5, <1>7 DEF IsAgg
  <2>2. AreBounded(a.groups, registry, e, votes, S, T)
    BY <2>1 DEF ProofsHold
  <2>3. AreComplements(w.slots, registry, e, votes, S, T)
    <3>1. Len(a.groups) \in Nat
      BY <2>2, EachBounded
    <3>2. /\ a.plan.groups \in Seq(SUBSET (1 .. Len(a.units)))
          /\ AreComplements(a.units, registry, e, votes, S, T)
      BY DEF IsAgg, IsOpened, IsPlan
    <3>3. PICK g : g = Len(a.groups) + 1
      OBVIOUS
    <3>4. g \in DOMAIN a.plan.groups /\ a.plan.groups[g] \in SUBSET (1 .. Len(a.units))
      BY <3>1, <3>2, <3>3
    <3>5. PICK members \in SUBSET (1 .. Len(a.units)) : members = a.plan.groups[g]
      BY <3>4
    <3>6. w.slots = [i \in DOMAIN InOrder(members) |-> a.units[InOrder(members)[i]]]
      BY <3>3, <3>4, <3>5 DEF StreamGroups, AttestationWitness
    <3> QED
      BY <3>2, <3>6, UnitsListed
  <2>4. IsBounded(p, registry, e, votes, S, T)
    BY <1>2, <1>7, <2>3, AttestedIs DEF IsBounded
  <2>5. AreBounded(c.groups, registry, e, votes, S, T)
    BY <1>5, <2>2, <2>4, OneBoundedMore
  <2> QED
    BY <1>5, <2>1, <2>5 DEF ProofsHold
<1>8. IsAgg(b, votes, registry, e, S, T) /\ GoesOn(b, c)
  BY <1>1, <1>3, <1>6, <1>7, RefusedKeeps
<1> QED
  BY <1>5, <1>8 DEF GoesOn

\* What is folded so far, or nothing.
LEMMA FoldedSoFar ==
    ASSUME NEW registry, IsRegistry(registry), NEW e, NEW votes,
           DOMAIN votes \in SUBSET DOMAIN registry, NEW S, NEW T,
           NEW p, p # NoProof => IsBounded(p, registry, e, votes, S, T),
           NEW base, NEW counted,
           p = NoProof => base = 0 /\ counted = {},
           p # NoProof => /\ base = p.output.attesting_balance
                          /\ counted = p.output.slots_mask
    PROVE  ClaimsNoMore(registry, e, votes, S, T, base, counted)
<1>1. CASE p = NoProof
  <2>1. PICK none : none = {} /\ counted = none
    BY <1>1
  <2>2. Voted(registry, e, votes, S, T, none) \in Nat
    BY VotedAdds
  <2> QED
    BY <1>1, <2>1, <2>2 DEF ClaimsNoMore
<1>2. CASE p # NoProof
  BY <1>2 DEF IsBounded
<1> QED
  BY <1>1, <1>2

LEMMA FoldStepKeeps ==
    ASSUME NEW registry, IsRegistry(registry), NEW e, NEW votes,
           DOMAIN votes \in SUBSET DOMAIN registry, NEW S, NEW T,
           NEW a, IsAgg(a, votes, registry, e, S, T), a.plan # <<>>,
           Len(a.groups) = Len(a.plan.groups), a.folded < Len(a.plan.folds),
           NEW w, w = FoldWitness(a.context, a.groups, a.plan.folds[a.folded + 1], a.aggregate),
           NEW b, b = Refused([a EXCEPT !.folded = @ + 1,
                                        !.aggregate = Proof("aggregate", AggregateOutput(w))],
                              "aggregate", AggregateAccepts(w))
    PROVE  IsAgg(b, votes, registry, e, S, T) /\ GoesOn(b, a)
<1> DEFINE p == Proof("aggregate", AggregateOutput(w))
           c == [a EXCEPT !.folded = @ + 1, !.aggregate = p]
           base == PreviousBalance(w)
           counted == PreviousMask(w)
<1>1. b = Refused(c, "aggregate", AggregateAccepts(w))
  OBVIOUS
<1>2. /\ p.output.attesting_balance = BalanceOf(base, w.groups)
      /\ p.output.slots_mask = MaskOf(counted, w.groups)
  BY DEF Proof, AggregateOutput
<1>3. AggregateAccepts(w) => MasksDisjoint(counted, w.groups)
  BY DEF AggregateAccepts
<1>4. AggregateAccepts(w) \in BOOLEAN
  BY DEF AggregateAccepts
<1>5. w.previous = a.aggregate
  BY DEF FoldWitness, aggregate_witness
<1>6. /\ a.aggregate = NoProof => base = 0 /\ counted = {}
      /\ a.aggregate # NoProof => /\ base = a.aggregate.output.attesting_balance
                                  /\ counted = a.aggregate.output.slots_mask
  BY <1>5 DEF PreviousBalance, PreviousMask
<1> HIDE DEF p, base, counted
<1>7. DOMAIN a = AggFields /\ a.folded \in Nat
  BY DEF IsAgg, IsOpened
<1>8. /\ DOMAIN c = AggFields /\ c.refused = a.refused
      /\ c.context = a.context /\ c.stream = a.stream /\ c.next_slot = a.next_slot
      /\ c.leftover = a.leftover /\ c.slots = a.slots /\ c.units = a.units
      /\ c.unfolded = a.unfolded /\ c.justification = a.justification
      /\ c.plan = a.plan /\ c.groups = a.groups /\ c.folded = a.folded + 1
      /\ c.aggregate = p /\ c.final = a.final
  BY <1>7 DEF AggFields
<1> HIDE DEF c
<1>9. IsOpened(c, votes, registry, e, S, T)
  BY <1>7, <1>8 DEF IsAgg, IsOpened
<1>10. ASSUME AggregateAccepts(w), c.refused = {}
       PROVE  ProofsHold(c, votes, registry, e, S, T)
  <2>1. ProofsHold(a, votes, registry, e, S, T)
    BY <1>8, <1>10 DEF IsAgg
  <2>2. /\ AreBounded(a.groups, registry, e, votes, S, T)
        /\ a.aggregate # NoProof => IsBounded(a.aggregate, registry, e, votes, S, T)
    BY <2>1 DEF ProofsHold
  <2>3. ClaimsNoMore(registry, e, votes, S, T, base, counted)
    <3>1. PICK q : q = a.aggregate
      OBVIOUS
    <3> QED
      BY <1>6, <2>2, <3>1, FoldedSoFar
  <2>4. AreBounded(w.groups, registry, e, votes, S, T)
    <3>1. a.plan.folds \in Seq(SUBSET (1 .. Len(a.groups)))
      BY DEF IsAgg, IsOpened, IsPlan
    <3>2. PICK k : k = a.folded + 1
      OBVIOUS
    <3>3. a.plan.folds[k] \in SUBSET (1 .. Len(a.groups))
      BY <1>7, <3>1, <3>2
    <3>4. PICK members \in SUBSET (1 .. Len(a.groups)) : members = a.plan.folds[k]
      BY <3>3
    <3>5. w.groups = [i \in 1 .. Cardinality(members) |-> a.groups[InOrder(members)[i]]]
      BY <3>2, <3>4 DEF FoldWitness, aggregate_witness
    <3> QED
      BY <2>2, <3>5, ProofsListed
  <2>5. IsBounded(p, registry, e, votes, S, T)
    BY <1>2, <1>3, <1>10, <2>3, <2>4, FoldedIs DEF IsBounded
  <2> QED
    BY <1>8, <2>1, <2>5 DEF ProofsHold
<1>11. IsAgg(b, votes, registry, e, S, T) /\ GoesOn(b, c)
  BY <1>1, <1>4, <1>9, <1>10, RefusedKeeps
<1> QED
  BY <1>8, <1>11 DEF GoesOn

\* Two thirds of the epoch voted where the final proof counts as many.
LEMMA FinalCounts ==
    ASSUME NEW registry, IsRegistry(registry), NEW e, NEW votes,
           DOMAIN votes \in SUBSET DOMAIN registry, NEW S, NEW T,
           \A v \in DOMAIN votes : votes[v].slot \in Int,
           NEW a, IsAgg(a, votes, registry, e, S, T), ProofsHold(a, votes, registry, e, S, T),
           NEW absorbed \in SUBSET (1 .. Len(a.groups)),
           NEW tail \in SUBSET (1 .. Len(a.units)),
           NEW previous, NEW boundary,
           NEW w, w = final_witness(a.context, a.aggregate,
                          [i \in DOMAIN InOrder(absorbed) |-> a.groups[InOrder(absorbed)[i]]],
                          [i \in DOMAIN InOrder(tail) |-> a.units[InOrder(tail)[i]]],
                          previous, boundary),
           StreamFinalAccepts(w)
    PROVE  Justifies(Voted(registry, e, votes, S, T, Indices(SlotCount)), a.context.total)
<1> DEFINE groups == [i \in DOMAIN InOrder(absorbed) |-> a.groups[InOrder(absorbed)[i]]]
           units == [i \in DOMAIN InOrder(tail) |-> a.units[InOrder(tail)[i]]]
           source == PreviousTarget(w.previous_justification)
           base == IF w.aggregate = NoProof THEN 0 ELSE w.aggregate.output.attesting_balance
           counted == IF w.aggregate = NoProof THEN {} ELSE w.aggregate.output.slots_mask
           mask == MaskOf(counted, w.groups)
           balance == BalanceOf(base, w.groups)
           last == TailAttested(w, source)
<1>1. /\ w.aggregate = a.aggregate /\ w.groups = groups /\ w.total = a.context.total
      /\ w.tail.slots = units
  BY DEF final_witness, AttestationWitness
<1>2. /\ MasksDisjoint(counted, w.groups)
      /\ w.tail.slots # <<>> => AttestAccepts(TailOf(w, source))
      /\ mask \cap last.mask = {}
      /\ Justifies(balance + last.balance, w.total)
  BY DEF StreamFinalAccepts, FinalBalance
<1>3. /\ w.tail.slots = <<>> => last.balance = 0 /\ last.mask = {}
      /\ w.tail.slots # <<>> => /\ last.balance = Attested(TailOf(w, source)).balance
                                /\ last.mask = Attested(TailOf(w, source)).mask
  BY DEF TailAttested
<1>4. TailOf(w, source).slots = w.tail.slots
  BY DEF TailOf, final_witness, AttestationWitness
<1>5. /\ AreBounded(groups, registry, e, votes, S, T)
      /\ AreComplements(units, registry, e, votes, S, T)
  BY ProofsListed, UnitsListed DEF IsAgg, IsOpened, ProofsHold
<1>6. /\ a.aggregate = NoProof => base = 0 /\ counted = {}
      /\ a.aggregate # NoProof => /\ base = a.aggregate.output.attesting_balance
                                  /\ counted = a.aggregate.output.slots_mask
  BY <1>1
<1> HIDE DEF groups, units, base, counted, source, last
<1>7. ClaimsNoMore(registry, e, votes, S, T, base, counted)
  <2>1. a.aggregate # NoProof => IsBounded(a.aggregate, registry, e, votes, S, T)
    BY DEF ProofsHold
  <2>2. PICK q : q = a.aggregate
    OBVIOUS
  <2> QED
    BY <1>6, <2>1, <2>2, FoldedSoFar
<1>8. ClaimsNoMore(registry, e, votes, S, T, balance, mask)
  BY <1>1, <1>2, <1>5, <1>7, FoldedIs
<1> HIDE DEF balance, mask
<1>9. ClaimsNoMore(registry, e, votes, S, T, last.balance, last.mask)
  <2>1. CASE w.tail.slots = <<>>
    <3>1. PICK none : none = {} /\ last.mask = none
      BY <1>3, <2>1
    <3>2. Voted(registry, e, votes, S, T, none) \in Nat
      BY VotedAdds
    <3> QED
      BY <1>3, <2>1, <3>1, <3>2 DEF ClaimsNoMore
  <2>2. CASE w.tail.slots # <<>>
    <3>1. PICK x : x = TailOf(w, source)
      OBVIOUS
    <3>2. AreComplements(x.slots, registry, e, votes, S, T) /\ AttestAccepts(x)
      BY <1>1, <1>2, <1>4, <1>5, <2>2, <3>1
    <3>3. ClaimsNoMore(registry, e, votes, S, T, Attested(x).balance, Attested(x).mask)
      BY <3>2, AttestedIs
    <3> QED
      BY <1>3, <2>2, <3>1, <3>3
  <2> QED
    BY <2>1, <2>2
<1>10. PICK m : m = last.mask
  OBVIOUS
<1>11. /\ Voted(registry, e, votes, S, T, mask \cup m)
            = Voted(registry, e, votes, S, T, mask) + Voted(registry, e, votes, S, T, m)
       /\ Voted(registry, e, votes, S, T, mask) \in Nat
       /\ Voted(registry, e, votes, S, T, m) \in Nat
  <2>1. PICK k : k = mask
    OBVIOUS
  <2>2. k \cap m = {}
    BY <1>2, <1>10, <2>1
  <2>3. /\ Voted(registry, e, votes, S, T, k) \in Nat
        /\ Voted(registry, e, votes, S, T, m) \in Nat
    BY VotedAdds
  <2>4. Voted(registry, e, votes, S, T, k \cup m)
           = Voted(registry, e, votes, S, T, k) + Voted(registry, e, votes, S, T, m)
    BY <2>2, ApartAdds
  <2> QED
    BY <2>1, <2>3, <2>4
<1>12. /\ Voted(registry, e, votes, S, T, mask \cup m)
            <= Voted(registry, e, votes, S, T, Indices(SlotCount))
       /\ Voted(registry, e, votes, S, T, Indices(SlotCount)) \in Nat
  <2>1. Voters(votes, S, T, mask \cup m) \subseteq Voters(votes, S, T, Indices(SlotCount))
    BY SlotIndex DEF Voters
  <2>2. /\ Voters(votes, S, T, mask \cup m) \in SUBSET DOMAIN registry
        /\ Voters(votes, S, T, Indices(SlotCount)) \in SUBSET DOMAIN registry
    BY DEF Voters
  <2> QED
    BY <2>1, <2>2, MassAdds DEF Voted
<1>13. /\ balance \in Int /\ balance <= Voted(registry, e, votes, S, T, mask)
       /\ last.balance \in Int /\ last.balance <= Voted(registry, e, votes, S, T, m)
  BY <1>8, <1>9, <1>10 DEF ClaimsNoMore
<1>14. a.context.total \in Nat
  BY TotalIs DEF IsAgg, IsOpened, IsContext
<1>15. PICK x \in Int, y \in Int, v \in Int, t \in Int :
          /\ x = balance /\ y = last.balance /\ t = a.context.total
          /\ v = Voted(registry, e, votes, S, T, Indices(SlotCount))
          /\ x + y <= v
  BY <1>11, <1>12, <1>13, <1>14
<1>16. (x + y) * 3 >= t * 2
  BY <1>1, <1>2, <1>15 DEF Justifies
<1>17. v * 3 >= t * 2
  BY <1>15, <1>16
<1> QED
  BY <1>15, <1>17 DEF Justifies

LEMMA FinalStepKeeps ==
    ASSUME NEW registry, IsRegistry(registry), NEW e, NEW votes,
           DOMAIN votes \in SUBSET DOMAIN registry, NEW S, NEW T,
           \A v \in DOMAIN votes : votes[v].slot \in Int,
           NEW a, IsAgg(a, votes, registry, e, S, T), a.plan # <<>>,
           Len(a.groups) = Len(a.plan.groups), NEW previous, NEW boundary,
           NEW w, w = final_witness(a.context, a.aggregate,
                          [i \in DOMAIN InOrder(a.plan.absorbed) |->
                              a.groups[InOrder(a.plan.absorbed)[i]]],
                          [i \in DOMAIN InOrder(a.plan.tail) |->
                              a.units[InOrder(a.plan.tail)[i]]],
                          previous, boundary),
           NEW proof,
           NEW b, b = Refused([a EXCEPT !.final = proof], "stream_final", StreamFinalAccepts(w))
    PROVE  IsAgg(b, votes, registry, e, S, T) /\ GoesOn(b, a)
<1> DEFINE c == [a EXCEPT !.final = proof]
<1>1. b = Refused(c, "stream_final", StreamFinalAccepts(w))
  OBVIOUS
<1>2. StreamFinalAccepts(w) \in BOOLEAN
  BY DEF StreamFinalAccepts
<1>3. DOMAIN a = AggFields
  BY DEF IsAgg, IsOpened
<1>4. /\ DOMAIN c = AggFields /\ c.refused = a.refused
      /\ c.context = a.context /\ c.stream = a.stream /\ c.next_slot = a.next_slot
      /\ c.leftover = a.leftover /\ c.slots = a.slots /\ c.units = a.units
      /\ c.unfolded = a.unfolded /\ c.justification = a.justification
      /\ c.plan = a.plan /\ c.groups = a.groups /\ c.folded = a.folded
      /\ c.aggregate = a.aggregate /\ c.final = proof
  BY <1>3 DEF AggFields
<1> HIDE DEF c
<1>5. IsOpened(c, votes, registry, e, S, T)
  BY <1>4 DEF IsAgg, IsOpened
<1>6. ASSUME StreamFinalAccepts(w), c.refused = {}
      PROVE  ProofsHold(c, votes, registry, e, S, T)
  <2>1. ProofsHold(a, votes, registry, e, S, T)
    BY <1>4, <1>6 DEF IsAgg
  <2>2. /\ a.plan.absorbed \in SUBSET (1 .. Len(a.groups))
        /\ a.plan.tail \in SUBSET (1 .. Len(a.units))
    BY DEF IsAgg, IsOpened, IsPlan
  <2>3. PICK absorbed \in SUBSET (1 .. Len(a.groups)) : absorbed = a.plan.absorbed
    BY <2>2
  <2>4. PICK tail \in SUBSET (1 .. Len(a.units)) : tail = a.plan.tail
    BY <2>2
  <2>5. w = final_witness(a.context, a.aggregate,
                [i \in DOMAIN InOrder(absorbed) |-> a.groups[InOrder(absorbed)[i]]],
                [i \in DOMAIN InOrder(tail) |-> a.units[InOrder(tail)[i]]],
                previous, boundary)
    BY <2>3, <2>4
  <2>6. Justifies(Voted(registry, e, votes, S, T, Indices(SlotCount)), a.context.total)
    BY <1>6, <2>1, <2>5, FinalCounts
  <2> QED
    BY <1>4, <2>1, <2>6 DEF ProofsHold
<1>7. IsAgg(b, votes, registry, e, S, T) /\ GoesOn(b, c)
  <2>1. PICK x \in BOOLEAN : x = StreamFinalAccepts(w)
    BY <1>2
  <2>2. x /\ c.refused = {} => ProofsHold(c, votes, registry, e, S, T)
    BY <1>6, <2>1
  <2>3. b = Refused(c, "stream_final", x)
    BY <1>1, <2>1
  <2> QED
    BY <1>5, <2>2, <2>3, RefusedKeeps
<1> QED
  BY <1>4, <1>7 DEF GoesOn

\* A proof more of the plan.
LEMMA StreamGoesOn ==
    ASSUME AnchorInv', UNCHANGED <<world, chain, epoch, cast>>, phase' = "stream",
           epoch \in Epochs, agg.plan # <<>>, agg.context.target.epoch = epoch,
           CastIs(cast, agg.context.committees, epoch),
           IsAgg(agg', cast, world.registry[epoch], epoch,
                 Checkpoint(epoch - 1), Checkpoint(epoch)),
           GoesOn(agg', agg)
    PROVE  WeighInv'
<1>1. /\ agg'.plan # <<>> /\ agg'.context.target.epoch = epoch
      /\ CastIs(cast, agg'.context.committees, epoch)
  BY DEF GoesOn
<1>2. Fits(agg', cast') /\ "context" \in DOMAIN agg'
  BY <1>1, AggregationFits
<1>3. Staged'
  BY <1>1, <1>2 DEF Staged, Aggregating
<1> QED
  BY <1>2, <1>3, StepKeeps

LEMMA ProveGroupWeighs == WeighInv /\ ProveGroup => WeighInv'
<1> SUFFICES ASSUME WeighInv, ProveGroup PROVE WeighInv'
  OBVIOUS
<1> DEFINE registry == world.registry[epoch]
           S == Checkpoint(epoch - 1)
           T == Checkpoint(epoch)
<1>1. /\ phase = "stream" /\ phase' = "stream"
      /\ UNCHANGED <<world, chain, epoch, cast>>
      /\ Len(agg.groups) < Len(agg.plan.groups)
  BY DEF ProveGroup
<1>2. AnchorInv' /\ agg.plan # <<>> /\ agg.context.target.epoch = epoch
  BY <1>1, PipelineKeeps DEF WeighInv, Staged, Aggregating
<1>3. /\ epoch \in Epochs /\ IsRegistry(registry)
      /\ IsAgg(agg, cast, registry, epoch, S, T)
      /\ DOMAIN cast \in SUBSET DOMAIN registry
      /\ CastIs(cast, agg.context.committees, epoch)
  BY <1>1, EpochAggregated DEF Aggregating, IsOf
<1> HIDE DEF registry, S, T
<1>4. PICK w : /\ w = StreamGroups(agg.context, agg.units, agg.plan)[Len(agg.groups) + 1]
               /\ agg' = Refused([agg EXCEPT !.groups = Append(@, Proof("group", GroupOutput(w)))],
                                 "group", AttestAccepts(w))
  BY DEF ProveGroup
<1>5. PICK a, b : a = agg /\ b = agg'
  OBVIOUS
<1>6. /\ IsAgg(a, cast, registry, epoch, S, T) /\ a.plan # <<>>
      /\ Len(a.groups) < Len(a.plan.groups)
      /\ w = StreamGroups(a.context, a.units, a.plan)[Len(a.groups) + 1]
      /\ b = Refused([a EXCEPT !.groups = Append(@, Proof("group", GroupOutput(w)))],
                     "group", AttestAccepts(w))
  BY <1>1, <1>2, <1>3, <1>4, <1>5
<1>7. IsAgg(b, cast, registry, epoch, S, T) /\ GoesOn(b, a)
  BY <1>3, <1>6, GroupKeeps
<1> QED
  BY <1>1, <1>2, <1>3, <1>5, <1>7, StreamGoesOn DEF registry, S, T

LEMMA FoldWeighs == WeighInv /\ Fold => WeighInv'
<1> SUFFICES ASSUME WeighInv, Fold PROVE WeighInv'
  OBVIOUS
<1> DEFINE registry == world.registry[epoch]
           S == Checkpoint(epoch - 1)
           T == Checkpoint(epoch)
<1>1. /\ phase = "stream" /\ phase' = "stream"
      /\ UNCHANGED <<world, chain, epoch, cast>>
      /\ Len(agg.groups) = Len(agg.plan.groups) /\ agg.folded < Len(agg.plan.folds)
  BY DEF Fold
<1>2. AnchorInv' /\ agg.plan # <<>> /\ agg.context.target.epoch = epoch
  BY <1>1, PipelineKeeps DEF WeighInv, Staged, Aggregating
<1>3. /\ epoch \in Epochs /\ IsRegistry(registry)
      /\ IsAgg(agg, cast, registry, epoch, S, T)
      /\ DOMAIN cast \in SUBSET DOMAIN registry
      /\ CastIs(cast, agg.context.committees, epoch)
  BY <1>1, EpochAggregated DEF Aggregating, IsOf
<1> HIDE DEF registry, S, T
<1>4. PICK w : /\ w = FoldWitness(agg.context, agg.groups, agg.plan.folds[agg.folded + 1],
                                  agg.aggregate)
               /\ agg' = Refused([agg EXCEPT !.folded = @ + 1,
                                     !.aggregate = Proof("aggregate", AggregateOutput(w))],
                                 "aggregate", AggregateAccepts(w))
  BY DEF Fold
<1>5. PICK a, b : a = agg /\ b = agg'
  OBVIOUS
<1>6. /\ IsAgg(a, cast, registry, epoch, S, T) /\ a.plan # <<>>
      /\ Len(a.groups) = Len(a.plan.groups) /\ a.folded < Len(a.plan.folds)
      /\ w = FoldWitness(a.context, a.groups, a.plan.folds[a.folded + 1], a.aggregate)
      /\ b = Refused([a EXCEPT !.folded = @ + 1,
                               !.aggregate = Proof("aggregate", AggregateOutput(w))],
                     "aggregate", AggregateAccepts(w))
  BY <1>1, <1>2, <1>3, <1>4, <1>5
<1>7. IsAgg(b, cast, registry, epoch, S, T) /\ GoesOn(b, a)
  BY <1>3, <1>6, FoldStepKeeps
<1> QED
  BY <1>1, <1>2, <1>3, <1>5, <1>7, StreamGoesOn DEF registry, S, T

LEMMA FinalWeighs == WeighInv /\ Final => WeighInv'
<1> SUFFICES ASSUME WeighInv, Final PROVE WeighInv'
  OBVIOUS
<1> DEFINE registry == world.registry[epoch]
           S == Checkpoint(epoch - 1)
           T == Checkpoint(epoch)
<1>1. /\ phase = "stream" /\ UNCHANGED <<world, chain, epoch, cast>>
      /\ Len(agg.groups) = Len(agg.plan.groups) /\ phase' \in {"decided", "ended"}
  BY DEF Final
<1>2. AnchorInv' /\ agg.plan # <<>>
  BY <1>1, FinalKeeps DEF WeighInv, Staged
<1>3. /\ epoch \in Epochs /\ IsRegistry(registry)
      /\ IsAgg(agg, cast, registry, epoch, S, T)
      /\ DOMAIN cast \in SUBSET DOMAIN registry
      /\ CastIs(cast, agg.context.committees, epoch)
  BY <1>1, EpochAggregated DEF Aggregating, IsOf
<1>4. \A v \in DOMAIN cast : cast[v].slot \in Int
  BY <1>3 DEF CastIs, VoteData
<1>5. "context" \in DOMAIN agg' => Staged'
  BY <1>1, ClosedStage DEF Aggregating
<1> HIDE DEF registry, S, T
<1>6. CASE agg' = agg
  <2>1. "context" \in DOMAIN agg'
    BY <1>3, <1>6 DEF IsAgg, IsOpened, AggFields
  <2> QED
    BY <1>1, <1>2, <1>5, <1>6, <2>1, StepKeeps DEF WeighInv
<1>7. CASE agg' # agg
  <2>1. PICK previous, boundary : previous = ledger.last
                                  /\ boundary = BoundaryAnchor(chain[epoch].header)
    OBVIOUS
  <2>2. PICK w, proof :
          /\ w = final_witness(agg.context, agg.aggregate,
                     [i \in DOMAIN InOrder(agg.plan.absorbed) |->
                         agg.groups[InOrder(agg.plan.absorbed)[i]]],
                     [i \in DOMAIN InOrder(agg.plan.tail) |->
                         agg.units[InOrder(agg.plan.tail)[i]]],
                     previous, boundary)
          /\ agg' = Refused([agg EXCEPT !.final = proof], "stream_final", StreamFinalAccepts(w))
    BY <1>7, <2>1 DEF Final
  <2>3. PICK a, b : a = agg /\ b = agg'
    OBVIOUS
  <2>4. /\ IsAgg(a, cast, registry, epoch, S, T) /\ a.plan # <<>>
        /\ Len(a.groups) = Len(a.plan.groups)
        /\ w = final_witness(a.context, a.aggregate,
                   [i \in DOMAIN InOrder(a.plan.absorbed) |->
                       a.groups[InOrder(a.plan.absorbed)[i]]],
                   [i \in DOMAIN InOrder(a.plan.tail) |->
                       a.units[InOrder(a.plan.tail)[i]]],
                   previous, boundary)
        /\ b = Refused([a EXCEPT !.final = proof], "stream_final", StreamFinalAccepts(w))
    BY <1>1, <1>2, <1>3, <2>2, <2>3
  <2>5. IsAgg(b, cast, registry, epoch, S, T) /\ GoesOn(b, a)
    BY <1>3, <1>4, <2>4, FinalStepKeeps
  <2>6. CastIs(cast, b.context.committees, epoch)
    BY <1>3, <2>3, <2>5 DEF GoesOn
  <2>7. Fits(agg', cast') /\ "context" \in DOMAIN agg'
    BY <1>1, <1>3, <2>3, <2>5, <2>6, AggregationFits DEF registry, S, T
  <2> QED
    BY <1>1, <1>2, <1>5, <2>7, StepKeeps
<1> QED
  BY <1>6, <1>7

-----------------------------------------------------------------------------
(* The invariant holds, and what it says of the properties.                *)

LEMMA InitWeighs == Init => WeighInv
<1> SUFFICES ASSUME Init PROVE WeighInv
  OBVIOUS
<1>1. AnchorInv
  BY InitAnchors
<1>2. Fits(agg, cast)
  BY DEF Init, NoAggregation, Fits
<1>3. Staged
  BY DEF Init, Staged, Aggregating
<1> QED
  BY <1>1, <1>2, <1>3 DEF WeighInv

(***************************************************************************)
(* Whatever is heard of an epoch and however it is proven, its aggregation *)
(* is of one epoch of the chain: opened on that epoch's checkpoints and    *)
(* committees, each slot closed to no more than its own voters weigh, and  *)
(* as long as no guest refused, every proof attests no more than was voted *)
(* in the slots it covers (batch.rs, streaming.rs and the guests).         *)
(***************************************************************************)
THEOREM WeighInvariant == Spec => []WeighInv
<1>1. WeighInv /\ [Next]_vars => WeighInv'
  <2> SUFFICES ASSUME WeighInv, [Next]_vars PROVE WeighInv'
    OBVIOUS
  <2>1. CASE Start
    BY <2>1, StartWeighs
  <2>2. CASE Advance \/ AdvanceOrphaned
    BY <2>2, AdvanceWeighs
  <2>3. CASE Open
    BY <2>3, OpenWeighs
  <2>4. CASE Hear
    BY <2>4, HearWeighs
  <2>5. CASE Close
    BY <2>5, CloseWeighs
  <2>6. CASE Collect
    BY <2>6, CollectWeighs
  <2>7. CASE PlanEpoch
    BY <2>7, PlanWeighs
  <2>8. CASE ProveGroup
    BY <2>8, ProveGroupWeighs
  <2>9. CASE Fold
    BY <2>9, FoldWeighs
  <2>10. CASE Final
    BY <2>10, FinalWeighs
  <2>11. CASE \/ NextEpoch \/ Settle \/ FetchNode \/ Confirm \/ ReplaySlot \/ Bench
    BY <2>11, SettledWeighs
  <2>12. CASE Bootstrap \/ SubmitEpochDiff \/ SubmitFinality \/ UNCHANGED vars
    BY <2>12, SubmitWeighs
  <2> QED
    BY <2>1, <2>2, <2>3, <2>4, <2>5, <2>6, <2>7, <2>8, <2>9, <2>10, <2>11, <2>12 DEF Next
<1> QED
  BY InitWeighs, <1>1, PTL DEF Spec

(***************************************************************************)
(* The plan the scheduler makes of a streamed epoch can be run as it is,   *)
(* whatever was heard of the epoch and whatever the policy (streaming.rs,  *)
(* schedule and simulate).                                                 *)
(***************************************************************************)
THEOREM PlanIsRunnable == Spec => []ScheduleIsRunnable
<1>1. WeighInv => ScheduleIsRunnable
  <2> SUFFICES ASSUME WeighInv, "plan" \in DOMAIN agg, agg.plan # <<>>
               PROVE  Runnable(agg.units, agg.plan)
    BY DEF ScheduleIsRunnable
  <2>1. "context" \in DOMAIN agg
    BY DEF WeighInv, Fits
  <2>2. PICK e \in Epochs : IsOf(agg, cast, e)
    BY <2>1 DEF WeighInv, Fits
  <2>3. IsPlan(agg.units, agg.plan)
    BY <2>2 DEF IsOf, IsAgg, IsOpened
  <2> QED
    BY <2>3 DEF IsPlan
<1> QED
  BY WeighInvariant, <1>1, PTL

\* What the voters of an epoch aggregated weigh.
LEMMA VotedWeightIs ==
    ASSUME NEW e, agg.context.target.epoch = e, NEW slots
    PROVE  VotedWeight(slots)
              = Voted(world.registry[e], e, cast, Checkpoint(e - 1), Checkpoint(e), slots)
<1> DEFINE voters == {v \in VotersIn(slots) : /\ cast[v].source = Checkpoint(e - 1)
                                              /\ cast[v].target = Checkpoint(e)}
<1>1. VotedWeight(slots) = Mass(world.registry[e], e, voters)
  BY DEF VotedWeight, WeightOf, Mass
<1>2. voters = Voters(cast, Checkpoint(e - 1), Checkpoint(e), slots)
  BY DEF Voters, VotersIn
<1> QED
  BY <1>1, <1>2 DEF Voted

LEMMA AcceptedWeighs == WeighInv /\ WitnessesAreAccepted => WeightIsTheChains
<1> SUFFICES ASSUME WeighInv, WitnessesAreAccepted, "context" \in DOMAIN agg
             PROVE  WeightIsTheChains
  BY DEF WeightIsTheChains
<1>1. PICK e \in Epochs : IsOf(agg, cast, e)
  BY DEF WeighInv, Fits
<1> DEFINE registry == world.registry[e]
           S == Checkpoint(e - 1)
           T == Checkpoint(e)
           V(slots) == Voted(registry, e, cast, S, T, slots)
           all == Indices(SlotCount)
           total == TotalActive(registry, e)
           proofs == ToSet(agg.unfolded) \cup ToSet(agg.groups)
                     \cup ({agg.justification, agg.aggregate} \ {NoProof})
<1>2. /\ IsAgg(agg, cast, registry, e, S, T)
      /\ CastIs(cast, agg.context.committees, e)
  BY <1>1 DEF IsOf
<1>3. IsContext(agg.context, registry, e, S, T)
  BY <1>2 DEF IsAgg, IsOpened
<1>4. agg.context.target.epoch = e /\ agg.context.total = total
  BY <1>3 DEF IsContext
<1>5. IsRegistry(registry) /\ DOMAIN cast \in SUBSET DOMAIN registry
  <2>1. Fixed
    BY DEF WeighInv, AnchorInv
  <2>2. IsRegistry(registry)
    BY <2>1, ChainCommittees
  <2> QED
    BY <1>2, <1>3, <2>2 DEF CastIs, IsContext, IsCommittees
<1>6. ProofsHold(agg, cast, registry, e, S, T)
  BY <1>2 DEF IsAgg, WitnessesAreAccepted
<1>7. \A slots : VotedWeight(slots) = V(slots)
  BY <1>4, VotedWeightIs
<1>8. /\ \A slots : V(slots) \in Nat
      /\ total \in Nat
  BY <1>5, VotedAdds, TotalIs
<1> HIDE DEF registry, S, T
<1>9. \A p \in proofs : IsBounded(p, registry, e, cast, S, T)
  <2>1. /\ AreBounded(agg.unfolded, registry, e, cast, S, T)
        /\ AreBounded(agg.groups, registry, e, cast, S, T)
    BY <1>6 DEF ProofsHold
  <2>2. \A p \in ToSet(agg.unfolded) \cup ToSet(agg.groups) :
           IsBounded(p, registry, e, cast, S, T)
    BY <2>1, EachBounded DEF ToSet
  <2>3. \A p \in {agg.justification, agg.aggregate} \ {NoProof} :
           IsBounded(p, registry, e, cast, S, T)
    BY <1>6 DEF ProofsHold
  <2> QED
    BY <2>2, <2>3
<1>10. \A p \in proofs : p.output.attesting_balance <= V(p.output.slots_mask)
  BY <1>9 DEF IsBounded, ClaimsNoMore
<1>11. ASSUME agg.justification # NoProof, agg.justification.output.justified
       PROVE  V(agg.justification.output.slots_mask) * 3 >= total * 2
  <2>1. /\ IsBounded(agg.justification, registry, e, cast, S, T)
        /\ Justifies(agg.justification.output.attesting_balance, agg.context.total)
    BY <1>6, <1>11 DEF ProofsHold
  <2>2. PICK b, m : /\ b = agg.justification.output.attesting_balance
                    /\ m = agg.justification.output.slots_mask
    OBVIOUS
  <2>3. b \in Int /\ b <= V(m) /\ V(m) \in Nat /\ total \in Nat
    BY <1>8, <2>1, <2>2 DEF IsBounded, ClaimsNoMore
  <2>4. b * 3 >= total * 2
    BY <1>4, <2>1, <2>2 DEF Justifies
  <2> HIDE DEF V, total
  <2> QED
    BY <2>2, <2>3, <2>4
<1>12. ASSUME agg.final # NoProof PROVE V(all) * 3 >= total * 2
  BY <1>4, <1>6, <1>12 DEF ProofsHold, Justifies
<1> QED
  BY <1>4, <1>7, <1>10, <1>11, <1>12 DEF WeightIsTheChains, registry

(***************************************************************************)
(* While no guest has refused a witness, a proof attests no more than the  *)
(* chain gives the validators that voted its source and target in its      *)
(* slots, and an epoch is justified, batch or streamed, only on two thirds *)
(* of the chain's active balance.  A refused witness makes no proof: the   *)
(* prover panics with its guest (attestation, aggregation, slot-proof,     *)
(* justification and stream-final guests).                                 *)
(***************************************************************************)
THEOREM WeightIsTheChainsWhileAccepted ==
    Spec => [](WitnessesAreAccepted => WeightIsTheChains)
BY WeighInvariant, AcceptedWeighs, PTL

-----------------------------------------------------------------------------
(* Sums over parts of a set, and over another set in its place.            *)

LEMMA SumsAgree ==
    ASSUME NEW T, IsFiniteSet(T), NEW d, NEW f, NEW r,
           IsAdditive(f, d, T), IsAdditive(r, d, T), f[{}] = 0, r[{}] = 0,
           \A x \in T : d[x] \in Int
    PROVE  f[T] = r[T]
<1> DEFINE zero == [x \in T |-> 0]
           z == [s \in SUBSET T |-> 0]
<1>1. IsAdditive(z, zero, T) /\ z[T] = 0 /\ z[{}] = 0 /\ \A x \in T : zero[x] = 0
  BY DEF IsAdditive
<1> HIDE DEF zero, z
<1>2. \A x \in T : d[x] \in Int /\ zero[x] \in Int /\ d[x] = d[x] + zero[x]
  BY <1>1
<1>3. \A s \in SUBSET T : r[s] - r[{}] = (f[s] - f[{}]) + (z[s] - z[{}])
  BY <1>1, <1>2, AdditiveSplits
<1>4. r[T] - r[{}] = (f[T] - f[{}]) + (z[T] - z[{}])
  BY <1>3
<1>5. r[T] \in Int /\ f[T] \in Int
  BY DEF IsAdditive
<1> QED
  BY <1>1, <1>4, <1>5

\* What one sums is what the other sums of the values in its place.
LEMMA SumMoved ==
    ASSUME NEW S, IsFiniteSet(S), NEW T, IsFiniteSet(T), NEW order \in [T -> S],
           \A t, u \in T : order[t] = order[u] => t = u,
           \A x \in S : \E t \in T : order[t] = x,
           NEW d, DOMAIN d = S, \A x \in S : d[x] \in Int,
           NEW e, DOMAIN e = T, \A t \in T : e[t] = d[order[t]]
    PROVE  SumOf(e) = SumOf(d) /\ SumOf(d) \in Int
<1> DEFINE Image(s) == {order[t] : t \in s}
<1>1. PICK g : IsAdditive(g, d, S) /\ g[{}] = 0 /\ SumOf(d) = g[S]
  BY SumOfIs
<1>2. \A t \in T : e[t] \in Int
  OBVIOUS
<1>3. PICK f : IsAdditive(f, e, T) /\ f[{}] = 0 /\ SumOf(e) = f[T]
  BY <1>2, SumOfIs
<1> DEFINE k == [s \in SUBSET T |-> g[Image(s)]]
<1>4. \A s \in SUBSET T : Image(s) \in SUBSET S /\ k[s] = g[Image(s)]
  OBVIOUS
<1>5. Image(T) = S /\ Image({}) = {} /\ {} \in SUBSET T /\ T \in SUBSET T
  OBVIOUS
<1>6. ASSUME NEW s \in SUBSET T, NEW t \in s PROVE k[s] = e[t] + k[s \ {t}]
  <2>1. order[t] \in Image(s) /\ e[t] = d[order[t]]
    OBVIOUS
  <2>2. Image(s \ {t}) = Image(s) \ {order[t]}
    OBVIOUS
  <2>3. s \ {t} \in SUBSET T /\ Image(s) \in SUBSET S
    BY <1>4
  <2>4. k[s] = g[Image(s)] /\ k[s \ {t}] = g[Image(s \ {t})]
    BY <1>4, <2>3
  <2> HIDE DEF Image, k
  <2>5. \A m \in SUBSET S : \A x \in m : g[m] = d[x] + g[m \ {x}]
    BY <1>1 DEF IsAdditive
  <2>6. g[Image(s)] = d[order[t]] + g[Image(s) \ {order[t]}]
    BY <2>1, <2>3, <2>5
  <2> QED
    BY <2>1, <2>2, <2>4, <2>6
<1>7. k \in [SUBSET T -> Int]
  <2>1. \A s \in SUBSET T : g[Image(s)] \in Int
    BY <1>1, <1>4 DEF IsAdditive
  <2> QED
    BY <2>1
<1> HIDE DEF k, Image
<1>8. IsAdditive(k, e, T)
  BY <1>6, <1>7 DEF IsAdditive
<1>9. k[{}] = 0 /\ k[T] = g[S]
  BY <1>1, <1>4, <1>5
<1>10. k[T] = f[T]
  BY <1>2, <1>3, <1>8, <1>9, SumsAgree
<1>11. g[S] \in Int
  BY <1>1 DEF IsAdditive
<1> QED
  BY <1>1, <1>3, <1>9, <1>10, <1>11

LEMMA SumOfTwo ==
    ASSUME NEW A, IsFiniteSet(A), NEW B, IsFiniteSet(B), A \cap B = {},
           NEW d, \A x \in A \cup B : d[x] \in Int
    PROVE  SumOf([x \in A \cup B |-> d[x]]) = SumOf([x \in A |-> d[x]]) + SumOf([x \in B |-> d[x]])
<1> DEFINE C == A \cup B
           a == [x \in A |-> d[x]]
           b == [x \in B |-> d[x]]
           c == [x \in C |-> d[x]]
<1>1. IsFiniteSet(C)
  BY FS_Union
<1>2. /\ DOMAIN a = A /\ DOMAIN b = B /\ DOMAIN c = C
      /\ \A x \in A : a[x] = d[x] /\ a[x] \in Int
      /\ \A x \in B : b[x] = d[x] /\ b[x] \in Int
      /\ \A x \in C : c[x] = d[x] /\ c[x] \in Int
  OBVIOUS
<1> HIDE DEF a, b, c
<1>3. PICK f : IsAdditive(f, a, A) /\ f[{}] = 0 /\ SumOf(a) = f[A]
  BY <1>2, SumOfIs
<1>4. PICK g : IsAdditive(g, b, B) /\ g[{}] = 0 /\ SumOf(b) = g[B]
  BY <1>2, SumOfIs
<1>5. PICK h : IsAdditive(h, c, C) /\ h[{}] = 0 /\ SumOf(c) = h[C]
  BY <1>1, <1>2, SumOfIs
<1> DEFINE k == [s \in SUBSET C |-> f[s \cap A] + g[s \cap B]]
<1>6. /\ \A s \in SUBSET A : f[s] \in Int /\ \A x \in s : f[s] = a[x] + f[s \ {x}]
      /\ \A s \in SUBSET B : g[s] \in Int /\ \A x \in s : g[s] = b[x] + g[s \ {x}]
  BY <1>3, <1>4 DEF IsAdditive
<1>7. \A s \in SUBSET C : /\ s \cap A \in SUBSET A /\ s \cap B \in SUBSET B
                          /\ k[s] = f[s \cap A] + g[s \cap B] /\ k[s] \in Int
  BY <1>6
<1>8. k \in [SUBSET C -> Int]
  BY <1>7
<1>9. ASSUME NEW s \in SUBSET C, NEW x \in s PROVE k[s] = c[x] + k[s \ {x}]
  <2>1. s \ {x} \in SUBSET C /\ x \in C
    OBVIOUS
  <2>2. k[s \ {x}] = f[(s \ {x}) \cap A] + g[(s \ {x}) \cap B] /\ k[s] = f[s \cap A] + g[s \cap B]
    BY <1>7, <2>1
  <2>3. CASE x \in A
    <3>1. (s \ {x}) \cap A = (s \cap A) \ {x} /\ (s \ {x}) \cap B = s \cap B /\ x \in s \cap A
          /\ s \cap A \in SUBSET A /\ s \cap B \in SUBSET B /\ (s \cap A) \ {x} \in SUBSET A
      BY <2>3
    <3>2. f[s \cap A] = a[x] + f[(s \cap A) \ {x}] /\ a[x] = c[x]
      BY <1>2, <1>6, <2>1, <2>3, <3>1
    <3>3. f[(s \cap A) \ {x}] \in Int /\ g[s \cap B] \in Int /\ c[x] \in Int
      BY <1>2, <1>6, <2>1, <3>1
    <3> HIDE DEF k
    <3>4. k[s \ {x}] = f[(s \cap A) \ {x}] + g[s \cap B] /\ k[s] = f[s \cap A] + g[s \cap B]
      BY <2>2, <3>1
    <3>5. PICK p \in Int, q \in Int, r \in Int :
             p = f[(s \cap A) \ {x}] /\ q = g[s \cap B] /\ r = c[x]
      BY <3>3
    <3>6. f[s \cap A] = r + p
      BY <3>2, <3>5
    <3> QED
      BY <3>4, <3>5, <3>6
  <2>4. CASE x \in B
    <3>1. (s \ {x}) \cap B = (s \cap B) \ {x} /\ (s \ {x}) \cap A = s \cap A /\ x \in s \cap B
          /\ s \cap A \in SUBSET A /\ s \cap B \in SUBSET B /\ (s \cap B) \ {x} \in SUBSET B
      BY <2>4
    <3>2. g[s \cap B] = b[x] + g[(s \cap B) \ {x}] /\ b[x] = c[x]
      BY <1>2, <1>6, <2>1, <2>4, <3>1
    <3>3. g[(s \cap B) \ {x}] \in Int /\ f[s \cap A] \in Int /\ c[x] \in Int
      BY <1>2, <1>6, <2>1, <3>1
    <3> HIDE DEF k
    <3>4. k[s \ {x}] = f[s \cap A] + g[(s \cap B) \ {x}] /\ k[s] = f[s \cap A] + g[s \cap B]
      BY <2>2, <3>1
    <3>5. PICK p \in Int, q \in Int, r \in Int :
             p = g[(s \cap B) \ {x}] /\ q = f[s \cap A] /\ r = c[x]
      BY <3>3
    <3>6. g[s \cap B] = r + p
      BY <3>2, <3>5
    <3> QED
      BY <3>4, <3>5, <3>6
  <2> QED
    BY <2>1, <2>3, <2>4
<1>10. k[{}] = 0 /\ k[C] = f[A] + g[B]
  <2>1. C \cap A = A /\ C \cap B = B /\ {} \cap A = {} /\ {} \cap B = {}
        /\ C \in SUBSET C /\ {} \in SUBSET C
    OBVIOUS
  <2> HIDE DEF k, C
  <2>2. k[{}] = f[{} \cap A] + g[{} \cap B] /\ k[C] = f[C \cap A] + g[C \cap B]
    BY <1>7, <2>1
  <2>3. k[{}] = f[{}] + g[{}] /\ k[C] = f[A] + g[B]
    BY <2>1, <2>2
  <2> QED
    BY <1>3, <1>4, <2>3
<1> HIDE DEF k
<1>11. IsAdditive(k, c, C)
  BY <1>8, <1>9 DEF IsAdditive
<1>12. h[C] = k[C]
  <2> HIDE DEF C
  <2> QED
    BY <1>1, <1>2, <1>5, <1>10, <1>11, SumsAgree
<1> QED
  BY <1>3, <1>4, <1>5, <1>10, <1>12 DEF a, b, c

-----------------------------------------------------------------------------
(* Windows of slots, and the batches they are proven in.                   *)

\* Units of slots that follow one another.
IsRun(q, from, to) ==
    /\ from \in DOMAIN q /\ to \in DOMAIN q /\ from <= to
    /\ \A i \in from .. to : q[i].slot = q[from].slot + (i - from)

\* A batch over such units, counted from the block before them.
IsBatch(w, q, from, to) ==
    /\ w.accumulator_commitment = commitment(agg.context.tree, agg.context.total)
    /\ w.committee_root = agg.context.committees.root /\ w.total = agg.context.total
    /\ w.parent_head_root = CanonicalHead(q[from].slot - 1)
    /\ w.parent_head_slot = CanonicalHead(q[from].slot - 1)
    /\ w.current_slot = q[to].slot + 1
    /\ Len(w.slots) = (to - from) + 1 /\ DOMAIN w.slots = 1 .. (to - from) + 1
    /\ \A k \in 1 .. (to - from) + 1 :
          /\ w.slots[k].complement = q[(from + k) - 1]
          /\ w.slots[k].head_header = Header(q[(from + k) - 1].slot)

LEMMA RunIs ==
    ASSUME NEW q, NEW n \in Nat, DOMAIN q = 1 .. n, \A i \in 1 .. n : q[i].slot \in Int,
           NEW from \in 1 .. n, NEW to \in 1 .. n, from <= to,
           \A i \in from .. to - 1 : q[i + 1].slot = q[i].slot + 1
    PROVE  IsRun(q, from, to)
<1> DEFINE Bad == {k \in 0 .. to - from : q[from + k].slot # q[from].slot + k}
<1>1. Bad = {}
  <2> SUFFICES ASSUME Bad # {} PROVE FALSE
    OBVIOUS
  <2>1. Bad \in SUBSET Nat
    OBVIOUS
  <2>2. PICK k \in Bad : \A j \in Bad : k <= j
    <3> HIDE DEF Bad
    <3> QED
      BY <2>1, LeastNatural
  <2>3. k \in 1 .. to - from /\ q[from + k].slot # q[from].slot + k
    <3>1. q[from].slot \in Int /\ from + 0 = from
      OBVIOUS
    <3>2. k # 0
      BY <3>1
    <3> QED
      BY <3>2
  <2>4. k - 1 \in 0 .. to - from /\ k - 1 \notin Bad
    BY <2>2, <2>3
  <2>5. q[from + (k - 1)].slot = q[from].slot + (k - 1)
    BY <2>4
  <2>6. /\ from + (k - 1) \in from .. to - 1 /\ (from + (k - 1)) + 1 = from + k
        /\ q[from].slot \in Int
    BY <2>3
  <2>7. q[from + k].slot = q[from + (k - 1)].slot + 1
    BY <2>6
  <2> QED
    BY <2>3, <2>5, <2>6, <2>7
<1>2. ASSUME NEW i \in from .. to PROVE q[i].slot = q[from].slot + (i - from)
  <2>1. i - from \in 0 .. to - from /\ from + (i - from) = i
    OBVIOUS
  <2>2. i - from \notin Bad
    BY <1>1
  <2> QED
    BY <2>1, <2>2
<1> QED
  BY <1>2 DEF IsRun

\* Cut anywhere, a run is two.
LEMMA RunIsCut ==
    ASSUME NEW q, NEW n \in Nat, DOMAIN q = 1 .. n, \A i \in 1 .. n : q[i].slot \in Int,
           NEW from \in 1 .. n, NEW cut \in 1 .. n, NEW to \in 1 .. n,
           from <= cut, cut < to, IsRun(q, from, to)
    PROVE  IsRun(q, from, cut) /\ IsRun(q, cut + 1, to)
<1>1. \A i \in from .. to : q[i].slot = q[from].slot + (i - from)
  BY DEF IsRun
<1>2. IsRun(q, from, cut)
  BY <1>1 DEF IsRun
<1>3. ASSUME NEW i \in cut + 1 .. to PROVE q[i].slot = q[cut + 1].slot + (i - (cut + 1))
  <2>1. i \in from .. to /\ cut + 1 \in from .. to /\ q[from].slot \in Int
    OBVIOUS
  <2>2. /\ q[i].slot = q[from].slot + (i - from)
        /\ q[cut + 1].slot = q[from].slot + ((cut + 1) - from)
    BY <1>1, <2>1
  <2>3. PICK s \in Int, b \in Int :
           /\ s = q[from].slot /\ b = q[cut + 1].slot
           /\ b = s + ((cut + 1) - from) /\ q[i].slot = s + (i - from)
    BY <2>1, <2>2
  <2>4. i \in Int /\ s + (i - from) = b + (i - (cut + 1))
    BY <2>1, <2>3
  <2> QED
    BY <2>3, <2>4
<1>4. cut + 1 \in 1 .. n /\ cut + 1 <= to
  OBVIOUS
<1> QED
  BY <1>2, <1>3, <1>4 DEF IsRun

LEMMA HeaderIs ==
    ASSUME NEW slot
    PROVE  IF HasBlock(slot) THEN Header(slot) # NoHeader /\ Header(slot).slot = slot
           ELSE Header(slot) = NoHeader
<1>1. CASE HasBlock(slot)
  <2>1. Header(slot) = [slot |-> slot, parent_root |-> CanonicalHead(slot - 1)]
    BY <1>1 DEF Header
  <2>2. "parent_root" \in DOMAIN Header(slot) /\ "parent_root" \notin DOMAIN NoHeader
    BY <2>1 DEF NoHeader
  <2>3. Header(slot) # NoHeader
    BY <2>2
  <2> QED
    BY <1>1, <2>1, <2>3
<1>2. CASE ~HasBlock(slot)
  BY <1>2 DEF Header
<1> QED
  BY <1>1, <1>2

\* A slot without a block is not the one after a slot without a block.
LEMMA HeadCarries ==
    ASSUME NEW slot \in Int
    PROVE  CanonicalHead(slot) = IF HasBlock(slot) THEN slot ELSE CanonicalHead(slot - 1)
<1>1. PICK n \in Nat : n = SlotCount /\ n > 1
  BY ShuffleAssumption, ProofPathAssumption
<1>2. CASE HasBlock(slot)
  BY <1>2 DEF CanonicalHead
<1>3. CASE ~HasBlock(slot)
  <2>1. slot % n = 0
    BY <1>1, <1>3 DEF HasBlock
  <2>2. (slot - 1) % n # 0
    BY <1>1, <2>1
  <2>3. HasBlock(slot - 1)
    BY <1>1, <2>2 DEF HasBlock
  <2> QED
    BY <1>3, <2>3 DEF CanonicalHead
<1> QED
  BY <1>2, <1>3

LEMMA BatchIs ==
    ASSUME NEW q, q = agg.units, NEW C, q \in Seq(C),
           NEW from, NEW to, IsRun(q, from, to),
           \A i \in DOMAIN q : q[i].slot \in Int,
           NEW w, w = batch_witness(from, to)
    PROVE  IsBatch(w, q, from, to)
<1> DEFINE n == (to - from) + 1
           part == SubSeq(q, from, to)
           headers == [slot \in {q[i].slot : i \in from .. to} |-> Header(slot)]
<1>1. /\ Len(q) \in Nat /\ DOMAIN q = 1 .. Len(q) /\ from \in 1 .. Len(q)
      /\ to \in 1 .. Len(q) /\ from <= to
  BY DEF IsRun
<1>2. n \in Nat /\ n >= 1
  BY <1>1
<1>3. /\ part \in Seq(C) /\ Len(part) = n /\ DOMAIN part = 1 .. n
      /\ \A k \in 1 .. n : part[k] = q[(from + k) - 1] /\ (from + k) - 1 \in from .. to
  <2>1. part \in Seq(C) /\ Len(part) = n
    BY <1>1
  <2>2. \A k \in 1 .. n : part[k] = q[(from + k) - 1] /\ (from + k) - 1 \in from .. to
    BY <1>1
  <2> QED
    BY <1>2, <2>1, <2>2
<1>4. w = FcrBatchWitness(agg.context, part, headers, CanonicalHead(q[from].slot - 1))
  BY DEF batch_witness
<1> HIDE DEF part, headers
<1>5. /\ w.accumulator_commitment = commitment(agg.context.tree, agg.context.total)
      /\ w.committee_root = agg.context.committees.root /\ w.total = agg.context.total
      /\ w.parent_head_root = CanonicalHead(q[from].slot - 1)
      /\ w.parent_head_slot = CanonicalHead(q[from].slot - 1)
      /\ w.current_slot = Last(part).slot + 1
      /\ w.slots = [i \in DOMAIN part |->
                      [complement |-> part[i], head_header |-> headers[part[i].slot]]]
  BY <1>4 DEF FcrBatchWitness, AttestationWitness
<1>6. Last(part) = q[to]
  <2>1. n \in 1 .. n /\ (from + n) - 1 = to
    BY <1>1, <1>2
  <2>2. Last(part) = part[n]
    BY <1>3 DEF Last
  <2> QED
    BY <1>3, <2>1, <2>2
<1>7. \A k \in 1 .. n : headers[part[k].slot] = Header(q[(from + k) - 1].slot)
  BY <1>3 DEF headers
<1>8. /\ DOMAIN w.slots = 1 .. n
      /\ \A k \in 1 .. n : /\ w.slots[k].complement = q[(from + k) - 1]
                           /\ w.slots[k].head_header = Header(q[(from + k) - 1].slot)
  BY <1>3, <1>5, <1>7
<1>9. Len(w.slots) = n
  <2> DEFINE each(i) == [complement |-> part[i], head_header |-> headers[part[i].slot]]
             E == {each(i) : i \in 1 .. n}
  <2>1. w.slots \in [1 .. n -> E]
    BY <1>3, <1>5
  <2> HIDE DEF E, n
  <2> QED
    BY <1>2, <2>1
<1> QED
  BY <1>5, <1>6, <1>8, <1>9 DEF IsBatch

\* Heads that are the chain's, from the slot `base' on.
FollowTheChain(heads, base, n) ==
    \A k \in 0 .. n : heads[k] = [root |-> CanonicalHead(base + k),
                                 slot |-> CanonicalHead(base + k)]

\* Each slot's votes are counted against the chain's head at the slot.
LEMMA HeadsAre ==
    ASSUME NEW q, NEW from \in Int, NEW to \in Int, IsRun(q, from, to), q[from].slot \in Int,
           NEW w, IsBatch(w, q, from, to)
    PROVE  FollowTheChain(Heads(w), q[from].slot - 1, (to - from) + 1)
<1> DEFINE n == (to - from) + 1
           base == q[from].slot - 1
           h == [k \in 0 .. n |-> [root |-> CanonicalHead(base + k),
                                   slot |-> CanonicalHead(base + k)]]
           next(f, i) == IF i = 0
                         THEN [root |-> w.parent_head_root, slot |-> w.parent_head_slot]
                         ELSE IF w.slots[i].head_header = NoHeader THEN f[i - 1]
                              ELSE [root |-> block_header_root(w.slots[i].head_header),
                                    slot |-> w.slots[i].head_header.slot]
           Unfolds(f) == f = [i \in 0 .. Len(w.slots) |-> next(f, i)]
           head == CHOOSE f : Unfolds(f)
<1>1. /\ n \in Nat /\ base \in Int /\ base + 0 = base /\ Len(w.slots) = n
      /\ w.parent_head_root = CanonicalHead(base) /\ w.parent_head_slot = CanonicalHead(base)
  BY DEF IsRun, IsBatch
<1>2. ASSUME NEW k \in 1 .. n
      PROVE  w.slots[k].head_header = Header(base + k)
  <2>1. (from + k) - 1 \in from .. to
    OBVIOUS
  <2>2. q[(from + k) - 1].slot = q[from].slot + (((from + k) - 1) - from)
    BY <2>1 DEF IsRun
  <2>3. q[(from + k) - 1].slot = base + k
    BY <2>2
  <2> QED
    BY <2>3 DEF IsBatch
<1> HIDE DEF n, base
<1>3. ASSUME NEW k \in 1 .. n, NEW f, f[k - 1] = h[k - 1] PROVE next(f, k) = h[k]
  <2>1. base + k \in Int /\ (base + k) - 1 = base + (k - 1) /\ k \in 0 .. n /\ k - 1 \in 0 .. n
        /\ k # 0
    BY <1>1
  <2>2. h[k - 1] = [root |-> CanonicalHead(base + (k - 1)), slot |-> CanonicalHead(base + (k - 1))]
        /\ h[k] = [root |-> CanonicalHead(base + k), slot |-> CanonicalHead(base + k)]
    BY <2>1
  <2> HIDE DEF h
  <2>3. CASE HasBlock(base + k)
    <3>1. Header(base + k) # NoHeader /\ Header(base + k).slot = base + k
      BY <2>3, HeaderIs
    <3>2. CanonicalHead(base + k) = base + k
      BY <2>3 DEF CanonicalHead
    <3> QED
      BY <1>2, <2>1, <2>2, <3>1, <3>2 DEF block_header_root
  <2>4. CASE ~HasBlock(base + k)
    <3>1. Header(base + k) = NoHeader
      BY <2>4, HeaderIs
    <3>2. CanonicalHead(base + k) = CanonicalHead(base + (k - 1))
      BY <2>1, <2>4, HeadCarries
    <3> QED
      BY <1>2, <1>3, <2>1, <2>2, <3>1, <3>2
  <2> QED
    BY <2>3, <2>4
<1>4. \A f : next(f, 0) = h[0]
  BY <1>1
<1>5. Unfolds(h)
  <2>1. ASSUME NEW k \in 0 .. n PROVE h[k] = next(h, k)
    <3>1. CASE k = 0
      BY <1>4, <3>1
    <3>2. CASE k # 0
      <4>1. k \in 1 .. n
        BY <1>1, <3>2
      <4> HIDE DEF h, next
      <4> QED
        BY <1>3, <4>1
    <3> QED
      BY <3>1, <3>2
  <2>2. h = [k \in 0 .. n |-> h[k]]
    OBVIOUS
  <2> HIDE DEF h, next
  <2>3. h = [k \in 0 .. n |-> next(h, k)]
    BY <2>1, <2>2
  <2> QED
    BY <1>1, <2>3
<1>6. Unfolds(head)
  <2> HIDE DEF Unfolds
  <2> QED
    BY <1>5
<1>7. Heads(w) = head
  BY DEF Heads
<1> HIDE DEF head
<1>8. \A k \in 0 .. n : head[k] = next(head, k)
  <2> HIDE DEF next
  <2> QED
    BY <1>1, <1>6
<1> HIDE DEF next, h
<1> DEFINE same == [k \in 0 .. n |-> {h[k]}]
<1>9. head[0] \in same[0]
  <2>1. 0 \in 0 .. n
    BY <1>1
  <2>2. head[0] = h[0]
    BY <1>4, <1>8, <2>1
  <2> QED
    BY <2>1, <2>2
<1>10. \A k \in 1 .. n : head[k - 1] \in same[k - 1] => head[k] \in same[k]
  <2> SUFFICES ASSUME NEW k \in 1 .. n, head[k - 1] \in same[k - 1] PROVE head[k] \in same[k]
    OBVIOUS
  <2>1. k \in 0 .. n /\ k - 1 \in 0 .. n
    BY <1>1
  <2>2. head[k - 1] = h[k - 1]
    BY <2>1
  <2>3. next(head, k) = h[k]
    BY <1>3, <2>2
  <2>4. head[k] = h[k]
    BY <1>8, <2>1, <2>3
  <2> QED
    BY <2>1, <2>4
<1>11. \A k \in 0 .. n : head[k] \in same[k]
  <2> HIDE DEF same
  <2> QED
    BY <1>1, <1>9, <1>10, Along
<1>12. \A k \in 0 .. n : head[k] = h[k]
  BY <1>11
<1>13. \A k \in 0 .. n : Heads(w)[k] = [root |-> CanonicalHead(base + k),
                                          slot |-> CanonicalHead(base + k)]
  <2> SUFFICES ASSUME NEW k \in 0 .. n
               PROVE  Heads(w)[k] = [root |-> CanonicalHead(base + k),
                                     slot |-> CanonicalHead(base + k)]
    OBVIOUS
  <2>1. Heads(w)[k] = h[k]
    BY <1>7, <1>12
  <2> QED
    BY <2>1 DEF h
<1>14. FollowTheChain(Heads(w), base, n)
  BY <1>13 DEF FollowTheChain
<1> QED
  BY <1>14 DEF n, base

\* A slot whose votes are for the head its block is, and what a run of units
\* is credited with of them.
Carries(c) == HasBlock(c.slot) /\ c.primary.data.head = CanonicalHead(c.slot)

Carried(q, A) == {i \in A : Carries(q[i])}

Credit(q, A) == SumOf([i \in Carried(q, A) |-> Counted(q[i])])

LEMMA CreditIs ==
    ASSUME NEW q, NEW A, IsFiniteSet(A), \A i \in A : Counted(q[i]) \in Int
    PROVE  Credit(q, A) \in Int /\ IsFiniteSet(Carried(q, A))
<1> DEFINE S == Carried(q, A)
           d == [i \in S |-> Counted(q[i])]
<1>1. IsFiniteSet(S) /\ S \in SUBSET A
  BY FS_Subset DEF Carried
<1>2. DOMAIN d = S /\ \A i \in S : d[i] \in Int
  BY <1>1
<1> HIDE DEF d, S
<1>3. PICK g : IsAdditive(g, d, S) /\ SumOf(d) = g[S]
  BY <1>1, <1>2, SumOfIs
<1>4. g[S] \in Int
  BY <1>3 DEF IsAdditive
<1> QED
  BY <1>1, <1>3, <1>4 DEF Credit, d, S

\* What a batch counts for the heads of its slots, and for those of the slots
\* without a block.
LEMMA SupportIs ==
    ASSUME NEW q, NEW from \in Int, NEW to \in Int, IsRun(q, from, to),
           \A i \in from .. to : q[i].slot \in Int /\ Counted(q[i]) \in Int,
           NEW w, IsBatch(w, q, from, to)
    PROVE  /\ SupportWhere(w, TRUE) = Credit(q, from .. to)
           /\ SupportWhere(w, FALSE) \in Int
<1> DEFINE n == (to - from) + 1
           base == q[from].slot - 1
           Where(proposed) == {k \in DOMAIN w.slots :
                                 /\ w.slots[k].complement.primary.data.head = Heads(w)[k].root
                                 /\ proposed <=> w.slots[k].head_header # NoHeader}
           S == Carried(q, from .. to)
           d == [i \in S |-> Counted(q[i])]
           counts(T) == [k \in T |-> Counted(w.slots[k].complement)]
<1>1. n \in Nat /\ from <= to /\ IsFiniteSet(from .. to) /\ IsFiniteSet(1 .. n)
      /\ q[from].slot \in Int
  <2>1. from <= to
    BY DEF IsRun
  <2>2. n \in Nat /\ from \in from .. to
    BY <2>1
  <2> QED
    BY <2>1, <2>2, FS_Interval
<1>2. /\ DOMAIN w.slots = 1 .. n
      /\ \A k \in 1 .. n : /\ w.slots[k].complement = q[(from + k) - 1]
                           /\ w.slots[k].head_header = Header(q[(from + k) - 1].slot)
  BY DEF IsBatch
<1>3. \A k \in 1 .. n : Heads(w)[k].root = CanonicalHead(base + k)
  <2>0. q[from].slot \in Int
    BY <1>1
  <2>1. FollowTheChain(Heads(w), base, n)
    BY <2>0, HeadsAre
  <2> HIDE DEF n, base
  <2> SUFFICES ASSUME NEW k \in 1 .. n PROVE Heads(w)[k].root = CanonicalHead(base + k)
    OBVIOUS
  <2>2. k \in 0 .. n
    BY <1>1
  <2>3. Heads(w)[k] = [root |-> CanonicalHead(base + k), slot |-> CanonicalHead(base + k)]
    BY <2>1, <2>2 DEF FollowTheChain
  <2> QED
    BY <2>3
<1>4. \A k \in 1 .. n : (from + k) - 1 \in from .. to /\ q[(from + k) - 1].slot = base + k
  <2> SUFFICES ASSUME NEW k \in 1 .. n
               PROVE  (from + k) - 1 \in from .. to /\ q[(from + k) - 1].slot = base + k
    OBVIOUS
  <2>1. (from + k) - 1 \in from .. to
    OBVIOUS
  <2>2. q[(from + k) - 1].slot = q[from].slot + (((from + k) - 1) - from)
    BY <2>1 DEF IsRun
  <2> QED
    BY <1>1, <2>1, <2>2
<1>5. ASSUME NEW k \in 1 .. n PROVE k \in Where(TRUE) <=> (from + k) - 1 \in S
  <2>1. /\ w.slots[k].complement = q[(from + k) - 1]
        /\ w.slots[k].head_header = Header(base + k)
        /\ Heads(w)[k].root = CanonicalHead(base + k)
        /\ q[(from + k) - 1].slot = base + k /\ (from + k) - 1 \in from .. to
        /\ k \in DOMAIN w.slots
    BY <1>2, <1>3, <1>4
  <2> HIDE DEF n, base
  <2>2. Header(base + k) # NoHeader <=> HasBlock(base + k)
    BY HeaderIs
  <2> QED
    BY <2>1, <2>2 DEF Carried, Carries
<1>6. \A T \in SUBSET (1 .. n) : /\ IsFiniteSet(T) /\ DOMAIN counts(T) = T
                                 /\ \A k \in T : /\ counts(T)[k] = Counted(q[(from + k) - 1])
                                                 /\ counts(T)[k] \in Int
  <2> SUFFICES ASSUME NEW T \in SUBSET (1 .. n)
               PROVE  /\ IsFiniteSet(T) /\ DOMAIN counts(T) = T
                      /\ \A k \in T : /\ counts(T)[k] = Counted(q[(from + k) - 1])
                                      /\ counts(T)[k] \in Int
    OBVIOUS
  <2> HIDE DEF n
  <2> QED
    BY <1>1, <1>2, <1>4, FS_Subset
<1>7. /\ SupportWhere(w, TRUE) = SumOf(counts(Where(TRUE)))
      /\ SupportWhere(w, FALSE) = SumOf(counts(Where(FALSE)))
  BY DEF SupportWhere
<1>8. Where(TRUE) \in SUBSET (1 .. n) /\ Where(FALSE) \in SUBSET (1 .. n)
  BY <1>2
<1> HIDE DEF Where
<1>9. SumOf(counts(Where(FALSE))) \in Int
  <2> DEFINE f == counts(Where(FALSE))
  <2>1. IsFiniteSet(DOMAIN f) /\ \A k \in DOMAIN f : f[k] \in Int
    BY <1>6, <1>8
  <2> HIDE DEF f
  <2>2. PICK g : IsAdditive(g, f, DOMAIN f) /\ SumOf(f) = g[DOMAIN f]
    BY <2>1, SumOfIs
  <2>3. g[DOMAIN f] \in Int
    BY <2>2 DEF IsAdditive
  <2> QED
    BY <2>2, <2>3 DEF f
<1>10. SumOf(counts(Where(TRUE))) = SumOf(d)
  <2> DEFINE T == Where(TRUE)
             order == [k \in T |-> (from + k) - 1]
             f == counts(T)
  <2>1. IsFiniteSet(T) /\ DOMAIN f = T /\ T \in SUBSET (1 .. n)
        /\ \A k \in T : f[k] = Counted(q[(from + k) - 1])
    BY <1>6, <1>8
  <2>2. order \in [T -> S]
    <3>1. \A k \in T : (from + k) - 1 \in S
      BY <1>5, <1>8
    <3> HIDE DEF S, T
    <3> QED
      BY <3>1
  <2>3. \A k, l \in T : order[k] = order[l] => k = l
    <3> SUFFICES ASSUME NEW k \in T, NEW l \in T, order[k] = order[l] PROVE k = l
      OBVIOUS
    <3>1. k \in Int /\ l \in Int
      <4>1. k \in 1 .. n /\ l \in 1 .. n
        BY <2>1
      <4> QED
        BY <4>1
    <3>2. (from + k) - 1 = (from + l) - 1
      OBVIOUS
    <3> QED
      BY <3>1, <3>2
  <2>4. ASSUME NEW i \in S PROVE \E k \in T : order[k] = i
    <3>1. i \in from .. to
      BY DEF Carried
    <3>2. (i - from) + 1 \in 1 .. n /\ (from + ((i - from) + 1)) - 1 = i
      BY <3>1
    <3>3. (i - from) + 1 \in T
      BY <1>5, <3>2
    <3> HIDE DEF T, S
    <3> QED
      BY <3>2, <3>3
  <2>5. IsFiniteSet(S) /\ DOMAIN d = S /\ \A i \in S : d[i] = Counted(q[i]) /\ d[i] \in Int
    BY <1>1, FS_Subset DEF Carried
  <2>6. \A k \in T : f[k] = d[order[k]]
    <3>1. \A k \in T : order[k] = (from + k) - 1 /\ order[k] \in S
      BY <2>2
    <3> HIDE DEF d, f, T, S, order
    <3> QED
      BY <2>1, <2>5, <3>1
  <2> HIDE DEF T, f, d, S, order
  <2>7. SumOf(f) = SumOf(d)
    <3>1. IsFiniteSet(T) /\ IsFiniteSet(S) /\ DOMAIN f = T /\ DOMAIN d = S
      BY <2>1, <2>5
    <3>2. \A i \in S : d[i] \in Int
      BY <2>5
    <3>3. \A i \in S : \E k \in T : order[k] = i
      BY <2>4
    <3> QED
      BY <2>2, <2>3, <2>6, <3>1, <3>2, <3>3, SumMoved
  <2> QED
    BY <2>7 DEF f, T
<1> QED
  BY <1>7, <1>9, <1>10 DEF Credit, d, S

-----------------------------------------------------------------------------
(* What a batch proves, and what batches join to.                          *)

\* The window over a run of units.
WindowOver(q, from, to) ==
    [accumulator_commitment |-> commitment(agg.context.tree, agg.context.total),
     committee_root |-> agg.context.committees.root,
     total_active_balance |-> agg.context.total,
     first_slot |-> q[from].slot, last_slot |-> q[to].slot,
     parent_head_root |-> CanonicalHead(q[from].slot - 1),
     head_root |-> CanonicalHead(q[to].slot), head_slot |-> CanonicalHead(q[to].slot),
     support |-> Credit(q, from .. to)]

\* Units a window may be over.
AreCounted(q, from, to) ==
    \A i \in from .. to : /\ q[i].slot \in Int /\ Counted(q[i]) \in Int
                          /\ q[i].primary.data.slot = q[i].slot

\* A verifier that has the window asks no less than the batch did, which may
\* discount what its empty slots are credited with.
AsksNoLess(output, parent_slot, current_slot) ==
    output.support > WindowThreshold(FirstWindow(output), parent_slot, current_slot)
       => output.confirmed

LEMMA DiscountEases ==
    ASSUME NEW x \in Int, NEW y \in Int, NEW a \in Int
    PROVE  /\ (x - Saturating(y, a)) \div 2 <= (x - 0) \div 2
           /\ (x - Saturating(y, a)) \div 2 \in Int /\ (x - 0) \div 2 \in Int
<1>0. Saturating(y, a) \in Nat
  <2>1. CASE y > a
    BY <2>1 DEF Saturating
  <2>2. CASE ~(y > a)
    BY <2>2 DEF Saturating
  <2> QED
    BY <2>1, <2>2
<1>1. PICK d \in Nat : d = Saturating(y, a)
  BY <1>0
<1>2. (x - d) \div 2 <= (x - 0) \div 2 /\ (x - d) \div 2 \in Int /\ (x - 0) \div 2 \in Int
  OBVIOUS
<1> QED
  BY <1>1, <1>2

LEMMA OutputIs ==
    ASSUME NEW q, NEW from \in Int, NEW to \in Int, IsRun(q, from, to),
           AreCounted(q, from, to), agg.context.total \in Nat,
           NEW w, IsBatch(w, q, from, to), NEW output, output = FcrBatchOutput(w)
    PROVE  /\ FirstWindow(output) = WindowOver(q, from, to)
           /\ output.support = Credit(q, from .. to)
           /\ output.accumulator_commitment = commitment(agg.context.tree, agg.context.total)
           /\ output.committee_root = agg.context.committees.root
           /\ output.total_active_balance = agg.context.total
           /\ output.parent_head_root = CanonicalHead(q[from].slot - 1)
           /\ output.head_root = CanonicalHead(q[to].slot)
           /\ output.head_slot = CanonicalHead(q[to].slot)
           /\ output.first_slot = q[from].slot
           /\ (output.first_slot + output.slot_count) - 1 = q[to].slot
           /\ AsksNoLess(output, CanonicalHead(q[from].slot - 1), q[to].slot + 1)
<1> DEFINE n == (to - from) + 1
           base == q[from].slot - 1
<1>1. /\ from <= to /\ from \in from .. to /\ to \in from .. to /\ n \in Nat /\ n \in 1 .. n
      /\ 1 \in 1 .. n /\ (from + 1) - 1 = from
  BY DEF IsRun
<1>2. /\ q[from].slot \in Int /\ q[to].slot = q[from].slot + (to - from)
      /\ q[from].primary.data.slot = q[from].slot
  BY <1>1 DEF IsRun, AreCounted
<1>3. q[to].slot \in Int /\ base + n = q[to].slot /\ n \in 0 .. n
  BY <1>1, <1>2
<1>4. /\ w.accumulator_commitment = commitment(agg.context.tree, agg.context.total)
      /\ w.committee_root = agg.context.committees.root /\ w.total = agg.context.total
      /\ w.parent_head_root = CanonicalHead(base) /\ w.parent_head_slot = CanonicalHead(base)
      /\ w.current_slot = q[to].slot + 1 /\ Len(w.slots) = n
      /\ w.slots[1].complement = q[from]
  BY <1>1 DEF IsBatch
<1>5. Heads(w)[n] = [root |-> CanonicalHead(q[to].slot), slot |-> CanonicalHead(q[to].slot)]
  <2>1. q[from].slot \in Int
    BY <1>2
  <2>2. FollowTheChain(Heads(w), base, n)
    BY <2>1, HeadsAre
  <2> HIDE DEF n, base
  <2>3. Heads(w)[n] = [root |-> CanonicalHead(base + n), slot |-> CanonicalHead(base + n)]
    BY <1>3, <2>2 DEF FollowTheChain
  <2> QED
    BY <1>3, <2>3
<1>6. SupportWhere(w, TRUE) = Credit(q, from .. to) /\ SupportWhere(w, FALSE) \in Int
  BY SupportIs DEF AreCounted
<1> HIDE DEF n, base
<1>7. PICK support, empty, total, parent, current :
         /\ support = SupportWhere(w, TRUE) /\ empty = SupportWhere(w, FALSE)
         /\ total = w.total /\ parent = w.parent_head_slot /\ current = w.current_slot
  OBVIOUS
<1> DEFINE maximum == estimate_committee_weight_between_slots(total, parent + 1, current - 1)
           adversarial == max_adversarial_weight(maximum)
           threshold == safety_threshold(maximum, compute_proposer_score(total), adversarial,
                                         Saturating(empty, adversarial))
<1>8. /\ output.accumulator_commitment = w.accumulator_commitment
      /\ output.committee_root = w.committee_root /\ output.total_active_balance = total
      /\ output.parent_head_root = w.parent_head_root
      /\ output.head_root = Heads(w)[n].root /\ output.head_slot = Heads(w)[n].slot
      /\ output.support = support /\ output.first_slot = w.slots[1].complement.primary.data.slot
      /\ output.slot_count = n
      /\ output.confirmed = is_one_confirmed(support, threshold)
  BY <1>4, <1>7 DEF FcrBatchOutput
<1> HIDE DEF threshold
<1>8a. /\ output.head_root = CanonicalHead(q[to].slot)
       /\ output.head_slot = CanonicalHead(q[to].slot)
  BY <1>5, <1>8
<1>8b. output.first_slot = q[from].slot
  BY <1>2, <1>4, <1>8
<1>9. /\ output.support = Credit(q, from .. to)
      /\ output.accumulator_commitment = commitment(agg.context.tree, agg.context.total)
      /\ output.committee_root = agg.context.committees.root
      /\ output.total_active_balance = agg.context.total
      /\ output.parent_head_root = CanonicalHead(q[from].slot - 1)
      /\ output.head_root = CanonicalHead(q[to].slot)
      /\ output.head_slot = CanonicalHead(q[to].slot)
      /\ output.first_slot = q[from].slot
  BY <1>4, <1>6, <1>7, <1>8, <1>8a, <1>8b DEF base
<1>10. (output.first_slot + output.slot_count) - 1 = q[to].slot
  BY <1>1, <1>2, <1>3, <1>8, <1>9 DEF base
<1>11. FirstWindow(output) = WindowOver(q, from, to)
  BY <1>9, <1>10 DEF FirstWindow, WindowOver
<1>12. AsksNoLess(output, CanonicalHead(q[from].slot - 1), q[to].slot + 1)
  <2>1. total \in Nat /\ current = q[to].slot + 1 /\ parent = CanonicalHead(q[from].slot - 1)
        /\ total = agg.context.total /\ empty \in Int /\ parent \in Int
    <3>1. base \in Int
      BY <1>2 DEF base
    <3>2. CanonicalHead(base) \in Int
      BY <3>1, CanonicalHeadIs
    <3>3. parent = CanonicalHead(base) /\ total = agg.context.total /\ current = q[to].slot + 1
      BY <1>4, <1>7
    <3> QED
      BY <1>6, <1>7, <3>2, <3>3 DEF base
  <2>2. support \in Int
    <3>1. \A i \in from .. to : Counted(q[i]) \in Int
      BY DEF AreCounted
    <3> QED
      BY <1>6, <1>7, <3>1, CreditIs, FS_Interval
  <2>3. maximum \in Int
    <3>1. PICK m \in Nat : m = SlotCount /\ m # 0
      BY ShuffleAssumption
    <3>2. total \div m \in Int
      BY <2>1, <3>1
    <3>3. Saturating((current - 1) + 1, parent + 1) \in Int
      BY <1>3, <2>1 DEF Saturating
    <3> QED
      BY <3>1, <3>2, <3>3 DEF estimate_committee_weight_between_slots
  <2> HIDE DEF maximum
  <2>4. adversarial \in Int
    <3>1. ByzantineThreshold \in Int
      BY FcrAssumption
    <3> QED
      BY <2>3, <3>1 DEF max_adversarial_weight
  <2> HIDE DEF adversarial
  <2>5. compute_proposer_score(total) \in Int
    <3>1. PICK m \in Nat : m = SlotCount /\ m # 0
      BY ShuffleAssumption
    <3>2. ProposerScoreBoost \in Int
      BY FcrAssumption
    <3>3. total \div m \in Int
      BY <2>1, <3>1
    <3> QED
      BY <3>1, <3>2, <3>3 DEF compute_proposer_score
  <2>6. PICK x \in Int : x = (maximum + compute_proposer_score(total)) + (2 * adversarial)
    BY <2>3, <2>4, <2>5
  <2>7. threshold = (x - Saturating(empty, adversarial)) \div 2
    BY <2>6 DEF threshold, safety_threshold
  <2>8. WindowThreshold(FirstWindow(output), CanonicalHead(q[from].slot - 1), q[to].slot + 1)
           = (x - 0) \div 2
    <3>1. FirstWindow(output).total_active_balance = total
      BY <1>8 DEF FirstWindow
    <3> QED
      BY <2>1, <2>6, <3>1 DEF WindowThreshold, safety_threshold, maximum, adversarial
  <2>9. /\ threshold <= (x - 0) \div 2 /\ threshold \in Int /\ (x - 0) \div 2 \in Int
    BY <2>1, <2>4, <2>6, <2>7, DiscountEases
  <2>10. PICK asked \in Int :
            /\ asked = WindowThreshold(FirstWindow(output), CanonicalHead(q[from].slot - 1),
                                       q[to].slot + 1)
            /\ threshold <= asked
    BY <2>8, <2>9
  <2>11. support > asked => support > threshold
    BY <2>2, <2>9, <2>10
  <2>12. support > threshold => output.confirmed
    BY <1>8 DEF is_one_confirmed
  <2> QED
    BY <1>8, <2>10, <2>11, <2>12 DEF AsksNoLess
<1> QED
  BY <1>9, <1>10, <1>11, <1>12

\* One batch more on a window.
Joined(window, batch) ==
    IF \/ window = NoWindow
       \/ batch.accumulator_commitment # window.accumulator_commitment
       \/ batch.committee_root # window.committee_root
       \/ batch.total_active_balance # window.total_active_balance
       \/ batch.parent_head_root # window.head_root
       \/ batch.first_slot # window.last_slot + 1
    THEN NoWindow
    ELSE [window EXCEPT !.support = @ + batch.support,
                        !.last_slot = (batch.first_slot + batch.slot_count) - 1,
                        !.head_root = batch.head_root,
                        !.head_slot = batch.head_slot]

LEMMA TwoJoin ==
    ASSUME NEW a, NEW b
    PROVE  accumulate(<<a, b>>) = Joined(FirstWindow(a), b)
<1> DEFINE q == Tail(<<a, b>>)
           one == DOMAIN q
           first == FirstWindow(<<a, b>>[1])
           Unfolds(f) == f = [s \in SUBSET one |->
                                IF s = {} THEN first ELSE Joined(f[s \ {Max(s)}], q[Max(s)])]
           h == [s \in SUBSET one |-> IF s = {} THEN first ELSE Joined(first, b)]
           fold == CHOOSE f : Unfolds(f)
<1>1. accumulate(<<a, b>>) = fold[one]
  BY SMT DEF accumulate, FoldLeft, MapThenFoldSet, Joined
<1>2. first = FirstWindow(a) /\ q = <<b>>
  OBVIOUS
<1>2a. /\ Max(one) = 1 /\ one \ {Max(one)} = {} /\ one # {} /\ q[1] = b
       /\ \A s \in SUBSET one : s = {} \/ s = one
  <2>1. one = 1 .. 1 /\ q[1] = b
    BY <1>2
  <2>2. Max(1 .. 1) = 1 /\ 1 .. 1 = {1}
    BY MaxOfFirst
  <2> QED
    BY <2>1, <2>2
<1> HIDE DEF q, first, one
<1>3. Unfolds(h)
  <2>1. h[{}] = first /\ h[one] = Joined(first, b)
    BY <1>2a
  <2>2. \A s \in SUBSET one :
           h[s] = IF s = {} THEN first ELSE Joined(h[s \ {Max(s)}], q[Max(s)])
    <3> HIDE DEF h
    <3> QED
      BY <1>2a, <2>1
  <2>3. h = [s \in SUBSET one |-> h[s]]
    OBVIOUS
  <2> HIDE DEF h
  <2> QED
    BY <2>2, <2>3
<1>4. Unfolds(fold)
  <2> HIDE DEF Unfolds
  <2> QED
    BY <1>3
<1> HIDE DEF fold
<1>6. \A s \in SUBSET one :
         fold[s] = IF s = {} THEN first ELSE Joined(fold[s \ {Max(s)}], q[Max(s)])
  BY <1>4
<1>7. fold[{}] = first
  BY <1>6
<1>8. fold[one] = Joined(first, b)
  BY <1>2a, <1>6, <1>7
<1> QED
  BY <1>1, <1>2, <1>8

-----------------------------------------------------------------------------
(* A window and what was voted for it.                                     *)

\* What a run of units is credited with is no more than the balance of who
\* voted for the head of one of its slots.
LEMMA CreditIsVoted ==
    ASSUME NEW registry, IsRegistry(registry), NEW e, NEW votes,
           DOMAIN votes \in SUBSET DOMAIN registry,
           NEW q, NEW from \in Int, NEW to \in Int, IsRun(q, from, to),
           \A i \in from .. to : q[i].slot \in Int /\ IsCounted(q[i], registry, e, votes),
           NEW T \in SUBSET DOMAIN registry,
           \A i \in from .. to : Carries(q[i]) =>
              \A v \in DOMAIN votes : votes[v] = q[i].primary.data => v \in T
    PROVE  Credit(q, from .. to) <= Mass(registry, e, T)
<1> DEFINE I == Carried(q, from .. to)
           parts == [i \in I |-> {v \in DOMAIN votes : votes[v] = q[i].primary.data}]
           claims == [i \in I |-> Counted(q[i])]
<1>1. I \in SUBSET (from .. to) /\ \A i \in I : Carries(q[i])
  BY DEF Carried
<1>2. IsFiniteSet(I)
  BY <1>1, FS_Interval, FS_Subset
<1>3. /\ from \in from .. to /\ q[from].slot \in Int
      /\ \A i \in from .. to : q[i].slot = q[from].slot + (i - from)
  BY DEF IsRun
<1>4. \A i \in I : /\ parts[i] = {v \in DOMAIN votes : votes[v] = q[i].primary.data}
                   /\ claims[i] = Counted(q[i])
  OBVIOUS
<1>5. DOMAIN claims = I
  OBVIOUS
<1> HIDE DEF I, parts, claims
<1>6. \A i \in I : /\ q[i].primary.data.slot = q[i].slot
                   /\ claims[i] \in Int /\ claims[i] <= Mass(registry, e, parts[i])
                   /\ parts[i] \in SUBSET DOMAIN registry /\ parts[i] \in SUBSET T
  <2> SUFFICES ASSUME NEW i \in I
               PROVE  /\ q[i].primary.data.slot = q[i].slot
                      /\ claims[i] \in Int /\ claims[i] <= Mass(registry, e, parts[i])
                      /\ parts[i] \in SUBSET DOMAIN registry /\ parts[i] \in SUBSET T
    OBVIOUS
  <2>1. i \in from .. to /\ Carries(q[i])
    BY <1>1
  <2>2. IsCounted(q[i], registry, e, votes)
    BY <2>1
  <2>3. parts[i] = {v \in DOMAIN votes : votes[v] = q[i].primary.data} /\ claims[i] = Counted(q[i])
    BY <1>4
  <2>4. parts[i] \in SUBSET T
    BY <2>1, <2>3
  <2>5. /\ q[i].primary.data.slot = q[i].slot
        /\ claims[i] \in Int /\ claims[i] <= Mass(registry, e, parts[i])
    BY <2>2, <2>3 DEF IsCounted
  <2> QED
    BY <2>4, <2>5
<1>7. ASSUME NEW i \in I, NEW j \in I, i # j PROVE parts[i] \cap parts[j] = {}
  <2>1. i \in from .. to /\ j \in from .. to
    BY <1>1
  <2>2. /\ q[i].slot = q[from].slot + (i - from) /\ q[j].slot = q[from].slot + (j - from)
        /\ q[from].slot \in Int
    BY <1>3, <2>1
  <2>3. q[i].slot # q[j].slot
    <3>1. PICK s \in Int : s = q[from].slot
      BY <2>2
    <3>2. i \in Int /\ j \in Int
      BY <2>1
    <3>3. s + (i - from) # s + (j - from)
      BY <1>7, <3>2
    <3> QED
      BY <2>2, <3>1, <3>3
  <2>4. q[i].primary.data # q[j].primary.data
    BY <1>6, <2>3
  <2> QED
    BY <1>4, <2>4
<1>8. SumOf(claims) \in Int /\ SumOf(claims) <= Mass(registry, e, UNION {parts[i] : i \in I})
  <2>1. \A i \in I : parts[i] \in SUBSET DOMAIN registry
    BY <1>6
  <2>2. \A i, j \in I : i # j => parts[i] \cap parts[j] = {}
    BY <1>7
  <2>3. \A i \in I : claims[i] \in Int /\ claims[i] <= Mass(registry, e, parts[i])
    BY <1>6
  <2>4. PICK K, pieces, sums : K = I /\ pieces = parts /\ sums = claims
    OBVIOUS
  <2>5. /\ SumOf(sums) \in Int
        /\ SumOf(sums) <= Mass(registry, e, UNION {pieces[i] : i \in K})
    <3>1. /\ IsFiniteSet(K) /\ DOMAIN sums = K
          /\ \A i \in K : pieces[i] \in SUBSET DOMAIN registry
          /\ \A i, j \in K : i # j => pieces[i] \cap pieces[j] = {}
          /\ \A i \in K : sums[i] \in Int /\ sums[i] <= Mass(registry, e, pieces[i])
      BY <1>2, <1>5, <2>1, <2>2, <2>3, <2>4
    <3> QED
      BY <3>1, ApartWeighNoLess
  <2> QED
    BY <2>4, <2>5
<1>9. UNION {parts[i] : i \in I} \in SUBSET T
  BY <1>6
<1>10. PICK P \in SUBSET DOMAIN registry : P = UNION {parts[i] : i \in I} /\ P \in SUBSET T
  BY <1>9
<1>11. /\ Mass(registry, e, P) <= Mass(registry, e, T)
       /\ Mass(registry, e, P) \in Nat /\ Mass(registry, e, T) \in Nat
  BY <1>10, MassAdds
<1>12. PICK x \in Int, y \in Nat, z \in Nat :
          /\ x = SumOf(claims) /\ y = Mass(registry, e, P) /\ z = Mass(registry, e, T)
          /\ x <= y /\ y <= z
  BY <1>8, <1>10, <1>11
<1>13. x <= z
  BY <1>12
<1> QED
  BY <1>12, <1>13 DEF Credit, claims, I

\* Two runs that join.
LEMMA CreditIsCut ==
    ASSUME NEW q, NEW from \in Int, NEW cut \in Int, NEW to \in Int, from <= cut, cut < to,
           \A i \in from .. to : Counted(q[i]) \in Int
    PROVE  Credit(q, from .. to) = Credit(q, from .. cut) + Credit(q, cut + 1 .. to)
<1> DEFINE A == Carried(q, from .. cut)
           B == Carried(q, cut + 1 .. to)
           d == [i \in from .. to |-> Counted(q[i])]
<1>1. /\ A \in SUBSET (from .. cut) /\ B \in SUBSET (cut + 1 .. to)
      /\ Carried(q, from .. to) = A \cup B
  <2>1. from .. to = (from .. cut) \cup (cut + 1 .. to)
    OBVIOUS
  <2> QED
    BY <2>1 DEF Carried
<1>2. IsFiniteSet(A) /\ IsFiniteSet(B)
  BY <1>1, FS_Interval, FS_Subset
<1>3. A \cap B = {}
  BY <1>1
<1>4. A \cup B \in SUBSET (from .. to)
  BY <1>1
<1> HIDE DEF A, B
<1>5. \A x \in A \cup B : d[x] = Counted(q[x]) /\ d[x] \in Int
  BY <1>4
<1>6. /\ Credit(q, from .. to) = SumOf([x \in A \cup B |-> Counted(q[x])])
      /\ Credit(q, from .. cut) = SumOf([x \in A |-> Counted(q[x])])
      /\ Credit(q, cut + 1 .. to) = SumOf([x \in B |-> Counted(q[x])])
  BY <1>1 DEF Credit, A, B
<1>7. /\ [x \in A \cup B |-> Counted(q[x])] = [x \in A \cup B |-> d[x]]
      /\ [x \in A |-> Counted(q[x])] = [x \in A |-> d[x]]
      /\ [x \in B |-> Counted(q[x])] = [x \in B |-> d[x]]
  BY <1>5
<1> HIDE DEF d
<1>8. SumOf([x \in A \cup B |-> d[x]]) = SumOf([x \in A |-> d[x]]) + SumOf([x \in B |-> d[x]])
  BY <1>2, <1>3, <1>5, SumOfTwo
<1> QED
  BY <1>6, <1>7, <1>8

\* The batches of a run's two parts join to the window over the run.
LEMMA PartsJoin ==
    ASSUME NEW q, NEW n \in Nat, DOMAIN q = 1 .. n, \A i \in 1 .. n : q[i].slot \in Int,
           NEW from \in 1 .. n, NEW cut \in 1 .. n, NEW to \in 1 .. n,
           from <= cut, cut < to, IsRun(q, from, to), AreCounted(q, from, to),
           agg.context.total \in Nat,
           NEW v, IsBatch(v, q, from, cut), NEW w, IsBatch(w, q, cut + 1, to)
    PROVE  /\ accumulate(<<FcrBatchOutput(v), FcrBatchOutput(w)>>) = WindowOver(q, from, to)
           /\ WindowOver(q, from, to) # NoWindow
<1>1. IsRun(q, from, cut) /\ IsRun(q, cut + 1, to)
  BY RunIsCut
<1>2. AreCounted(q, from, cut) /\ AreCounted(q, cut + 1, to)
  BY DEF AreCounted
<1>3. PICK a, b : a = FcrBatchOutput(v) /\ b = FcrBatchOutput(w)
  OBVIOUS
<1>4. FirstWindow(a) = WindowOver(q, from, cut)
  BY <1>1, <1>2, <1>3, OutputIs
<1>5. /\ b.support = Credit(q, cut + 1 .. to)
      /\ b.accumulator_commitment = commitment(agg.context.tree, agg.context.total)
      /\ b.committee_root = agg.context.committees.root
      /\ b.total_active_balance = agg.context.total
      /\ b.parent_head_root = CanonicalHead(q[cut + 1].slot - 1)
      /\ b.head_root = CanonicalHead(q[to].slot) /\ b.head_slot = CanonicalHead(q[to].slot)
      /\ b.first_slot = q[cut + 1].slot
      /\ (b.first_slot + b.slot_count) - 1 = q[to].slot
  <2>1. cut + 1 \in Int /\ to \in Int
    OBVIOUS
  <2> QED
    BY <1>1, <1>2, <1>3, <2>1, OutputIs
<1>6. q[cut + 1].slot = q[cut].slot + 1 /\ q[cut].slot \in Int
  <2>1. cut \in from .. to /\ cut + 1 \in from .. to /\ q[from].slot \in Int
    OBVIOUS
  <2>2. /\ q[cut].slot = q[from].slot + (cut - from)
        /\ q[cut + 1].slot = q[from].slot + ((cut + 1) - from)
    BY <2>1 DEF IsRun
  <2> QED
    BY <2>1, <2>2
<1>7. CanonicalHead(q[cut + 1].slot - 1) = CanonicalHead(q[cut].slot)
  <2>1. q[cut + 1].slot - 1 = q[cut].slot
    BY <1>6
  <2> QED
    BY <2>1
<1>8. PICK window : window = WindowOver(q, from, cut)
  OBVIOUS
<1>9. \A x, y : WindowOver(q, x, y) # NoWindow
  <2> SUFFICES ASSUME NEW x, NEW y PROVE WindowOver(q, x, y) # NoWindow
    OBVIOUS
  <2>1. "support" \in DOMAIN WindowOver(q, x, y) /\ "support" \notin DOMAIN NoWindow
    BY DEF WindowOver, NoWindow
  <2> QED
    BY <2>1
<1>10. /\ window.accumulator_commitment = commitment(agg.context.tree, agg.context.total)
       /\ window.committee_root = agg.context.committees.root
       /\ window.total_active_balance = agg.context.total
       /\ window.head_root = CanonicalHead(q[cut].slot) /\ window.last_slot = q[cut].slot
  BY <1>8 DEF WindowOver
<1>11. Joined(window, b) = [window EXCEPT !.support = @ + b.support,
                                          !.last_slot = (b.first_slot + b.slot_count) - 1,
                                          !.head_root = b.head_root, !.head_slot = b.head_slot]
  <2>1. window # NoWindow
    BY <1>8, <1>9
  <2>2. b.parent_head_root = window.head_root /\ b.first_slot = window.last_slot + 1
    BY <1>5, <1>6, <1>7, <1>10
  <2>3. /\ b.accumulator_commitment = window.accumulator_commitment
        /\ b.committee_root = window.committee_root
        /\ b.total_active_balance = window.total_active_balance
    BY <1>5, <1>10
  <2> QED
    BY <2>1, <2>2, <2>3 DEF Joined
<1>12. Credit(q, from .. to) = Credit(q, from .. cut) + Credit(q, cut + 1 .. to)
  <2>1. \A i \in from .. to : Counted(q[i]) \in Int
    BY DEF AreCounted
  <2>2. from \in Int /\ cut \in Int /\ to \in Int
    OBVIOUS
  <2> QED
    BY <2>1, <2>2, CreditIsCut
<1>13. Joined(window, b) = WindowOver(q, from, to)
  BY <1>5, <1>8, <1>11, <1>12 DEF WindowOver
<1> QED
  BY <1>3, <1>4, <1>8, <1>9, <1>13, TwoJoin

\* What is claimed of a confirmation.
IsWindow(f) ==
    LET window == accumulate(f.parts)
        slots == {s % SlotCount : s \in {x \in window.first_slot .. window.last_slot :
                                           HasBlock(x)}}
    IN /\ window # NoWindow
       /\ window = FirstWindow(f.one)
       /\ is_confirmed(window, f.assignment, f.parent_slot, window.last_slot + 1)
             => f.one.confirmed
       /\ window.support
             <= WeightOf({v \in VotersIn(slots) : cast[v].head = CanonicalHead(cast[v].slot)})

LEMMA WindowHolds ==
    ASSUME WeighInv, "context" \in DOMAIN agg,
           NEW first \in DOMAIN agg.units, NEW cut \in DOMAIN agg.units,
           NEW last \in DOMAIN agg.units, first <= cut, cut < last,
           \A i \in first .. last - 1 : agg.units[i + 1].slot = agg.units[i].slot + 1,
           NEW u, u = batch_witness(first, last), NEW v, v = batch_witness(first, cut),
           NEW w, w = batch_witness(cut + 1, last), NEW f,
           f.one = FcrBatchOutput(u), f.parts = <<FcrBatchOutput(v), FcrBatchOutput(w)>>,
           f.parent_slot = CanonicalHead(agg.units[first].slot - 1)
    PROVE  IsWindow(f)
<1>1. PICK e \in Epochs : IsOf(agg, cast, e)
  BY DEF WeighInv, Fits
<1>2. PICK registry : registry = world.registry[e]
  OBVIOUS
<1>3. Fixed /\ e \in Nat /\ IsRegistry(registry)
  <2>1. Fixed
    BY DEF WeighInv, AnchorInv
  <2> QED
    BY <1>2, <2>1, ChainCommittees
<1>4. /\ IsContext(agg.context, registry, e, Checkpoint(e - 1), Checkpoint(e))
      /\ AreComplements(agg.units, registry, e, cast, Checkpoint(e - 1), Checkpoint(e))
      /\ DOMAIN cast \in SUBSET DOMAIN agg.context.committees.slots
  BY <1>1, <1>2 DEF IsOf, IsAgg, IsOpened, CastIs
<1>5. /\ agg.context.target.epoch = e /\ agg.context.total = TotalActive(registry, e)
      /\ DOMAIN cast \in SUBSET DOMAIN registry
  BY <1>4 DEF IsContext, IsCommittees
<1>6. agg.context.total \in Nat
  BY <1>3, <1>5, TotalIs
<1>7. PICK q, C : /\ q = agg.units /\ q \in Seq(C)
                  /\ \A c \in C : IsComplement(c, registry, e, cast, Checkpoint(e - 1),
                                               Checkpoint(e))
  BY <1>4 DEF AreComplements
<1>8. PICK n \in Nat : n = Len(q) /\ DOMAIN q = 1 .. n
  BY <1>7
<1>9. \A i \in 1 .. n : /\ q[i].slot \in Int /\ IsCounted(q[i], registry, e, cast)
                        /\ Counted(q[i]) \in Int /\ q[i].primary.data.slot = q[i].slot
  <2> SUFFICES ASSUME NEW i \in 1 .. n
               PROVE  /\ q[i].slot \in Int /\ IsCounted(q[i], registry, e, cast)
                      /\ Counted(q[i]) \in Int /\ q[i].primary.data.slot = q[i].slot
    OBVIOUS
  <2>1. q[i] \in C
    BY <1>7, <1>8
  <2>2. q[i].slot \in Int /\ IsCounted(q[i], registry, e, cast)
    BY <1>7, <2>1 DEF IsComplement
  <2> QED
    BY <2>2 DEF IsCounted
<1>10. /\ first \in 1 .. n /\ cut \in 1 .. n /\ last \in 1 .. n /\ cut + 1 \in 1 .. n
       /\ first \in Int /\ last \in Int
       /\ \A i \in first .. last - 1 : q[i + 1].slot = q[i].slot + 1
  BY <1>7, <1>8
<1>11. IsRun(q, first, last)
  <2>1. first <= last /\ \A i \in 1 .. n : q[i].slot \in Int
    BY <1>9, <1>10
  <2> QED
    BY <1>8, <1>10, <2>1, RunIs
<1>12. IsRun(q, first, cut) /\ IsRun(q, cut + 1, last)
  <2>1. \A i \in 1 .. n : q[i].slot \in Int
    BY <1>9
  <2> QED
    BY <1>8, <1>10, <1>11, <2>1, RunIsCut
<1>13. AreCounted(q, first, last)
  <2>1. \A i \in first .. last : i \in 1 .. n
    BY <1>10
  <2> QED
    BY <1>9, <2>1 DEF AreCounted
<1>14. IsBatch(u, q, first, last) /\ IsBatch(v, q, first, cut) /\ IsBatch(w, q, cut + 1, last)
  <2>1. \A i \in DOMAIN q : q[i].slot \in Int
    BY <1>8, <1>9
  <2>2. IsBatch(u, q, first, last)
    BY <1>7, <1>11, <2>1, BatchIs
  <2>3. IsBatch(v, q, first, cut)
    BY <1>7, <1>12, <2>1, BatchIs
  <2>4. IsBatch(w, q, cut + 1, last)
    BY <1>7, <1>12, <2>1, BatchIs
  <2> QED
    BY <2>2, <2>3, <2>4
<1>15. PICK window : window = WindowOver(q, first, last)
  OBVIOUS
<1>16. accumulate(f.parts) = window /\ window # NoWindow
  <2>1. \A i \in 1 .. n : q[i].slot \in Int
    BY <1>9
  <2>2. /\ accumulate(<<FcrBatchOutput(v), FcrBatchOutput(w)>>) = WindowOver(q, first, last)
        /\ WindowOver(q, first, last) # NoWindow
    BY <1>6, <1>8, <1>10, <1>11, <1>13, <1>14, <2>1, PartsJoin
  <2> QED
    BY <1>15, <2>2
<1>17. /\ FirstWindow(f.one) = window /\ f.one.support = Credit(q, first .. last)
       /\ AsksNoLess(f.one, CanonicalHead(q[first].slot - 1), q[last].slot + 1)
  BY <1>6, <1>10, <1>11, <1>13, <1>14, <1>15, OutputIs
<1>18. /\ window.first_slot = q[first].slot /\ window.last_slot = q[last].slot
       /\ window.support = Credit(q, first .. last)
  BY <1>15 DEF WindowOver
<1>19. is_confirmed(window, f.assignment, f.parent_slot, window.last_slot + 1)
          => f.one.confirmed
  <2> SUFFICES ASSUME is_confirmed(window, f.assignment, f.parent_slot, window.last_slot + 1)
               PROVE  f.one.confirmed
    OBVIOUS
  <2>1. window.support > WindowThreshold(window, f.parent_slot, window.last_slot + 1)
    BY DEF is_confirmed, is_one_confirmed
  <2>2. f.parent_slot = CanonicalHead(q[first].slot - 1)
    BY <1>7
  <2> QED
    BY <1>17, <1>18, <2>1, <2>2 DEF AsksNoLess
<1> DEFINE slots == {s % SlotCount : s \in {x \in window.first_slot .. window.last_slot :
                                               HasBlock(x)}}
           voters == {x \in VotersIn(slots) : cast[x].head = CanonicalHead(cast[x].slot)}
<1>20. \A i \in first .. last : Carries(q[i]) =>
          \A x \in DOMAIN cast : cast[x] = q[i].primary.data => x \in voters
  <2> SUFFICES ASSUME NEW i \in first .. last, Carries(q[i]), NEW x \in DOMAIN cast,
                      cast[x] = q[i].primary.data
               PROVE  x \in voters
    OBVIOUS
  <2>1. i \in 1 .. n /\ first \in first .. last /\ last \in first .. last
    BY <1>10
  <2>2. cast[x].slot = q[i].slot /\ q[i].slot \in Int /\ q[first].slot \in Int
    BY <1>9, <1>10, <2>1
  <2>3. /\ q[i].slot = q[first].slot + (i - first)
        /\ q[last].slot = q[first].slot + (last - first)
    BY <1>11, <2>1 DEF IsRun
  <2>4. q[i].slot \in q[first].slot .. q[last].slot
    BY <1>10, <2>2, <2>3
  <2>5. HasBlock(q[i].slot) /\ cast[x].head = CanonicalHead(q[i].slot)
    BY DEF Carries
  <2>6. cast[x].slot % SlotCount \in slots
    BY <1>18, <2>2, <2>4, <2>5
  <2> QED
    BY <2>2, <2>5, <2>6 DEF VotersIn
<1>21. voters \in SUBSET DOMAIN registry
  BY <1>5 DEF VotersIn
<1>22. WeightOf(voters) = Mass(registry, e, voters)
  BY <1>2, <1>5 DEF WeightOf, Mass
<1> HIDE DEF voters, slots
<1>23. window.support <= WeightOf(voters)
  <2>1. \A i \in first .. last : q[i].slot \in Int /\ IsCounted(q[i], registry, e, cast)
    <3>1. \A i \in first .. last : i \in 1 .. n
      BY <1>10
    <3> QED
      BY <1>9, <3>1
  <2>2. Credit(q, first .. last) <= Mass(registry, e, voters)
    BY <1>3, <1>5, <1>10, <1>11, <1>20, <1>21, <2>1, CreditIsVoted
  <2> QED
    BY <1>18, <1>22, <2>2
<1> QED
  BY <1>16, <1>17, <1>19, <1>23 DEF IsWindow, voters, slots

\* A window is drawn once, and nothing happens to the epoch after.
WindowInv == fcr # <<>> => phase = "confirmed" /\ WindowIsItsBatches

LEMMA ConfirmDraws == WeighInv /\ Confirm => WindowInv'
<1> SUFFICES ASSUME WeighInv, Confirm PROVE WindowInv'
  OBVIOUS
<1>1. /\ phase = "decided" /\ phase' = "confirmed" /\ UNCHANGED <<world, chain, cast>>
  BY DEF Confirm
<1>2. "context" \in DOMAIN agg
  BY <1>1 DEF WeighInv, Staged
<1>3. PICK first \in DOMAIN agg.units, cut \in DOMAIN agg.units, last \in DOMAIN agg.units :
         /\ first <= cut /\ cut < last
         /\ \A i \in first .. last - 1 : agg.units[i + 1].slot = agg.units[i].slot + 1
         /\ LET witnesses == <<batch_witness(first, last), batch_witness(first, cut),
                               batch_witness(cut + 1, last)>>
                assigned == committee_witness
            IN /\ fcr' = [one |-> FcrBatchOutput(witnesses[1]),
                          parts |-> <<FcrBatchOutput(witnesses[2]),
                                      FcrBatchOutput(witnesses[3])>>,
                          parent_slot |-> CanonicalHead(agg.units[first].slot - 1),
                          assignment |-> from_committee_proof(FcrCommitteeOutput(assigned))]
               /\ agg' = judged(agg, witnesses, assigned)
  BY DEF Confirm
<1>4. PICK u, v, w : /\ u = batch_witness(first, last) /\ v = batch_witness(first, cut)
                     /\ w = batch_witness(cut + 1, last)
  OBVIOUS
<1>5. PICK f : f = fcr'
  OBVIOUS
<1>6. /\ f.one = FcrBatchOutput(u) /\ f.parts = <<FcrBatchOutput(v), FcrBatchOutput(w)>>
      /\ f.parent_slot = CanonicalHead(agg.units[first].slot - 1)
  BY <1>3, <1>4, <1>5
<1>7. IsWindow(f)
  BY <1>2, <1>3, <1>4, <1>6, WindowHolds
<1>8. agg'.context = agg.context
  <2>1. PICK ws, assigned : agg' = judged(agg, ws, assigned)
    BY <1>3
  <2>2. PICK x, y : agg' = Refused(Refused(agg, "fcr_batch", x), "fcr_committee", y)
    BY <2>1 DEF judged
  <2>3. PICK b : b = Refused(agg, "fcr_batch", x)
    OBVIOUS
  <2>4. b.context = agg.context /\ "context" \in DOMAIN b
    BY <1>2, <2>3 DEF Refused
  <2>5. agg' = Refused(b, "fcr_committee", y)
    BY <2>2, <2>3
  <2> QED
    BY <2>4, <2>5 DEF Refused
<1>9. IsWindow(fcr)'
  BY <1>1, <1>5, <1>7, <1>8 DEF IsWindow, WeightOf, VotersIn, HasBlock, CanonicalHead
<1>10. WindowIsItsBatches'
  BY <1>9 DEF WindowIsItsBatches, IsWindow
<1> QED
  BY <1>1, <1>10 DEF WindowInv

\* No other step draws one, and none but the contract's is left once it is.
LEMMA WindowStays ==
    ASSUME WindowInv, Next, ~Confirm
    PROVE  WindowInv'
<1>1. fcr' = fcr
  BY DEF Next, Start, Advance, AdvanceOrphaned, Open, Hear, Close, Collect, PlanEpoch,
         ProveGroup, Fold, Final, NextEpoch, Settle, FetchNode, ReplaySlot, Bench, Bootstrap,
         SubmitEpochDiff, SubmitFinality
<1>2. CASE fcr = <<>>
  BY <1>1, <1>2 DEF WindowInv
<1>3. CASE fcr # <<>>
  <2>1. phase = "confirmed" /\ WindowIsItsBatches
    BY <1>3 DEF WindowInv
  <2>2. Bootstrap \/ SubmitEpochDiff \/ SubmitFinality
    BY <2>1 DEF Next, Start, Advance, AdvanceOrphaned, Open, Hear, Close, Collect, PlanEpoch,
         ProveGroup, Fold, Final, NextEpoch, Settle, FetchNode, ReplaySlot, Bench
  <2>3. UNCHANGED <<world, phase, agg, cast, fcr>>
    BY <2>2 DEF Bootstrap, SubmitEpochDiff, SubmitFinality
  <2>4. WindowIsItsBatches'
    BY <2>1, <2>3 DEF WindowIsItsBatches, WeightOf, VotersIn, HasBlock, CanonicalHead
  <2> QED
    BY <2>1, <2>3, <2>4 DEF WindowInv
<1> QED
  BY <1>2, <1>3

(***************************************************************************)
(* Wherever a window of slots that follow one another is cut, its two      *)
(* batches join (fcr-verifier), to the window the one batch proves; joined *)
(* they confirm nothing the one does not, and are credited with no more    *)
(* than the balance of the votes for each slot's head (fcr-proof-guest,    *)
(* gen_fcr_witness).                                                       *)
(***************************************************************************)
THEOREM WindowIsProvenInParts == Spec => []WindowIsItsBatches
<1>1. Init => WindowInv
  BY DEF Init, WindowInv
<1>2. WeighInv /\ WindowInv /\ [Next]_vars => WindowInv'
  <2> SUFFICES ASSUME WeighInv, WindowInv, [Next]_vars PROVE WindowInv'
    OBVIOUS
  <2>1. CASE Confirm
    BY <2>1, ConfirmDraws
  <2>2. CASE Next /\ ~Confirm
    BY <2>2, WindowStays
  <2>3. CASE UNCHANGED vars
    <3>1. UNCHANGED <<world, phase, agg, cast, fcr>>
      BY <2>3 DEF vars
    <3>2. WindowIsItsBatches => WindowIsItsBatches'
      BY <3>1 DEF WindowIsItsBatches, WeightOf, VotersIn, HasBlock, CanonicalHead
    <3> QED
      BY <3>1, <3>2 DEF WindowInv
  <2> QED
    BY <2>1, <2>2, <2>3
<1>3. WindowInv => WindowIsItsBatches
  BY DEF WindowInv, WindowIsItsBatches
<1> QED
  BY WeighInvariant, <1>1, <1>2, <1>3, PTL DEF Spec

=============================================================================
