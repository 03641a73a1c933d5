--------------------------- MODULE ProofPathProofs ---------------------------
(***************************************************************************)
(* Proofs about ProofPath, for any number of validators, slots and epochs, *)
(* any registries, any votes and any choice of groups, folds and plans.    *)
(***************************************************************************)
EXTENDS ProofPath, StreamPlanProofs

-----------------------------------------------------------------------------
(* The diff: the accumulator and the total it moves to are those of the    *)
(* registry it moves to.                                                   *)

Delta(w) ==
    [i \in DOMAIN w.mutations |->
        NewLeaf(w.mutations[i], w.epoch_2) - OldBalance(w.mutations[i], w.epoch_1)]

\* The guest's running total.
LEMMA DiffTotalIs ==
    ASSUME NEW w, NEW n \in Nat, DOMAIN w.mutations = 1 .. n,
           w.total_active_balance_1 \in Int,
           \A i \in 1 .. n : Delta(w)[i] \in Int
    PROVE  \E h : /\ IsAdditive(h, Delta(w), 1 .. n)
                  /\ h[{}] = w.total_active_balance_1
                  /\ EpochDiffOutput(w).accumulator_commitment.total = h[1 .. n]
<1> DEFINE D == 1 .. n
           choice == [s \in SUBSET D |-> Max(s)]
           base == w.total_active_balance_1
           Unfolds(h) ==
              h = [s \in SUBSET D |->
                      IF s = {} THEN base
                      ELSE (NewLeaf(w.mutations[Max(s)], w.epoch_2)
                              - OldBalance(w.mutations[Max(s)], w.epoch_1))
                           + h[s \ {Max(s)}]]
           h == CHOOSE f : Unfolds(f)
<1>1. IsFiniteSet(D) /\ D \in SUBSET Int
  BY FS_Interval
<1>2. \A s \in SUBSET D : s # {} => choice[s] \in s
  <2> SUFFICES ASSUME NEW s \in SUBSET D, s # {} PROVE Max(s) \in s
    OBVIOUS
  <2>1. IsFiniteSet(s) /\ s \in SUBSET Int
    BY <1>1, FS_Subset
  <2> QED
    BY <2>1, FiniteMax
<1>3. \A f : IsSum(f, choice, Delta(w), base, D) <=> Unfolds(f)
  <2>1. \A s \in SUBSET D : s # {} =>
           Delta(w)[choice[s]] = NewLeaf(w.mutations[Max(s)], w.epoch_2)
                                   - OldBalance(w.mutations[Max(s)], w.epoch_1)
    BY <1>2 DEF Delta
  <2>2. \A s \in SUBSET D : choice[s] = Max(s)
    OBVIOUS
  <2> HIDE DEF D, choice, base
  <2> SUFFICES ASSUME NEW f
               PROVE  IsSum(f, choice, Delta(w), base, D) <=> Unfolds(f)
    OBVIOUS
  <2>3. [s \in SUBSET D |->
            IF s = {} THEN base ELSE Delta(w)[choice[s]] + f[s \ {choice[s]}]]
        = [s \in SUBSET D |->
            IF s = {} THEN base
            ELSE (NewLeaf(w.mutations[Max(s)], w.epoch_2)
                    - OldBalance(w.mutations[Max(s)], w.epoch_1)) + f[s \ {Max(s)}]]
    BY <2>1, <2>2
  <2> QED
    BY <2>3 DEF IsSum
<1>4. \E f : IsSum(f, choice, Delta(w), base, D)
  <2> HIDE DEF choice, D, base
  <2> QED
    BY <1>1, <1>2, SumExists DEF Chooses
<1>5. Unfolds(h)
  <2> HIDE DEF Unfolds
  <2> QED
    BY <1>3, <1>4
<1>6. EpochDiffOutput(w).accumulator_commitment.total = h[D]
  BY SMT DEF EpochDiffOutput, commitment, FoldLeft, MapThenFoldSet
<1> HIDE DEF h
<1>7. IsSum(h, choice, Delta(w), base, D)
  BY <1>3, <1>5
<1> HIDE DEF choice, Unfolds
<1>8. IsAdditive(h, Delta(w), D) /\ h[{}] = base
  <2>1. base \in Int /\ \A i \in D : Delta(w)[i] \in Int
    OBVIOUS
  <2> HIDE DEF D, base
  <2> QED
    <3> DEFINE d == Delta(w)
    <3>1. IsFiniteSet(D) /\ base \in Int
      BY <1>1, <2>1
    <3>2. Chooses(choice, D)
      BY <1>2 DEF Chooses
    <3>3. IsIntegral(d, D)
      BY <2>1 DEF IsIntegral
    <3>4. IsSum(h, choice, d, base, D)
      BY <1>7
    <3> HIDE DEF d
    <3>5. IsAdditive(h, d, D) /\ h[{}] = base
      BY <3>1, <3>2, <3>3, <3>4, SumIsAdditive
    <3> QED
      BY <3>5 DEF d
<1> QED
  BY <1>6, <1>8

\* A sum along an order without repetition is the sum over what it lists.
LEMMA SumAlong ==
    ASSUME NEW S, IsFiniteSet(S), NEW d, NEW g, IsAdditive(g, d, S),
           NEW n \in Nat, NEW order \in [1 .. n -> S],
           \A i, j \in 1 .. n : order[i] = order[j] => i = j,
           NEW delta, \A i \in 1 .. n : delta[i] = d[order[i]] /\ delta[i] \in Int,
           NEW h, IsAdditive(h, delta, 1 .. n)
    PROVE  h[1 .. n] - h[{}] = g[{order[i] : i \in 1 .. n}] - g[{}]
<1> DEFINE Image(t) == {order[i] : i \in t}
           k == [t \in SUBSET (1 .. n) |-> g[Image(t)]]
           zero == [i \in 1 .. n |-> 0]
           z == [t \in SUBSET (1 .. n) |-> 0]
<1>1. \A t \in SUBSET (1 .. n) : Image(t) \in SUBSET S /\ k[t] = g[Image(t)]
  OBVIOUS
<1>2. ASSUME NEW t \in SUBSET (1 .. n), NEW i \in t
      PROVE  k[t] = delta[i] + k[t \ {i}]
  <2>1. order[i] \in Image(t) /\ i \in 1 .. n
    OBVIOUS
  <2>2. Image(t \ {i}) = Image(t) \ {order[i]}
    OBVIOUS
  <2>3. g[Image(t)] = d[order[i]] + g[Image(t) \ {order[i]}]
    <3>1. \A s \in SUBSET S : \A x \in s : g[s] = d[x] + g[s \ {x}]
      BY DEF IsAdditive
    <3>2. Image(t) \in SUBSET S
      BY <1>1
    <3> HIDE DEF Image
    <3> QED
      BY <2>1, <3>1, <3>2
  <2> QED
    BY <1>1, <2>1, <2>2, <2>3
<1>3. IsAdditive(k, delta, 1 .. n)
  <2>1. \A t \in SUBSET (1 .. n) : g[Image(t)] \in Int
    BY <1>1 DEF IsAdditive
  <2>2. k \in [SUBSET (1 .. n) -> Int]
    BY <2>1
  <2> HIDE DEF k
  <2> QED
    BY <1>2, <2>2 DEF IsAdditive
<1>4. IsAdditive(z, zero, 1 .. n) /\ z[1 .. n] = 0 /\ z[{}] = 0
  BY DEF IsAdditive
<1>5. IsFiniteSet(1 .. n)
  BY FS_Interval
<1>6. \A i \in 1 .. n : delta[i] \in Int /\ zero[i] \in Int /\ delta[i] = delta[i] + zero[i]
  OBVIOUS
<1>7. Image({}) = {} /\ {} \in SUBSET (1 .. n) /\ 1 .. n \in SUBSET (1 .. n)
  OBVIOUS
<1> HIDE DEF k, z, zero, Image
<1>8. h[1 .. n] - h[{}] = (k[1 .. n] - k[{}]) + (z[1 .. n] - z[{}])
  <2> DEFINE D == 1 .. n
  <2>1. /\ IsFiniteSet(D) /\ D \in SUBSET D
        /\ IsAdditive(h, delta, D) /\ IsAdditive(k, delta, D) /\ IsAdditive(z, zero, D)
        /\ \A i \in D : delta[i] \in Int /\ zero[i] \in Int /\ delta[i] = delta[i] + zero[i]
    BY <1>3, <1>4, <1>5, <1>6
  <2> HIDE DEF D
  <2>2. \A s \in SUBSET D : h[s] - h[{}] = (k[s] - k[{}]) + (z[s] - z[{}])
    BY <2>1, AdditiveSplits
  <2> QED
    BY <2>1, <2>2 DEF D
<1>9. k[1 .. n] \in Int /\ k[{}] \in Int
  BY <1>3, <1>7 DEF IsAdditive
<1>10. h[1 .. n] - h[{}] = k[1 .. n] - k[{}]
  BY <1>4, <1>8, <1>9
<1> QED
  BY <1>1, <1>7, <1>10 DEF Image

\* A registry's accumulator and its total.
Anchor(registry, e) == commitment(AccTree(registry, e), TotalActive(registry, e))

\* What a validator weighs in an epoch, and nothing if not registered.
Weighs(registry, e, v) ==
    IF v \in DOMAIN registry THEN active_effective_balance(registry[v], e) ELSE 0

\* The registries of the epochs proven.
IsRegistry(registry) ==
    /\ DOMAIN registry \in SUBSET Validators
    /\ \A v \in DOMAIN registry : registry[v].balance \in Nat

LEMMA ValidatorsAre ==
    /\ Validators = 0 .. (ValidatorCount - 1)
    /\ IsFiniteSet(Validators) /\ Validators \in SUBSET Int
<1>1. ValidatorCount \in Nat
  BY ValidatorCountAssumption
<1>2. Validators = 0 .. (ValidatorCount - 1)
  BY DEF Validators, Indices
<1> QED
  BY <1>1, <1>2, FS_Interval

LEMMA WeightType ==
    ASSUME NEW registry, IsRegistry(registry), NEW e
    PROVE  /\ \A v : Weighs(registry, e, v) \in Int
           /\ \A v \in DOMAIN registry :
                 /\ active_effective_balance(registry[v], e) = Weighs(registry, e, v)
                 /\ active_effective_balance(registry[v], e) \in Int
<1> QED
  BY DEF IsRegistry, Weighs, active_effective_balance

\* The total is the sum over any set that holds everyone registered.
LEMMA TotalOver ==
    ASSUME NEW S \in SUBSET Validators, NEW registry, IsRegistry(registry),
           DOMAIN registry \in SUBSET S, NEW e,
           NEW g, IsAdditive(g, [v \in S |-> Weighs(registry, e, v)], S), g[{}] = 0
    PROVE  g[S] = TotalActive(registry, e)
<1> DEFINE D == DOMAIN registry
           d == [v \in S |-> Weighs(registry, e, v)]
           values == [v \in D |-> active_effective_balance(registry[v], e)]
           zero == [v \in D |-> 0]
           z == [s \in SUBSET D |-> 0]
           r == [s \in SUBSET D |-> g[s]]
<1>1. IsFiniteSet(S) /\ IsFiniteSet(D)
  BY ValidatorsAre, FS_Subset
<1>2. \A v \in D : values[v] \in Int /\ values[v] = d[v]
  BY WeightType
<1>3. PICK f : IsAdditive(f, values, D) /\ f[{}] = 0 /\ SumOf(values) = f[D]
  <2>1. DOMAIN values = D
    OBVIOUS
  <2> HIDE DEF values, D
  <2> QED
    BY <1>1, <1>2, <2>1, SumOfIs
<1>4. IsAdditive(r, values, D)
  <2>1. \A s \in SUBSET D : s \in SUBSET S
    OBVIOUS
  <2>2. r \in [SUBSET D -> Int]
    BY <2>1 DEF IsAdditive
  <2>3. ASSUME NEW s \in SUBSET D, NEW x \in s PROVE r[s] = values[x] + r[s \ {x}]
    <3>1. s \ {x} \in SUBSET D /\ s \in SUBSET S
      OBVIOUS
    <3>2. g[s] = d[x] + g[s \ {x}]
      BY <3>1 DEF IsAdditive
    <3>3. d[x] = values[x]
      BY <1>2
    <3> QED
      BY <3>1, <3>2, <3>3
  <2> HIDE DEF r, values, D
  <2> QED
    BY <2>2, <2>3 DEF IsAdditive
<1>5. IsAdditive(z, zero, D)
  BY DEF IsAdditive
<1>6. r[D] = f[D]
  <2>1. \A x \in D : values[x] \in Int /\ zero[x] \in Int /\ values[x] = values[x] + zero[x]
    BY <1>2
  <2>2. z[D] = 0 /\ z[{}] = 0 /\ r[{}] = 0 /\ f[{}] = 0
    BY <1>3
  <2>3. r[D] \in Int /\ f[D] \in Int
    BY <1>3, <1>4 DEF IsAdditive
  <2> HIDE DEF z, r, zero, values, D
  <2>4. \A s \in SUBSET D : r[s] - r[{}] = (f[s] - f[{}]) + (z[s] - z[{}])
    BY <1>1, <1>3, <1>4, <1>5, <2>1, AdditiveSplits
  <2>5. r[D] - r[{}] = (f[D] - f[{}]) + (z[D] - z[{}])
    BY <2>4
  <2> QED
    BY <2>2, <2>3, <2>5
<1>7. g[S] = g[D]
  <2>1. \A x \in S \ D : d[x] = 0
    BY DEF Weighs
  <2> HIDE DEF d, D
  <2> QED
    BY <1>1, <2>1, AdditiveSkipsZero DEF d, D
<1>8. SumOf(values) = TotalActive(registry, e)
  BY DEF TotalActive
<1>9. r[D] = g[D]
  OBVIOUS
<1> QED
  BY <1>3, <1>6, <1>7, <1>8, <1>9

\* Whoever is not among the mutations weighs what they weighed.
LEMMA UnchangedWeigh ==
    ASSUME NEW old, NEW new, NEW e1, NEW e2, NEW v \in DOMAIN new,
           v \notin find_mutations(old, new, e1, e2)
    PROVE  /\ v \in DOMAIN old
           /\ active_effective_balance(old[v], e1) = active_effective_balance(new[v], e2)
<1>1. v \in DOMAIN old /\ old[v] = new[v] /\ (is_active(new[v], e1) <=> is_active(new[v], e2))
  BY DEF find_mutations, is_active
<1> QED
  BY <1>1 DEF active_effective_balance

\* A state of validators some of which a state before it may have.
IsAfter(state_2, state_1) ==
    /\ IsRegistry(state_1.registry) /\ IsRegistry(state_2.registry)
    /\ DOMAIN state_1.registry \in SUBSET DOMAIN state_2.registry

\* The diff between two states, by a host that holds the accumulator of the first.
DiffOf(state_1, root_1, state_2) ==
    build_held(AccTree(state_1.registry, EpochOf(state_1.slot)),
               TotalActive(state_1.registry, EpochOf(state_1.slot)), state_1, root_1, state_2)

\* The host's accumulator after a diff, and the guest's, are the new registry's.
LEMMA DiffAnchors ==
    ASSUME NEW state_1, NEW state_2, NEW root_1, IsAfter(state_2, state_1),
           NEW b, b = DiffOf(state_1, root_1, state_2),
           b.witness.mutations # <<>>
    PROVE  /\ b.tree = AccTree(state_2.registry, EpochOf(state_2.slot))
           /\ b.total = TotalActive(state_2.registry, EpochOf(state_2.slot))
           /\ EpochDiffOutput(b.witness).accumulator_commitment
                 = Anchor(state_2.registry, EpochOf(state_2.slot))
           /\ EpochDiffOutput(b.witness).state_root_1 = root_1
           /\ EpochDiffOutput(b.witness).state_root_2 = hash_tree_root(state_2)
<1> DEFINE old == state_1.registry
           new == state_2.registry
           e1 == EpochOf(state_1.slot)
           e2 == EpochOf(state_2.slot)
           tree == AccTree(old, e1)
           indices == find_mutations(old, new, e1, e2)
           order == InOrder(indices)
           n == Cardinality(indices)
           w == b.witness
<1>0. IsRegistry(old) /\ IsRegistry(new) /\ DOMAIN old \in SUBSET DOMAIN new
  BY DEF IsAfter
<1>1. indices \in SUBSET DOMAIN new /\ indices \in SUBSET Validators /\ IsFiniteSet(indices)
  <2>1. indices \in SUBSET DOMAIN new
    BY DEF find_mutations
  <2> QED
    BY <1>0, <2>1, ValidatorsAre, FS_Subset DEF IsRegistry
<1>2. /\ order \in [1 .. n -> indices] /\ n \in Nat
      /\ \A i, j \in 1 .. n : i < j => order[i] < order[j]
      /\ \A x \in indices : \E i \in 1 .. n : order[i] = x
  <2>1. indices \in SUBSET Int
    BY <1>1, ValidatorsAre
  <2> HIDE DEF indices
  <2> QED
    BY <1>1, <2>1, InOrderSorts
<1>3. /\ w.mutations
           = [i \in 1 .. n |->
                [validator_index |-> order[i], is_new |-> order[i] \notin DOMAIN old,
                 old_data |-> IF order[i] \in DOMAIN old THEN old[order[i]] ELSE NoValidator,
                 new_data |-> new[order[i]],
                 acc_siblings |-> Moved(tree, new, e2, {order[j] : j \in 1 .. i - 1})]]
      /\ w.epoch_1 = e1 /\ w.epoch_2 = e2 /\ w.state_root_1 = root_1
      /\ w.state_root_2 = hash_tree_root(state_2)
      /\ w.total_active_balance_1 = TotalActive(old, e1)
      /\ b.tree = Moved(tree, new, e2, indices) /\ b.total = TotalActive(new, e2)
  <2>1. DOMAIN order = 1 .. n
    BY <1>2
  <2> QED
    BY <2>1 DEF build_held, DiffOf
<1> HIDE DEF w, order, n
<1>4. DOMAIN w.mutations = 1 .. n /\ n # 0 /\ Last(w.mutations) = w.mutations[n]
  <2>1. DOMAIN w.mutations = 1 .. n
    BY <1>3
  <2>2. w.mutations \in [1 .. n -> {w.mutations[i] : i \in 1 .. n}]
    BY <1>3
  <2>3. Len(w.mutations) = n
    <3> DEFINE q == w.mutations
               M == {q[i] : i \in 1 .. n}
    <3>1. q \in [1 .. n -> M]
      BY <2>2
    <3> HIDE DEF q, M
    <3>2. Len(q) = n
      BY <1>2, <3>1
    <3> QED
      BY <3>2 DEF q
  <2>4. n # 0
    BY <2>3 DEF w
  <2> QED
    BY <2>1, <2>3, <2>4 DEF Last
<1>5. Moved(tree, new, e2, indices) = AccTree(new, e2)
  <2>1. ASSUME NEW v \in Validators
        PROVE  (IF v \in indices THEN active_effective_balance(new[v], e2) ELSE tree[v])
                  = (IF v \in DOMAIN new THEN active_effective_balance(new[v], e2) ELSE Zero)
    <3>1. tree[v] = IF v \in DOMAIN old THEN active_effective_balance(old[v], e1) ELSE Zero
      BY DEF AccTree
    <3>2. v \in DOMAIN new /\ v \notin indices =>
             /\ v \in DOMAIN old
             /\ active_effective_balance(old[v], e1) = active_effective_balance(new[v], e2)
      BY UnchangedWeigh
    <3> HIDE DEF indices, tree
    <3> QED
      BY <1>0, <1>1, <3>1, <3>2
  <2> QED
    BY <2>1 DEF Moved, AccTree
<1>6. LET m == w.mutations[n]
      IN compute_root(NewLeaf(m, w.epoch_2), m.validator_index, m.acc_siblings)
            = Moved(tree, new, e2, indices)
  <2>1. n \in 1 .. n
    BY <1>2, <1>4
  <2> DEFINE before == {order[j] : j \in 1 .. n - 1}
             x == order[n]
  <2>2. /\ w.mutations[n].new_data = new[x] /\ w.mutations[n].validator_index = x
        /\ w.mutations[n].acc_siblings = Moved(tree, new, e2, before)
    BY <1>3, <2>1
  <2>3. indices = before \cup {x} /\ x \in Validators
    <3>1. \A i \in 1 .. n : i = n \/ i \in 1 .. n - 1
      BY <1>2
    <3>2. \A i \in 1 .. n - 1 : i \in 1 .. n
      BY <1>2
    <3> QED
      BY <1>1, <1>2, <2>1, <3>1, <3>2
  <2> HIDE DEF before, x, indices, tree
  <2>4. [Moved(tree, new, e2, before) EXCEPT ![x] = active_effective_balance(new[x], e2)]
           = Moved(tree, new, e2, indices)
    BY <2>3 DEF Moved
  <2> QED
    BY <1>3, <2>2, <2>4 DEF compute_root, NewLeaf
<1>7. EpochDiffOutput(w).accumulator_commitment.total = TotalActive(new, e2)
  <2> DEFINE S == DOMAIN new
             dOld == [v \in S |-> Weighs(old, e1, v)]
             dNew == [v \in S |-> Weighs(new, e2, v)]
             diff == [v \in S |-> dNew[v] - dOld[v]]
  <2>1. IsFiniteSet(S) /\ S \in SUBSET Validators
    BY <1>0, ValidatorsAre, FS_Subset DEF IsRegistry
  <2>2. \A v \in S : dOld[v] \in Int /\ dNew[v] \in Int /\ diff[v] \in Int
    BY <1>0, WeightType
  <2>2a. \A v \in S : diff[v] = dNew[v] - dOld[v]
    <3> HIDE DEF dOld, dNew
    <3> QED
      OBVIOUS
  <2> HIDE DEF dOld, dNew, diff
  <2>3. \A d : (\A v \in S : d[v] \in Int) => \E g : IsAdditive(g, d, S) /\ g[{}] = 0
    <3> SUFFICES ASSUME NEW d, \A v \in S : d[v] \in Int
                 PROVE  \E g : IsAdditive(g, d, S) /\ g[{}] = 0
      OBVIOUS
    <3> DEFINE choice == [s \in SUBSET S |-> CHOOSE v \in s : TRUE]
    <3>1. Chooses(choice, S)
      BY DEF Chooses
    <3> HIDE DEF choice, S
    <3>2. PICK g : IsSum(g, choice, d, 0, S)
      BY <2>1, <3>1, SumExists
    <3>3. IsAdditive(g, d, S) /\ g[{}] = 0
      BY <2>1, <3>1, <3>2, SumIsAdditive DEF IsIntegral
    <3> QED
      BY <3>3
  <2>4. PICK g1 : IsAdditive(g1, dOld, S) /\ g1[{}] = 0
    BY <2>2, <2>3
  <2>5. PICK g2 : IsAdditive(g2, dNew, S) /\ g2[{}] = 0
    BY <2>2, <2>3
  <2>6. PICK g3 : IsAdditive(g3, diff, S) /\ g3[{}] = 0
    BY <2>2, <2>3
  <2>7. g1[S] = TotalActive(old, e1) /\ g2[S] = TotalActive(new, e2)
    BY <1>0, <2>1, <2>4, <2>5, TotalOver DEF dOld, dNew
  <2>8. g2[S] = g1[S] + g3[S] /\ g1[S] \in Int /\ g2[S] \in Int /\ g3[S] \in Int
    <3>1. \A v \in S : dOld[v] \in Int /\ diff[v] \in Int /\ dNew[v] = dOld[v] + diff[v]
      BY <2>2, <2>2a
    <3>2. g1[S] \in Int /\ g2[S] \in Int /\ g3[S] \in Int
      BY <2>4, <2>5, <2>6 DEF IsAdditive
    <3> HIDE DEF S
    <3>3. \A s \in SUBSET S : g2[s] - g2[{}] = (g1[s] - g1[{}]) + (g3[s] - g3[{}])
      <4>1. IsFiniteSet(S)
        BY <2>1
      <4>2. IsAdditive(g2, dNew, S) /\ IsAdditive(g1, dOld, S) /\ IsAdditive(g3, diff, S)
        BY <2>4, <2>5, <2>6
      <4> QED
        BY <3>1, <4>1, <4>2, AdditiveSplits
    <3>4. g2[S] - g2[{}] = (g1[S] - g1[{}]) + (g3[S] - g3[{}])
      BY <3>3
    <3> QED
      BY <2>4, <2>5, <2>6, <3>2, <3>4
  <2>9. g3[S] = g3[indices]
    <3>1. \A v \in S \ indices : diff[v] = 0
      <4> SUFFICES ASSUME NEW v \in S, v \notin indices PROVE diff[v] = 0
        OBVIOUS
      <4>1. /\ v \in DOMAIN old
            /\ active_effective_balance(old[v], e1) = active_effective_balance(new[v], e2)
        BY UnchangedWeigh
      <4>2. dOld[v] = dNew[v]
        BY <4>1 DEF dOld, dNew, Weighs
      <4> QED
        BY <2>2, <2>2a, <4>2
    <3> HIDE DEF S, indices
    <3> QED
      BY <1>1, <2>1, <2>6, <3>1, AdditiveSkipsZero DEF S
  <2>10. ASSUME NEW i \in 1 .. n
         PROVE  Delta(w)[i] = diff[order[i]] /\ Delta(w)[i] \in Int
    <3>1. order[i] \in S
      BY <1>1, <1>2
    <3> DEFINE x == order[i]
               m == w.mutations[i]
    <3>2. /\ m.new_data = new[x]
          /\ m.is_new = (x \notin DOMAIN old)
          /\ m.old_data = IF x \in DOMAIN old THEN old[x] ELSE NoValidator
      BY <1>3
    <3>3. Delta(w)[i] = NewLeaf(m, e2) - OldBalance(m, e1)
      BY <1>3, <1>4 DEF Delta
    <3>4. NewLeaf(m, e2) = dNew[x] /\ OldBalance(m, e1) = dOld[x]
      BY <3>1, <3>2 DEF NewLeaf, OldBalance, dNew, dOld, Weighs
    <3> QED
      BY <2>2, <2>2a, <3>1, <3>3, <3>4
  <2>11. TotalActive(old, e1) \in Int
    BY <2>7, <2>8
  <2>12. PICK h : /\ IsAdditive(h, Delta(w), 1 .. n) /\ h[{}] = TotalActive(old, e1)
                  /\ EpochDiffOutput(w).accumulator_commitment.total = h[1 .. n]
    <3>1. n \in Nat /\ DOMAIN w.mutations = 1 .. n
      BY <1>2, <1>4
    <3>2. w.total_active_balance_1 = TotalActive(old, e1)
      BY <1>3
    <3>3. w.total_active_balance_1 \in Int
      BY <2>11, <3>2
    <3>4. \A i \in 1 .. n : Delta(w)[i] \in Int
      BY <2>10
    <3> QED
      <4>1. \E h : /\ IsAdditive(h, Delta(w), 1 .. n) /\ h[{}] = w.total_active_balance_1
                   /\ EpochDiffOutput(w).accumulator_commitment.total = h[1 .. n]
        BY <3>1, <3>3, <3>4, DiffTotalIs
      <4> QED
        BY <3>2, <4>1
  <2>13. h[1 .. n] - h[{}] = g3[indices] - g3[{}]
    <3>1. {order[i] : i \in 1 .. n} = indices
      BY <1>2
    <3>2. \A i, j \in 1 .. n : order[i] = order[j] => i = j
      <4> SUFFICES ASSUME NEW i \in 1 .. n, NEW j \in 1 .. n, order[i] = order[j], i # j
                   PROVE  FALSE
        OBVIOUS
      <4>1. order[i] < order[j] \/ order[j] < order[i]
        BY <1>2
      <4>2. order[i] \in Int
        BY <1>1, <1>2, ValidatorsAre
      <4> QED
        BY <4>1, <4>2
    <3>3. order \in [1 .. n -> S]
      BY <1>1, <1>2
    <3>4. \A i \in 1 .. n : Delta(w)[i] = diff[order[i]] /\ Delta(w)[i] \in Int
      BY <2>10
    <3> HIDE DEF S, indices
    <3>5. h[1 .. n] - h[{}] = g3[{order[i] : i \in 1 .. n}] - g3[{}]
      <4>1. IsFiniteSet(S) /\ IsAdditive(g3, diff, S) /\ n \in Nat
        BY <1>2, <2>1, <2>6
      <4>2. IsAdditive(h, Delta(w), 1 .. n)
        BY <2>12
      <4> QED
        BY <3>2, <3>3, <3>4, <4>1, <4>2, SumAlong
    <3> QED
      BY <3>1, <3>5
  <2>14. h[1 .. n] \in Int
    BY <2>12 DEF IsAdditive
  <2> QED
    BY <2>6, <2>7, <2>8, <2>9, <2>11, <2>12, <2>13, <2>14
<1>8. EpochDiffOutput(w).accumulator_commitment
         = commitment(AccTree(new, e2), EpochDiffOutput(w).accumulator_commitment.total)
  BY <1>4, <1>5, <1>6 DEF EpochDiffOutput, commitment
<1>9. /\ EpochDiffOutput(w).state_root_1 = root_1
      /\ EpochDiffOutput(w).state_root_2 = hash_tree_root(state_2)
  BY <1>3 DEF EpochDiffOutput
<1> QED
  BY <1>3, <1>5, <1>7, <1>8, <1>9 DEF Anchor, w

-----------------------------------------------------------------------------
(* What is held and published is of the chain.                             *)

Epochs == 1 .. LastEpoch

\* The phases an epoch's record is still to come in, and those a ledger is
\* held in.
Deciding == {"open", "hear", "close", "collect", "plan", "stream"}
Advancing == {"advance", "reorged"}
Underway == Deciding \cup Advancing \cup {"decided"}

\* The accumulator, and the registry it was read at, of an epoch's boundary.
LedgerIs(e) ==
    /\ ledger.state.slot = Boundary(e) /\ ledger.state.registry = world.registry[e]
    /\ ledger.tree = AccTree(world.registry[e], e)
    /\ ledger.total = TotalActive(world.registry[e], e)

AnchoredAt(acc, state_root) ==
    LET e == EpochOf(state_root.slot) IN acc = Anchor(world.registry[e], e)

Finalizes(block_root, state_root) ==
    \E f \in Epochs : /\ block_root = chain[f].root
                      /\ state_root = hash_tree_root(chain[f].state)

\* What the contract would take a published proof for.
IsAnchored(p) ==
    /\ p.program = "bootstrap" =>
          AnchoredAt(p.output.accumulator_commitment, p.output.state_root)
    /\ p.program = "epoch_diff" =>
          AnchoredAt(p.output.accumulator_commitment, p.output.state_root_2)
    /\ p.program = "finalization" =>
          Finalizes(p.output.finalized.root, p.output.finalized_state_root)

Fixed == world \in Worlds /\ chain = ChainOf(world) /\ epoch \in Epochs

LedgerHeld ==
    phase \in Underway =>
        /\ DOMAIN ledger = {"tree", "total", "state", "root", "last", "diff", "published"}
        /\ \E e \in 1 .. epoch : LedgerIs(e)

\* A justification of an earlier epoch is held from the second one on.
RecordIsEarlier ==
    /\ phase \in Advancing => epoch # 1
    /\ phase \in Deciding /\ ledger.last # NoProof => epoch # 1

\* What is of the chain is published, and the contract takes nothing else.
PublishedIsAnchored == \A p \in ledger.published : IsAnchored(p)

ContractIsAnchored ==
    contract.initialized =>
        /\ DOMAIN contract = {"initialized", "accumulatorCommitment", "latestStateRoot",
                              "latestFinalizedBlockRoot", "latestFinalizedStateRoot"}
        /\ AnchoredAt(contract.accumulatorCommitment, contract.latestStateRoot)
        /\ \/ contract.latestFinalizedBlockRoot = NoBlock
           \/ Finalizes(contract.latestFinalizedBlockRoot, contract.latestFinalizedStateRoot)

AnchorInv ==
    Fixed /\ LedgerHeld /\ RecordIsEarlier /\ PublishedIsAnchored /\ ContractIsAnchored

LEMMA EpochOfBoundary ==
    ASSUME NEW e \in Nat PROVE EpochOf(Boundary(e)) = e
<1>1. SlotCount \in Nat \ {0}
  BY ShuffleAssumption
<1> QED
  BY <1>1 DEF EpochOf, Boundary

\* What the model assumes of the world and what the chain is of it.
LEMMA ChainIs ==
    ASSUME Fixed
    PROVE  /\ LastEpoch \in Nat \ {0} /\ world.serves \in Epochs
           /\ \A e \in Epochs :
                 /\ IsRegistry(world.registry[e])
                 /\ chain[e].state = [slot |-> Boundary(e), fork |-> 0,
                                      registry |-> world.registry[e]]
                 /\ e # 1 => /\ e - 1 \in Epochs
                             /\ chain[e].header.recorded.block = chain[e - 1].root
                             /\ chain[e].header.recorded.state
                                   = hash_tree_root(chain[e - 1].state)
           /\ \A d, e \in Epochs : d <= e =>
                 DOMAIN world.registry[d] \in SUBSET DOMAIN world.registry[e]
<1>1. /\ LastEpoch \in Nat \ {0} /\ world.serves \in Epochs
      /\ \A e \in Epochs : IsRegistry(world.registry[e])
      /\ \A d, e \in Epochs : d <= e =>
            DOMAIN world.registry[d] \in SUBSET DOMAIN world.registry[e]
  BY ProofPathAssumption DEF Fixed, Epochs, IsRegistry
<1>2. ASSUME NEW e \in Epochs
      PROVE  /\ chain[e].state = [slot |-> Boundary(e), fork |-> 0,
                                  registry |-> world.registry[e]]
             /\ e # 1 => /\ e - 1 \in Epochs
                         /\ chain[e].header.recorded.block = chain[e - 1].root
                         /\ chain[e].header.recorded.state
                               = hash_tree_root(chain[e - 1].state)
  <2>1. e \in 0 .. LastEpoch /\ e \in Nat /\ ~(e < 1)
    BY <1>1 DEF Epochs
  <2>2. chain[e].state = [slot |-> Boundary(e), fork |-> 0, registry |-> world.registry[e]]
    BY <2>1 DEF Fixed, ChainOf
  <2>3. ASSUME e # 1
        PROVE  /\ e - 1 \in Epochs
               /\ chain[e].header.recorded.block = chain[e - 1].root
               /\ chain[e].header.recorded.state = hash_tree_root(chain[e - 1].state)
    <3>1. e - 1 \in Epochs /\ e - 1 \in 0 .. LastEpoch
      BY <1>1, <2>1, <2>3 DEF Epochs
    <3> QED
      BY <2>1, <3>1 DEF Fixed, ChainOf
  <2> QED
    BY <2>2, <2>3
<1> QED
  BY <1>1, <1>2

LEMMA BranchesAre ==
    ASSUME Fixed, NEW e \in Epochs, NEW state \in Branches(e)
    PROVE  state.slot = Boundary(e) /\ state.registry = world.registry[e]
<1>1. chain[e].state = [slot |-> Boundary(e), fork |-> 0, registry |-> world.registry[e]]
  BY ChainIs
<1> QED
  BY <1>1 DEF Branches, OrphanState

\* What is anchored stays so.
LEMMA AnchoredStays ==
    ASSUME UNCHANGED <<world, chain>>
    PROVE  /\ \A p : IsAnchored(p) => IsAnchored(p)'
           /\ ContractIsAnchored /\ UNCHANGED contract => ContractIsAnchored'
           /\ \A e : /\ UNCHANGED ledger /\ LedgerIs(e) => LedgerIs(e)'
<1>1. \A acc, root : AnchoredAt(acc, root) => AnchoredAt(acc, root)'
  BY DEF AnchoredAt
<1>2. \A block, root : Finalizes(block, root) => Finalizes(block, root)'
  BY DEF Finalizes
<1>3. \A p : IsAnchored(p) => IsAnchored(p)'
  BY <1>1, <1>2 DEF IsAnchored
<1>4. ContractIsAnchored /\ UNCHANGED contract => ContractIsAnchored'
  BY DEF ContractIsAnchored, AnchoredAt, Finalizes
<1>5. \A e : UNCHANGED ledger /\ LedgerIs(e) => LedgerIs(e)'
  BY DEF LedgerIs
<1> QED
  BY <1>3, <1>4, <1>5

\* An init point as it is taken of a node.
LEMMA TakenIs ==
    ASSUME Fixed, NEW e \in Epochs, NEW init \in TakenAt(e)
    PROVE  /\ init = [chain |-> "chain", epoch |-> e, state_root |-> init.state_root,
                      num_validators |-> init.num_validators,
                      total_active_balance |-> TotalActive(world.registry[e], e),
                      acc_root |-> AccTree(world.registry[e], e),
                      accumulator_commitment |-> Anchor(world.registry[e], e),
                      siblings |-> init.siblings]
           /\ init.state_root.slot = Boundary(e)
<1>1. PICK listed \in Branches(e), state \in Branches(e), claimed \in Branches(e) :
         init = take_held(listed.registry, state, hash_tree_root(claimed)) /\ init # NoInitPoint
  BY DEF TakenAt
<1>2. /\ listed.registry = world.registry[e] /\ state.slot = Boundary(e)
      /\ claimed.slot = Boundary(e)
  BY BranchesAre
<1>3. EpochOf(state.slot) = e
  BY <1>2, EpochOfBoundary DEF Epochs
<1>4. init = [chain |-> "chain", epoch |-> e, state_root |-> hash_tree_root(claimed),
              num_validators |-> Cardinality(DOMAIN world.registry[e]),
              total_active_balance |-> TotalActive(world.registry[e], e),
              acc_root |-> AccTree(world.registry[e], e),
              accumulator_commitment |-> Anchor(world.registry[e], e),
              siblings |-> ValidatorsBranch(state)]
  BY <1>1, <1>2, <1>3 DEF take_held, walk, Anchor
<1> QED
  BY <1>2, <1>4 DEF hash_tree_root

\* One that opens names the accumulator of the epoch it claims, and of the
\* epoch its state root is of.
LEMMA OpenedIs ==
    ASSUME Fixed, NEW init \in Configured,
           open_held(init, chain[init.epoch].state.registry)
    PROVE  /\ init.epoch \in Epochs
           /\ init.acc_root = AccTree(world.registry[init.epoch], init.epoch)
           /\ init.total_active_balance = TotalActive(world.registry[init.epoch], init.epoch)
           /\ AnchoredAt(init.accumulator_commitment, init.state_root)
<1>0. 1 \in Epochs
  BY ChainIs DEF Epochs
<1> DEFINE Altered(taken) ==
              {[taken EXCEPT !.epoch = e] : e \in 1 .. LastEpoch}
              \cup {[taken EXCEPT !.chain = "other"],
                    [taken EXCEPT !.total_active_balance = @ + 1],
                    [taken EXCEPT !.total_active_balance = @ + 1,
                                  !.accumulator_commitment =
                                     commitment(taken.acc_root,
                                                taken.total_active_balance + 1)]}
<1>1. PICK taken \in TakenAt(1) : init \in Altered(taken)
  BY DEF Configured
<1> DEFINE first == world.registry[1]
<1>2. /\ taken = [chain |-> "chain", epoch |-> 1, state_root |-> taken.state_root,
                  num_validators |-> taken.num_validators,
                  total_active_balance |-> TotalActive(first, 1),
                  acc_root |-> AccTree(first, 1),
                  accumulator_commitment |-> Anchor(first, 1),
                  siblings |-> taken.siblings]
      /\ taken.state_root.slot = Boundary(1)
  BY <1>0, TakenIs
<1>3. /\ init.state_root = taken.state_root /\ init.acc_root = AccTree(first, 1)
      /\ init.epoch \in Epochs
      /\ init.epoch = 1 \/ init.total_active_balance = TotalActive(first, 1)
  <2> HIDE DEF first
  <2>1. /\ taken.acc_root = AccTree(first, 1) /\ taken.epoch = 1
        /\ taken.total_active_balance = TotalActive(first, 1)
        /\ DOMAIN taken = {"chain", "epoch", "state_root", "num_validators",
                           "total_active_balance", "acc_root", "accumulator_commitment",
                           "siblings"}
    BY <1>2
  <2>2. CASE \E e \in Epochs : init = [taken EXCEPT !.epoch = e]
    BY <2>1, <2>2
  <2>3. CASE init = [taken EXCEPT !.chain = "other"]
    BY <1>0, <2>1, <2>3
  <2>4. CASE init = [taken EXCEPT !.total_active_balance = @ + 1]
    BY <1>0, <2>1, <2>4
  <2>5. CASE init = [taken EXCEPT !.total_active_balance = @ + 1,
                                  !.accumulator_commitment =
                                     commitment(taken.acc_root,
                                                taken.total_active_balance + 1)]
    BY <1>0, <2>1, <2>5
  <2> QED
    BY <1>1, <2>2, <2>3, <2>4, <2>5 DEF Epochs
<1> HIDE DEF first, Altered
<1>4. chain[init.epoch].state.registry = world.registry[init.epoch]
  <2>1. chain[init.epoch].state = [slot |-> Boundary(init.epoch), fork |-> 0,
                                   registry |-> world.registry[init.epoch]]
    BY <1>3, ChainIs
  <2> QED
    BY <2>1
<1>5. /\ init.acc_root = AccTree(world.registry[init.epoch], init.epoch)
      /\ init.total_active_balance = TotalActive(world.registry[init.epoch], init.epoch)
      /\ commitment(init.acc_root, init.total_active_balance) = init.accumulator_commitment
  BY <1>4 DEF open_held, walk, BindsItself
<1>6. init.total_active_balance = TotalActive(first, 1)
  BY <1>3, <1>5 DEF first
<1>7. init.accumulator_commitment = Anchor(first, 1)
  BY <1>3, <1>5, <1>6 DEF Anchor
<1>8. EpochOf(init.state_root.slot) = 1
  BY <1>2, <1>3, EpochOfBoundary
<1> QED
  BY <1>3, <1>5, <1>7, <1>8 DEF AnchoredAt, first

LEMMA StartsAnchored ==
    ASSUME AnchorInv, NEW init, StartedOn(init), UNCHANGED <<world, chain, contract>>,
           init.epoch \in Epochs,
           init.acc_root = AccTree(world.registry[init.epoch], init.epoch),
           init.total_active_balance = TotalActive(world.registry[init.epoch], init.epoch),
           AnchoredAt(init.accumulator_commitment, init.state_root)
    PROVE  AnchorInv' /\ LedgerIs(epoch)'
<1>1. Fixed'
  BY DEF AnchorInv, Fixed, StartedOn, Epochs
<1>2. LedgerHeld' /\ LedgerIs(epoch)'
  <2>1. /\ DOMAIN ledger' = {"tree", "total", "state", "root", "last", "diff", "published"}
        /\ ledger'.state = chain[init.epoch].state /\ ledger'.tree = init.acc_root
        /\ ledger'.total = init.total_active_balance /\ epoch' = init.epoch
    BY DEF StartedOn
  <2>2. init.epoch \in 1 .. init.epoch
    BY ChainIs DEF AnchorInv, Epochs
  <2>3. LedgerIs(init.epoch)'
    <3>1. chain[init.epoch].state = [slot |-> Boundary(init.epoch), fork |-> 0,
                                     registry |-> world.registry[init.epoch]]
      BY ChainIs DEF AnchorInv
    <3> QED
      BY <2>1, <3>1 DEF LedgerIs
  <2> QED
    BY <2>1, <2>2, <2>3 DEF LedgerHeld
<1>3. RecordIsEarlier'
  BY DEF StartedOn, RecordIsEarlier, Advancing
<1>4. PublishedIsAnchored'
  <2> DEFINE p == Proof("bootstrap",
                        [accumulator_commitment |-> init.accumulator_commitment,
                         state_root |-> init.state_root])
  <2>1. ledger'.published = {p}
    BY DEF StartedOn
  <2>2. IsAnchored(p)
    BY DEF IsAnchored, Proof
  <2>3. IsAnchored(p)'
    BY <2>2, AnchoredStays
  <2> HIDE DEF p
  <2> QED
    BY <2>1, <2>3 DEF PublishedIsAnchored
<1>5. ContractIsAnchored'
  BY AnchoredStays DEF AnchorInv
<1> QED
  BY <1>1, <1>2, <1>3, <1>4, <1>5 DEF AnchorInv

LEMMA StartKeeps == AnchorInv /\ Start => AnchorInv' /\ (phase' = "open" => LedgerIs(epoch)')
<1> SUFFICES ASSUME AnchorInv, Start
             PROVE  AnchorInv' /\ (phase' = "open" => LedgerIs(epoch)')
  OBVIOUS
<1>0. Fixed /\ UNCHANGED <<world, chain, contract>>
  BY DEF AnchorInv, Start
<1>1. ASSUME NEW init \in Configured, open_held(init, chain[init.epoch].state.registry),
             StartedOn(init)
      PROVE  AnchorInv' /\ LedgerIs(epoch)'
  BY <1>0, <1>1, OpenedIs, StartsAnchored
<1>2. ASSUME NEW init \in TakenAt(world.serves), StartedOn(init)
      PROVE  AnchorInv' /\ LedgerIs(epoch)'
  <2> DEFINE e == world.serves
  <2>1. e \in Epochs
    BY <1>0, ChainIs
  <2>2. /\ init.epoch = e /\ init.acc_root = AccTree(world.registry[e], e)
        /\ init.total_active_balance = TotalActive(world.registry[e], e)
        /\ init.accumulator_commitment = Anchor(world.registry[e], e)
        /\ init.state_root.slot = Boundary(e)
    BY <1>0, <2>1, TakenIs
  <2>3. AnchoredAt(init.accumulator_commitment, init.state_root)
    BY <2>1, <2>2, EpochOfBoundary DEF AnchoredAt, Epochs
  <2> HIDE DEF e
  <2> QED
    BY <1>0, <1>2, <2>1, <2>2, <2>3, StartsAnchored
<1>3. ASSUME phase' = "refused", UNCHANGED <<ledger, epoch>> PROVE AnchorInv'
  <2>1. Fixed' /\ LedgerHeld' /\ RecordIsEarlier'
    BY <1>0, <1>3 DEF Fixed, LedgerHeld, RecordIsEarlier, Underway, Deciding, Advancing, Epochs
  <2>2. PublishedIsAnchored' /\ ContractIsAnchored'
    BY <1>0, <1>3, AnchoredStays DEF AnchorInv, PublishedIsAnchored
  <2> QED
    BY <2>1, <2>2 DEF AnchorInv
<1> QED
  BY <1>1, <1>2, <1>3 DEF Start

\* The accumulator the ledger moves to is the boundary's, whichever branch the
\* boundary is of, and so is what is published of it.
LEMMA DiffKeeps ==
    ASSUME AnchorInv, phase \in Advancing, NEW state \in Branches(epoch), NEW keep \in BOOLEAN,
           DiffTo(state, keep), UNCHANGED <<world, chain, epoch, contract>>,
           IF keep THEN phase' = "open" ELSE phase' = "reorged"
    PROVE  AnchorInv' /\ (keep => LedgerIs(epoch)')
<1> DEFINE b == build_held(ledger.tree, ledger.total, ledger.state, ledger.root, state)
           out == EpochDiffOutput(b.witness)
           proof == Proof("epoch_diff", out)
<1>1. Fixed /\ Fixed' /\ epoch \in Epochs /\ epoch # 1
  BY DEF AnchorInv, Fixed, RecordIsEarlier
<1>2. /\ DOMAIN ledger = {"tree", "total", "state", "root", "last", "diff", "published"}
      /\ \E e \in 1 .. epoch : LedgerIs(e)
  BY DEF AnchorInv, LedgerHeld, Underway
<1>3. PICK d \in 1 .. epoch : LedgerIs(d)
  BY <1>2
<1>4. d \in Epochs /\ d <= epoch /\ d \in Nat /\ epoch \in Nat
  <2>1. LastEpoch \in Nat
    BY <1>1, ChainIs
  <2> QED
    BY <1>1, <2>1 DEF Epochs
<1>5. state.slot = Boundary(epoch) /\ state.registry = world.registry[epoch]
  BY <1>1, BranchesAre
<1>6. EpochOf(state.slot) = epoch /\ EpochOf(ledger.state.slot) = d
  BY <1>3, <1>4, <1>5, EpochOfBoundary DEF LedgerIs
<1>7. /\ b.tree = AccTree(state.registry, epoch) /\ b.total = TotalActive(state.registry, epoch)
      /\ out.accumulator_commitment = Anchor(state.registry, epoch)
      /\ out.state_root_2 = hash_tree_root(state)
  <2>1. IsRegistry(ledger.state.registry) /\ IsRegistry(state.registry)
    BY <1>1, <1>3, <1>4, <1>5, ChainIs DEF LedgerIs
  <2>2. IsAfter(state, ledger.state)
    BY <1>1, <1>3, <1>4, <1>5, <2>1, ChainIs DEF LedgerIs, IsAfter
  <2>3. b = DiffOf(ledger.state, ledger.root, state)
    BY <1>3, <1>6 DEF LedgerIs, DiffOf
  <2>4. b.witness.mutations # <<>>
    BY DEF DiffTo
  <2> HIDE DEF b
  <2>5. /\ b.tree = AccTree(state.registry, EpochOf(state.slot))
        /\ b.total = TotalActive(state.registry, EpochOf(state.slot))
        /\ EpochDiffOutput(b.witness).accumulator_commitment
              = Anchor(state.registry, EpochOf(state.slot))
        /\ EpochDiffOutput(b.witness).state_root_2 = hash_tree_root(state)
    BY <2>2, <2>3, <2>4, DiffAnchors
  <2> QED
    BY <1>6, <2>5
<1>8. PICK moved : moved = proof
  OBVIOUS
<1>9. ledger' = [ledger EXCEPT !.tree = IF keep THEN b.tree ELSE @,
                               !.total = IF keep THEN b.total ELSE @,
                               !.state = IF keep THEN state ELSE @,
                               !.root = IF keep THEN hash_tree_root(state) ELSE @,
                               !.diff = IF keep THEN moved ELSE @,
                               !.published = @ \cup {moved}]
  BY <1>8 DEF DiffTo
<1>10. IsAnchored(moved)
  <2>1. AnchoredAt(out.accumulator_commitment, out.state_root_2)
    BY <1>5, <1>6, <1>7 DEF AnchoredAt, hash_tree_root
  <2> HIDE DEF out
  <2> QED
    BY <1>8, <2>1 DEF IsAnchored, Proof
<1> HIDE DEF b, out, proof
<1>11. /\ DOMAIN ledger' = DOMAIN ledger /\ ledger'.last = ledger.last
       /\ ledger'.published = ledger.published \cup {moved}
       /\ keep => ledger'.tree = b.tree /\ ledger'.total = b.total /\ ledger'.state = state
       /\ ~keep => /\ ledger'.tree = ledger.tree /\ ledger'.total = ledger.total
                   /\ ledger'.state = ledger.state
  BY <1>2, <1>9
<1>12. LedgerHeld' /\ (keep => LedgerIs(epoch)')
  <2>1. CASE keep
    <3>1. LedgerIs(epoch)'
      BY <1>5, <1>7, <1>11, <2>1 DEF LedgerIs
    <3>2. epoch \in 1 .. epoch
      BY <1>4
    <3> QED
      BY <1>2, <1>11, <3>1, <3>2 DEF LedgerHeld
  <2>2. CASE ~keep
    <3>1. LedgerIs(d)'
      BY <1>3, <1>11, <2>2 DEF LedgerIs
    <3> QED
      BY <1>2, <1>11, <2>2, <3>1 DEF LedgerHeld
  <2> QED
    BY <2>1, <2>2
<1>13. RecordIsEarlier'
  BY <1>1 DEF RecordIsEarlier
<1>14. PublishedIsAnchored'
  <2>1. \A p \in ledger.published : IsAnchored(p)'
    BY AnchoredStays DEF AnchorInv, PublishedIsAnchored
  <2>2. IsAnchored(moved)'
    BY <1>10, AnchoredStays
  <2> QED
    BY <1>11, <2>1, <2>2 DEF PublishedIsAnchored
<1>15. ContractIsAnchored'
  BY AnchoredStays DEF AnchorInv
<1> QED
  BY <1>1, <1>12, <1>13, <1>14, <1>15 DEF AnchorInv

LEMMA AdvanceKeeps ==
    AnchorInv /\ (Advance \/ AdvanceOrphaned) =>
        AnchorInv' /\ (phase' = "open" => LedgerIs(epoch)')
<1> SUFFICES ASSUME AnchorInv
             PROVE  Advance \/ AdvanceOrphaned =>
                       AnchorInv' /\ (phase' = "open" => LedgerIs(epoch)')
  OBVIOUS
<1>1. ASSUME Advance PROVE AnchorInv' /\ (phase' = "open" => LedgerIs(epoch)')
  <2>1. chain[epoch].state \in Branches(epoch) /\ TRUE \in BOOLEAN
    BY DEF Branches
  <2>2. /\ phase \in Advancing /\ DiffTo(chain[epoch].state, TRUE) /\ phase' = "open"
        /\ UNCHANGED <<world, chain, epoch, contract>>
    BY <1>1 DEF Advance, Advancing
  <2> QED
    BY <2>1, <2>2, DiffKeeps
<1>2. ASSUME AdvanceOrphaned
      PROVE  AnchorInv' /\ (phase' = "open" => LedgerIs(epoch)')
  <2>1. OrphanState(epoch) \in Branches(epoch)
    BY <1>2 DEF AdvanceOrphaned, Branches
  <2>2. PICK kept \in BOOLEAN : /\ DiffTo(OrphanState(epoch), kept)
                                /\ phase' = IF kept THEN "open" ELSE "reorged"
    BY <1>2 DEF AdvanceOrphaned
  <2>3. phase \in Advancing /\ UNCHANGED <<world, chain, epoch, contract>>
    BY <1>2 DEF AdvanceOrphaned, Advancing
  <2> QED
    BY <2>1, <2>2, <2>3, DiffKeeps
<1> QED
  BY <1>1, <1>2

-----------------------------------------------------------------------------
(* Steps that leave the chain and the contract alone.                      *)

\* The ledger keeps its accumulator; what it gains of a record is anchored.
LEMMA RecordKeeps ==
    ASSUME AnchorInv, UNCHANGED <<world, chain, epoch, contract>>,
           phase \in Underway, phase' \notin Deciding \cup Advancing,
           /\ DOMAIN ledger' = DOMAIN ledger
           /\ ledger'.tree = ledger.tree /\ ledger'.total = ledger.total
           /\ ledger'.state = ledger.state
           /\ \A p \in ledger'.published : p \in ledger.published \/ IsAnchored(p)
    PROVE  AnchorInv'
<1>1. Fixed'
  BY DEF AnchorInv, Fixed, Epochs
<1>2. LedgerHeld'
  BY DEF AnchorInv, LedgerHeld, LedgerIs
<1>3. RecordIsEarlier'
  BY DEF RecordIsEarlier
<1>4. PublishedIsAnchored'
  <2>1. \A p \in ledger'.published : IsAnchored(p)'
    BY AnchoredStays DEF AnchorInv, PublishedIsAnchored
  <2> QED
    BY <2>1 DEF PublishedIsAnchored
<1>5. ContractIsAnchored'
  BY AnchoredStays DEF AnchorInv
<1> QED
  BY <1>1, <1>2, <1>3, <1>4, <1>5 DEF AnchorInv

\* Nothing is held or published that was not.
LEMMA QuietKeeps ==
    ASSUME AnchorInv, UNCHANGED <<world, chain, epoch, ledger, contract>>,
           \/ phase' \notin Underway
           \/ phase \in Deciding /\ phase' \in Deciding \cup {"decided"}
           \/ UNCHANGED phase
    PROVE  AnchorInv'
<1>1. Fixed'
  BY DEF AnchorInv, Fixed, Epochs
<1>2. LedgerHeld'
  BY DEF AnchorInv, LedgerHeld, LedgerIs, Underway
<1>3. RecordIsEarlier'
  BY DEF AnchorInv, RecordIsEarlier, Underway, Deciding, Advancing
<1>4. PublishedIsAnchored'
  BY AnchoredStays DEF AnchorInv, PublishedIsAnchored
<1>5. ContractIsAnchored'
  BY AnchoredStays DEF AnchorInv
<1> QED
  BY <1>1, <1>2, <1>3, <1>4, <1>5 DEF AnchorInv

\* Only what was published is left.
LEMMA ClearKeeps ==
    ASSUME AnchorInv, UNCHANGED <<world, chain, epoch, contract>>, phase' \notin Underway,
           ledger'.published \in SUBSET ledger.published
    PROVE  AnchorInv'
<1>1. Fixed'
  BY DEF AnchorInv, Fixed, Epochs
<1>2. LedgerHeld' /\ RecordIsEarlier'
  BY DEF LedgerHeld, RecordIsEarlier, Underway
<1>3. PublishedIsAnchored'
  BY AnchoredStays DEF AnchorInv, PublishedIsAnchored
<1>4. ContractIsAnchored'
  BY AnchoredStays DEF AnchorInv
<1> QED
  BY <1>1, <1>2, <1>3, <1>4 DEF AnchorInv

\* A finality is of the epoch before, whose root and boundary the header records.
LEMMA CloseKeeps == AnchorInv /\ Close => AnchorInv'
<1> SUFFICES ASSUME AnchorInv, Close PROVE AnchorInv'
  OBVIOUS
<1>0. /\ phase = "close" /\ UNCHANGED <<world, chain, epoch, contract>>
      /\ phase \in Underway /\ phase \in Deciding
  BY DEF Close, Underway, Deciding
<1>1. PICK checked, record : try_finalize(checked, record)
  BY DEF Close
<1> DEFINE last == ledger.last
           header == chain[epoch].header
           joins == Joins(last, record.output)
           w == [justifications |-> <<last, record>>, epoch_diff |-> ledger.diff,
                 boundary |-> BoundaryAnchor(header)]
           recorded == [ledger EXCEPT !.last = record]
           proof == Proof("finalization", FinalizationOutput(w))
           builds == BoundaryBuilds(header, last.output.target, ledger.diff.output.state_root_1)
<1>2. DOMAIN ledger = {"tree", "total", "state", "root", "last", "diff", "published"}
  BY <1>0 DEF AnchorInv, LedgerHeld
<1>3. CASE ~joins
  <2>1. ledger' = recorded /\ phase' = "decided"
    BY <1>1, <1>3 DEF try_finalize
  <2>2. /\ DOMAIN ledger' = DOMAIN ledger
        /\ ledger'.tree = ledger.tree /\ ledger'.total = ledger.total
        /\ ledger'.state = ledger.state /\ ledger'.published = ledger.published
    BY <1>2, <2>1
  <2>3. phase' \notin Deciding \cup Advancing
    BY <2>1 DEF Deciding, Advancing
  <2> QED
    BY <1>0, <2>2, <2>3, RecordKeeps
<1>4. CASE joins /\ builds
  <2>1. phase' = "decided" /\ ledger' = [recorded EXCEPT !.published = @ \cup {proof}]
    BY <1>1, <1>4 DEF try_finalize
  <2>2. IsAnchored(proof)
    <3>1. epoch # 1
      BY <1>0, <1>4 DEF Joins, NoProof, AnchorInv, RecordIsEarlier
    <3>2. /\ epoch - 1 \in Epochs
          /\ header.recorded.block = chain[epoch - 1].root
          /\ header.recorded.state = hash_tree_root(chain[epoch - 1].state)
      BY <3>1, ChainIs DEF AnchorInv, Fixed
    <3>3. Finalizes(last.output.target.root, ledger.diff.output.state_root_1)
      BY <1>4, <3>2 DEF BoundaryBuilds, Finalizes
    <3>4. /\ FinalizationOutput(w).finalized = last.output.target
          /\ FinalizationOutput(w).finalized_state_root = ledger.diff.output.state_root_1
      BY DEF FinalizationOutput
    <3> HIDE DEF w
    <3> QED
      BY <3>3, <3>4 DEF IsAnchored, Proof
  <2> HIDE DEF proof
  <2>3. /\ DOMAIN ledger' = DOMAIN ledger
        /\ ledger'.tree = ledger.tree /\ ledger'.total = ledger.total
        /\ ledger'.state = ledger.state /\ ledger'.published = ledger.published \cup {proof}
    BY <1>2, <2>1
  <2>4. \A p \in ledger'.published : p \in ledger.published \/ IsAnchored(p)
    BY <2>2, <2>3
  <2>5. phase' \notin Deciding \cup Advancing
    BY <2>1 DEF Deciding, Advancing
  <2> QED
    BY <1>0, <2>3, <2>4, <2>5, RecordKeeps
<1>5. CASE joins /\ ~builds
  <2>1. phase' = "ended" /\ UNCHANGED ledger
    BY <1>1, <1>5 DEF try_finalize
  <2> QED
    BY <1>0, <2>1, QuietKeeps DEF Underway, Deciding, Advancing
<1> QED
  BY <1>3, <1>4, <1>5

\* The contract takes no streamed finality.
LEMMA FinalKeeps == AnchorInv /\ Final => AnchorInv'
<1> SUFFICES ASSUME AnchorInv, Final PROVE AnchorInv'
  OBVIOUS
<1>0. phase \in Underway /\ UNCHANGED <<world, chain, epoch, contract>>
  BY DEF Final, Underway, Deciding
<1>1. DOMAIN ledger = {"tree", "total", "state", "root", "last", "diff", "published"}
  BY <1>0 DEF AnchorInv, LedgerHeld
<1>2. \/ phase' = "ended" /\ UNCHANGED ledger
      \/ /\ phase' = "decided"
         /\ \E output : LET proof == Proof("stream_final", output)
                        IN ledger' = [ledger EXCEPT !.last = proof, !.published = @ \cup {proof}]
  BY DEF Final
<1>3. CASE phase' = "ended" /\ UNCHANGED ledger
  BY <1>0, <1>3, QuietKeeps DEF Underway, Deciding, Advancing
<1>4. ASSUME NEW output, phase' = "decided",
             ledger' = [ledger EXCEPT !.last = Proof("stream_final", output),
                                      !.published = @ \cup {Proof("stream_final", output)}]
      PROVE  AnchorInv'
  <2> DEFINE proof == Proof("stream_final", output)
  <2>1. \A p \in {proof} : IsAnchored(p)
    BY DEF IsAnchored, Proof
  <2> HIDE DEF proof
  <2>2. /\ DOMAIN ledger' = DOMAIN ledger
        /\ ledger'.tree = ledger.tree /\ ledger'.total = ledger.total
        /\ ledger'.state = ledger.state /\ ledger'.published = ledger.published \cup {proof}
    BY <1>1, <1>4 DEF proof
  <2>2a. \A p \in ledger'.published : p \in ledger.published \/ IsAnchored(p)
    BY <2>1, <2>2
  <2>3. phase' \notin Deciding \cup Advancing
    BY <1>4 DEF Deciding, Advancing
  <2> QED
    BY <1>0, <2>2, <2>2a, <2>3, RecordKeeps
<1> QED
  BY <1>2, <1>3, <1>4

LEMMA NextEpochKeeps == AnchorInv /\ NextEpoch => AnchorInv'
<1> SUFFICES ASSUME AnchorInv, NextEpoch PROVE AnchorInv'
  OBVIOUS
<1>1. /\ phase = "decided" /\ epoch < LastEpoch /\ epoch' = epoch + 1 /\ phase' = "advance"
      /\ UNCHANGED <<world, chain, ledger, contract>>
  BY DEF NextEpoch
<1>2. LastEpoch \in Nat /\ epoch \in 1 .. LastEpoch
  BY ChainIs DEF AnchorInv, Fixed, Epochs
<1>3. Fixed'
  BY <1>1, <1>2 DEF AnchorInv, Fixed, Epochs
<1>4. LedgerHeld'
  <2>1. /\ DOMAIN ledger = {"tree", "total", "state", "root", "last", "diff", "published"}
        /\ \E e \in 1 .. epoch : LedgerIs(e)
    BY <1>1 DEF AnchorInv, LedgerHeld, Underway
  <2>2. \A e \in 1 .. epoch : e \in 1 .. epoch'
    BY <1>1, <1>2
  <2>3. \A e : LedgerIs(e) => LedgerIs(e)'
    BY <1>1, AnchoredStays
  <2> QED
    BY <1>1, <2>1, <2>2, <2>3 DEF LedgerHeld
<1>5. RecordIsEarlier'
  BY <1>1, <1>2 DEF RecordIsEarlier, Deciding
<1>6. PublishedIsAnchored' /\ ContractIsAnchored'
  BY <1>1, AnchoredStays DEF AnchorInv, PublishedIsAnchored
<1> QED
  BY <1>3, <1>4, <1>5, <1>6 DEF AnchorInv

LEMMA PipelineKeeps ==
    AnchorInv /\ (\/ Open \/ Hear \/ Collect \/ PlanEpoch \/ ProveGroup \/ Fold
                  \/ Confirm \/ ReplaySlot \/ Bench \/ UNCHANGED vars) => AnchorInv'
<1> SUFFICES ASSUME AnchorInv, \/ Open \/ Hear \/ Collect \/ PlanEpoch \/ ProveGroup \/ Fold
                               \/ Confirm \/ ReplaySlot \/ Bench \/ UNCHANGED vars
             PROVE  AnchorInv'
  OBVIOUS
<1>1. UNCHANGED <<world, chain, epoch, ledger, contract>>
  BY DEF Open, Hear, Collect, PlanEpoch, ProveGroup, Fold, Confirm, ReplaySlot, Bench, vars
<1>2. \/ phase' \notin Underway
      \/ phase \in Deciding /\ phase' \in Deciding \cup {"decided"}
      \/ UNCHANGED phase
  <2>1. CASE Open \/ Bench \/ Confirm
    BY <2>1 DEF Open, Bench, Confirm, Underway, Deciding, Advancing
  <2>2. CASE Hear
    <3>1. phase = "hear" /\ \E slot, block, left : Scanned(slot, block, left)
      BY <2>2 DEF Hear
    <3> QED
      BY <3>1 DEF Scanned, Deciding
  <2>3. CASE Collect
    BY <2>3 DEF Collect, Deciding
  <2>4. CASE PlanEpoch
    BY <2>4 DEF PlanEpoch, Deciding
  <2>5. CASE ProveGroup \/ Fold \/ UNCHANGED vars
    BY <2>5 DEF ProveGroup, Fold, vars
  <2>6. CASE ReplaySlot
    BY <2>6 DEF ReplaySlot, Underway, Deciding, Advancing
  <2> QED
    BY <2>1, <2>2, <2>3, <2>4, <2>5, <2>6
<1> QED
  BY <1>1, <1>2, QuietKeeps

LEMMA SettleKeeps == AnchorInv /\ (Settle \/ FetchNode) => AnchorInv'
<1> SUFFICES ASSUME AnchorInv, Settle \/ FetchNode PROVE AnchorInv'
  OBVIOUS
<1>1. UNCHANGED <<world, chain, epoch, contract>> /\ phase' \notin Underway
  BY DEF Settle, FetchNode, Underway, Deciding, Advancing
<1>2. ledger'.published \in SUBSET ledger.published
  BY DEF Settle, FetchNode
<1> QED
  BY <1>1, <1>2, ClearKeeps

-----------------------------------------------------------------------------
(* What the contract takes.                                                *)

LEMMA SubmitKeeps ==
    AnchorInv /\ (Bootstrap \/ SubmitEpochDiff \/ SubmitFinality) => AnchorInv'
<1> SUFFICES ASSUME AnchorInv, Bootstrap \/ SubmitEpochDiff \/ SubmitFinality PROVE AnchorInv'
  OBVIOUS
<1>1. UNCHANGED <<world, chain, epoch, phase, ledger>>
  BY DEF Bootstrap, SubmitEpochDiff, SubmitFinality
<1>2. Fixed' /\ LedgerHeld' /\ RecordIsEarlier'
  BY <1>1 DEF AnchorInv, Fixed, LedgerHeld, LedgerIs, RecordIsEarlier, Epochs
<1>3. PublishedIsAnchored'
  BY <1>1, AnchoredStays DEF AnchorInv, PublishedIsAnchored
<1>4. \A p \in ledger.published : IsAnchored(p)
  BY DEF AnchorInv, PublishedIsAnchored
<1>5. ASSUME Bootstrap PROVE ContractIsAnchored'
  <2>1. PICK p \in ledger.published :
           /\ p.program = "bootstrap"
           /\ contract' = [initialized |-> TRUE,
                           accumulatorCommitment |-> p.output.accumulator_commitment,
                           latestStateRoot |-> p.output.state_root,
                           latestFinalizedBlockRoot |-> NoBlock,
                           latestFinalizedStateRoot |-> NoBlock]
    BY <1>5 DEF Bootstrap, Published
  <2>2. AnchoredAt(p.output.accumulator_commitment, p.output.state_root)
    BY <1>4, <2>1 DEF IsAnchored
  <2> QED
    BY <1>1, <2>1, <2>2 DEF ContractIsAnchored, AnchoredAt
<1>6. contract.initialized =>
        /\ DOMAIN contract = {"initialized", "accumulatorCommitment", "latestStateRoot",
                              "latestFinalizedBlockRoot", "latestFinalizedStateRoot"}
        /\ AnchoredAt(contract.accumulatorCommitment, contract.latestStateRoot)
        /\ \/ contract.latestFinalizedBlockRoot = NoBlock
           \/ Finalizes(contract.latestFinalizedBlockRoot, contract.latestFinalizedStateRoot)
  BY DEF AnchorInv, ContractIsAnchored
<1>7. ASSUME SubmitEpochDiff PROVE ContractIsAnchored'
  <2>1. PICK p \in ledger.published :
           p.program = "epoch_diff" /\ contract' = DiffTaken(contract, p.output)
    BY <1>7 DEF SubmitEpochDiff, Published
  <2>2. AnchoredAt(p.output.accumulator_commitment, p.output.state_root_2)
    BY <1>4, <2>1 DEF IsAnchored
  <2>3. contract.initialized
    BY <1>7 DEF SubmitEpochDiff
  <2>4. /\ DOMAIN contract' = DOMAIN contract
        /\ contract'.accumulatorCommitment = p.output.accumulator_commitment
        /\ contract'.latestStateRoot = p.output.state_root_2
        /\ contract'.latestFinalizedBlockRoot = contract.latestFinalizedBlockRoot
        /\ contract'.latestFinalizedStateRoot = contract.latestFinalizedStateRoot
    BY <1>6, <2>1, <2>3 DEF DiffTaken
  <2> QED
    BY <1>1, <1>6, <2>2, <2>3, <2>4 DEF ContractIsAnchored, AnchoredAt, Finalizes
<1>8. ASSUME SubmitFinality PROVE ContractIsAnchored'
  <2>1. PICK p \in ledger.published :
           /\ p.program = "finalization"
           /\ contract' = [contract EXCEPT
                             !.latestFinalizedBlockRoot = p.output.finalized.root,
                             !.latestFinalizedStateRoot = p.output.finalized_state_root]
    BY <1>8 DEF SubmitFinality, Published
  <2>2. Finalizes(p.output.finalized.root, p.output.finalized_state_root)
    BY <1>4, <2>1 DEF IsAnchored
  <2>3. contract.initialized
    BY <1>8 DEF SubmitFinality
  <2>4. /\ DOMAIN contract' = DOMAIN contract
        /\ contract'.accumulatorCommitment = contract.accumulatorCommitment
        /\ contract'.latestStateRoot = contract.latestStateRoot
        /\ contract'.latestFinalizedBlockRoot = p.output.finalized.root
        /\ contract'.latestFinalizedStateRoot = p.output.finalized_state_root
    BY <1>6, <2>1, <2>3
  <2> QED
    BY <1>1, <1>6, <2>2, <2>3, <2>4 DEF ContractIsAnchored, AnchoredAt, Finalizes
<1>9. ContractIsAnchored'
  BY <1>5, <1>7, <1>8
<1> QED
  BY <1>2, <1>3, <1>9 DEF AnchorInv

-----------------------------------------------------------------------------
LEMMA InitAnchors == Init => AnchorInv
<1> SUFFICES ASSUME Init PROVE AnchorInv
  OBVIOUS
<1>1. Fixed
  BY ProofPathAssumption DEF Init, Fixed, Epochs
<1>2. LedgerHeld /\ RecordIsEarlier
  BY DEF Init, LedgerHeld, RecordIsEarlier, Underway, Deciding, Advancing
<1>3. PublishedIsAnchored /\ ContractIsAnchored
  BY DEF Init, PublishedIsAnchored, ContractIsAnchored
<1> QED
  BY <1>1, <1>2, <1>3 DEF AnchorInv

(***************************************************************************)
(* The accumulator the daemon holds, from the init point it opened on and  *)
(* diff after diff, is the one of the boundary it last moved to, total and *)
(* all, and every proof the contract would take was published of the       *)
(* chain: a bootstrap and a diff name an accumulator with the state it is  *)
(* of (StoreState::started, witness_epoch_diff::build_held), a             *)
(* finalization a checkpoint and its boundary (orchestrator/batch.rs       *)
(* try_finalize, boundary::build).                                         *)
(***************************************************************************)
THEOREM AnchorInvariant == Spec => []AnchorInv
<1>1. AnchorInv /\ [Next]_vars => AnchorInv'
  <2> SUFFICES ASSUME AnchorInv, [Next]_vars PROVE AnchorInv'
    OBVIOUS
  <2>1. CASE Start
    BY <2>1, StartKeeps
  <2>2. CASE Advance \/ AdvanceOrphaned
    BY <2>2, AdvanceKeeps
  <2>3. CASE \/ Open \/ Hear \/ Collect \/ PlanEpoch \/ ProveGroup \/ Fold
             \/ Confirm \/ ReplaySlot \/ Bench \/ UNCHANGED vars
    BY <2>3, PipelineKeeps
  <2>4. CASE Close
    BY <2>4, CloseKeeps
  <2>5. CASE Final
    BY <2>5, FinalKeeps
  <2>6. CASE NextEpoch
    BY <2>6, NextEpochKeeps
  <2>7. CASE Settle \/ FetchNode
    BY <2>7, SettleKeeps
  <2>8. CASE Bootstrap \/ SubmitEpochDiff \/ SubmitFinality
    BY <2>8, SubmitKeeps
  <2> QED
    BY <2>1, <2>2, <2>3, <2>4, <2>5, <2>6, <2>7, <2>8 DEF Next
<1> QED
  BY InitAnchors, <1>1, PTL DEF Spec

(***************************************************************************)
(* OnChainAnchored: in whatever order and from whatever the published      *)
(* proofs are submitted (ZkasperVerifier.sol bootstrap, submitEpochDiff,   *)
(* submitFinality), the contract's accumulator is the chain's at its       *)
(* latest state's epoch, and a finalized block and state are an epoch's    *)
(* checkpoint and boundary.                                                *)
(***************************************************************************)
THEOREM AnchoredOnChain == Spec => []OnChainAnchored
<1>1. AnchorInv => OnChainAnchored
  BY DEF AnchorInv, ContractIsAnchored, OnChainAnchored, AnchoredAt, Anchor, Finalizes, Epochs
<1> QED
  BY AnchorInvariant, <1>1, PTL
=============================================================================
