------------------------------- MODULE Sorting -------------------------------
(***************************************************************************)
(* The order the program walks a set of indices in (the keys of a BTreeMap, *)
(* or a slice that was sorted): lowest first.  It is what                  *)
(* SetToSortSeq(S, <) is, said with ranks.                                 *)
(***************************************************************************)
EXTENDS Integers, FiniteSets

Rank(S, x) == Cardinality({y \in S : y < x})

InOrder(S) ==
    [i \in 1 .. Cardinality(S) |-> CHOOSE x \in S : Rank(S, x) = i - 1]

\* The elements of a sequence at these of its positions.
SeqAt(seq, positions) == [k \in 1 .. Cardinality(positions) |-> seq[InOrder(positions)[k]]]

\* The positions a stable sort leaves a list of keys in, smallest key first.
KeyBefore(keys, j, i) == keys[j] < keys[i] \/ (keys[j] = keys[i] /\ j < i)

KeyRank(keys, i) == Cardinality({j \in DOMAIN keys : KeyBefore(keys, j, i)})

StableOrder(keys) ==
    [k \in DOMAIN keys |-> CHOOSE i \in DOMAIN keys : KeyRank(keys, i) = k - 1]

StableSort(seq, keys) == [k \in DOMAIN keys |-> seq[StableOrder(keys)[k]]]
=============================================================================
