---------------------------- MODULE Complements ----------------------------
(***************************************************************************)
(* From votes heard to a slot's proof: the collector that covers a slot    *)
(* with the signatures it heard (attestation_collector.rs), the committee  *)
(* proof its complement is taken from (committee.rs on both sides), and    *)
(* the guest that subtracts whoever did not sign (slot-proof-guest).       *)
(*                                                                         *)
(* Cryptography is what it stands for.  A digest is what was hashed, an    *)
(* accumulator root the leaf at each index, a point or a signature how     *)
(* often it holds each validator's, and a Miller accumulator what is left  *)
(* of keys less signatures for each message, nothing being one.            *)
(***************************************************************************)
EXTENDS Shuffle, Sorting

CONSTANT ValidatorCount

ASSUME ValidatorCountAssumption == ValidatorCount \in Nat \ {0}

Validators == Indices(ValidatorCount)

-----------------------------------------------------------------------------
(* Trees and points.                                                       *)

Zero == -1          \* acc::ZERO: the leaf of an index never registered
NoRoot == <<>>      \* what an opening of the wrong indices hashes to

commitment(acc_root, total) == [acc_root |-> acc_root, total |-> total]

build_multi_proof(tree, indices) == [tree |-> tree, indices |-> indices]

\* The root the opened leaves have among the auxiliaries of an opening.
batch_root(leaves, proof) ==
    IF DOMAIN leaves = proof.indices
    THEN [i \in DOMAIN proof.tree |->
            IF i \in DOMAIN leaves THEN leaves[i] ELSE proof.tree[i]]
    ELSE NoRoot

Identity == [v \in Validators |-> 0]
PointSum(vs) == [v \in Validators |-> IF v \in vs THEN 1 ELSE 0]
Plus(a, b) == [v \in Validators |-> a[v] + b[v]]
Minus(a, b) == [v \in Validators |-> a[v] - b[v]]

SumOf(values) == FoldFunctionOnSet(LAMBDA x, y : x + y, 0, values, DOMAIN values)

\* One message's term of the pairing, and the product of two accumulators.
Term(data, key, signature) ==
    {<<data, v, key[v] - signature[v]>> : v \in {x \in Validators : key[x] # signature[x]}}

One == {}

fp12_mul(a, b) ==
    LET at(m, d, v) == IF \E t \in m : t[1] = d /\ t[2] = v
                       THEN (CHOOSE t \in m : t[1] = d /\ t[2] = v)[3] ELSE 0
    IN {t \in {<<x[1], x[2], at(a, x[1], x[2]) + at(b, x[1], x[2])>> : x \in a \cup b} :
            t[3] # 0}

final_exp_is_one(miller) == miller = One

-----------------------------------------------------------------------------
(* Committees.                                                             *)

NoCommittee == [pubkey |-> Identity, balance |-> Zero]

\* The node's committees of an epoch: slices of the shuffled active list.
get_committees(active, seed) ==
    LET n == Len(active)
        per_slot == Min({Max({(n \div SlotCount) \div CommitteeSize, 1}), CommitteeLimit})
        count == per_slot * SlotCount
        slice(c) == (n * c) \div count .. ((n * (c + 1)) \div count) - 1
    IN [s \in Indices(SlotCount) |->
          [c \in Indices(per_slot) |->
             {active[shuffled_index(p, n, seed) + 1] : p \in slice((s * per_slot) + c)}]]

\* committee::root, of a validator's slot and balance each
CommitteeRoot(slots, balances) ==
    [s \in Indices(SlotCount) |->
        LET bucket == {v \in DOMAIN slots : slots[v] = s}
        IN IF bucket = {} THEN NoCommittee
           ELSE [pubkey |-> PointSum(bucket),
                 balance |-> SumOf([v \in bucket |-> balances[v]])]]

\* EpochCommittees: what the node reported, the witness and what it publishes.
build(table, tree, epoch, total) ==
    LET slots == [v \in UNION {UNION {table[s][c] : c \in DOMAIN table[s]} : s \in DOMAIN table} |->
                    CHOOSE s \in DOMAIN table : \E c \in DOMAIN table[s] : v \in table[s][c]]
        balances == [v \in DOMAIN slots |-> tree[v]]
        acc == commitment(tree, total)
        root == CommitteeRoot(slots, balances)
    IN [table |-> table, slots |-> slots, balances |-> balances, root |-> root,
        witness |-> [accumulator_commitment |-> acc, acc_root |-> tree, total |-> total,
                     target_epoch |-> epoch, slots |-> slots, balances |-> balances,
                     acc_multi_proof |-> build_multi_proof(tree, DOMAIN slots)],
        output |-> [accumulator_commitment |-> acc, target_epoch |-> epoch,
                    committee_root |-> root]]

MembersAt(committees, s) == {v \in DOMAIN committees.slots : committees.slots[v] = s}

\* committee::verify
CommitteeAccepts(w) ==
    /\ commitment(w.acc_root, w.total) = w.accumulator_commitment
    /\ batch_root(w.balances, w.acc_multi_proof) = w.acc_root

CommitteeOutput(w) ==
    [accumulator_commitment |-> w.accumulator_commitment, target_epoch |-> w.target_epoch,
     committee_root |-> CommitteeRoot(w.slots, w.balances)]

\* verify_fcr_committee, of the active list in index order
FcrCommitteeAccepts(w) ==
    /\ commitment(w.acc_root, w.total) = w.accumulator_commitment
    /\ w.active # <<>>
    /\ \A i \in 2 .. Len(w.active) : w.active[i - 1] < w.active[i]
    /\ \A v \in ToSet(w.active) : w.balances[v] > 0
    /\ SumOf(w.balances) = w.total
    /\ batch_root(w.balances, w.acc_multi_proof) = w.acc_root

FcrCommitteeOutput(w) ==
    [accumulator_commitment |-> w.accumulator_commitment, seed |-> w.seed,
     epoch |-> w.epoch, active_count |-> Len(w.active),
     committee_root |-> CommitteeRoot(committee_slots(w.active, w.seed), w.balances)]

-----------------------------------------------------------------------------
(* The collector.  A message is its slot, head, source and target; an      *)
(* attestation the message, the committees and validators its bits name,   *)
(* and whether it is a gossiped single.                                    *)

SlotStream(committees, source, target) ==
    [committees |-> committees, source |-> source, target |-> target,
     pending |-> <<>>,     \* the network's aggregates, as they arrived
     summed |-> <<>>,      \* the running sum of each <<message, committee>>
     closed |-> {}]

resolve_attesting_validators(att, committees) ==
    LET table == committees.table[att.data.slot % SlotCount]
    IN att.bits \cap UNION {table[c] : c \in att.committees \cap DOMAIN table}

Aggregate(data, signers, signature) ==
    [data |-> data, signers |-> signers, signature |-> signature]

sum_single(stream, att, attester) ==
    LET key == <<att.data, CHOOSE c \in att.committees : TRUE>>
        held == IF key \in DOMAIN stream.summed THEN stream.summed[key]
                ELSE Aggregate(att.data, {}, Identity)
        added == IF attester \in held.signers THEN held
                 ELSE Aggregate(att.data, held.signers \cup {attester},
                                Plus(held.signature, PointSum({attester})))
    IN [stream EXCEPT !.summed =
            [k \in DOMAIN @ \cup {key} |-> IF k = key THEN added ELSE @[k]]]

IngestOne(stream, att) ==
    LET signers == resolve_attesting_validators(att, stream.committees)
    IN IF \/ att.data.target # stream.target \/ att.data.source # stream.source
          \/ att.data.slot \in stream.closed
          \/ signers = {}
       THEN stream
       ELSE IF att.single
       THEN sum_single(stream, att, CHOOSE v \in signers : TRUE)
       ELSE [stream EXCEPT !.pending =
                Append(@, Aggregate(att.data, signers, PointSum(signers)))]

ingest(stream, attestations) == FoldLeft(IngestOne, stream, attestations)

open_slots(stream) ==
    {a.data.slot : a \in ToSet(stream.pending)} \cup {k[1].slot : k \in DOMAIN stream.summed}

\* The bucket's part that covered does not carry: its running total whole, or
\* the sum of what is left.
residual(bucket, covered) ==
    LET left == bucket.signers \ covered
    IN IF left = bucket.signers THEN bucket
       ELSE Aggregate(bucket.data, left, PointSum(left))

\* Mutant: the largest aggregates, overlapping or not.
PackOverlapping(stream, slot) ==
    {a \in ToSet(stream.pending) : a.data.slot = slot}

\* The aggregates chosen: largest first, in arrival order among equals, and
\* only where disjoint from those chosen over the same message.
Pack(stream, slot) ==
    LET theirs == SeqAt(stream.pending,
                        {i \in DOMAIN stream.pending : stream.pending[i].data.slot = slot})
        largestFirst == StableSort(theirs,
                                   [i \in DOMAIN theirs |-> -Cardinality(theirs[i].signers)])
    IN FoldLeft(LAMBDA chosen, a :
                  IF \E b \in chosen : b.data = a.data /\ b.signers \cap a.signers # {}
                  THEN chosen ELSE chosen \cup {a},
                {}, largestFirst)

Signers(aggregates) == UNION {a.signers : a \in aggregates}

merge(aggregates) ==
    [data |-> (CHOOSE a \in aggregates : TRUE).data,
     signature |-> FoldSet(LAMBDA a, sum : Plus(a.signature, sum), Identity, aggregates)]

\* Every aggregate counted: the chosen, and of each committee's singles over
\* each message what the chosen ones miss.
CoverOf(stream, slot) ==
    LET chosen == Pack(stream, slot)
        covered(d) == Signers({a \in chosen : a.data = d})
        buckets == {stream.summed[k] : k \in {x \in DOMAIN stream.summed : x[1].slot = slot}}
    IN chosen \cup {a \in {residual(b, covered(b.data)) : b \in buckets} : a.signers # {}}

MarginalBalance(committee, absentees) == committee.balance - SumOf(absentees)

\* What closing an open slot would produce: the message with the most signers
\* is derived, every other one's signers and the absentees are named.
peek(stream, slot) ==
    LET cover == CoverOf(stream, slot)
        votes(d) == Cardinality(Signers({a \in cover : a.data = d}))
        messages == {a.data : a \in cover}
        primary == CHOOSE d \in messages : \A e \in messages :
                      votes(e) < votes(d) \/ (votes(e) = votes(d) /\ e.head <= d.head)
        s == slot % SlotCount
        secondary == {a \in cover : a.data # primary}
        absentees == MembersAt(stream.committees, s) \ Signers(cover)
        opened(vs) == [v \in vs |-> stream.committees.balances[v]]
    IN [slot |-> slot, slot_in_epoch |-> s, committee |-> stream.committees.root[s],
        marginal_balance |-> MarginalBalance(stream.committees.root[s], opened(absentees)),
        named |-> Signers(secondary) \cup absentees,
        primary |-> merge({a \in cover : a.data = primary}),
        secondary |-> {[data |-> a.data, signature |-> a.signature,
                        attesting_validators |-> opened(a.signers)] : a \in secondary},
        absentees |-> opened(absentees)]

forget(stream, slot) ==
    [stream EXCEPT !.pending = SeqAt(@, {i \in DOMAIN @ : @[i].data.slot # slot}),
                   !.summed = Restrict(@, {k \in DOMAIN @ : k[1].slot # slot}),
                   !.closed = @ \cup {slot}]

\* collect_per_slot_for_checkpoint: two epochs of blocks, then every slot.
collect_per_slot_for_checkpoint(stream, blocks, epoch) ==
    LET heard == FoldLeft(ingest, stream, blocks)
        first == epoch * SlotCount
        slots == InOrder(open_slots(heard) \cap (first .. first + SlotCount - 1))
    IN [i \in DOMAIN slots |-> peek(heard, slots[i])]

-----------------------------------------------------------------------------
(* The guest.                                                              *)

\* Every (index, balance) a complement opens.
OpenedIn(complement) ==
    UNION {{<<v, m.attesting_validators[v]>> : v \in DOMAIN m.attesting_validators} :
              m \in complement.secondary}
    \cup {<<v, complement.absentees[v]>> : v \in DOMAIN complement.absentees}

Leaves(opened) == [v \in {o[1] : o \in opened} |-> (CHOOSE o \in opened : o[1] = v)[2]]

NamedTimes(complement) ==
    SumOf([m \in complement.secondary |-> Cardinality(DOMAIN m.attesting_validators)])
    + Cardinality(DOMAIN complement.absentees)

Messages(complement) == {complement.primary} \cup complement.secondary

\* The key the primary is paired against.
PrimaryKey(complement) ==
    Minus(FoldSet(LAMBDA m, key : Minus(key, PointSum(DOMAIN m.attesting_validators)),
                  complement.committee.pubkey, complement.secondary),
          PointSum(DOMAIN complement.absentees))

\* Mutant: the absentees' balance stays.
SupportWhole(complement) == complement.committee.balance

Support(complement) == complement.committee.balance - SumOf(complement.absentees)

\* One complement's accumulator.
SlotMiller(complement) ==
    FoldSet(LAMBDA m, product :
               fp12_mul(product, Term(m.data, PointSum(DOMAIN m.attesting_validators),
                                      m.signature)),
            Term(complement.primary.data, PrimaryKey(complement),
                 complement.primary.signature),
            complement.secondary)

\* verify_attestations, with the commitment that attest checks first
AttestAccepts(w) ==
    LET slots == w.slots
        opened == UNION {OpenedIn(slots[i]) : i \in DOMAIN slots}
        leaves == Leaves(opened)
        committees == [s \in {slots[i].slot_in_epoch : i \in DOMAIN slots} |->
                         (CHOOSE x \in ToSet(slots) : x.slot_in_epoch = s).committee]
    IN /\ commitment(w.acc_root, w.total) = w.accumulator_commitment
       /\ \A i \in 2 .. Len(slots) : slots[i - 1].slot_in_epoch < slots[i].slot_in_epoch
       /\ \A complement \in ToSet(slots) :
             /\ \A m \in Messages(complement) :
                   m.data.source = w.source /\ m.data.target = w.target
             /\ \A m \in complement.secondary : m.attesting_validators # <<>>
             /\ PrimaryKey(complement) # Identity
             /\ Support(complement) >= 0
       /\ FoldLeft(LAMBDA sum, c : sum + NamedTimes(c), 0, slots) = Cardinality(DOMAIN leaves)
       /\ IF opened = {} THEN w.acc_multi_proof.indices = {}
          ELSE batch_root(leaves, w.acc_multi_proof) = w.acc_root
       /\ batch_root(committees, w.committee_multi_proof) = w.committee_root

Attested(w) ==
    [balance |-> SumOf([i \in DOMAIN w.slots |-> Support(w.slots[i])]),
     mask |-> {c.slot_in_epoch : c \in ToSet(w.slots)},
     miller |-> FoldLeft(LAMBDA product, c : fp12_mul(product, SlotMiller(c)), One, w.slots)]
=============================================================================
